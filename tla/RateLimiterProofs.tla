-------------------------- MODULE RateLimiterProofs --------------------------
(***************************************************************************)
(* Proofs about RateLimiter, for any bucket, clocks and requests.  The     *)
(* argument is about the credit of the key, tokens - last_refill * Refill: *)
(* the scripts never raise it, however their times are ordered, a request  *)
(* that is allowed lowers it by a token, and it is never below what the    *)
(* latest time makes of an empty bucket.  While the scripts run in the     *)
(* order of their times, the credit is no lower than what was taken since  *)
(* some time at which the bucket was full (SinceFull).                     *)
(***************************************************************************)
EXTENDS RateLimiter, TLAPS

\* The bucket is not below empty at the latest time that was stored.
CreditOK ==
  stored => /\ last_refill <= top
            /\ tokens - last_refill * Refill >= 0 - top * Refill

\* What was taken in a window has been taken from the credit that a full bucket
\* has when the window begins.
SpentOK ==
  /\ ~stored => \A w \in Windows : count[w] = 0
  /\ ~early => \A w \in Windows :
       count[w] > 0 =>
         count[w] * Token + tokens - last_refill * Refill <= Capacity - w[1] * Refill

\* A request that is still asking may send its script again.
TriesOK == \A r \in Requests : pc[r] \in {"new", "checking"} => tries[r] < MaxTries

IInv == TypeOK /\ TriesOK /\ CreditOK /\ SpentOK /\ RateBound

\* Arithmetic.
LEMMA Product ==
  /\ \A a \in Int : a * Refill \in Int /\ a * Token \in Int
  /\ \A a, b \in Int : a <= b => a * Refill <= b * Refill
  /\ \A a, b \in Int : (a - b) * Refill = a * Refill - b * Refill
  /\ \A a, b \in Int : (a + b) * Refill = a * Refill + b * Refill
  /\ \A a \in Int : (a + 1) * Token = a * Token + Token
  /\ Capacity \in Nat /\ Token \in Nat /\ Token > 0 /\ Token <= Capacity
  /\ Refill \in Nat /\ Refill > 0 /\ Capacity <= Expiry * Refill
<1> USE LimiterAssumption DEF Capacity
<1>1. \A a, b \in Int : a <= b => a * Refill <= b * Refill
  OBVIOUS
<1>2. Token <= Burst * Token
  OBVIOUS
<1> QED BY <1>1, <1>2

LEMMA WindowType ==
  ASSUME NEW w \in Windows
  PROVE  w[1] \in Int /\ w[2] \in Int /\ w[1] <= w[2] /\ w[1] \in Times /\ w[2] \in Times
BY LimiterAssumption DEF Windows, Times

LEMMA InitIInv == Init => IInv
<1> SUFFICES ASSUME Init PROVE IInv
  OBVIOUS
<1>1. TypeOK
  <2>1. /\ 0 \in Times /\ 0 \in 0 .. MaxTime + Expiry /\ 0 \in 0..MaxTries /\ 0 \in 0..MaxJumps
        /\ Burst \in Int
    BY LimiterAssumption DEF Times
  <2>2. 0 <= Capacity
    BY Product
  <2>3. /\ pc \in [Requests -> {"new", "checking", "allowed", "counting", "served", "refused",
                                "failed"}]
        /\ now \in [Requests -> Times] /\ tries \in [Requests -> 0..MaxTries]
    BY <2>1 DEF Init
  <2>4. count \in [Windows -> Nat]
    BY DEF Init
  <2>5. /\ tokens \in Int /\ tokens <= Capacity /\ remaining \in Int
        /\ expires \in 0 .. MaxTime + Expiry
    BY <2>1, <2>2 DEF Init
  <2> QED BY <2>1, <2>3, <2>4, <2>5 DEF Init, TypeOK
<1>2. TriesOK
  BY LimiterAssumption DEF Init, TriesOK
<1> USE LimiterAssumption, Product DEF Init
<1>3. CreditOK /\ SpentOK
  BY DEF CreditOK, SpentOK
<1>4. RateBound
  <2> SUFFICES ASSUME NEW w \in Windows
               PROVE  count[w] * Token <= Capacity + (w[2] - w[1]) * Refill
    BY DEF RateBound
  <2>1. count[w] = 0 /\ 0 * Token = 0
    OBVIOUS
  <2>2. 0 * Refill <= (w[2] - w[1]) * Refill /\ 0 * Refill = 0
    BY WindowType
  <2>3. (w[2] - w[1]) * Refill \in Int
    BY WindowType
  <2> QED BY <2>1, <2>2, <2>3
<1> QED BY <1>1, <1>2, <1>3, <1>4 DEF IInv

-----------------------------------------------------------------------------

\* What the scripts compute from the key at time t.
LEMMA NewTokensFacts ==
  ASSUME IInv, NEW t \in Times
  PROVE  /\ NewTokens(t) \in Int
         /\ NewTokens(t) <= Capacity
         /\ ~Present => NewTokens(t) = Capacity
         /\ Present => NewTokens(t) - t * Refill <= tokens - last_refill * Refill
         /\ NewTokens(t) < Capacity =>
              Present /\ NewTokens(t) - t * Refill >= 0 - top * Refill
<1> USE LimiterAssumption, Product
<1>1. /\ tokens \in Int /\ last_refill \in Int /\ top \in Int /\ t \in Int
      /\ Present => CreditOK /\ stored
  BY DEF IInv, TypeOK, Times, Present
<1> DEFINE x == tokens + (t - last_refill) * Refill
<1>2. x \in Int /\ x - t * Refill = tokens - last_refill * Refill
  <2>1. (t - last_refill) * Refill = t * Refill - last_refill * Refill
    BY <1>1
  <2>2. t * Refill \in Int /\ last_refill * Refill \in Int
    BY <1>1
  <2> QED BY <1>1, <2>1, <2>2
<1>3. NewTokens(t) = IF Present THEN IF Capacity <= x THEN Capacity ELSE x ELSE Capacity
  BY DEF NewTokens, Least
<1>4. t * Refill \in Int /\ top * Refill \in Int /\ last_refill * Refill \in Int
  BY <1>1
<1>5. Present => tokens - last_refill * Refill >= 0 - top * Refill
  BY <1>1 DEF CreditOK
<1> HIDE DEF x
<1> QED BY <1>1, <1>2, <1>3, <1>4, <1>5

\* A script that answers that the request is allowed.
LEMMA AllowedStep ==
  ASSUME IInv, NEW t \in Times, NewTokens(t) >= Token,
         StoreKey(t, NewTokens(t) - Token), Record(t, 1)
  PROVE  CreditOK' /\ SpentOK' /\ RateBound'
<1> USE LimiterAssumption, Product
<1> DEFINE n == NewTokens(t)
<1>1. /\ n \in Int /\ n <= Capacity /\ t \in Int /\ top \in Int /\ last_refill \in Int
      /\ tokens \in Int /\ t * Refill \in Int /\ top * Refill \in Int
      /\ last_refill * Refill \in Int
      /\ n >= Token /\ Token \in Int /\ Token > 0 /\ Capacity \in Int
      /\ Capacity <= Expiry * Refill /\ 0 - top * Refill \in Int
  BY NewTokensFacts DEF IInv, TypeOK, Times
<1>2. /\ stored' /\ tokens' = n - Token /\ last_refill' = t
      /\ top' = IF stored /\ top > t THEN top ELSE t
      /\ early' = (early \/ (stored /\ ~Present /\ t < top + Expiry))
      /\ count' = [w \in Windows |-> count[w] + IF w[1] <= t /\ t <= w[2] THEN 1 ELSE 0]
  BY DEF StoreKey, Record
<1>3. CreditOK'
  <2>1. top' \in Int /\ t <= top' /\ t * Refill <= top' * Refill /\ top' * Refill \in Int
    BY <1>1, <1>2
  <2> HIDE LimiterAssumption, Product DEF n
  <2> QED BY <1>1, <1>2, <2>1 DEF CreditOK
<1>4. ASSUME ~early', stored
      PROVE  n - t * Refill <= tokens - last_refill * Refill
  <2>1. CASE Present
    BY <2>1, NewTokensFacts
  <2>2. CASE ~Present
    <3>0. n = Capacity
      BY <2>2, NewTokensFacts
    <3>1. top + Expiry <= t
      <4>1. ~(t < top + Expiry)
        BY <1>2, <1>4, <2>2
      <4> QED BY <1>1, <4>1
    <3>2. (top + Expiry) * Refill <= t * Refill
      BY <1>1, <3>1
    <3>3. (top + Expiry) * Refill = top * Refill + Expiry * Refill
      BY <1>1
    <3>4. tokens - last_refill * Refill >= 0 - top * Refill
      BY <1>4 DEF IInv, CreditOK
    <3>5. Expiry * Refill \in Int
      OBVIOUS
    <3> HIDE LimiterAssumption, Product DEF n
    <3> QED BY <1>1, <3>0, <3>2, <3>3, <3>4, <3>5
  <2> QED BY <2>1, <2>2
<1>5. ASSUME ~early', NEW w \in Windows, count'[w] > 0
      PROVE  count'[w] * Token + tokens' - last_refill' * Refill <= Capacity - w[1] * Refill
  <2>1. /\ count[w] \in Nat /\ w[1] \in Int /\ w[2] \in Int /\ w[1] * Refill \in Int
        /\ count[w] * Token \in Int /\ ~early
    BY <1>2, <1>5, WindowType DEF IInv, TypeOK
  <2>2. CASE count[w] > 0
    <3>1. stored /\ count[w] * Token + tokens - last_refill * Refill <= Capacity - w[1] * Refill
      <4>1. SpentOK
        BY DEF IInv
      <4>2. stored
        <5>1. ~stored => count[w] = 0
          BY <4>1 DEF SpentOK
        <5> QED BY <2>2, <5>1
      <4> QED BY <2>1, <2>2, <4>1, <4>2 DEF SpentOK
    <3>2. count'[w] * Token <= count[w] * Token + Token /\ count'[w] * Token \in Int
      BY <1>2, <2>1
    <3>3. n - t * Refill <= tokens - last_refill * Refill
      BY <1>4, <1>5, <3>1
    <3> HIDE LimiterAssumption, Product DEF n
    <3> QED BY <1>1, <1>2, <2>1, <3>1, <3>2, <3>3
  <2>3. CASE count[w] = 0
    <3>1. count'[w] = 1 /\ w[1] <= t
      <4>1. count'[w] = count[w] + IF w[1] <= t /\ t <= w[2] THEN 1 ELSE 0
        BY <1>2
      <4>2. CASE w[1] <= t /\ t <= w[2]
        BY <2>3, <4>1, <4>2
      <4>3. CASE ~(w[1] <= t /\ t <= w[2])
        <5>1. count'[w] = 0
          BY <2>3, <4>1, <4>3
        <5> QED BY <1>5, <5>1
      <4> QED BY <4>2, <4>3
    <3>3. 1 * Token = Token
      OBVIOUS
    <3>2. w[1] * Refill <= t * Refill
      BY <1>1, <2>1, <3>1
    <3> HIDE LimiterAssumption, Product DEF n
    <3> QED BY <1>1, <1>2, <2>1, <3>1, <3>2, <3>3
  <2>4. count[w] > 0 \/ count[w] = 0
    <3>1. \A k \in Nat : k > 0 \/ k = 0
      OBVIOUS
    <3> QED BY <2>1, <3>1
  <2> QED BY <2>2, <2>3, <2>4
<1>6. SpentOK'
  BY <1>2, <1>5 DEF SpentOK
<1>7. RateBound'
  <2> SUFFICES ASSUME ~early', NEW w \in Windows
               PROVE  count'[w] * Token <= Capacity + (w[2] - w[1]) * Refill
    BY DEF RateBound
  <2>1. /\ count[w] \in Nat /\ w[1] \in Int /\ w[2] \in Int /\ w[1] * Refill \in Int
        /\ w[2] * Refill \in Int /\ ~early
        /\ (w[2] - w[1]) * Refill = w[2] * Refill - w[1] * Refill
    BY <1>2, WindowType DEF IInv, TypeOK
  <2>2. CASE w[1] <= t /\ t <= w[2]
    <3>1. count'[w] = count[w] + 1 /\ count'[w] > 0 /\ count'[w] * Token \in Int
      BY <1>2, <2>1, <2>2
    <3>2. t * Refill <= w[2] * Refill
      BY <1>1, <2>1, <2>2
    <3>3. count'[w] * Token + (n - Token) - t * Refill <= Capacity - w[1] * Refill
      BY <1>2, <1>5, <3>1
    <3> HIDE LimiterAssumption, Product DEF n
    <3> QED BY <1>1, <2>1, <3>1, <3>2, <3>3
  <2>3. CASE ~(w[1] <= t /\ t <= w[2])
    <3>1. count'[w] = count[w]
      BY <1>2, <2>1, <2>3
    <3> QED BY <2>1, <3>1 DEF IInv, RateBound
  <2> QED BY <2>2, <2>3
<1> QED BY <1>3, <1>6, <1>7

\* A script that refuses the request.
LEMMA RefusedStep ==
  ASSUME IInv, NEW t \in Times, NewTokens(t) < Token,
         StoreKey(t, NewTokens(t)), Record(t, 0)
  PROVE  CreditOK' /\ SpentOK' /\ RateBound'
<1> USE LimiterAssumption, Product
<1> DEFINE n == NewTokens(t)
<1>1. /\ n \in Int /\ t \in Int /\ top \in Int /\ last_refill \in Int
      /\ tokens \in Int /\ t * Refill \in Int /\ top * Refill \in Int
      /\ last_refill * Refill \in Int
      /\ Present /\ stored
      /\ n - t * Refill <= tokens - last_refill * Refill
      /\ n - t * Refill >= 0 - top * Refill
      /\ Capacity \in Int
  <2>1. n \in Int /\ n < Capacity
    BY NewTokensFacts
  <2> QED BY <2>1, NewTokensFacts DEF IInv, TypeOK, Times, Present
<1>2. /\ stored' /\ tokens' = n /\ last_refill' = t
      /\ top' = IF top > t THEN top ELSE t
      /\ early' = early
      /\ count' = [w \in Windows |-> count[w]]
  <2>1. \A w \in Windows : count[w] + 0 = count[w]
    BY DEF IInv, TypeOK
  <2> QED BY <1>1, <2>1 DEF StoreKey, Record, IInv, TypeOK
<1>3. CreditOK'
  <2>1. /\ top' \in Int /\ t <= top' /\ top <= top' /\ top' * Refill \in Int
        /\ top * Refill <= top' * Refill
    BY <1>1, <1>2
  <2> HIDE LimiterAssumption, Product DEF n
  <2> QED BY <1>1, <1>2, <2>1 DEF CreditOK
<1>4. SpentOK'
  <2> SUFFICES ASSUME ~early', NEW w \in Windows, count'[w] > 0
               PROVE  count'[w] * Token + tokens' - last_refill' * Refill
                        <= Capacity - w[1] * Refill
    BY <1>2 DEF SpentOK
  <2>1. /\ count'[w] = count[w] /\ count[w] * Token \in Int /\ w[1] * Refill \in Int
    BY <1>2, WindowType DEF IInv, TypeOK
  <2>2. count[w] * Token + tokens - last_refill * Refill <= Capacity - w[1] * Refill
    BY <1>2, <2>1 DEF IInv, SpentOK
  <2> HIDE LimiterAssumption, Product DEF n
  <2> QED BY <1>1, <1>2, <2>1, <2>2
<1>5. RateBound'
  BY <1>2 DEF IInv, RateBound
<1> QED BY <1>3, <1>4, <1>5

LEMMA ScriptStep ==
  ASSUME IInv, NEW r \in Requests, Script(r)
  PROVE  CreditOK' /\ SpentOK' /\ RateBound'
<1>1. now[r] \in Times
  BY DEF IInv, TypeOK
<1>2. NewTokens(now[r]) \in Int /\ Token \in Int
  BY <1>1, NewTokensFacts, LimiterAssumption
<1>3. CASE Allows(r)
  BY <1>1, <1>3, AllowedStep DEF Script, Allows
<1>4. CASE ~Allows(r)
  BY <1>1, <1>2, <1>4, RefusedStep DEF Script, Allows
<1> QED BY <1>3, <1>4

\* The types of what a script writes.
LEMMA ScriptTypes ==
  ASSUME IInv, NEW r \in Requests, Script(r)
  PROVE  /\ stored' \in BOOLEAN
         /\ tokens' \in Int /\ tokens' <= Capacity
         /\ last_refill' \in Times /\ expires' \in 0 .. MaxTime + Expiry
         /\ top' \in Times /\ count' \in [Windows -> Nat]
         /\ early' \in BOOLEAN /\ ordered' \in BOOLEAN
<1> USE LimiterAssumption, Product
<1>1. now[r] \in Times /\ NewTokens(now[r]) \in Int /\ NewTokens(now[r]) <= Capacity
  BY NewTokensFacts DEF IInv, TypeOK
<1>2. PICK n \in {NewTokens(now[r]), NewTokens(now[r]) - Token}, k \in {0, 1} :
        StoreKey(now[r], n) /\ Record(now[r], k)
  BY DEF Script
<1>3. tokens' \in Int /\ tokens' <= Capacity /\ stored' \in BOOLEAN /\ last_refill' \in Times
  BY <1>1, <1>2 DEF StoreKey
<1>4. expires' \in 0 .. MaxTime + Expiry
  BY <1>2 DEF StoreKey, IInv, TypeOK, Times
<1>5. top' \in Times
  BY <1>1, <1>2 DEF Record, IInv, TypeOK
<1>6. early' \in BOOLEAN
  BY <1>2 DEF Record
<1>7. ordered' \in BOOLEAN
  BY <1>2 DEF Record
<1>8. count' \in [Windows -> Nat]
  BY <1>2 DEF Record, IInv, TypeOK
<1> QED BY <1>3, <1>4, <1>5, <1>6, <1>7, <1>8

-----------------------------------------------------------------------------

LEMMA NextIInv == IInv /\ [Next]_vars => IInv'
<1> SUFFICES ASSUME IInv, [Next]_vars PROVE IInv'
  OBVIOUS
<1> USE LimiterAssumption
<1>0. 0 \in Times /\ Token \in Int \ {0}
  BY DEF Times
<1>1. ASSUME UNCHANGED <<key, history>>
      PROVE  CreditOK' /\ SpentOK' /\ RateBound'
  BY <1>1 DEF IInv, CreditOK, SpentOK, RateBound, key, history
<1>1a. ASSUME UNCHANGED <<pc, tries>>
       PROVE  TriesOK'
  BY <1>1a DEF IInv, TriesOK
<1>1b. ASSUME NEW r \in Requests, NEW to \in {"checking", "allowed", "counting", "served",
                "refused"}, Goto(r, to), to = "checking" => pc[r] = "new", UNCHANGED tries
       PROVE  TriesOK'
  BY <1>1b DEF Goto, IInv, TypeOK, TriesOK
<1>2. CASE Tick
  <2>1. TypeOK'
    BY <1>2 DEF Tick, IInv, TypeOK, key, history, Times
  <2> QED BY <1>1, <1>1a, <1>2, <2>1 DEF Tick, IInv
<1>3. CASE SetClock
  <2>1. TypeOK'
    BY <1>3 DEF SetClock, IInv, TypeOK, key, history
  <2> QED BY <1>1, <1>1a, <1>3, <2>1 DEF SetClock, IInv
<1>4. CASE Reset
  <2>1. TypeOK'
    BY <1>0, <1>4 DEF Reset, IInv, TypeOK
  <2>2. CreditOK' /\ SpentOK'
    BY <1>4 DEF Reset, CreditOK, SpentOK
  <2>3. RateBound'
    <3> SUFFICES ASSUME NEW w \in Windows
                 PROVE  count'[w] * Token <= Capacity + (w[2] - w[1]) * Refill
      BY DEF RateBound
    <3>1. count'[w] = 0 /\ 0 * Token = 0 /\ Capacity \in Nat
      BY <1>4, Product DEF Reset
    <3>2. 0 * Refill <= (w[2] - w[1]) * Refill /\ 0 * Refill = 0 /\ (w[2] - w[1]) * Refill \in Int
      BY WindowType, Product
    <3> QED BY <3>1, <3>2
  <2>4. TriesOK'
    BY <1>1a, <1>4 DEF Reset
  <2> QED BY <2>1, <2>2, <2>3, <2>4 DEF IInv
<1>5. ASSUME NEW r \in Requests, ReadClock(r)
      PROVE  IInv'
  <2>1. TypeOK'
    BY <1>5 DEF ReadClock, Goto, IInv, TypeOK, key, history
  <2>2. TriesOK'
    BY <1>1b, <1>5 DEF ReadClock
  <2> QED BY <1>1, <1>5, <2>1, <2>2 DEF ReadClock, IInv
<1>6. ASSUME NEW r \in Requests, Check(r)
      PROVE  IInv'
  <2>1. Script(r) /\ UNCHANGED <<time, clock, jumps, tries, remaining>>
    BY <1>6 DEF Check
  <2>2. pc' \in [Requests -> {"new", "checking", "allowed", "counting", "served", "refused",
                              "failed"}] /\ now' \in [Requests -> Times]
    BY <1>0, <1>6 DEF Check, Leave, Goto, IInv, TypeOK
  <2>3. TypeOK'
    BY <2>1, <2>2, ScriptTypes DEF IInv, TypeOK
  <2>4. TriesOK'
    BY <1>1b, <1>6 DEF Check, Leave
  <2> QED BY <2>1, <2>3, <2>4, ScriptStep DEF IInv
<1>7. ASSUME NEW r \in Requests, CheckLost(r)
      PROVE  IInv'
  <2>1. /\ UNCHANGED <<time, clock, jumps, remaining>>
        /\ Script(r) \/ UNCHANGED <<key, history>>
    BY <1>7 DEF CheckLost
  <2>2. pc' \in [Requests -> {"new", "checking", "allowed", "counting", "served", "refused",
                              "failed"}] /\ now' \in [Requests -> Times]
    BY <1>0, <1>7 DEF CheckLost, Leave, Goto, IInv, TypeOK
  <2>3. tries' \in [Requests -> 0..MaxTries] /\ TriesOK'
    <3>1. tries[r] < MaxTries /\ tries \in [Requests -> 0..MaxTries]
      BY <1>7 DEF CheckLost, IInv, TypeOK, TriesOK
    <3>2. tries[r] + 1 \in 0..MaxTries
      BY <3>1
    <3>3. tries' = [tries EXCEPT ![r] = tries[r] + 1]
      BY <1>7 DEF CheckLost
    <3>4. tries' \in [Requests -> 0..MaxTries]
      BY <3>1, <3>2, <3>3
    <3>5. CASE tries[r] + 1 < MaxTries
      BY <1>7, <3>1, <3>3, <3>5 DEF CheckLost, IInv, TriesOK
    <3>6. CASE ~(tries[r] + 1 < MaxTries)
      <4>1. pc' = [pc EXCEPT ![r] = "failed"]
        BY <1>7, <3>6 DEF CheckLost, Leave, Goto
      <4> QED BY <3>1, <3>3, <4>1 DEF IInv, TypeOK, TriesOK
    <3> QED BY <3>4, <3>5, <3>6
  <2>4. CASE Script(r)
    <3>1. TypeOK'
      BY <2>1, <2>2, <2>3, <2>4, ScriptTypes DEF IInv, TypeOK
    <3> QED BY <3>1, <2>3, <2>4, ScriptStep DEF IInv
  <2>5. CASE UNCHANGED <<key, history>>
    <3>1. TypeOK'
      BY <2>1, <2>2, <2>3, <2>5 DEF IInv, TypeOK, key, history
    <3> QED BY <1>1, <2>3, <2>5, <3>1 DEF IInv
  <2> QED BY <2>1, <2>4, <2>5
<1>8. ASSUME NEW r \in Requests, Count(r)
      PROVE  IInv'
  <2>1. remaining' \in Int
    <3>1. NewTokens(now[r]) \in Int
      BY NewTokensFacts DEF IInv, TypeOK
    <3> QED BY <1>0, <1>8, <3>1 DEF Count, IInv, TypeOK
  <2>2. TypeOK'
    BY <1>0, <1>8, <2>1 DEF Count, Leave, Goto, IInv, TypeOK, key, history
  <2>3. TriesOK'
    BY <1>1b, <1>8 DEF Count, Leave
  <2> QED BY <1>1, <1>8, <2>2, <2>3 DEF Count, IInv
<1>9. CASE UNCHANGED vars
  <2>1. TypeOK'
    BY <1>9 DEF vars, IInv, TypeOK, key, history
  <2> QED BY <1>1, <1>1a, <1>9, <2>1 DEF vars, IInv
<1> QED BY <1>2, <1>3, <1>4, <1>5, <1>6, <1>7, <1>8, <1>9 DEF Next

LEMMA Invariance == Spec => []IInv
<1> QED BY InitIInv, NextIInv, PTL DEF Spec

-----------------------------------------------------------------------------

\* While scripts run in the order of their times, what is missing from the bucket
\* has been taken since some time at which it was full.
SinceFull ==
  stored /\ ordered =>
    /\ last_refill = top
    /\ \E s \in 0..top : \A t \in top..MaxTime :
         tokens - last_refill * Refill >= Capacity - s * Refill - count[<<s, t>>] * Token

\* A script at time t that takes k tokens.
LEMMA SinceFullScript ==
  ASSUME IInv, SinceFull, NEW t \in Times, NEW k \in {0, 1},
         k = IF NewTokens(t) >= Token THEN 1 ELSE 0,
         StoreKey(t, NewTokens(t) - k * Token), Record(t, k)
  PROVE  SinceFull'
<1> DEFINE n == NewTokens(t)
<1>1. /\ n \in Int /\ t \in Int /\ top \in Int /\ last_refill \in Int /\ tokens \in Int
      /\ t * Refill \in Int /\ last_refill * Refill \in Int
      /\ Token \in Int /\ Capacity \in Int /\ Token <= Capacity /\ MaxTime \in Nat
      /\ t >= 0 /\ top >= 0
      /\ \A s \in Int : s * Refill \in Int /\ s * Token \in Int /\ (s + 1) * Token = s * Token + Token
  BY NewTokensFacts, Product, LimiterAssumption DEF IInv, TypeOK, Times
<1>2. /\ stored' /\ tokens' = n - k * Token /\ last_refill' = t
      /\ top' = IF stored /\ top > t THEN top ELSE t
      /\ count' = [w \in Windows |-> count[w] + IF w[1] <= t /\ t <= w[2] THEN k ELSE 0]
      /\ ordered' = (ordered /\ (stored => t >= top))
  BY DEF StoreKey, Record
<1>3. k * Token = IF n >= Token THEN Token ELSE 0
  BY <1>1
<1> HIDE DEF n
<1> SUFFICES ASSUME ordered'
             PROVE  \E s \in 0..t : \A u \in t..MaxTime :
                      n - k * Token - t * Refill >= Capacity - s * Refill - count'[<<s, u>>] * Token
  <2>1. ASSUME ordered' PROVE top' = t
    <3>1. stored => t >= top
      BY <1>2, <2>1
    <3> QED BY <1>1, <1>2, <3>1
  <2> QED BY <1>2, <2>1 DEF SinceFull
<1>4. ordered /\ (stored => t >= top)
  BY <1>2
<1>5. \A s, u \in Times : s <= t /\ t <= u =>
        /\ <<s, u>> \in Windows /\ count'[<<s, u>>] = count[<<s, u>>] + k
        /\ count[<<s, u>>] \in Nat
  BY <1>1, <1>2 DEF Windows, Times, IInv, TypeOK
<1>6. \A s \in 0..t, u \in t..MaxTime : s \in Times /\ u \in Times /\ s <= t /\ t <= u
  BY <1>1 DEF Times
<1>7. \A s \in 0..t, u \in t..MaxTime :
        /\ count[<<s, u>>] \in Nat
        /\ count'[<<s, u>>] * Token = count[<<s, u>>] * Token + k * Token
        /\ count[<<s, u>>] * Token \in Nat
  <2> SUFFICES ASSUME NEW s \in 0..t, NEW u \in t..MaxTime
               PROVE  /\ count[<<s, u>>] \in Nat
                      /\ count'[<<s, u>>] * Token = count[<<s, u>>] * Token + k * Token
                      /\ count[<<s, u>>] * Token \in Nat
    OBVIOUS
  <2> DEFINE c == count[<<s, u>>]
  <2>1. c \in Nat /\ count'[<<s, u>>] = c + k
    BY <1>5, <1>6
  <2> HIDE DEF c
  <2>2. (c + k) * Token = c * Token + k * Token /\ c * Token \in Nat
    BY <1>1, <2>1, LimiterAssumption
  <2> QED BY <2>1, <2>2 DEF c
<1>8. CASE n = Capacity
  <2>1. n >= Token
    BY <1>1, <1>8
  <2>2. k = 1 /\ k * Token = Token
    BY <1>1, <1>3, <2>1 DEF n
  <2>3. t \in 0..t
    BY <1>1
  <2>4. ASSUME NEW u \in t..MaxTime
        PROVE  n - k * Token - t * Refill >= Capacity - t * Refill - count'[<<t, u>>] * Token
    <3> DEFINE x == count'[<<t, u>>] * Token
               y == count[<<t, u>>] * Token
    <3>1. x = y + k * Token /\ y \in Nat
      BY <1>7, <2>3
    <3> HIDE DEF x, y
    <3>2. n - k * Token - t * Refill >= Capacity - t * Refill - x
      BY <1>1, <1>8, <2>2, <3>1
    <3> QED BY <3>2 DEF x
  <2> QED BY <2>3, <2>4
<1>9. CASE n # Capacity
  <2>1. Present /\ stored
    BY <1>9, NewTokensFacts DEF n, Present
  <2>2. n - t * Refill = tokens - last_refill * Refill
    <3>1. n = tokens + (t - last_refill) * Refill
      BY <1>9, <2>1 DEF n, NewTokens, Least
    <3>2. (t - last_refill) * Refill = t * Refill - last_refill * Refill
      BY <1>1, Product
    <3> QED BY <1>1, <3>1, <3>2
  <2>3. PICK s \in 0..top : \A u \in top..MaxTime :
          tokens - last_refill * Refill >= Capacity - s * Refill - count[<<s, u>>] * Token
    BY <1>4, <2>1 DEF SinceFull
  <2>4. s \in 0..t /\ t >= top
    BY <1>1, <1>4, <2>1
  <2>5. ASSUME NEW u \in t..MaxTime
        PROVE  n - k * Token - t * Refill >= Capacity - s * Refill - count'[<<s, u>>] * Token
    <3> DEFINE x == count'[<<s, u>>] * Token
               y == count[<<s, u>>] * Token
    <3>1. x = y + k * Token /\ y \in Nat
      BY <1>7, <2>4
    <3>2. u \in top..MaxTime
      BY <1>1, <2>4
    <3>3. tokens - last_refill * Refill >= Capacity - s * Refill - y
      BY <2>3, <3>2
    <3> HIDE DEF x, y
    <3>4. s * Refill \in Int /\ k * Token \in Int
      BY <1>1, <1>3, <2>4
    <3>5. n - k * Token - t * Refill >= Capacity - s * Refill - x
      BY <1>1, <2>2, <3>1, <3>3, <3>4
    <3> QED BY <3>5 DEF x
  <2> QED BY <2>4, <2>5
<1> QED BY <1>8, <1>9

\* Every step keeps that.
LEMMA NextSinceFull ==
  ASSUME IInv, SinceFull, [Next]_vars
  PROVE  SinceFull'
<1>1. ASSUME NEW r \in Requests, Script(r) PROVE SinceFull'
  <2>1. now[r] \in Times
    BY DEF IInv, TypeOK
  <2>2. NewTokens(now[r]) \in Int /\ Token \in Int /\ 1 * Token = Token /\ 0 * Token = 0
    BY <2>1, NewTokensFacts, LimiterAssumption
  <2>3. CASE Allows(r)
    <3>1. StoreKey(now[r], NewTokens(now[r]) - 1 * Token) /\ Record(now[r], 1)
      BY <1>1, <2>2, <2>3 DEF Script
    <3> QED BY <2>1, <2>3, <3>1, SinceFullScript DEF Allows
  <2>4. CASE ~Allows(r)
    <3>1. StoreKey(now[r], NewTokens(now[r]) - 0 * Token) /\ Record(now[r], 0)
      BY <1>1, <2>2, <2>4 DEF Script
    <3> QED BY <2>1, <2>4, <3>1, SinceFullScript DEF Allows
  <2> QED BY <2>3, <2>4
<1>2. CASE UNCHANGED <<key, history>>
  BY <1>2 DEF SinceFull, key, history
<1>3. CASE Reset
  BY <1>3 DEF Reset, SinceFull
<1>4. \/ \E r \in Requests : Script(r)
      \/ UNCHANGED <<key, history>>
      \/ Reset
  BY DEF Next, vars, Tick, SetClock, ReadClock, Check, CheckLost, Count
<1> QED BY <1>1, <1>2, <1>3, <1>4

LEMMA SpecSinceFull == Spec => []SinceFull
<1>1. Init => SinceFull
  BY DEF Init, SinceFull
<1>2. IInv /\ SinceFull /\ [Next]_vars => SinceFull'
  BY NextSinceFull
<1> QED BY <1>1, <1>2, Invariance, PTL DEF Spec

\* A refusal is the step of a script that found less than a token.
LEMMA Refusal ==
  ASSUME IInv, Next, NEW r \in Requests, pc[r] = "checking", pc'[r] = "refused"
  PROVE  Check(r) /\ ~Allows(r)
<1>1. pc \in [Requests -> {"new", "checking", "allowed", "counting", "served", "refused",
                           "failed"}]
  BY DEF IInv, TypeOK
<1>2. ASSUME NEW q \in Requests, ReadClock(q) \/ CheckLost(q) \/ Count(q)
      PROVE  pc'[r] # "refused"
  BY <1>1, <1>2 DEF ReadClock, CheckLost, Count, Leave, Goto
<1>3. PICK q \in Requests : Check(q)
  BY <1>2 DEF Next, Tick, SetClock, Reset
<1>4. q = r
  BY <1>1, <1>3 DEF Check, Leave, Goto
<1> QED BY <1>1, <1>3, <1>4 DEF Check, Leave, Goto

-----------------------------------------------------------------------------

\* Type correctness; in particular a bucket never holds more than its capacity.
THEOREM TypeCorrect == Spec => []TypeOK
<1>1. IInv => TypeOK
  BY DEF IInv
<1> QED BY <1>1, Invariance, PTL

\* The rate is kept in every window of time.
THEOREM RateKept == Spec => []RateBound
<1>1. IInv => RateBound
  BY DEF IInv
<1> QED BY <1>1, Invariance, PTL

\* A user who lets the time of a token pass is served, whatever has happened.
THEOREM PatienceIsServed == Spec => PatientUserServed
<1> DEFINE Patient ==
      \A r \in Requests : pc[r] = "checking" /\ pc'[r] = "refused" =>
        stored /\ now[r] * Refill < top * Refill + Token
<1>1. IInv /\ [Next]_vars => [Patient]_vars
  <2> SUFFICES ASSUME IInv, Next, NEW r \in Requests, pc[r] = "checking", pc'[r] = "refused"
               PROVE  stored /\ now[r] * Refill < top * Refill + Token
    BY DEF Patient
  <2>1. Check(r) /\ ~Allows(r)
    BY Refusal
  <2>2. now[r] \in Times /\ now[r] \in Int /\ top \in Int
    BY LimiterAssumption DEF IInv, TypeOK, Times
  <2> DEFINE n == NewTokens(now[r])
  <2>3. n \in Int /\ n < Token /\ Token \in Int /\ Token <= Capacity /\ Capacity \in Int
    BY <2>1, <2>2, NewTokensFacts, Product DEF Allows
  <2>4. Present /\ n - now[r] * Refill >= 0 - top * Refill
    <3> HIDE DEF n
    <3>1. n < Capacity
      BY <2>3
    <3> QED BY <2>2, <3>1, NewTokensFacts DEF n
  <2>5. now[r] * Refill \in Int /\ top * Refill \in Int
    BY <2>2, Product
  <2> HIDE DEF n
  <2> QED BY <2>3, <2>4, <2>5 DEF Present
<1> QED BY <1>1, Invariance, PTL DEF Spec, PatientUserServed

\* A request that is refused in the order of the times would have exceeded the
\* rate of some window.
THEOREM OnlyExcessIsRefused == Spec => OnlyExcessRefused
<1> DEFINE OnlyExcess ==
      \A r \in Requests : ordered' /\ pc[r] = "checking" /\ pc'[r] = "refused" =>
        \E s \in 0..now[r] :
          (count[<<s, now[r]>>] + 1) * Token > Capacity + (now[r] - s) * Refill
<1>1. IInv /\ SinceFull /\ [Next]_vars => [OnlyExcess]_vars
  <2> SUFFICES ASSUME IInv, SinceFull, Next, NEW r \in Requests,
                      ordered', pc[r] = "checking", pc'[r] = "refused"
               PROVE  \E s \in 0..now[r] :
                        (count[<<s, now[r]>>] + 1) * Token > Capacity + (now[r] - s) * Refill
    BY DEF OnlyExcess
  <2>1. Script(r) /\ ~Allows(r)
    BY Refusal DEF Check
  <2> DEFINE t == now[r]
             n == NewTokens(t)
  <2>2. /\ t \in Times /\ t \in Int /\ t >= 0 /\ t <= MaxTime /\ MaxTime \in Int
        /\ top \in Int /\ top >= 0 /\ top <= MaxTime
        /\ tokens \in Int /\ last_refill \in Int
        /\ t * Refill \in Int /\ last_refill * Refill \in Int
    BY LimiterAssumption, Product DEF IInv, TypeOK, Times
  <2>3. n \in Int /\ n < Token /\ Token \in Int /\ Token <= Capacity /\ Capacity \in Int
    BY <2>1, <2>2, NewTokensFacts, Product DEF Allows
  <2>4. n < Capacity
    <3> HIDE DEF n
    <3> QED BY <2>3
  <2>5. Present /\ stored /\ n = tokens + (t - last_refill) * Refill
    <3>1. n < Capacity => Present
      BY <2>2, NewTokensFacts
    <3>2. Present /\ stored
      BY <2>4, <3>1 DEF Present
    <3> DEFINE x == tokens + (t - last_refill) * Refill
    <3>3. n = IF Capacity <= x THEN Capacity ELSE x
      BY <3>2 DEF NewTokens, Least
    <3> HIDE DEF n, x
    <3>4. n = x
      BY <2>3, <2>4, <3>3
    <3> QED BY <3>2, <3>4 DEF x
  <2>6. ordered /\ t >= top
    <3>1. ordered' = (ordered /\ (stored => now[r] >= top))
      BY <2>1 DEF Script, Record
    <3> QED BY <2>5, <3>1
  <2>7. (t - last_refill) * Refill = t * Refill - last_refill * Refill
    BY <2>2, Product
  <2> HIDE DEF n, t
  <2>8. PICK s \in 0..top : \A u \in top..MaxTime :
          tokens - last_refill * Refill >= Capacity - s * Refill - count[<<s, u>>] * Token
    BY <2>5, <2>6 DEF SinceFull
  <2>9. tokens - last_refill * Refill >= Capacity - s * Refill - count[<<s, t>>] * Token
    <3>1. t \in top..MaxTime
      BY <2>2, <2>6
    <3> QED BY <2>8, <3>1
  <2>10. s \in 0..t /\ s \in Int /\ s * Refill \in Int /\ (t - s) * Refill = t * Refill - s * Refill
    BY <2>2, <2>6, Product
  <2>11. count[<<s, t>>] \in Nat
    <3>1. <<s, t>> \in Windows
      BY <2>2, <2>10 DEF Windows, Times
    <3> QED BY <3>1 DEF IInv, TypeOK
  <2>12. /\ (count[<<s, t>>] + 1) * Token = count[<<s, t>>] * Token + Token
         /\ count[<<s, t>>] * Token \in Int
    BY <2>11, Product
  <2>13. (count[<<s, t>>] + 1) * Token > Capacity + (t - s) * Refill
    BY <2>2, <2>3, <2>5, <2>7, <2>9, <2>10, <2>12
  <2> QED BY <2>10, <2>13 DEF t
<1> QED BY <1>1, Invariance, SpecSinceFull, PTL DEF Spec, OnlyExcessRefused

\* Arithmetic.
LEMMA Quotient ==
  ASSUME NEW n \in Int
  PROVE  /\ n \div Token \in Int
         /\ n <= Capacity => n \div Token <= Burst
         /\ n >= 0 => n \div Token >= 0
<1> USE LimiterAssumption DEF Capacity
<1> DEFINE q == n \div Token
<1>1. q \in Int /\ q * Token <= n /\ n < (q + 1) * Token
  OBVIOUS
<1> HIDE DEF q
<1>2. ASSUME n <= Capacity PROVE q <= Burst
  <2>1. \A a, b \in Int : a * Token <= b * Token => a <= b
    OBVIOUS
  <2>2. q * Token <= Burst * Token
    BY <1>1, <1>2
  <2> QED BY <1>1, <2>1, <2>2
<1>3. ASSUME n >= 0 PROVE q >= 0
  <2>1. \A a \in Int : a * Token > 0 => a > 0
    OBVIOUS
  <2>2. (q + 1) * Token > 0
    BY <1>1, <1>3
  <2> QED BY <1>1, <2>1, <2>2
<1> QED BY <1>1, <1>2, <1>3 DEF q

\* The header stays within the bucket.
THEOREM HeaderKept == Spec => HeaderWithinBucket
<1> DEFINE Within ==
      \A r \in Requests :
        pc[r] = "counting" /\ pc'[r] = "served" /\ remaining' # remaining =>
          /\ remaining' <= Burst
          /\ remaining' < 0 => stored /\ now[r] < top
<1>1. IInv /\ [Next]_vars => [Within]_vars
  <2> SUFFICES ASSUME IInv, Next, NEW r \in Requests,
                      pc[r] = "counting", pc'[r] = "served", remaining' # remaining
               PROVE  /\ remaining' <= Burst
                      /\ remaining' < 0 => stored /\ now[r] < top
    BY DEF Within
  <2>1. pc \in [Requests -> {"new", "checking", "allowed", "counting", "served", "refused",
                             "failed"}]
    BY DEF IInv, TypeOK
  <2>2. PICK q \in Requests : Count(q)
    BY DEF Next, Tick, SetClock, Reset, ReadClock, Check, CheckLost
  <2>3. q = r
    BY <2>1, <2>2 DEF Count, Leave, Goto
  <2> DEFINE t == now[r]
             n == NewTokens(t)
  <2>4. remaining' = n \div Token
    BY <2>2, <2>3 DEF Count
  <2>5. t \in Times /\ t \in Int /\ top \in Int /\ t * Refill \in Int /\ top * Refill \in Int
    BY LimiterAssumption, Product DEF IInv, TypeOK, Times
  <2>6. /\ n \in Int /\ n <= Capacity
        /\ n < Capacity => Present /\ n - t * Refill >= 0 - top * Refill
    BY <2>5, NewTokensFacts
  <2> HIDE DEF n, t
  <2>7. remaining' <= Burst
    BY <2>4, <2>6, Quotient
  <2>8. ASSUME remaining' < 0 PROVE stored /\ t < top
    <3>1. n < 0 /\ Capacity \in Nat
      <4>1. remaining' \in Int /\ (n >= 0 => remaining' >= 0)
        BY <2>4, <2>6, Quotient
      <4> QED BY <2>6, <2>8, <4>1, Product
    <3>2. Present /\ n - t * Refill >= 0 - top * Refill
      BY <2>6, <3>1
    <3>3. t * Refill < top * Refill
      BY <2>5, <2>6, <3>1, <3>2
    <3>4. top <= t => top * Refill <= t * Refill
      BY <2>5, Product
    <3> QED BY <2>5, <3>2, <3>3, <3>4 DEF Present
  <2> QED BY <2>7, <2>8 DEF t
<1> QED BY <1>1, Invariance, PTL DEF Spec, HeaderWithinBucket

=============================================================================
