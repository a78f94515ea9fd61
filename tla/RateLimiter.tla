----------------------------- MODULE RateLimiter -----------------------------
(***************************************************************************)
(* The rate limiter (internal/rate): the token bucket of one user in       *)
(* Redis, and the middleware that asks it before every request.  Users     *)
(* have separate keys.                                                     *)
(*                                                                         *)
(* A request reads the server's wall clock first and Redis runs its script *)
(* later, so scripts run in another order than their times say; the wall   *)
(* clock may be set; the client library sends a script again whose answer  *)
(* is lost; and the key expires by the clock of Redis.                     *)
(***************************************************************************)
EXTENDS Integers

CONSTANTS
  Requests,  \* the requests of the user
  Burst,     \* l.capacity, in tokens
  Token,     \* the units of a token, such that ...
  Refill,    \* ... refill_per_sec is so many units in a tick of the clock
  Expiry,    \* the ticks after which Redis drops a key that is not used
  MaxTries,  \* how often the client library sends a script
  MaxTime,   \* bound on the clocks
  MaxJumps   \* bound on how often the server's clock is set

\* NewLimiter(redisClient, 60, time.Minute) refills a bucket in the 60 seconds
\* for which the scripts let it live.
ASSUME LimiterAssumption ==
  /\ Burst \in Nat \ {0} /\ Token \in Nat \ {0} /\ Refill \in Nat \ {0}
  /\ Expiry \in Nat /\ MaxTries \in Nat \ {0} /\ MaxTime \in Nat /\ MaxJumps \in Nat
  /\ Expiry * Refill >= Burst * Token

Capacity == Burst * Token

Times == 0..MaxTime

\* The windows of time over which requests are counted.
Windows == {w \in Times \X Times : w[1] <= w[2]}

VARIABLES
  time,       \* the clock of Redis
  clock,      \* the wall clock of the server
  jumps,      \* how often that has been set
  pc,         \* pc[r]: where the middleware is with request r
  now,        \* now[r]: the time it has read for the script, until that has run
  tries,      \* tries[r]: how often the script was sent
  stored,     \* whether the key has been written since it was last deleted
  tokens,     \* the fields of the key
  last_refill,
  expires,    \* when Redis drops it
  remaining,  \* the last header X-RateLimit-Remaining that was sent
  \* Variables that only record history, since the key was last deleted:
  top,        \* the latest time that a script has stored
  count,      \* count[w]: the tokens taken with times in the window w
  early,      \* whether a key expired before its last user's time said so
  ordered     \* whether the scripts have run in the order of their times

key == <<stored, tokens, last_refill, expires>>
history == <<top, count, early, ordered>>
vars == <<time, clock, jumps, pc, now, tries, key, remaining, history>>

Init ==
  /\ time = 0 /\ clock = 0 /\ jumps = 0
  /\ pc = [r \in Requests |-> "new"]
  /\ now = [r \in Requests |-> 0]
  /\ tries = [r \in Requests |-> 0]
  /\ stored = FALSE /\ tokens = 0 /\ last_refill = 0 /\ expires = 0
  /\ remaining = Burst
  /\ top = 0 /\ count = [w \in Windows |-> 0] /\ early = FALSE /\ ordered = TRUE

Goto(r, to) == pc' = [pc EXCEPT ![r] = to]

\* The request goes on, and what it has read is forgotten.
Leave(r, to) == Goto(r, to) /\ now' = [now EXCEPT ![r] = 0]

Least(a, b) == IF a <= b THEN a ELSE b

-----------------------------------------------------------------------------
(***************************************************************************)
(* The clocks                                                              *)
(***************************************************************************)

Tick ==
  /\ time < MaxTime /\ clock < MaxTime
  /\ time' = time + 1
  /\ clock' = clock + 1
  /\ UNCHANGED <<jumps, pc, now, tries, key, remaining, history>>

SetClock ==
  /\ jumps < MaxJumps
  /\ clock' \in Times
  /\ jumps' = jumps + 1
  /\ UNCHANGED <<time, pc, now, tries, key, remaining, history>>

-----------------------------------------------------------------------------
(***************************************************************************)
(* The scripts                                                             *)
(***************************************************************************)

\* Whether Redis still has the key.
Present == stored /\ time < expires

\* Mutant of NewTokens: the bucket is not limited.
NewTokensUnlimited(t) == IF Present THEN tokens + (t - last_refill) * Refill ELSE Capacity

\* new_tokens at time t: a missing key is a full bucket; a time before the last
\* one takes tokens away.
NewTokens(t) ==
  IF Present THEN Least(Capacity, tokens + (t - last_refill) * Refill) ELSE Capacity

\* Mutant of StoreKey: last_refill is set only with a new key.
StoreKeyFirstTime(t, n) ==
  /\ stored' = TRUE
  /\ tokens' = n
  /\ last_refill' = IF Present THEN last_refill ELSE t
  /\ expires' = time + Expiry

\* HMSET and EXPIRE.
StoreKey(t, n) ==
  /\ stored' = TRUE
  /\ tokens' = n
  /\ last_refill' = t
  /\ expires' = time + Expiry

\* What the history of the key records of a script at time t that takes the
\* tokens `taken`.
Record(t, taken) ==
  /\ top' = IF stored /\ top > t THEN top ELSE t
  /\ count' = [w \in Windows |-> count[w] + IF w[1] <= t /\ t <= w[2] THEN taken ELSE 0]
  /\ early' = (early \/ (stored /\ ~Present /\ t < top + Expiry))
  /\ ordered' = (ordered /\ (stored => t >= top))

\* Mutant of Allows: a last whole token is not enough.
AllowsAboveOne(r) == NewTokens(now[r]) > Token

\* Allow's script for r, which answers whether the request is allowed.
Allows(r) == NewTokens(now[r]) >= Token

\* Mutant of Script: a refused request pays, too.
ScriptAlwaysPays(r) ==
  /\ StoreKey(now[r], NewTokens(now[r]) - Token)
  /\ Record(now[r], IF Allows(r) THEN 1 ELSE 0)

Script(r) ==
  IF Allows(r)
  THEN StoreKey(now[r], NewTokens(now[r]) - Token) /\ Record(now[r], 1)
  ELSE StoreKey(now[r], NewTokens(now[r])) /\ Record(now[r], 0)

-----------------------------------------------------------------------------
(***************************************************************************)
(* The middleware                                                          *)
(***************************************************************************)

\* Allow and GetRemainingTokens read the clock before they call Redis.
ReadClock(r) ==
  /\ \/ pc[r] = "new" /\ Goto(r, "checking")
     \/ pc[r] = "allowed" /\ Goto(r, "counting")
  /\ now' = [now EXCEPT ![r] = clock]
  /\ UNCHANGED <<time, clock, jumps, tries, key, remaining, history>>

Check(r) ==
  /\ pc[r] = "checking"
  /\ Script(r)
  /\ Leave(r, IF Allows(r) THEN "allowed" ELSE "refused")
  /\ UNCHANGED <<time, clock, jumps, tries, remaining>>

\* The script, or its answer, does not arrive: the client library sends it
\* again with the same arguments, and in the end Allow returns the error, with
\* which the request fails.
CheckLost(r) ==
  /\ pc[r] = "checking"
  /\ Script(r) \/ UNCHANGED <<key, history>>
  /\ tries' = [tries EXCEPT ![r] = @ + 1]
  /\ IF tries[r] + 1 < MaxTries THEN UNCHANGED <<pc, now>> ELSE Leave(r, "failed")
  /\ UNCHANGED <<time, clock, jumps, remaining>>

\* Mutant of Count: what the fields say, whether they have expired or not.
CountStored(r) ==
  /\ pc[r] = "counting"
  /\ remaining' = (tokens + (now[r] - last_refill) * Refill) \div Token
  /\ Leave(r, "served")
  /\ UNCHANGED <<time, clock, jumps, tries, key, history>>

\* GetRemainingTokens; the header is left out when it fails.
Count(r) ==
  /\ pc[r] = "counting"
  /\ remaining' \in {remaining, NewTokens(now[r]) \div Token}
  /\ Leave(r, "served")
  /\ UNCHANGED <<time, clock, jumps, tries, key, history>>

\* Reset deletes the key.
Reset ==
  /\ stored
  /\ stored' = FALSE
  /\ top' = 0 /\ count' = [w \in Windows |-> 0] /\ early' = FALSE /\ ordered' = TRUE
  /\ UNCHANGED <<time, clock, jumps, pc, now, tries, tokens, last_refill, expires, remaining>>

Next ==
  \/ Tick \/ SetClock \/ Reset
  \/ \E r \in Requests : ReadClock(r) \/ Check(r) \/ CheckLost(r) \/ Count(r)

Spec == Init /\ [][Next]_vars

-----------------------------------------------------------------------------
(***************************************************************************)
(* Properties                                                              *)
(***************************************************************************)

\* Type invariant.
TypeOK ==
  /\ time \in Times /\ clock \in Times /\ jumps \in 0..MaxJumps
  /\ pc \in [Requests -> {"new", "checking", "allowed", "counting", "served", "refused",
                          "failed"}]
  /\ now \in [Requests -> Times]
  /\ tries \in [Requests -> 0..MaxTries]
  /\ stored \in BOOLEAN
  /\ tokens \in Int /\ tokens <= Capacity
  /\ last_refill \in Times /\ expires \in 0 .. MaxTime + Expiry
  /\ remaining \in Int
  /\ top \in Times /\ count \in [Windows -> Nat]
  /\ early \in BOOLEAN /\ ordered \in BOOLEAN

\* In no window of time are more tokens taken than a full bucket and what comes
\* in during the window, in whatever order the scripts run, however the clock
\* is set and whatever is sent again (limiter.go:44-59); that a key expires
\* makes no difference unless it expires before the times of the requests say
\* so.
RateBound ==
  ~early => \A w \in Windows : count[w] * Token <= Capacity + (w[2] - w[1]) * Refill

\* A user who lets the time of a token pass after the latest time that has been
\* stored is served, although times that go back take tokens away
\* (limiter.go:44-53).
PatientUserServed ==
  [][\A r \in Requests :
       pc[r] = "checking" /\ pc'[r] = "refused" =>
         stored /\ now[r] * Refill < top * Refill + Token]_vars

\* While the scripts run in the order of their times, a request is refused only
\* if it would exceed the rate of some window (limiter.go:48).
OnlyExcessRefused ==
  [][\A r \in Requests :
       ordered' /\ pc[r] = "checking" /\ pc'[r] = "refused" =>
         \E s \in 0..now[r] :
           (count[<<s, now[r]>>] + 1) * Token > Capacity + (now[r] - s) * Refill]_vars

\* The header never promises more than a full bucket, and less than nothing
\* only if its time is behind one that has been stored (middleware.go:56-60).
HeaderWithinBucket ==
  [][\A r \in Requests :
       pc[r] = "counting" /\ pc'[r] = "served" /\ remaining' # remaining =>
         /\ remaining' <= Burst
         /\ remaining' < 0 => stored /\ now[r] < top]_vars

=============================================================================
