----------------------------- MODULE ServerProofs -----------------------------
(***************************************************************************)
(* Proofs about Server, for any number of connections, requests and        *)
(* trades.  The argument is about how deep the operations nest: each       *)
(* transaction around statements adds one connection, and no operation     *)
(* asks for a connection with more than two in its hands.                  *)
(***************************************************************************)
EXTENDS Server, SequenceTheorems, FiniteSetTheorems, TLAPS

-----------------------------------------------------------------------------
(***************************************************************************)
(* Nesting                                                                 *)
(***************************************************************************)

\* d counts the connections before each step of s and at the end, and s takes
\* none while it has more than n.
Counts(s, n, d) ==
  /\ s \in Seq({"take", "give"})
  /\ d \in [1 .. Len(s) + 1 -> Nat]
  /\ d[1] = 0 /\ d[Len(s) + 1] = 0
  /\ \A k \in 1..Len(s) :
       /\ s[k] = "take" => d[k] <= n /\ d[k + 1] = d[k] + 1
       /\ s[k] = "give" => d[k] = d[k + 1] + 1

Nests(s, n) == \E d : Counts(s, n, d)

LEMMA NestsQuery == Nests(Query, 0) /\ Nests(<<>>, 0)
<1>1. Query \in Seq({"take", "give"}) /\ Len(Query) = 2 /\ Query[1] = "take" /\ Query[2] = "give"
  BY DEF Query
<1> DEFINE d == [k \in 1..3 |-> IF k = 2 THEN 1 ELSE 0]
<1>2. d[1] = 0 /\ d[2] = 1 /\ d[3] = 0 /\ d \in [1..3 -> Nat]
  OBVIOUS
<1> HIDE DEF d
<1>3. Counts(Query, 0, d)
  <2>1. \A k \in 1..2 : k = 1 \/ k = 2
    OBVIOUS
  <2> QED BY <1>1, <1>2, <2>1 DEF Counts
<1> DEFINE e == [k \in 1..1 |-> 0]
<1>4. e[1] = 0 /\ e \in [1..1 -> Nat]
  OBVIOUS
<1> HIDE DEF e
<1>5. Counts(<<>>, 0, e)
  <2>1. <<>> \in Seq({"take", "give"}) /\ Len(<<>>) = 0 /\ 1..0 = {}
    BY EmptySeq
  <2> QED BY <1>4, <2>1 DEF Counts
<1> QED BY <1>3, <1>5 DEF Nests

LEMMA NestsMore ==
  ASSUME NEW s, NEW n \in Nat, NEW m \in Nat, n <= m, Nests(s, n)
  PROVE  Nests(s, m)
<1>1. PICK d : Counts(s, n, d)
  BY DEF Nests
<1>2. \A k \in 1..Len(s) : d[k] \in Nat
  BY <1>1, LenProperties DEF Counts
<1>3. Counts(s, m, d)
  BY <1>1, <1>2 DEF Counts
<1> QED BY <1>3 DEF Nests

LEMMA NestsConcat ==
  ASSUME NEW s, NEW t, NEW n \in Nat, Nests(s, n), Nests(t, n)
  PROVE  Nests(s \o t, n)
<1>1. PICK d : Counts(s, n, d)
  BY DEF Nests
<1>2. PICK e : Counts(t, n, e)
  BY DEF Nests
<1> DEFINE a == Len(s)
           b == Len(t)
           u == s \o t
           f == [k \in 1 .. a + b + 1 |-> IF k <= a THEN d[k] ELSE e[k - a]]
<1>3. a \in Nat /\ b \in Nat
  BY <1>1, <1>2, LenProperties DEF Counts
<1>4. /\ u \in Seq({"take", "give"}) /\ Len(u) = a + b
      /\ \A k \in 1 .. a + b : u[k] = IF k <= a THEN s[k] ELSE t[k - a]
  BY <1>1, <1>2, ConcatProperties DEF Counts
<1>5. /\ d \in [1 .. a + 1 -> Nat] /\ d[1] = 0 /\ d[a + 1] = 0
      /\ e \in [1 .. b + 1 -> Nat] /\ e[1] = 0 /\ e[b + 1] = 0
  BY <1>1, <1>2 DEF Counts
<1> HIDE DEF a, b, u
<1>6. f \in [1 .. a + b + 1 -> Nat]
  <2>1. ASSUME NEW k \in 1 .. a + b + 1
        PROVE  (IF k <= a THEN d[k] ELSE e[k - a]) \in Nat
    <3>1. CASE k <= a
      <4>1. k \in 1 .. a + 1
        BY <1>3, <3>1
      <4> QED BY <1>5, <3>1, <4>1
    <3>2. CASE ~(k <= a)
      <4>1. k - a \in 1 .. b + 1
        BY <1>3, <3>2
      <4> QED BY <1>5, <3>2, <4>1
    <3> QED BY <3>1, <3>2
  <2> QED BY <2>1
<1>7. /\ \A k \in 1 .. a + 1 : f[k] = d[k]
      /\ \A k \in a + 1 .. a + b + 1 : f[k] = e[k - a]
  <2>1. ASSUME NEW k \in 1 .. a + 1
        PROVE  f[k] = d[k]
    <3>1. k \in 1 .. a + b + 1
      BY <1>3
    <3>2. CASE k <= a
      BY <3>1, <3>2
    <3>3. CASE ~(k <= a)
      <4>1. k = a + 1 /\ k - a = 1
        BY <1>3, <3>3
      <4> QED BY <1>5, <3>1, <3>3, <4>1
    <3> QED BY <3>2, <3>3
  <2>2. ASSUME NEW k \in a + 1 .. a + b + 1
        PROVE  f[k] = e[k - a]
    <3>1. k \in 1 .. a + b + 1 /\ ~(k <= a)
      BY <1>3
    <3> QED BY <3>1
  <2> QED BY <2>1, <2>2
<1> HIDE DEF f
<1>8. ASSUME NEW k \in 1 .. a + b
      PROVE  /\ u[k] = "take" => f[k] <= n /\ f[k + 1] = f[k] + 1
             /\ u[k] = "give" => f[k] = f[k + 1] + 1
  <2>1. CASE k <= a
    <3>1. k \in 1..a /\ k \in 1 .. a + 1 /\ k + 1 \in 1 .. a + 1
      BY <1>3, <2>1
    <3>2. u[k] = s[k] /\ f[k] = d[k] /\ f[k + 1] = d[k + 1]
      BY <1>4, <1>7, <2>1, <3>1
    <3> QED BY <1>1, <3>1, <3>2 DEF Counts, a
  <2>2. CASE ~(k <= a)
    <3>1. /\ k - a \in 1..b /\ k \in a + 1 .. a + b + 1 /\ k + 1 \in a + 1 .. a + b + 1
          /\ k + 1 - a = k - a + 1
      BY <1>3, <2>2
    <3>2. u[k] = t[k - a] /\ f[k] = e[k - a] /\ f[k + 1] = e[k - a + 1]
      <4>1. PICK m \in a + 1 .. a + b + 1 : m = k + 1 /\ m - a = k - a + 1
        BY <1>3, <3>1
      <4>2. f[m] = e[k - a + 1]
        BY <1>7, <4>1
      <4> QED BY <1>4, <1>7, <2>2, <3>1, <4>1, <4>2
    <3> QED BY <1>2, <3>1, <3>2 DEF Counts, b
  <2> QED BY <2>1, <2>2
<1>9. f[1] = 0 /\ f[a + b + 1] = 0
  <2>1. 1 \in 1 .. a + 1
    BY <1>3
  <2>2. PICK m \in a + 1 .. a + b + 1 : m = a + b + 1 /\ m - a = b + 1
    BY <1>3
  <2>3. f[m] = e[b + 1]
    BY <1>7, <2>2
  <2> QED BY <1>5, <1>7, <2>1, <2>2, <2>3
<1>10. Counts(u, n, f)
  BY <1>4, <1>6, <1>8, <1>9 DEF Counts
<1> QED BY <1>10 DEF Nests, u

\* A transaction takes one connection more than the statements in it.
LEMMA NestsTx ==
  ASSUME NEW s, NEW n \in Nat, Nests(s, n)
  PROVE  Nests(Tx(s), n + 1) /\ Len(Tx(s)) \in Nat \ {0}
<1>1. PICK d : Counts(s, n, d)
  BY DEF Nests
<1> DEFINE a == Len(s)
           u == Tx(s)
           f == [k \in 1 .. a + 3 |-> IF k = 1 \/ k = a + 3 THEN 0 ELSE d[k - 1] + 1]
<1>2. s \in Seq({"take", "give"}) /\ a \in Nat
  BY <1>1, LenProperties DEF Counts
<1>3. d \in [1 .. a + 1 -> Nat] /\ d[1] = 0 /\ d[a + 1] = 0
  BY <1>1 DEF Counts
<1>4. /\ u \in Seq({"take", "give"}) /\ Len(u) = a + 2
      /\ u[1] = "take" /\ u[a + 2] = "give"
      /\ \A k \in 2 .. a + 1 : u[k] = s[k - 1]
  <2> DEFINE v == <<"take">> \o s
  <2>1. /\ <<"take">> \in Seq({"take", "give"}) /\ <<"give">> \in Seq({"take", "give"})
        /\ Len(<<"take">>) = 1 /\ Len(<<"give">>) = 1
        /\ <<"take">>[1] = "take" /\ <<"give">>[1] = "give"
    OBVIOUS
  <2>2. /\ v \in Seq({"take", "give"}) /\ Len(v) = 1 + a
        /\ \A k \in 1 .. 1 + a : v[k] = IF k <= 1 THEN <<"take">>[k] ELSE s[k - 1]
    BY <1>2, <2>1, ConcatProperties
  <2>3. u = v \o <<"give">>
    BY DEF Tx
  <2> HIDE DEF v, u, a
  <2>4. /\ u \in Seq({"take", "give"}) /\ Len(u) = 1 + a + 1
        /\ \A k \in 1 .. 1 + a + 1 : u[k] = IF k <= 1 + a THEN v[k] ELSE <<"give">>[k - (1 + a)]
    BY <2>1, <2>2, <2>3, ConcatProperties
  <2>5. u[1] = "take"
    <3>1. 1 \in 1 .. 1 + a /\ 1 \in 1 .. 1 + a + 1 /\ 1 <= 1 + a
      BY <1>2
    <3> QED BY <2>1, <2>2, <2>4, <3>1
  <2>6. u[a + 2] = "give"
    <3>1. PICK m \in 1 .. 1 + a + 1 : m = a + 2 /\ ~(m <= 1 + a) /\ m - (1 + a) = 1
      BY <1>2
    <3>2. u[m] = <<"give">>[1]
      BY <2>4, <3>1
    <3> QED BY <2>1, <3>1, <3>2
  <2>7. \A k \in 2 .. a + 1 : u[k] = s[k - 1]
    <3> TAKE k \in 2 .. a + 1
    <3>1. k \in 1 .. 1 + a /\ k \in 1 .. 1 + a + 1 /\ k <= 1 + a /\ ~(k <= 1)
      BY <1>2
    <3> QED BY <2>2, <2>4, <3>1
  <2>8. 1 + a + 1 = a + 2
    BY <1>2
  <2> QED BY <2>4, <2>5, <2>6, <2>7, <2>8
<1> HIDE DEF a, u
<1>5. /\ f[1] = 0 /\ f[a + 3] = 0
      /\ \A k \in 2 .. a + 2 : f[k] = d[k - 1] + 1
      /\ f \in [1 .. a + 3 -> Nat]
  <2>1. 1 \in 1 .. a + 3 /\ a + 3 \in 1 .. a + 3
    BY <1>2
  <2>2. \A k \in 2 .. a + 2 : k \in 1 .. a + 3 /\ k # 1 /\ k # a + 3
    BY <1>2
  <2>3. ASSUME NEW k \in 1 .. a + 3, k # 1, k # a + 3
        PROVE  d[k - 1] + 1 \in Nat
    <3>1. k - 1 \in 1 .. a + 1
      BY <1>2, <2>3
    <3> QED BY <1>3, <3>1
  <2> QED BY <2>1, <2>2, <2>3
<1> HIDE DEF f
<1>6. ASSUME NEW k \in 1 .. a + 2
      PROVE  /\ u[k] = "take" => f[k] <= n + 1 /\ f[k + 1] = f[k] + 1
             /\ u[k] = "give" => f[k] = f[k + 1] + 1
  <2>1. CASE k = 1
    <3>1. 2 \in 2 .. a + 2 /\ k + 1 = 2
      BY <1>2, <2>1
    <3>2. f[2] = d[1] + 1
      BY <1>5, <3>1
    <3> QED BY <1>3, <1>4, <1>5, <2>1, <3>1, <3>2
  <2>2. CASE k \in 2 .. a + 1
    <3>1. k - 1 \in 1..a /\ k - 1 + 1 = k /\ k \in 2 .. a + 2 /\ k + 1 \in 2 .. a + 2
          /\ k + 1 - 1 = k /\ k \in 1 .. a + 1 /\ k - 1 \in 1 .. a + 1
      BY <1>2, <2>2
    <3>2. u[k] = s[k - 1] /\ f[k] = d[k - 1] + 1 /\ f[k + 1] = d[k] + 1
      BY <1>4, <1>5, <2>2, <3>1
    <3>3. d[k - 1] \in Nat /\ d[k] \in Nat
      BY <1>3, <3>1
    <3>4. /\ s[k - 1] = "take" => d[k - 1] <= n /\ d[k] = d[k - 1] + 1
          /\ s[k - 1] = "give" => d[k - 1] = d[k] + 1
      BY <1>1, <3>1 DEF Counts, a
    <3> QED BY <3>2, <3>3, <3>4
  <2>3. CASE k = a + 2
    <3>1. k \in 2 .. a + 2 /\ k - 1 = a + 1 /\ k + 1 = a + 3
      BY <1>2, <2>3
    <3> QED BY <1>3, <1>4, <1>5, <2>3, <3>1
  <2> QED BY <1>2, <2>1, <2>2, <2>3
<1>7. Len(u) + 1 = a + 3 /\ Len(u) \in Nat \ {0}
  BY <1>2, <1>4
<1>8. Counts(u, n + 1, f)
  BY <1>4, <1>5, <1>6, <1>7 DEF Counts
<1> QED BY <1>7, <1>8 DEF Nests, u
\* No operation takes a connection with more than two in its hands.
LEMMA StepsNest ==
  \A o \in Operations : Nests(Steps[o], 2) /\ Len(Steps[o]) \in Nat \ {0}
<1>1. Nests(Query, 0) /\ Nests(<<>>, 0) /\ Len(Query) = 2
  BY NestsQuery DEF Query
<1>2. /\ Nests(Tx(Query), 1) /\ Len(Tx(Query)) \in Nat \ {0}
      /\ Nests(Tx(<<>>), 1) /\ Len(Tx(<<>>)) \in Nat \ {0}
  <2>1. 0 + 1 = 1
    OBVIOUS
  <2> QED BY <1>1, <2>1, NestsTx
<1>3. Nests(Query \o Query, 0)
  BY <1>1, NestsConcat
<1>4. Nests(TransferFunds, 1)
  <2>1. 0 + 1 = 1
    OBVIOUS
  <2> QED BY <1>3, <2>1, NestsTx DEF TransferFunds
<1>5. Nests(ProcessTrade, 2) /\ Len(ProcessTrade) \in Nat \ {0}
  <2>1. Nests(Query, 1)
    BY <1>1, NestsMore
  <2>2. Nests(Query \o Query, 1)
    BY <2>1, NestsConcat
  <2>3. Nests(Query \o Query \o Query, 1)
    BY <2>1, <2>2, NestsConcat
  <2>4. Nests(Query \o Query \o Query \o Query, 1)
    BY <2>1, <2>3, NestsConcat
  <2>5. Nests(Query \o Query \o Query \o Query \o TransferFunds, 1)
    BY <1>4, <2>4, NestsConcat
  <2>6. Nests(Query \o Query \o Query \o Query \o TransferFunds \o TransferFunds, 1)
    BY <1>4, <2>5, NestsConcat
  <2>7. 1 + 1 = 2
    OBVIOUS
  <2> QED BY <2>6, <2>7, NestsTx DEF ProcessTrade
<1>6. /\ Nests(Query, 2) /\ Nests(Tx(Query), 2) /\ Nests(Tx(<<>>), 2)
      /\ Len(Query) \in Nat \ {0}
  BY <1>1, <1>2, NestsMore
<1>7. \A o \in Operations : Steps[o] \in {Query, Tx(Query), Tx(<<>>), ProcessTrade}
  BY DEF Operations, Steps
<1> QED BY <1>2, <1>5, <1>6, <1>7

\* Depth[o][k]: the connections of operation o before its step k.
Depth == [o \in Operations |-> CHOOSE d : Counts(Steps[o], 2, d)]

LEMMA DepthCounts ==
  ASSUME NEW o \in Operations
  PROVE  Counts(Steps[o], 2, Depth[o]) /\ Len(Steps[o]) \in Nat \ {0}
BY StepsNest DEF Nests, Depth

\* The same, step by step.
LEMMA DepthFacts ==
  ASSUME NEW o \in Operations, NEW k \in 1..Len(Steps[o])
  PROVE  /\ Depth[o][1] = 0 /\ Depth[o][k] \in Nat /\ Depth[o][k + 1] \in Nat
         /\ Steps[o][k] = "take" =>
              /\ Depth[o][k] <= 2 /\ Depth[o][k + 1] = Depth[o][k] + 1
              /\ k + 1 \in 1..Len(Steps[o])
         /\ Steps[o][k] # "take" => Depth[o][k] = Depth[o][k + 1] + 1
         /\ k = Len(Steps[o]) => Depth[o][k + 1] = 0
         /\ k # Len(Steps[o]) => k + 1 \in 1..Len(Steps[o])
<1> DEFINE s == Steps[o]
           d == Depth[o]
<1>1. Counts(s, 2, d) /\ Len(s) \in Nat
  BY DepthCounts
<1>2. k \in 1 .. Len(s) + 1 /\ k + 1 \in 1 .. Len(s) + 1 /\ s[k] \in {"take", "give"}
  BY <1>1, ElementOfSeq DEF Counts
<1> HIDE DEF s, d
<1>3. d[1] = 0 /\ d[k] \in Nat /\ d[k + 1] \in Nat /\ d[Len(s) + 1] = 0
  BY <1>1, <1>2 DEF Counts
<1>4. /\ s[k] = "take" => d[k] <= 2 /\ d[k + 1] = d[k] + 1
      /\ s[k] # "take" => d[k] = d[k + 1] + 1
  BY <1>1, <1>2 DEF Counts, s
<1>5. k = Len(s) => d[k + 1] = 0
  BY <1>3
<1>6. k # Len(s) => k + 1 \in 1..Len(s)
  BY <1>1 DEF s
<1>7. s[k] = "take" => k # Len(s)
  BY <1>3, <1>4, <1>5
<1> QED BY <1>3, <1>4, <1>5, <1>6, <1>7 DEF s, d

-----------------------------------------------------------------------------
(***************************************************************************)
(* The invariant                                                           *)
(***************************************************************************)

Elems(h) == {h[i] : i \in 1..Len(h)}

Distinct(h) == \A i, j \in 1..Len(h) : h[i] = h[j] => i = j

\* A request that is at step k of operation o, with l trades left, holds h: as
\* many connections as the nesting of o says.
RequestOK(o, k, l, h) ==
  /\ o \in Operations \cup AtRest /\ k \in Nat /\ l \in 0..MaxTrades
  /\ h \in Seq(Conns) /\ Distinct(h)
  /\ o \in Operations => k \in 1..Len(Steps[o]) /\ Len(h) = Depth[o][k]
  /\ o \notin Operations => h = <<>>
  /\ o = "trade" => l # 0

\* No connection is used by two requests.
Apart == \A r, q \in Requests : r # q => HeldBy(r) \cap HeldBy(q) = {}

IInv ==
  /\ server \in {"serving", "stopping", "exited", "forced"}
  /\ DOMAIN op = Requests /\ DOMAIN step = Requests
  /\ DOMAIN left = Requests /\ DOMAIN held = Requests
  /\ op = [r \in Requests |-> op[r]] /\ step = [r \in Requests |-> step[r]]
  /\ left = [r \in Requests |-> left[r]] /\ held = [r \in Requests |-> held[r]]
  /\ \A r \in Requests : RequestOK(op[r], step[r], left[r], held[r])
  /\ Apart

LEMMA RestFacts ==
  ASSUME NEW o \in AtRest, NEW k \in Nat, NEW l \in 0..MaxTrades
  PROVE  RequestOK(o, k, l, <<>>)
<1>1. o \notin Operations /\ o # "trade"
  BY DEF AtRest, Operations, Steps
<1>2. <<>> \in Seq(Conns) /\ Distinct(<<>>)
  BY EmptySeq DEF Distinct
<1> QED BY <1>1, <1>2 DEF RequestOK

\* An operation begins with no connection.
LEMMA BeginFacts ==
  ASSUME NEW o \in Operations \cup AtRest, NEW l \in 0..MaxTrades, o = "trade" => l # 0
  PROVE  RequestOK(o, 1, l, <<>>)
<1>1. CASE o \in AtRest
  BY <1>1, RestFacts
<1>2. CASE o \in Operations
  <2>1. 1 \in 1..Len(Steps[o])
    BY <1>2, DepthCounts
  <2>2. Depth[o][1] = 0
    BY <1>2, <2>1, DepthFacts
  <2>3. <<>> \in Seq(Conns) /\ Distinct(<<>>) /\ Len(<<>>) = 0
    BY EmptySeq DEF Distinct
  <2> QED BY <1>2, <2>1, <2>2, <2>3 DEF RequestOK
<1> QED BY <1>1, <1>2

\* Steps of one request.
LEMMA OneMoves ==
  ASSUME IInv, NEW r \in Requests, NEW o, NEW k, NEW l, NEW h,
         op' = [op EXCEPT ![r] = o], step' = [step EXCEPT ![r] = k],
         left' = [left EXCEPT ![r] = l], held' = [held EXCEPT ![r] = h],
         RequestOK(o, k, l, h), Elems(h) \subseteq HeldBy(r) \cup Free, server' = server
  PROVE  IInv'
<1> USE DEF IInv
<1>1. /\ op'[r] = o /\ step'[r] = k /\ left'[r] = l /\ held'[r] = h
      /\ \A q \in Requests \ {r} : /\ op'[q] = op[q] /\ step'[q] = step[q]
                                 /\ left'[q] = left[q] /\ held'[q] = held[q]
  OBVIOUS
<1>2. \A q \in Requests : RequestOK(op'[q], step'[q], left'[q], held'[q])
  <2> TAKE q \in Requests
  <2>1. CASE q = r
    BY <1>1, <2>1
  <2>2. CASE q # r
    BY <1>1, <2>2
  <2> QED BY <2>1, <2>2
<1>3. /\ HeldBy(r)' = Elems(h)
      /\ \A q \in Requests \ {r} : HeldBy(q)' = HeldBy(q) /\ HeldBy(q) \cap Free = {}
  BY <1>1 DEF HeldBy, Elems, Free
<1>4. Apart'
  <2> SUFFICES ASSUME NEW p \in Requests, NEW q \in Requests, p # q
               PROVE  HeldBy(p)' \cap HeldBy(q)' = {}
    BY DEF Apart, HeldBy
  <2>1. CASE p = r
    BY <1>3, <2>1 DEF Apart
  <2>2. CASE q = r
    BY <1>3, <2>2 DEF Apart
  <2>3. CASE p # r /\ q # r
    BY <1>3, <2>3 DEF Apart
  <2> QED BY <2>1, <2>2, <2>3
<1>5. /\ op' = [q \in Requests |-> op'[q]] /\ step' = [q \in Requests |-> step'[q]]
      /\ left' = [q \in Requests |-> left'[q]] /\ held' = [q \in Requests |-> held'[q]]
      /\ DOMAIN op' = Requests /\ DOMAIN step' = Requests
      /\ DOMAIN left' = Requests /\ DOMAIN held' = Requests
  OBVIOUS
<1> QED BY <1>2, <1>4, <1>5 DEF RequestOK, Distinct
LEMMA InitIInv == Init => IInv
<1> SUFFICES ASSUME Init PROVE IInv
  OBVIOUS
<1>1. \A r \in Requests : /\ op[r] = "new" /\ step[r] = 1 /\ left[r] = 0 /\ held[r] = <<>>
                          /\ HeldBy(r) = {}
  BY EmptySeq DEF Init, HeldBy
<1>2. RequestOK("new", 1, 0, <<>>)
  BY RestFacts, ServerAssumption DEF AtRest
<1>3. Apart
  BY <1>1 DEF Apart
<1> QED BY <1>1, <1>2, <1>3 DEF Init, IInv

\* What may follow an operation.
LEMMA ContinueFacts ==
  ASSUME IInv, NEW r \in Requests, Busy(r), NEW n \in TradesLeft(r), NEW o \in After(op[r], n)
  PROVE  /\ n \in 0..MaxTrades /\ o \in Operations \cup AtRest
         /\ o = "trade" => n # 0
<1>1. RequestOK(op[r], step[r], left[r], held[r]) /\ MaxTrades \in Nat
  BY ServerAssumption DEF IInv
<1>2. n \in 0..MaxTrades
  BY <1>1 DEF TradesLeft, RequestOK
<1>3. Operations = {"check", "hold", "insert", "trade", "update", "topup", "store", "read"}
  BY DEF Operations, Steps
<1>4. Kinds \ {"read"} \subseteq {"hold", "topup"}
  BY ServerAssumption
<1>5. o \in {"done", "hold", "insert", "trade", "update", "topup", "store"}
      /\ (o = "trade" => n # 0)
  <2>1. CASE op[r] = "check"
    BY <1>4, <2>1 DEF After
  <2>2. CASE op[r] \in {"insert", "trade"}
    BY <2>2 DEF After
  <2>3. CASE op[r] \in {"hold", "update", "topup", "store", "read"}
    BY <2>3 DEF After
  <2> QED BY <1>3, <2>1, <2>2, <2>3 DEF Busy
<1> QED BY <1>2, <1>3, <1>5 DEF AtRest

LEMMA ContinueIInv ==
  ASSUME IInv, NEW r \in Requests, Busy(r), Continue(r), server' = server,
         held' = [held EXCEPT ![r] = <<>>]
  PROVE  IInv'
<1>0. PICK n \in TradesLeft(r) : \E o \in After(op[r], n) :
        left' = [left EXCEPT ![r] = n] /\ Goto(r, o)
  BY DEF Continue
<1>1. PICK o \in After(op[r], n) : left' = [left EXCEPT ![r] = n] /\ Goto(r, o)
  BY <1>0
<1>2. n \in 0..MaxTrades /\ o \in Operations \cup AtRest /\ (o = "trade" => n # 0)
  BY ContinueFacts
<1>3. RequestOK(o, 1, n, <<>>)
  BY <1>2, BeginFacts
<1>4. Elems(<<>>) = {}
  BY EmptySeq DEF Elems
<1> QED BY <1>1, <1>3, <1>4, OneMoves DEF Goto

\* A step to an operation or to rest, with nothing in its hands.
LEMMA GotoIInv ==
  ASSUME IInv, NEW r \in Requests, NEW o \in Operations \cup AtRest, o # "trade", Goto(r, o),
         held' = [held EXCEPT ![r] = <<>>], UNCHANGED <<server, left>>
  PROVE  IInv'
<1>1. left' = [left EXCEPT ![r] = left[r]] /\ left[r] \in 0..MaxTrades
  BY DEF IInv, RequestOK
<1>2. RequestOK(o, 1, left[r], <<>>)
  BY <1>1, BeginFacts
<1>3. Elems(<<>>) = {}
  BY EmptySeq DEF Elems
<1> QED BY <1>1, <1>2, <1>3, OneMoves DEF Goto

LEMMA TakeIInv ==
  ASSUME IInv, NEW r \in Requests, Take(r)
  PROVE  IInv'
<1> DEFINE o == op[r]
           k == step[r]
<1>1. /\ RequestOK(o, k, left[r], held[r]) /\ o \in Operations /\ Steps[o][k] = "take"
      /\ k \in 1..Len(Steps[o]) /\ Len(held[r]) = Depth[o][k]
  BY DEF IInv, RequestOK, Take, Wants, Busy
<1>2. PICK c \in Free : held' = [held EXCEPT ![r] = Append(@, c)]
  BY DEF Take
<1>3. /\ step' = [step EXCEPT ![r] = k + 1]
      /\ op' = [op EXCEPT ![r] = o] /\ left' = [left EXCEPT ![r] = left[r]] /\ server' = server
  BY DEF Take, IInv
<1>4. k + 1 \in 1..Len(Steps[o]) /\ Depth[o][k + 1] = Depth[o][k] + 1
  BY <1>1, DepthFacts
<1> DEFINE h == Append(held[r], c)
<1>5. /\ held[r] \in Seq(Conns) /\ Len(held[r]) \in Nat /\ c \in Conns /\ c \notin HeldBy(r)
      /\ Distinct(held[r])
  BY <1>1, LenProperties DEF RequestOK, Free
<1>6. /\ h \in Seq(Conns) /\ Len(h) = Len(held[r]) + 1
      /\ \A i \in 1..Len(held[r]) : h[i] = held[r][i]
      /\ h[Len(held[r]) + 1] = c
  BY <1>5, AppendProperties
<1>7. held' = [held EXCEPT ![r] = h]
  BY <1>2
<1> HIDE DEF h
<1>8. \A i \in 1..Len(h) : i \in 1..Len(held[r]) \/ i = Len(held[r]) + 1
  BY <1>5, <1>6
<1>9. Elems(h) \subseteq HeldBy(r) \cup Free
  BY <1>6, <1>8 DEF Elems, HeldBy
<1>10. Distinct(h)
  BY <1>5, <1>6, <1>8 DEF Distinct, HeldBy
<1>11. RequestOK(o, k + 1, left[r], h)
  BY <1>1, <1>4, <1>6, <1>10 DEF RequestOK
<1> QED BY <1>3, <1>7, <1>9, <1>11, OneMoves

LEMMA GiveIInv ==
  ASSUME IInv, NEW r \in Requests, Give(r)
  PROVE  IInv'
<1> DEFINE o == op[r]
           k == step[r]
           h == SubSeq(held[r], 1, Len(held[r]) - 1)
<1>1. /\ RequestOK(o, k, left[r], held[r]) /\ o \in Operations /\ Steps[o][k] # "take"
      /\ k \in 1..Len(Steps[o]) /\ Len(held[r]) = Depth[o][k]
  BY DEF IInv, RequestOK, Give, Wants, Busy
<1>2. held' = [held EXCEPT ![r] = h] /\ server' = server /\ Busy(r)
  BY DEF Give
<1>3. /\ Depth[o][k] = Depth[o][k + 1] + 1 /\ Depth[o][k + 1] \in Nat
      /\ k = Len(Steps[o]) => Depth[o][k + 1] = 0
      /\ k # Len(Steps[o]) => k + 1 \in 1..Len(Steps[o])
  BY <1>1, DepthFacts
<1>4. held[r] \in Seq(Conns) /\ Distinct(held[r]) /\ Len(held[r]) - 1 = Depth[o][k + 1]
  BY <1>1, <1>3 DEF RequestOK
<1> DEFINE m == Len(held[r]) - 1
<1>5. m \in Nat /\ m = Depth[o][k + 1] /\ \A i \in 1..m : i \in 1..Len(held[r])
  BY <1>3, <1>4
<1>6. /\ h \in Seq(Conns) /\ Len(h) = m /\ \A i \in 1..m : h[i] = held[r][i]
  <2> HIDE DEF m
  <2>1. \A i \in 1..m : held[r][i] \in Conns
    BY <1>4, <1>5, ElementOfSeq
  <2>2. /\ SubSeq(held[r], 1, m) \in Seq(Conns)
        /\ Len(SubSeq(held[r], 1, m)) = IF 1 <= m THEN m - 1 + 1 ELSE 0
        /\ \A i \in 1 .. m - 1 + 1 : SubSeq(held[r], 1, m)[i] = held[r][1 + i - 1]
    BY <1>5, <2>1, SubSeqProperties
  <2>3. m - 1 + 1 = m /\ \A i \in 1..m : 1 + i - 1 = i
    BY <1>5
  <2>4. h = SubSeq(held[r], 1, m)
    BY DEF m
  <2> HIDE DEF h
  <2>5. Len(h) = m
    BY <1>5, <2>2, <2>3, <2>4
  <2>6. \A i \in 1..m : h[i] = held[r][i]
    BY <2>2, <2>3, <2>4
  <2> QED BY <2>2, <2>4, <2>5, <2>6
<1> HIDE DEF h, m
<1>7. CASE Last(r)
  <2>1. k = Len(Steps[o]) /\ Continue(r)
    BY <1>7 DEF Give, Last
  <2>2. h = <<>>
    BY <1>3, <1>5, <1>6, <2>1, EmptySeq
  <2> QED BY <1>2, <2>1, <2>2, ContinueIInv
<1>8. CASE ~Last(r)
  <2>1. /\ k # Len(Steps[o]) /\ step' = [step EXCEPT ![r] = k + 1]
        /\ op' = [op EXCEPT ![r] = o] /\ left' = [left EXCEPT ![r] = left[r]]
    BY <1>8 DEF Give, Last, IInv
  <2>2. Distinct(h) /\ Elems(h) \subseteq HeldBy(r)
    <3>1. Distinct(h)
      BY ONLY <1>4, <1>5, <1>6 DEF Distinct
    <3>2. \A i \in 1..Len(h) : h[i] \in HeldBy(r)
      BY ONLY <1>5, <1>6 DEF HeldBy
    <3> QED BY ONLY <3>1, <3>2 DEF Elems
  <2>3. RequestOK(o, k + 1, left[r], h)
    <3>1. k + 1 \in 1..Len(Steps[o])
      BY ONLY <1>1, <2>1
    <3> QED BY <1>1, <1>3, <1>5, <1>6, <2>1, <2>2, <3>1 DEF RequestOK
  <2> QED BY <1>2, <2>1, <2>2, <2>3, OneMoves
<1> QED BY <1>7, <1>8

LEMMA NextIInv == IInv /\ [Next]_vars => IInv'
<1> SUFFICES ASSUME IInv, [Next]_vars PROVE IInv'
  OBVIOUS
<1>1. \A r \in Requests : RequestOK(op[r], step[r], left[r], held[r])
  BY DEF IInv
<1>2. ASSUME UNCHANGED <<op, step, left, held>>,
             server' \in {"serving", "stopping", "exited", "forced"}
      PROVE  IInv'
  BY <1>2 DEF IInv, Apart, HeldBy
<1>3. ASSUME NEW r \in Requests, Accept(r)
      PROVE  IInv'
  <2>1. held[r] = <<>>
    BY <1>1, <1>3 DEF Accept, RequestOK, Operations, Steps
  <2>2. held' = [held EXCEPT ![r] = <<>>] /\ UNCHANGED <<server, left>>
    BY <1>3, <2>1 DEF Accept, IInv
  <2>3. PICK o \in {"socket", "read", "check"} : Goto(r, o)
    BY <1>3 DEF Accept, First
  <2>4. o \in Operations \cup AtRest /\ o # "trade"
    BY DEF Operations, Steps, AtRest
  <2> QED BY <2>2, <2>3, <2>4, GotoIInv
<1>4. ASSUME NEW r \in Requests, Fail(r)
      PROVE  IInv'
  <2>1. held' = [held EXCEPT ![r] = <<>>] /\ server' = server /\ Busy(r)
    BY <1>4 DEF Fail
  <2>2. CASE op[r] = "trade"
    BY <1>4, <2>1, <2>2, ContinueIInv DEF Fail
  <2>3. CASE op[r] # "trade"
    <3>1. Goto(r, "done") /\ left' = left
      BY <1>4, <2>3 DEF Fail
    <3>2. "done" \in Operations \cup AtRest
      BY DEF AtRest
    <3> QED BY <2>1, <3>1, <3>2, GotoIInv
  <2> QED BY <2>2, <2>3
<1>5. ASSUME NEW r \in Requests, Disconnect(r)
      PROVE  IInv'
  <2>1. held[r] = <<>>
    BY <1>1, <1>5 DEF Disconnect, RequestOK, Operations, Steps
  <2>2. held' = [held EXCEPT ![r] = <<>>] /\ UNCHANGED <<server, left>> /\ Goto(r, "done")
    BY <1>5, <2>1 DEF Disconnect, IInv
  <2>3. "done" \in Operations \cup AtRest
    BY DEF AtRest
  <2> QED BY <2>2, <2>3, GotoIInv
<1>6. CASE Signal \/ Exit \/ GiveUp \/ UNCHANGED vars
  BY <1>2, <1>6 DEF Signal, Exit, GiveUp, vars, IInv
<1> QED BY <1>3, <1>4, <1>5, <1>6, TakeIInv, GiveIInv DEF Next, RequestStep

LEMMA Invariance == Spec => []IInv
<1> QED BY InitIInv, NextIInv, PTL DEF Spec

\* Type correctness; in particular no connection is used by two requests, and a
\* request at rest holds none.
THEOREM TypeCorrect == Spec => []TypeOK
<1>1. IInv => TypeOK
  <2> SUFFICES ASSUME IInv PROVE TypeOK
    OBVIOUS
  <2>1. \A r \in Requests : RequestOK(op[r], step[r], left[r], held[r])
    BY DEF IInv
  <2>2. /\ op \in [Requests -> Operations \cup AtRest] /\ step \in [Requests -> Nat]
        /\ left \in [Requests -> 0..MaxTrades] /\ held \in [Requests -> Seq(Conns)]
    BY <2>1 DEF IInv, RequestOK
  <2>3. \A r \in Requests :
          /\ Busy(r) => step[r] \in 1..Len(Steps[op[r]])
          /\ ~Busy(r) => held[r] = <<>>
          /\ \A i, j \in 1..Len(held[r]) : held[r][i] = held[r][j] => i = j
    BY <2>1 DEF RequestOK, Busy, Distinct
  <2> QED BY <2>2, <2>3 DEF IInv, TypeOK, Apart
<1> QED BY <1>1, Invariance, PTL

\* To exhaust the pool takes half as many requests as there are connections.
THEOREM CrowdExhausts == Spec => []ExhaustionNeedsCrowd
<1>1. IInv => ExhaustionNeedsCrowd
  <2> SUFFICES ASSUME IInv, Exhausted
               PROVE  Cardinality(Conns) <= 2 * Cardinality(Stuck)
    BY DEF ExhaustionNeedsCrowd
  <2>1. \A r \in Requests : /\ RequestOK(op[r], step[r], left[r], held[r])
                            /\ held[r] \in Seq(Conns) /\ Len(held[r]) \in Nat
                            /\ \A i \in 1..Len(held[r]) : held[r][i] \in Conns
    <3> TAKE r \in Requests
    <3>1. RequestOK(op[r], step[r], left[r], held[r]) /\ held[r] \in Seq(Conns)
      BY DEF IInv, RequestOK
    <3> QED BY <3>1, LenProperties, ElementOfSeq
  <2>2. ASSUME NEW r \in Stuck
        PROVE  r \in Requests /\ Len(held[r]) \in {1, 2} /\ held[r][1] \in HeldBy(r) \cap Conns
    <3>1. /\ r \in Requests /\ held[r] # <<>> /\ op[r] \in Operations
          /\ Steps[op[r]][step[r]] = "take"
      BY DEF Stuck, Waits, Wants, Busy
    <3>2. step[r] \in 1..Len(Steps[op[r]]) /\ Len(held[r]) = Depth[op[r]][step[r]]
      BY <2>1, <3>1 DEF RequestOK
    <3>3. Depth[op[r]][step[r]] <= 2
      BY <3>1, <3>2, DepthFacts
    <3>4. Len(held[r]) # 0
      BY <2>1, <3>1, EmptySeq
    <3>5. Len(held[r]) \in {1, 2}
      BY <2>1, <3>1, <3>2, <3>3, <3>4
    <3>6. 1 \in 1..Len(held[r])
      BY <3>5
    <3> QED BY <2>1, <3>1, <3>5, <3>6 DEF HeldBy
  <2>3. IsFiniteSet(Stuck)
    <3> DEFINE f == [r \in Stuck |-> held[r][1]]
    <3>1. f \in [Stuck -> Conns] /\ \A p, q \in Stuck : f[p] = f[q] => p = q
      BY <2>2 DEF IInv, Apart
    <3>2. f \in Injection(Stuck, Conns)
      BY <3>1 DEF Injection, IsInjective
    <3> QED BY <3>2, ServerAssumption, FS_Injection
  <2> DEFINE P == Stuck \X (1..2)
             g == [c \in Conns |-> CHOOSE p \in P : held[p[1]][p[2]] = c]
  <2>4. \A c \in Conns : \E p \in P : held[p[1]][p[2]] = c
    <3> TAKE c \in Conns
    <3>1. PICK r \in Requests : c \in HeldBy(r)
      BY DEF Exhausted, Free
    <3>2. PICK i \in 1..Len(held[r]) : held[r][i] = c
      BY <3>1 DEF HeldBy
    <3>3. held[r] # <<>>
      BY <3>2, EmptySeq
    <3>4. r \in Stuck
      BY <3>1, <3>3 DEF Exhausted, Stuck
    <3>5. i \in 1..2
      <4>1. Len(held[r]) \in {1, 2}
        BY <2>2, <3>4
      <4>2. \A n \in {1, 2} : \A j \in 1..n : j \in 1..2
        OBVIOUS
      <4> QED BY <4>1, <4>2
    <3>6. <<r, i>> \in P /\ held[<<r, i>>[1]][<<r, i>>[2]] = c
      BY <3>2, <3>4, <3>5
    <3> QED BY <3>6
  <2>5. g \in [Conns -> P] /\ \A c \in Conns : held[g[c][1]][g[c][2]] = c
    BY <2>4
  <2>6. g \in Injection(Conns, P)
    BY <2>5 DEF Injection, IsInjective
  <2>7. IsFiniteSet(1..2) /\ Cardinality(1..2) = 2
    <3>1. 1 \in Int /\ 2 \in Int /\ ~(1 > 2) /\ 2 - 1 + 1 = 2
      OBVIOUS
    <3>2. IsFiniteSet(1..2) /\ Cardinality(1..2) = IF 1 > 2 THEN 0 ELSE 2 - 1 + 1
      BY <3>1, FS_Interval
    <3> QED BY <3>1, <3>2
  <2>8. IsFiniteSet(P) /\ Cardinality(P) = Cardinality(Stuck) * 2
    BY <2>3, <2>7, FS_Product
  <2>9. Cardinality(Conns) <= Cardinality(P)
    BY <2>6, <2>8, FS_Injection
  <2>10. Cardinality(Stuck) \in Nat
    BY <2>3, FS_CardinalityType
  <2> QED BY <2>8, <2>9, <2>10
<1> QED BY <1>1, Invariance, PTL

=============================================================================
