---------------------------- MODULE OrdersProofs ----------------------------
(***************************************************************************)
(* Proofs about Orders, for any number of orders, users and restarts:      *)
(* types, that rows are backed by the ledger, that the book is covered by  *)
(* holds, that live orders survive a restart, that what LimitBookProofs    *)
(* shows of one book holds of the books of all starts together, and that   *)
(* these implement one exchange.                                           *)
(*                                                                         *)
(* The lemmas about the book are those of LimitBookProofs: a step of the   *)
(* service is a step of the book, gives up an order that the book has not  *)
(* seen, or begins with an empty book.  Besides, the argument rests on     *)
(* what the place of a handler says of its order, and on the trades it has *)
(* still to process adding up to no more than the order asked for.         *)
(***************************************************************************)
EXTENDS Orders, SequenceTheorems, FiniteSetTheorems, TLAPS

-----------------------------------------------------------------------------
(***************************************************************************)
(* The book                                                                *)
(***************************************************************************)

LBP == INSTANCE LimitBookProofs WITH Removable <- {}

\* What the lemmas about the book assume.
LEMMA Assumed ==
  /\ \A r \in Requests :
       /\ r.side \in LBP!Sides
       /\ r.type \in {"LIMIT", "MARKET"}
       /\ r.price \in Int \cup {NoPrice}
       /\ r.type = "LIMIT" => r.price \in Nat \ {0}
       /\ r.qty \in Nat \ {0}
  /\ NoPrice \notin Int
  /\ NoOrder \notin Int
  /\ MaxOrders \in Nat
BY RequestsAssumption DEF LBP!Sides

\* The book of Orders and that of the lemmas are one.
LEMMA SameNames ==
  /\ LB!Sides = LBP!Sides /\ LB!Prices = LBP!Prices /\ LB!Idle = LBP!Idle
  /\ LB!OrderIds = OrderIds /\ LBP!OrderIds = OrderIds
  /\ LB!Stages = LBP!Stages /\ LB!LevelRecords = LBP!LevelRecords
  /\ LB!Book = LBP!Book /\ LB!Best = LBP!Best /\ LB!Maker = LBP!Maker
  /\ LB!FillQty = LBP!FillQty /\ LB!Continues = LBP!Continues
  /\ LB!AtOrder = LBP!AtOrder
  /\ \A o : LB!Remaining(o) = LBP!Remaining(o)
<1>1. /\ LB!Sides = LBP!Sides /\ LB!Prices = LBP!Prices /\ LB!Idle = LBP!Idle
      /\ LB!OrderIds = OrderIds /\ LBP!OrderIds = OrderIds
      /\ LB!Stages = LBP!Stages
      /\ LB!Book = LBP!Book /\ LB!Best = LBP!Best /\ LB!Maker = LBP!Maker
      /\ \A o : LB!Remaining(o) = LBP!Remaining(o)
  BY DEF LB!Sides, LBP!Sides, LB!Prices, LBP!Prices, LB!Idle, LBP!Idle, OrderIds,
         LB!OrderIds, LBP!OrderIds, LB!Stages, LBP!Stages, LB!Book, LBP!Book, LB!Opposite,
         LBP!Opposite, LB!Best, LBP!Best, LB!Maker, LBP!Maker, LB!Remaining, LBP!Remaining
<1>2. LB!LevelRecords = LBP!LevelRecords
  BY <1>1 DEF LB!LevelRecords, LBP!LevelRecords
<1>3. LB!FillQty = LBP!FillQty
  BY <1>1 DEF LB!FillQty, LBP!FillQty
<1>4. LB!Continues = LBP!Continues
  BY <1>1 DEF LB!Continues, LBP!Continues, LB!Crosses, LBP!Crosses
<1>5. LB!AtOrder = LBP!AtOrder
  BY <1>1 DEF LB!AtOrder, LBP!AtOrder
<1> QED BY <1>1, <1>2, <1>3, <1>4, <1>5

\* The calls of the book that Orders makes are steps of the book.
BookStep == [LBP!Next]_(LBP!vars)

LEMMA CallsAreSteps ==
  ASSUME NEW o \in OrderIds,
         LB!MatchOrder(o) \/ LB!AddOrder(o) \/ LB!Drop(o)
  PROVE  BookStep
<1>0. o \in LBP!OrderIds
  BY SameNames
<1>1. CASE LB!MatchOrder(o)
  <2>1. LBP!MatchOrder(o)
    BY <1>1 DEF LB!MatchOrder, LBP!MatchOrder
  <2> QED BY <1>0, <2>1 DEF BookStep, LBP!Next
<1>2. CASE LB!AddOrder(o)
  <2>1. LBP!AddOrder(o)
    BY <1>2 DEF LB!AddOrder, LBP!AddOrder, LB!AppendOrder, LBP!AppendOrder, LB!Level, LBP!Level,
                LB!PushRoot, LBP!PushRoot
  <2> QED BY <1>0, <2>1 DEF BookStep, LBP!Next
<1>3. CASE LB!Drop(o)
  <2>1. LBP!Drop(o)
    BY <1>3 DEF LB!Drop, LBP!Drop
  <2> QED BY <1>0, <2>1 DEF BookStep, LBP!Next
<1> QED BY <1>1, <1>2, <1>3

\* So are the turns of MatchOrder.
LEMMA TurnsAreSteps ==
  ASSUME LB!EnterLevel \/ LB!LeaveLevel \/ LB!SkipOrder \/ LB!FillPartly \/ LB!FillMaker
           \/ LB!Return \/ LB!FillPanics
  PROVE  BookStep
<1>1. CASE LB!EnterLevel
  <2>1. LBP!EnterLevel
    BY <1>1, SameNames DEF LB!EnterLevel, LBP!EnterLevel
  <2> QED BY <2>1 DEF BookStep, LBP!Next, LBP!MatchStep
<1>2. CASE LB!LeaveLevel
  <2>1. LBP!LeaveLevel
    BY <1>2, SameNames DEF LB!LeaveLevel, LBP!LeaveLevel, LB!Trim, LBP!Trim
  <2> QED BY <2>1 DEF BookStep, LBP!Next, LBP!MatchStep
<1>3. CASE LB!SkipOrder
  <2>1. LBP!SkipOrder
    BY <1>3, SameNames DEF LB!SkipOrder, LBP!SkipOrder
  <2> QED BY <2>1 DEF BookStep, LBP!Next, LBP!MatchStep
<1>4. CASE LB!FillPartly
  <2>1. LBP!FillPartly
    BY <1>4, SameNames DEF LB!FillPartly, LBP!FillPartly, LB!FillBoth, LBP!FillBoth
  <2> QED BY <2>1 DEF BookStep, LBP!Next, LBP!MatchStep
<1>5. CASE LB!FillMaker
  <2>1. LBP!FillMaker
    BY <1>5, SameNames DEF LB!FillMaker, LBP!FillMaker, LB!FillsMaker, LBP!FillsMaker, LB!FillBoth,
       LBP!FillBoth, LB!CutOut, LBP!CutOut, LB!Delete, LBP!Delete
  <2> QED BY <2>1 DEF BookStep, LBP!Next, LBP!MatchStep
<1>6. CASE LB!Return
  <2>1. LBP!Return
    BY <1>6, SameNames DEF LB!Return, LBP!Return
  <2> QED BY <2>1 DEF BookStep, LBP!Next, LBP!MatchStep
<1>7. CASE LB!FillPanics
  <2>1. LBP!FillPanics
    BY <1>7, SameNames DEF LB!FillPanics, LBP!FillPanics, LB!FillsMaker, LBP!FillsMaker,
       LB!FillBoth, LBP!FillBoth, LB!Trim, LBP!Trim
  <2> QED BY <2>1 DEF BookStep, LBP!Next, LBP!MatchStep
<1> QED BY <1>1, <1>2, <1>3, <1>4, <1>5, <1>6, <1>7

\* What the invariants of the book say of it here.
BookInv == LBP!IInv /\ LBP!BookInv

LEMMA BookStepKeeps ==
  ASSUME BookInv, BookStep
  PROVE  BookInv'
<1>1. LBP!IInv'
  BY LBP!NextIInv, Assumed DEF BookInv, BookStep
<1>2. LBP!BookInv'
  BY <1>1, LBP!NextKeeps, Assumed DEF BookInv, BookStep
<1> QED BY <1>1, <1>2 DEF BookInv

Trades == [maker : OrderIds, price : LB!Prices, qty : Nat]

\* The types that the steps of the service need.
LEMMA BookTypes ==
  ASSUME BookInv
  PROVE  /\ LB!TypeOK
         /\ req \in [OrderIds -> Requests]
         /\ filled \in [OrderIds -> Nat]
         /\ status \in [OrderIds -> {"NEW", "PARTIALLY_FILLED", "FILLED"}]
         /\ stage \in [OrderIds -> LB!Stages]
         /\ run \in [pc : {"idle", "outer", "inner"}, taker : OrderIds \cup {NoOrder},
                     i : Nat, n : Nat]
         /\ run.pc # "idle" => run.taker \in OrderIds /\ stage[run.taker] = "matching"
         /\ trades \in Seq(Trades)
         /\ \A o \in OrderIds : filled[o] <= req[o].qty
<1>1. LBP!TypeOK /\ LBP!NeverOverfilled
  BY DEF BookInv, LBP!IInv
<1>2. LB!TypeOK
  BY <1>1, SameNames DEF LB!TypeOK, LBP!TypeOK
<1>3. /\ LB!TypeOK
      /\ req \in [OrderIds -> Requests]
      /\ filled \in [OrderIds -> Nat]
      /\ status \in [OrderIds -> {"NEW", "PARTIALLY_FILLED", "FILLED"}]
      /\ stage \in [OrderIds -> LB!Stages]
      /\ run \in [pc : {"idle", "outer", "inner"}, taker : OrderIds \cup {NoOrder},
                  i : Nat, n : Nat]
      /\ run.pc # "idle" => run.taker \in OrderIds /\ stage[run.taker] = "matching"
      /\ trades \in Seq(Trades)
  BY <1>2, SameNames DEF LB!TypeOK, Trades
<1>4. \A o \in OrderIds : filled[o] <= req[o].qty
  BY <1>1, SameNames DEF LBP!NeverOverfilled
<1> QED BY <1>3, <1>4

-----------------------------------------------------------------------------
(***************************************************************************)
(* Sums of trades                                                          *)
(***************************************************************************)

\* The numbers of s add up from a to at most b: c[j] is the sum after j trades.
Within(s, a, b) ==
  \E c \in [0..Len(s) -> Int] :
    /\ c[0] = a
    /\ c[Len(s)] <= b
    /\ \A j \in 1..Len(s) : c[j] = c[j - 1] + s[j].qty

\* No trades come to nothing.
LEMMA WithinNothing ==
  ASSUME NEW a \in Int, NEW b \in Int
  PROVE  Within(<<>>, a, b) <=> a <= b
<1>1. ASSUME a <= b PROVE Within(<<>>, a, b)
  <2> DEFINE c == [j \in 0..0 |-> a]
  <2>1. c \in [0..Len(<<>>) -> Int] /\ c[0] = a /\ c[Len(<<>>)] <= b
    BY <1>1
  <2>2. \A j \in 1..Len(<<>>) : FALSE
    OBVIOUS
  <2> HIDE DEF c
  <2> QED BY <2>1, <2>2 DEF Within
<1>2. ASSUME Within(<<>>, a, b) PROVE a <= b
  BY <1>2 DEF Within
<1> QED BY <1>1, <1>2

\* A higher bound is a bound.
LEMMA WithinMore ==
  ASSUME NEW s \in Seq(Trades), NEW a \in Int, NEW b \in Int, Within(s, a, b),
         NEW d \in Int, b <= d
  PROVE  Within(s, a, d)
<1>1. PICK c \in [0..Len(s) -> Int] :
        /\ c[0] = a
        /\ c[Len(s)] <= b
        /\ \A j \in 1..Len(s) : c[j] = c[j - 1] + s[j].qty
  BY DEF Within
<1>2. c[Len(s)] <= d
  BY <1>1
<1> QED BY <1>1, <1>2 DEF Within

\* One more trade takes the bound up by its quantity.
LEMMA WithinAppend ==
  ASSUME NEW s \in Seq(Trades), NEW t \in Trades, NEW a \in Int, NEW b \in Int,
         Within(s, a, b)
  PROVE  Within(Append(s, t), a, b + t.qty)
<1> DEFINE n == Len(s)
           r == Append(s, t)
<1>1. PICK c \in [0..n -> Int] :
        /\ c[0] = a
        /\ c[n] <= b
        /\ \A j \in 1..n : c[j] = c[j - 1] + s[j].qty
  BY DEF Within
<1>2. n \in Nat /\ t.qty \in Int /\ Len(r) = n + 1 /\ r[n + 1] = t
      /\ \A j \in 1..n : r[j] = s[j]
  BY DEF Trades
<1> DEFINE d == [j \in 0..(n + 1) |-> IF j <= n THEN c[j] ELSE c[n] + t.qty]
<1> HIDE DEF n, r
<1>3. d \in [0..(n + 1) -> Int] /\ d[0] = a /\ d[n + 1] = c[n] + t.qty
  BY <1>1, <1>2
<1>4. \A j \in 1..n : d[j] = d[j - 1] + r[j].qty
  BY <1>1, <1>2
<1>5. d[n + 1] = d[n] + r[n + 1].qty
  BY <1>2
<1>6. \A j \in 1..(n + 1) : d[j] = d[j - 1] + r[j].qty
  <2> HIDE DEF d
  <2>1. \A j \in 1..(n + 1) : j \in 1..n \/ j = n + 1
    BY <1>2
  <2>2. (n + 1) - 1 = n
    BY <1>2
  <2> QED BY <1>4, <1>5, <2>1, <2>2
<1>7. d[n + 1] <= b + t.qty
  BY <1>1, <1>2, <1>3
<1> HIDE DEF d
<1>8. Within(r, a, b + t.qty)
  BY <1>2, <1>3, <1>6, <1>7 DEF Within
<1> QED BY <1>8 DEF r

\* The first trade may count or not.
LEMMA WithinTail ==
  ASSUME NEW s \in Seq(Trades), s # <<>>, NEW a \in Int, NEW b \in Int, Within(s, a, b)
  PROVE  /\ Within(Tail(s), a + Head(s).qty, b)
         /\ Within(Tail(s), a, b)
<1> DEFINE n == Len(s)
           r == Tail(s)
           q == Head(s).qty
<1>1. PICK c \in [0..n -> Int] :
        /\ c[0] = a
        /\ c[n] <= b
        /\ \A j \in 1..n : c[j] = c[j - 1] + s[j].qty
  BY DEF Within
<1>2. n \in Nat \ {0} /\ Len(r) = n - 1 /\ Head(s) = s[1] /\ s[1] \in Trades
      /\ \A j \in 1..(n - 1) : r[j] = s[j + 1]
  BY EmptySeq
<1>3. q \in Nat /\ q = s[1].qty
  BY <1>2 DEF Trades
<1> DEFINE d == [j \in 0..(n - 1) |-> c[j + 1]]
           e == [j \in 0..(n - 1) |-> c[j + 1] - q]
<1> HIDE DEF n, r, q
<1>4. c[1] = a + q /\ n - 1 \in Nat
  BY <1>1, <1>2, <1>3
<1>5. /\ d \in [0..(n - 1) -> Int] /\ d[0] = a + q /\ d[n - 1] <= b
      /\ e \in [0..(n - 1) -> Int] /\ e[0] = a /\ e[n - 1] <= b
  <2>1. \A j \in 0..(n - 1) : j + 1 \in 0..n /\ c[j + 1] \in Int
    BY <1>1, <1>2
  <2>2. 0 \in 0..(n - 1) /\ n - 1 \in 0..(n - 1) /\ (n - 1) + 1 = n
    BY <1>2
  <2>3. d \in [0..(n - 1) -> Int] /\ d[0] = c[1] /\ d[n - 1] = c[n]
    BY <2>1, <2>2
  <2>4. \A j \in 0..(n - 1) : c[j + 1] - q \in Int
    BY <1>3, <2>1
  <2>5. e \in [0..(n - 1) -> Int] /\ e[0] = c[1] - q /\ e[n - 1] = c[n] - q
    BY <2>2, <2>4
  <2>6. c[n] \in Int
    BY <1>2
  <2> HIDE DEF d, e
  <2>7. /\ d[0] = a + q /\ d[n - 1] <= b
    BY ONLY <1>1, <1>4, <2>3
  <2>8. c[1] - q = a /\ c[n] - q <= b
    BY <1>1, <1>3, <1>4, <2>6
  <2> QED BY ONLY <2>3, <2>5, <2>7, <2>8
<1>6. ASSUME NEW j \in 1..(n - 1)
      PROVE  d[j] = d[j - 1] + r[j].qty /\ e[j] = e[j - 1] + r[j].qty
  <2>1. j + 1 \in 1..n /\ (j + 1) - 1 = j /\ j - 1 \in 0..(n - 1) /\ (j - 1) + 1 = j
    BY <1>2
  <2>2. c[j + 1] = c[j] + r[j].qty
    BY <1>1, <1>2, <2>1
  <2>3. r[j].qty \in Int
    <3>1. s[j + 1] \in Trades
      BY <2>1 DEF n
    <3>2. r[j] \in Trades
      BY <1>2, <3>1
    <3> QED BY <3>2 DEF Trades
  <2>4. c[j] \in Int /\ c[j + 1] \in Int
    <3>1. j \in 0..n /\ j + 1 \in 0..n
      BY <1>2
    <3> QED BY <3>1
  <2>5. d[j] = c[j + 1] /\ d[j - 1] = c[j] /\ e[j] = c[j + 1] - q /\ e[j - 1] = c[j] - q
    BY <2>1
  <2> HIDE DEF d, e
  <2> QED BY <1>3, <2>2, <2>3, <2>4, <2>5
<1> HIDE DEF d, e
<1>7. Within(r, a + q, b)
  BY <1>2, <1>5, <1>6 DEF Within
<1>8. Within(r, a, b)
  BY <1>2, <1>5, <1>6 DEF Within
<1> QED BY <1>7, <1>8 DEF r, q

-----------------------------------------------------------------------------
(***************************************************************************)
(* Invariants                                                              *)
(***************************************************************************)

PCs == {"new", "refused", "held", "saved", "matching", "settling", "halfway", "updated",
        "answered", "failed", "loading", "loaded"}

Rows == [filled : Nat, status : {"none", "NEW", "PARTIALLY_FILLED", "FILLED"}]

\* The types of what is not the book's.
TypesOK ==
  /\ pc \in [OrderIds -> PCs]
  /\ todo \in [OrderIds -> Seq(Trades)]
  /\ got \in [OrderIds -> Nat]
  /\ row \in [OrderIds -> Rows]
  /\ restarts \in 0..MaxRestarts
  /\ settled \in [OrderIds -> Nat]
  /\ halved \subseteq OrderIds

MoneyOK ==
  /\ available \in [Users -> [Currencies -> Nat]]
  /\ held \in [Users -> [Currencies -> Nat]]

\* Where a handler is, the book's order is, too.
StageOf(p) ==
  CASE p \in {"new", "held", "saved"} -> {"new"}
    [] p = "matching" -> {"matching"}
    [] p \in {"settling", "halfway", "updated"} -> {"matched"}
    [] p = "answered" -> {"resting", "dropped"}
    [] p = "loading" -> {"matched", "panicked"}
    [] p = "loaded" -> {"resting"}
    [] p = "refused" -> {"dropped"}
    [] p = "failed" -> {"dropped", "panicked"}

AgreesOn(o) ==
  /\ stage[o] \in StageOf(pc[o])
  /\ pc[o] = "matching" => run.pc # "idle" /\ run.taker = o
  /\ pc[o] = "halfway" => todo[o] # <<>>
  /\ stage[o] = "resting" \/ pc[o] = "loading" => Active(o)

Agrees == \A o \in OrderIds : AgreesOn(o)

\* What the rows and the handlers say is filled.
CountsOn(o) ==
  /\ row[o].status = "none" => row[o] = NoRow
  /\ pc[o] \in {"new", "held", "refused"} => row[o] = NoRow
  /\ row[o].filled <= filled[o]
  /\ row[o].filled <= settled[o]
  /\ got[o] <= settled[o]
  /\ pc[o] \in {"new", "held", "saved", "matching"} => got[o] = 0

Counts == \A o \in OrderIds : CountsOn(o)

\* The trades of a call come to no more than its order's FilledQty, and those that
\* a handler has still to process to no more than what has not counted of that.
Fits ==
  /\ run.pc # "idle" => Within(trades, 0, filled[run.taker])
  /\ \A o \in OrderIds :
       pc[o] \in {"settling", "halfway"} => Within(todo[o], got[o], filled[o])

OInv == BookInv /\ TypesOK /\ MoneyOK /\ Agrees /\ Counts /\ Fits

\* The orders whose funds are on hold, whatever has become of them.
Holding(u, c) ==
  {o \in OrderIds : Owner[o] = u /\ HoldCurrency(o) = c /\ pc[o] \notin {"new", "refused"}}

Required == [o \in OrderIds |-> RequiredAmount(o)]

\* Nothing is ever released.
HeldOK == \A u \in Users, c \in Currencies : held[u][c] = LBP!Sum(Required, Holding(u, c))

\* What the stage of an order says of its handler.
LEMMA Stages ==
  ASSUME OInv, NEW o \in OrderIds
  PROVE  /\ pc[o] \in PCs
         /\ stage[o] = "new" <=> pc[o] \in {"new", "held", "saved"}
         /\ stage[o] = "matching" <=> pc[o] = "matching"
         /\ stage[o] = "matched" => pc[o] \in {"settling", "halfway", "updated", "loading"}
         /\ stage[o] = "resting" => pc[o] \in {"answered", "loaded"}
         /\ stage[o] = "panicked" => pc[o] \in {"loading", "failed"}
<1>1. pc[o] \in PCs
  BY DEF OInv, TypesOK
<1>2. stage[o] \in StageOf(pc[o])
  BY DEF OInv, Agrees, AgreesOn
<1> QED BY <1>1, <1>2 DEF PCs, StageOf

\* What an order asks for, and what has to be on hold for it.
LEMMA RequestOf ==
  ASSUME OInv, NEW o \in OrderIds
  PROVE  /\ req[o].side \in {"BUY", "SELL"}
         /\ req[o].price \in Int \cup {NoPrice}
         /\ req[o].price \in LB!Prices \/ req[o].price = NoPrice
         /\ req[o].qty \in Nat \ {0}
         /\ RequiredAmount(o) \in Nat
         /\ HoldCurrency(o) \in Currencies
         /\ Owner[o] \in Users
<1>1. req[o] \in Requests
  BY BookTypes DEF OInv
<1>2. /\ req[o].side \in {"BUY", "SELL"}
      /\ req[o].type \in {"LIMIT", "MARKET"}
      /\ req[o].price \in Int \cup {NoPrice}
      /\ req[o].type = "LIMIT" => req[o].price \in Nat
      /\ req[o].qty \in Nat \ {0}
  BY <1>1, RequestsAssumption
<1>3. req[o].price \in LB!Prices \/ req[o].price = NoPrice
  BY <1>1 DEF LB!Prices
<1>4. \A a, b \in Nat : a * b \in Nat
  OBVIOUS
<1>5. RequiredAmount(o) \in Nat
  <2>1. (IF req[o].type = "MARKET" THEN Quote ELSE req[o].price) \in Nat
    BY <1>2, OrdersAssumption
  <2> QED BY <1>2, <1>4, <2>1 DEF RequiredAmount
<1>6. HoldCurrency(o) \in Currencies
  BY DEF HoldCurrency, Currencies
<1>7. Owner[o] \in Users
  BY OrdersAssumption
<1> QED BY <1>2, <1>3, <1>5, <1>6, <1>7

\* The order that is being matched.
LEMMA Taker ==
  ASSUME OInv, run.pc # "idle"
  PROVE  /\ run.taker \in OrderIds
         /\ stage[run.taker] = "matching"
         /\ pc[run.taker] = "matching"
         /\ got[run.taker] = 0
<1>1. run.taker \in OrderIds /\ stage[run.taker] = "matching"
  BY BookTypes DEF OInv
<1>2. pc[run.taker] = "matching"
  BY <1>1, Stages
<1> QED BY <1>1, <1>2 DEF OInv, Counts, CountsOn

\* What the invariants say of the other orders stays.
OthersStay(o) ==
  \A q \in OrderIds \ {o} :
    stage'[q] = stage[q] /\ UNCHANGED <<row[q], todo[q], got[q], settled[q]>>

\* A step of order o's handler, which is not the one being matched.
LEMMA Leaves ==
  ASSUME OInv, NEW o \in OrderIds, NEW to \in PCs, pc' = [pc EXCEPT ![o] = to],
         UNCHANGED <<run, req, filled, trades>>,
         stage' \in [OrderIds -> LB!Stages],
         OthersStay(o),
         AgreesOn(o)', CountsOn(o)',
         to \in {"settling", "halfway"} => Within(todo'[o], got'[o], filled[o])
  PROVE  Agrees' /\ Counts' /\ Fits'
<1>1. \A q \in OrderIds \ {o} : pc'[q] = pc[q]
  BY DEF OInv, TypesOK
<1>2. pc'[o] = to
  BY DEF OInv, TypesOK
<1>3. ASSUME NEW q \in OrderIds
      PROVE  AgreesOn(q)' /\ CountsOn(q)'
  <2>1. CASE q = o
    BY <2>1
  <2>2. CASE q # o
    BY <1>1, <2>2 DEF OInv, Agrees, AgreesOn, Counts, CountsOn, Active, OthersStay
  <2> QED BY <2>1, <2>2
<1>4. Fits'
  <2>1. run'.pc # "idle" => Within(trades', 0, filled'[run'.taker])
    BY DEF OInv, Fits
  <2>2. ASSUME NEW q \in OrderIds, pc'[q] \in {"settling", "halfway"}
        PROVE  Within(todo'[q], got'[q], filled'[q])
    <3>1. CASE q = o
      BY <1>2, <2>2, <3>1
    <3>2. CASE q # o
      BY <1>1, <2>2, <3>2 DEF OInv, Fits, OthersStay
    <3> QED BY <3>1, <3>2
  <2> QED BY <2>1, <2>2 DEF Fits
<1> QED BY <1>3, <1>4 DEF Agrees, Counts

-----------------------------------------------------------------------------
(***************************************************************************)
(* CreateOrder up to the book                                              *)
(***************************************************************************)

\* AddOrder rests the order, or panics on an order without a price.
LEMMA Added ==
  ASSUME OInv, NEW o \in OrderIds, LB!AddOrder(o)
  PROVE  /\ stage[o] = "matched"
         /\ stage' = [stage EXCEPT ![o] = IF req[o].price = NoPrice THEN "panicked" ELSE "resting"]
         /\ stage' \in [OrderIds -> LB!Stages]
         /\ UNCHANGED <<req, filled, run, trades>>
<1>1. /\ stage[o] = "matched"
      /\ stage' = [stage EXCEPT ![o] = IF req[o].price = NoPrice THEN "panicked" ELSE "resting"]
      /\ UNCHANGED <<req, filled, run, trades>>
  BY DEF LB!AddOrder
<1>2. stage \in [OrderIds -> LB!Stages]
  BY BookTypes DEF OInv
<1> QED BY <1>1, <1>2 DEF LB!Stages

\* The stage of no other order changes.
LEMMA Dropped ==
  ASSUME OInv, NEW o \in OrderIds, stage' = [stage EXCEPT ![o] = "dropped"]
  PROVE  /\ stage' \in [OrderIds -> LB!Stages]
         /\ stage'[o] = "dropped"
         /\ \A q \in OrderIds \ {o} : stage'[q] = stage[q]
<1>1. stage \in [OrderIds -> LB!Stages]
  BY BookTypes DEF OInv
<1> QED BY <1>1 DEF LB!Stages

\* The book has not seen the order.
LEMMA NeverMatchedBook ==
  ASSUME OInv, NEW o \in OrderIds, pc[o] \in {"new", "held"}, NeverMatched(o)
  PROVE  BookInv'
<1>1. stage[o] = "new"
  BY Stages
<1> QED BY <1>1, Assumed, SameNames, LBP!GivenUp DEF NeverMatched, OInv, BookInv

\* The hold is made or the order refused.
LEMMA HoldFundsOInv ==
  ASSUME OInv, NEW o \in OrderIds, HoldFunds(o)
  PROVE  OInv'
<1> DEFINE u == Owner[o]
           c == HoldCurrency(o)
           a == RequiredAmount(o)
<1>1. /\ pc[o] = "new"
      /\ \/ /\ available[u][c] >= a
            /\ available' = [available EXCEPT ![u][c] = @ - a]
            /\ held' = [held EXCEPT ![u][c] = @ + a]
            /\ Goto(o, "held")
            /\ UNCHANGED <<req, book>>
         \/ Goto(o, "refused") /\ NeverMatched(o) /\ UNCHANGED money
      /\ UNCHANGED <<todo, got, row, restarts, settled, halved>>
  BY DEF HoldFunds, At
<1>2. u \in Users /\ c \in Currencies /\ a \in Nat
  BY RequestOf
<1> HIDE DEF u, c, a
<1>3. CountsOn(o) /\ AgreesOn(o) /\ stage[o] = "new"
  BY <1>1, Stages DEF OInv, Agrees, Counts
<1>4. stage \in [OrderIds -> LB!Stages]
  BY BookTypes DEF OInv
<1>5. TypesOK'
  BY <1>1 DEF OInv, TypesOK, Goto, PCs
<1>6. CASE UNCHANGED <<req, book>> /\ Goto(o, "held") /\ available[u][c] >= a
           /\ available' = [available EXCEPT ![u][c] = @ - a]
           /\ held' = [held EXCEPT ![u][c] = @ + a]
  <2>1. BookInv'
    <3>1. BookStep
      BY <1>6 DEF BookStep, LBP!vars, book
    <3> QED BY <3>1, BookStepKeeps DEF OInv
  <2>2. MoneyOK'
    <3>1. available[u][c] - a \in Nat /\ held[u][c] + a \in Nat
      BY <1>2, <1>6 DEF OInv, MoneyOK
    <3> QED BY <1>2, <1>6, <3>1 DEF OInv, MoneyOK
  <2>3. pc'[o] = "held"
    BY <1>6 DEF Goto, OInv, TypesOK
  <2>4. AgreesOn(o)' /\ CountsOn(o)'
    BY <1>1, <1>3, <1>6, <2>3 DEF AgreesOn, CountsOn, StageOf, book, Active
  <2>5. Agrees' /\ Counts' /\ Fits'
    <3>1. OthersStay(o)
      BY <1>1, <1>6 DEF book, OthersStay
    <3>2. UNCHANGED <<run, req, filled, trades, stage>> /\ pc' = [pc EXCEPT ![o] = "held"]
      BY <1>6 DEF book, Goto
    <3> QED BY <1>4, <2>4, <3>1, <3>2, Leaves DEF PCs
  <2> QED BY <1>5, <2>1, <2>2, <2>5 DEF OInv
<1>7. CASE Goto(o, "refused") /\ NeverMatched(o) /\ UNCHANGED money
  <2>1. BookInv'
    BY <1>1, <1>7, NeverMatchedBook
  <2>2. MoneyOK'
    BY <1>7 DEF OInv, MoneyOK, money
  <2>3. pc'[o] = "refused"
    BY <1>7 DEF Goto, OInv, TypesOK
  <2>4. /\ stage' \in [OrderIds -> LB!Stages]
        /\ stage'[o] = "dropped"
        /\ \A q \in OrderIds \ {o} : stage'[q] = stage[q]
    BY <1>7, Dropped DEF NeverMatched
  <2>5. AgreesOn(o)' /\ CountsOn(o)'
    BY <1>1, <1>3, <1>7, <2>3, <2>4 DEF AgreesOn, CountsOn, StageOf, NeverMatched, Active
  <2>6. Agrees' /\ Counts' /\ Fits'
    <3>1. OthersStay(o)
      BY <1>1, <2>4 DEF OthersStay
    <3>2. UNCHANGED <<run, req, filled, trades>> /\ pc' = [pc EXCEPT ![o] = "refused"]
      BY <1>7 DEF NeverMatched, Goto
    <3> QED BY <2>4, <2>5, <3>1, <3>2, Leaves DEF PCs
  <2> QED BY <1>5, <2>1, <2>2, <2>6 DEF OInv
<1> QED BY <1>1, <1>6, <1>7

\* The row begins with nothing filled, or the order is given up.
LEMMA InsertRowOInv ==
  ASSUME OInv, NEW o \in OrderIds, InsertRow(o)
  PROVE  OInv'
<1>1. /\ pc[o] = "held"
      /\ \/ /\ row' = [row EXCEPT ![o] = [filled |-> 0, status |-> "NEW"]]
            /\ Goto(o, "saved")
            /\ UNCHANGED <<req, book>>
         \/ Goto(o, "failed") /\ NeverMatched(o) /\ UNCHANGED row
      /\ UNCHANGED <<todo, got, money, restarts, settled, halved>>
  BY DEF InsertRow, At
<1>2. /\ CountsOn(o) /\ AgreesOn(o) /\ stage[o] = "new"
      /\ filled[o] \in Nat /\ settled[o] \in Nat /\ got[o] = 0
  BY <1>1, Stages, BookTypes DEF OInv, Agrees, Counts, CountsOn, TypesOK
<1>3. stage \in [OrderIds -> LB!Stages]
  BY BookTypes DEF OInv
<1>4. TypesOK'
  <2>1. pc' \in [OrderIds -> PCs]
    BY <1>1 DEF OInv, TypesOK, Goto, PCs
  <2>2. row' \in [OrderIds -> Rows]
    <3>1. [filled |-> 0, status |-> "NEW"] \in Rows
      BY DEF Rows
    <3> QED BY <1>1, <3>1 DEF OInv, TypesOK
  <2> QED BY <1>1, <2>1, <2>2 DEF OInv, TypesOK
<1>5. MoneyOK'
  BY <1>1 DEF OInv, MoneyOK, money
<1>6. CASE UNCHANGED <<req, book>> /\ Goto(o, "saved")
           /\ row' = [row EXCEPT ![o] = [filled |-> 0, status |-> "NEW"]]
  <2>1. BookInv'
    <3>1. BookStep
      BY <1>6 DEF BookStep, LBP!vars, book
    <3> QED BY <3>1, BookStepKeeps DEF OInv
  <2>2. pc'[o] = "saved" /\ row'[o] = [filled |-> 0, status |-> "NEW"]
    BY <1>6 DEF Goto, OInv, TypesOK
  <2>3. AgreesOn(o)' /\ CountsOn(o)'
    BY <1>1, <1>2, <1>6, <2>2 DEF AgreesOn, CountsOn, StageOf, book, Active
  <2>4. Agrees' /\ Counts' /\ Fits'
    <3>1. OthersStay(o)
      BY <1>1, <1>6 DEF book, OInv, TypesOK, OthersStay
    <3>2. UNCHANGED <<run, req, filled, trades, stage>> /\ pc' = [pc EXCEPT ![o] = "saved"]
      BY <1>6 DEF book, Goto
    <3> QED BY <1>3, <2>3, <3>1, <3>2, Leaves DEF PCs
  <2> QED BY <1>4, <1>5, <2>1, <2>4 DEF OInv
<1>7. CASE Goto(o, "failed") /\ NeverMatched(o) /\ UNCHANGED row
  <2>1. BookInv'
    BY <1>1, <1>7, NeverMatchedBook
  <2>2. pc'[o] = "failed"
    BY <1>7 DEF Goto, OInv, TypesOK
  <2>3. /\ stage' \in [OrderIds -> LB!Stages]
        /\ stage'[o] = "dropped"
        /\ \A q \in OrderIds \ {o} : stage'[q] = stage[q]
    BY <1>7, Dropped DEF NeverMatched
  <2>4. AgreesOn(o)' /\ CountsOn(o)'
    BY <1>1, <1>2, <1>7, <2>2, <2>3 DEF AgreesOn, CountsOn, StageOf, NeverMatched, Active
  <2>5. Agrees' /\ Counts' /\ Fits'
    <3>1. OthersStay(o)
      BY <1>1, <1>7, <2>3 DEF OthersStay
    <3>2. UNCHANGED <<run, req, filled, trades>> /\ pc' = [pc EXCEPT ![o] = "failed"]
      BY <1>7 DEF NeverMatched, Goto
    <3> QED BY <2>3, <2>4, <3>1, <3>2, Leaves DEF PCs
  <2> QED BY <1>4, <1>5, <2>1, <2>5 DEF OInv
<1> QED BY <1>1, <1>6, <1>7

\* A call of MatchOrder begins with no trades.
LEMMA MatchOrderOInv ==
  ASSUME OInv, NEW o \in OrderIds, MatchOrder(o)
  PROVE  OInv'
<1>1. /\ pc[o] = "saved" /\ LB!MatchOrder(o) /\ Goto(o, "matching")
      /\ UNCHANGED <<todo, got, row, money, restarts, settled, halved>>
  BY DEF MatchOrder, At
<1>2. /\ run.pc = "idle"
      /\ run' = [pc |-> "outer", taker |-> o, i |-> 0, n |-> 0]
      /\ stage' = [stage EXCEPT ![o] = "matching"]
      /\ trades' = <<>>
      /\ UNCHANGED <<req, filled>>
  BY <1>1 DEF LB!MatchOrder
<1>3. BookInv'
  BY <1>1, CallsAreSteps, BookStepKeeps DEF OInv
<1>4. TypesOK' /\ MoneyOK'
  BY <1>1 DEF OInv, TypesOK, Goto, PCs, MoneyOK, money
<1>5. /\ pc'[o] = "matching" /\ stage'[o] = "matching"
      /\ \A q \in OrderIds \ {o} : pc'[q] = pc[q] /\ stage'[q] = stage[q]
  BY <1>1, <1>2, BookTypes DEF OInv, TypesOK, Goto
<1>6. ASSUME NEW q \in OrderIds
      PROVE  AgreesOn(q)' /\ CountsOn(q)'
  <2>1. AgreesOn(q) /\ CountsOn(q)
    BY DEF OInv, Agrees, Counts
  <2>2. CASE q = o
    BY <1>1, <1>2, <1>5, <2>1, <2>2 DEF AgreesOn, CountsOn, StageOf, Active
  <2>3. CASE q # o
    BY <1>1, <1>2, <1>5, <2>1, <2>3 DEF AgreesOn, CountsOn, Active
  <2> QED BY <2>2, <2>3
<1>7. Fits'
  <2>1. run'.taker = o /\ filled'[o] \in Int /\ 0 <= filled'[o]
    BY <1>2, BookTypes DEF OInv
  <2>2. Within(trades', 0, filled'[run'.taker])
    BY <1>2, <2>1, WithinNothing
  <2>3. \A q \in OrderIds : pc'[q] \in {"settling", "halfway"} =>
          Within(todo'[q], got'[q], filled'[q])
    BY <1>1, <1>2, <1>5 DEF OInv, Fits
  <2> QED BY <2>2, <2>3 DEF Fits
<1> QED BY <1>3, <1>4, <1>6, <1>7 DEF OInv, Agrees, Counts

\* What is said of rows and handlers stays true when orders are filled.
LEMMA CountsGrow ==
  ASSUME OInv, UNCHANGED <<req, row, got, settled, pc>>,
         \A o \in OrderIds : filled'[o] >= filled[o] /\ filled'[o] \in Nat /\ filled[o] \in Nat
  PROVE  Counts'
<1> SUFFICES ASSUME NEW o \in OrderIds PROVE CountsOn(o)'
  BY DEF Counts
<1>1. CountsOn(o) /\ row[o].filled \in Nat
  BY DEF OInv, Counts, TypesOK, Rows
<1>2. row'[o].filled <= filled'[o]
  BY <1>1 DEF CountsOn
<1> QED BY <1>1, <1>2 DEF CountsOn

LEMMA FitsGrow ==
  ASSUME OInv, UNCHANGED <<todo, got>>,
         \A o \in OrderIds : filled'[o] >= filled[o] /\ filled'[o] \in Nat /\ filled[o] \in Nat,
         NEW o \in OrderIds, pc[o] \in {"settling", "halfway"}
  PROVE  Within(todo'[o], got'[o], filled'[o])
<1>1. /\ Within(todo[o], got[o], filled[o])
      /\ todo[o] \in Seq(Trades) /\ got[o] \in Int
  BY DEF OInv, Fits, TypesOK
<1>2. filled[o] \in Int /\ filled'[o] \in Int /\ filled[o] <= filled'[o]
  OBVIOUS
<1>3. Within(todo[o], got[o], filled'[o])
  BY ONLY <1>1, <1>2, WithinMore
<1> QED BY <1>3

\* Each trade of the running call is in its taker's FilledQty.
LEMMA TradesFit ==
  ASSUME OInv,
         LB!EnterLevel \/ LB!LeaveLevel \/ LB!SkipOrder \/ LB!FillPartly \/ LB!FillMaker
  PROVE  /\ run.pc # "idle" /\ run'.pc # "idle" /\ run'.taker = run.taker
         /\ UNCHANGED <<req, stage>>
         /\ Within(trades', 0, filled'[run'.taker])
         /\ \A o \in OrderIds : filled'[o] >= filled[o]
<1> DEFINE t == run.taker
<1>1. /\ run.pc # "idle" /\ run'.pc # "idle" /\ run'.taker = t
      /\ UNCHANGED <<req, stage>>
  BY BookTypes DEF OInv, LB!EnterLevel, LB!LeaveLevel, LB!SkipOrder, LB!FillPartly,
     LB!FillMaker, LB!FillsMaker, LB!AtOrder
<1>2. Within(trades, 0, filled[t])
  BY <1>1 DEF OInv, Fits
<1>3. CASE LB!EnterLevel \/ LB!LeaveLevel \/ LB!SkipOrder
  BY <1>1, <1>2, <1>3, BookTypes DEF OInv, LB!EnterLevel, LB!LeaveLevel, LB!SkipOrder
<1>4. CASE LB!FillPartly \/ LB!FillMaker
  <2> DEFINE m == LB!Maker
             q == LB!FillQty
             tr == [maker |-> m, price |-> LB!Best.price, qty |-> q]
  <2>1. /\ LBP!AtOrder /\ LBP!Remaining(LBP!Maker) > 0
        /\ filled' = LBP!FillBoth(run.taker, LBP!Maker, LBP!FillQty) /\ req' = req
        /\ filled' = [filled EXCEPT ![t] = @ + q, ![m] = @ + q]
        /\ trades' = Append(trades, tr)
    BY <1>4, SameNames DEF LB!FillPartly, LB!FillMaker, LB!FillsMaker, LB!FillBoth, LBP!FillBoth
  <2>2. LBP!IInv /\ LBP!TypeOK
    BY DEF OInv, BookInv, LBP!IInv
  <2>3. /\ m \in OrderIds /\ t \in OrderIds /\ m # t /\ q \in Nat
        /\ LB!Best.price \in LB!Prices
    <3>1. /\ LBP!Maker \in LBP!OrderIds /\ LBP!Maker # run.taker
          /\ LBP!Best.price \in LBP!Prices
      BY <2>1, <2>2, LBP!AtCell, Assumed
    <3>2. run.taker \in LBP!OrderIds
      BY <1>1, Taker, SameNames
    <3>3. LBP!FillQty \in Nat
      BY <2>1, <2>2, LBP!FillKeepsLimits, Assumed
    <3> QED BY <3>1, <3>2, <3>3, SameNames
  <2>4. tr \in Trades
    BY <2>3 DEF Trades
  <2> HIDE DEF t, m, q, tr
  <2>5. filled'[t] = filled[t] + q /\ filled[t] \in Int /\ trades \in Seq(Trades)
    BY <2>1, <2>3, BookTypes DEF OInv
  <2>6. Within(Append(trades, tr), 0, filled[t] + tr.qty)
    BY <1>2, <2>4, <2>5, WithinAppend
  <2>7. tr.qty = q
    BY DEF tr
  <2>8. \A o \in OrderIds : filled'[o] >= filled[o]
    BY <2>1, <2>2, LBP!FillsGrow, Assumed, SameNames
  <2> QED BY <1>1, <2>1, <2>5, <2>6, <2>7, <2>8 DEF t
<1> QED BY <1>1, <1>3, <1>4

-----------------------------------------------------------------------------
(***************************************************************************)
(* What follows MatchOrder                                                 *)
(***************************************************************************)

\* The turns of MatchOrder change nothing but the book.
LEMMA MatchGoesOnOInv ==
  ASSUME OInv, MatchGoesOn
  PROVE  OInv'
<1>1. /\ LB!EnterLevel \/ LB!LeaveLevel \/ LB!SkipOrder \/ LB!FillPartly \/ LB!FillMaker
      /\ UNCHANGED <<pc, todo, got, row, money, restarts, settled, halved>>
  BY DEF MatchGoesOn
<1>2. BookInv'
  BY <1>1, TurnsAreSteps, BookStepKeeps DEF OInv
<1>3. /\ run.pc # "idle" /\ run'.pc # "idle" /\ run'.taker = run.taker
      /\ UNCHANGED <<req, stage>>
      /\ Within(trades', 0, filled'[run'.taker])
  BY <1>1, TradesFit
<1>0. \A o \in OrderIds : filled'[o] >= filled[o] /\ filled'[o] \in Nat /\ filled[o] \in Nat
  <2>1. filled \in [OrderIds -> Nat] /\ filled' \in [OrderIds -> Nat]
    BY <1>2, BookTypes, SameNames DEF OInv, BookInv, LBP!IInv, LBP!TypeOK
  <2> QED BY <1>1, <2>1, TradesFit
<1>4. TypesOK' /\ MoneyOK'
  BY <1>1 DEF OInv, TypesOK, MoneyOK, money
<1>5. Agrees' /\ Counts'
  BY <1>1, <1>3, <1>0, CountsGrow DEF OInv, Agrees, AgreesOn, Active
<1>6. Fits'
  BY <1>1, <1>3, <1>0, FitsGrow DEF Fits
<1> QED BY <1>2, <1>4, <1>5, <1>6 DEF OInv

\* The handler gets the trades, which fit into what its order asked for.
LEMMA MatchReturnsOInv ==
  ASSUME OInv, MatchReturns
  PROVE  OInv'
<1> DEFINE o == run.taker
<1>1. /\ LB!Return
      /\ pc' = [pc EXCEPT ![o] = "settling"]
      /\ todo' = [todo EXCEPT ![o] = trades]
      /\ UNCHANGED <<got, row, money, restarts, settled, halved>>
  BY DEF MatchReturns, Goto
<1>2. /\ run.pc # "idle" /\ run'.pc = "idle"
      /\ stage' = [stage EXCEPT ![o] = "matched"]
      /\ UNCHANGED <<req, filled, trades>>
  BY <1>1 DEF LB!Return, LB!Idle
<1>3. /\ o \in OrderIds /\ stage[o] = "matching" /\ pc[o] = "matching" /\ got[o] = 0
      /\ Within(trades, 0, filled[o])
  BY <1>2, Taker DEF OInv, Fits
<1>4. \A q \in OrderIds \ {o} : pc[q] # "matching"
  BY DEF OInv, Agrees, AgreesOn
<1> HIDE DEF o
<1>5. BookInv'
  BY <1>1, TurnsAreSteps, BookStepKeeps DEF OInv
<1>6. trades \in Seq(Trades)
  BY BookTypes DEF OInv
<1>7. TypesOK' /\ MoneyOK'
  BY <1>1, <1>6 DEF OInv, TypesOK, PCs, MoneyOK, money
<1>8. /\ pc'[o] = "settling" /\ stage'[o] = "matched" /\ todo'[o] = trades
      /\ \A q \in OrderIds \ {o} : pc'[q] = pc[q] /\ stage'[q] = stage[q] /\ todo'[q] = todo[q]
  BY <1>1, <1>2, <1>3, BookTypes DEF OInv, TypesOK
<1>9. ASSUME NEW q \in OrderIds
      PROVE  AgreesOn(q)' /\ CountsOn(q)'
  <2>1. AgreesOn(q) /\ CountsOn(q)
    BY DEF OInv, Agrees, Counts
  <2>2. CASE q = o
    BY <1>1, <1>2, <1>3, <1>8, <2>1, <2>2 DEF AgreesOn, CountsOn, StageOf, Active
  <2>3. CASE q # o
    BY <1>1, <1>2, <1>4, <1>8, <2>1, <2>3 DEF AgreesOn, CountsOn, Active
  <2> QED BY <2>2, <2>3
<1>10. Fits'
  <2>2. ASSUME NEW q \in OrderIds, pc'[q] \in {"settling", "halfway"}
        PROVE  Within(todo'[q], got'[q], filled'[q])
    <3>1. CASE q = o
      BY <1>1, <1>2, <1>3, <1>8, <3>1
    <3>2. CASE q # o
      BY <1>1, <1>2, <1>8, <2>2, <3>2 DEF OInv, Fits
    <3> QED BY <3>1, <3>2
  <2> QED BY <1>2, <2>2 DEF Fits
<1> QED BY <1>5, <1>7, <1>9, <1>10 DEF OInv, Agrees, Counts

\* A panic loses the trades of the call.
LEMMA MatchPanicsOInv ==
  ASSUME OInv, MatchPanics
  PROVE  OInv'
<1> DEFINE o == run.taker
<1>1. /\ LB!FillPanics
      /\ pc' = [pc EXCEPT ![o] = "failed"]
      /\ UNCHANGED <<todo, got, row, money, restarts, settled, halved>>
  BY DEF MatchPanics, Goto
<1>2. /\ run.pc # "idle" /\ run'.pc = "idle"
      /\ stage' = [stage EXCEPT ![o] = "panicked"]
      /\ UNCHANGED req
  BY <1>1 DEF LB!FillPanics, LB!FillsMaker, LB!AtOrder, LB!Idle
<1>3. o \in OrderIds /\ stage[o] = "matching" /\ pc[o] = "matching" /\ got[o] = 0
  BY <1>2, Taker
<1>4. \A q \in OrderIds \ {o} : pc[q] # "matching"
  BY DEF OInv, Agrees, AgreesOn
<1> HIDE DEF o
<1>5. BookInv'
  BY <1>1, TurnsAreSteps, BookStepKeeps DEF OInv
<1>6. TypesOK' /\ MoneyOK'
  BY <1>1 DEF OInv, TypesOK, PCs, MoneyOK, money
<1>7. /\ pc'[o] = "failed" /\ stage'[o] = "panicked"
      /\ \A q \in OrderIds \ {o} : pc'[q] = pc[q] /\ stage'[q] = stage[q]
  BY <1>1, <1>2, <1>3, BookTypes DEF OInv, TypesOK
<1>0. \A q \in OrderIds : filled'[q] >= filled[q] /\ filled'[q] \in Nat /\ filled[q] \in Nat
  <2>1. /\ LBP!AtOrder /\ LBP!Remaining(LBP!Maker) > 0
        /\ filled' = LBP!FillBoth(run.taker, LBP!Maker, LBP!FillQty) /\ req' = req
    BY <1>1, SameNames DEF LB!FillPanics, LB!FillsMaker, LB!FillBoth, LBP!FillBoth
  <2>2. LBP!IInv
    BY DEF OInv, BookInv
  <2>3. \A q \in OrderIds : filled'[q] >= filled[q]
    BY <2>1, <2>2, LBP!FillsGrow, Assumed, SameNames
  <2>4. filled \in [OrderIds -> Nat] /\ filled' \in [OrderIds -> Nat]
    BY <1>5, BookTypes, SameNames DEF OInv, BookInv, LBP!IInv, LBP!TypeOK
  <2> QED BY <2>3, <2>4
<1>8. ASSUME NEW q \in OrderIds
      PROVE  AgreesOn(q)' /\ CountsOn(q)'
  <2>1. AgreesOn(q) /\ CountsOn(q) /\ row[q].filled \in Nat
    BY DEF OInv, Agrees, Counts, TypesOK, Rows
  <2>4. row[q].filled <= filled'[q]
    BY <1>0, <2>1 DEF CountsOn
  <2>2. CASE q = o
    BY <1>1, <1>2, <1>3, <1>7, <2>1, <2>2, <2>4 DEF AgreesOn, CountsOn, StageOf, Active
  <2>3. CASE q # o
    BY <1>1, <1>2, <1>4, <1>7, <2>1, <2>3, <2>4 DEF AgreesOn, CountsOn, Active
  <2> QED BY <2>2, <2>3
<1>9. Fits'
  <2>1. ASSUME NEW q \in OrderIds, pc'[q] \in {"settling", "halfway"}
        PROVE  Within(todo'[q], got'[q], filled'[q])
    <3>1. q # o /\ pc[q] \in {"settling", "halfway"}
      BY <1>7, <2>1
    <3> QED BY <1>1, <1>0, <3>1, FitsGrow
  <2> QED BY <1>2, <2>1 DEF Fits
<1> QED BY <1>5, <1>6, <1>8, <1>9 DEF OInv, Agrees, Counts

\* What the trade at the head of a handler's list says.
LEMMA HeadOf ==
  ASSUME OInv, NEW o \in OrderIds, todo[o] # <<>>
  PROVE  /\ todo[o] \in Seq(Trades)
         /\ Head(todo[o]) \in Trades
         /\ Head(todo[o]).maker \in OrderIds
         /\ Head(todo[o]).qty \in Nat
         /\ Head(todo[o]).price \in Int
         /\ Tail(todo[o]) \in Seq(Trades)
<1>1. todo[o] \in Seq(Trades)
  BY DEF OInv, TypesOK
<1>2. Head(todo[o]) \in Trades /\ Tail(todo[o]) \in Seq(Trades)
  BY <1>1, HeadTailProperties
<1>3. LB!Prices \subseteq Int
  BY RequestsAssumption DEF LB!Prices
<1> QED BY <1>1, <1>2, <1>3 DEF Trades

\* Both legs of a trade name accounts that exist.
LEMMA LegFields ==
  ASSUME OInv, NEW o \in OrderIds, todo[o] # <<>>, NEW i \in {1, 2}
  PROVE  LET l == Legs(o, Head(todo[o]))[i]
         IN /\ l.from \in Users /\ l.to \in Users
            /\ l.currency \in Currencies /\ l.amount \in Int
<1> DEFINE t == Head(todo[o])
           taker == Owner[o]
           maker == Owner[t.maker]
           buys == req[o].side = "BUY"
           usd == [from |-> IF buys THEN taker ELSE maker, to |-> IF buys THEN maker ELSE taker,
                   currency |-> "USD", amount |-> t.price * t.qty]
           base == [from |-> usd.to, to |-> usd.from, currency |-> "BTC", amount |-> t.qty]
           Fields == [from : Users, to : Users, currency : Currencies, amount : Int]
<1>1. taker \in Users /\ maker \in Users /\ t.qty \in Int /\ t.price \in Int
  BY HeadOf, OrdersAssumption
<1>2. t.price * t.qty \in Int
  BY <1>1
<1>3. usd \in Fields
  BY <1>1, <1>2 DEF Currencies
<1>4. base \in Fields
  BY <1>1, <1>3 DEF Currencies
<1>5. Legs(o, t) = IF buys THEN <<usd, base>> ELSE <<base, usd>>
  BY DEF Legs
<1> HIDE DEF usd, base, buys
<1>6. Legs(o, t)[i] \in Fields
  BY <1>3, <1>4, <1>5
<1> HIDE DEF t
<1>7. \A l \in Fields : /\ l.from \in Users /\ l.to \in Users
                        /\ l.currency \in Currencies /\ l.amount \in Int
  OBVIOUS
<1> QED BY <1>6, <1>7 DEF t

\* A transfer that can be paid leaves no balance negative.
LEMMA TransferKeepsTypes ==
  ASSUME MoneyOK, NEW l, l.from \in Users, l.to \in Users, l.currency \in Currencies,
         l.amount \in Int, CanPay(l), Transfer(l), UNCHANGED held
  PROVE  MoneyOK'
<1> DEFINE f == l.from
           t == l.to
           c == l.currency
           a == l.amount
<1>1. /\ f \in Users /\ t \in Users /\ c \in Currencies /\ a \in Nat
      /\ available[f][c] >= a
      /\ available \in [Users -> [Currencies -> Nat]]
  BY DEF MoneyOK, CanPay
<1>2. available' = IF f = t THEN [available EXCEPT ![t][c] = @ + a]
                   ELSE [available EXCEPT ![f][c] = @ - a, ![t][c] = @ + a]
  BY DEF Transfer
<1> HIDE DEF f, t, c, a
<1>3. CASE f = t
  <2>1. available[t][c] + a \in Nat
    BY <1>1
  <2> QED BY <1>1, <1>2, <1>3, <2>1 DEF MoneyOK
<1>4. CASE f # t
  <2> DEFINE av == [available EXCEPT ![f][c] = @ - a]
  <2>1. available[f][c] - a \in Nat
    BY <1>1
  <2>2. av \in [Users -> [Currencies -> Nat]]
    BY <1>1, <2>1
  <2>3. available' = [av EXCEPT ![t][c] = @ + a]
    BY <1>2, <1>4
  <2> HIDE DEF av
  <2>4. av[t][c] + a \in Nat
    BY <1>1, <2>2
  <2>5. available' \in [Users -> [Currencies -> Nat]]
    BY <1>1, <2>2, <2>3, <2>4
  <2> QED BY <2>5 DEF MoneyOK
<1> QED BY <1>3, <1>4

\* The first leg is paid, or the trade skipped.
LEMMA FirstLegOInv ==
  ASSUME OInv, NEW o \in OrderIds, FirstLeg(o)
  PROVE  OInv'
<1> DEFINE l == Legs(o, Head(todo[o]))[1]
<1>1. /\ pc[o] = "settling" /\ todo[o] # <<>>
      /\ \/ CanPay(l) /\ Transfer(l) /\ Goto(o, "halfway") /\ UNCHANGED todo
         \/ NextTrade(o) /\ UNCHANGED <<available, pc>>
      /\ UNCHANGED <<req, book, got, row, held, restarts, settled, halved>>
  BY DEF FirstLeg, At
<1>2. /\ l.from \in Users /\ l.to \in Users /\ l.currency \in Currencies /\ l.amount \in Int
  BY <1>1, LegFields
<1> HIDE DEF l
<1>3. /\ CountsOn(o) /\ AgreesOn(o) /\ stage[o] = "matched"
      /\ Within(todo[o], got[o], filled[o])
      /\ got[o] \in Int /\ filled[o] \in Int
  <2>1. CountsOn(o) /\ AgreesOn(o) /\ Within(todo[o], got[o], filled[o])
    BY <1>1 DEF OInv, Agrees, Counts, Fits
  <2>2. stage[o] = "matched"
    BY <1>1, <2>1 DEF AgreesOn, StageOf
  <2>3. got[o] \in Int /\ filled[o] \in Int
    BY BookTypes DEF OInv, TypesOK
  <2> QED BY <2>1, <2>2, <2>3
<1>4. todo[o] \in Seq(Trades) /\ Tail(todo[o]) \in Seq(Trades) /\ Head(todo[o]).qty \in Nat
  BY <1>1, HeadOf
<1>5. stage' = stage /\ stage \in [OrderIds -> LB!Stages] /\ UNCHANGED <<run, req, filled, trades>>
  BY <1>1, BookTypes DEF OInv, book
<1>6. BookInv'
  <2>1. BookStep
    BY <1>1 DEF BookStep, LBP!vars, book
  <2> QED BY <2>1, BookStepKeeps DEF OInv
<1>7. CASE CanPay(l) /\ Transfer(l) /\ Goto(o, "halfway") /\ UNCHANGED todo
  <2>1. MoneyOK'
    BY <1>1, <1>2, <1>7, TransferKeepsTypes DEF OInv
  <2>2. TypesOK'
    BY <1>1, <1>7 DEF OInv, TypesOK, Goto, PCs
  <2>3. pc'[o] = "halfway"
    BY <1>7 DEF Goto, OInv, TypesOK
  <2>4. AgreesOn(o)' /\ CountsOn(o)'
    BY <1>1, <1>3, <1>5, <1>7, <2>3 DEF AgreesOn, CountsOn, StageOf, Active
  <2>5. Agrees' /\ Counts' /\ Fits'
    <3>1. OthersStay(o)
      BY <1>1, <1>5, <1>7 DEF OthersStay
    <3>2. Within(todo'[o], got'[o], filled[o])
      BY <1>1, <1>3, <1>7
    <3>3. "halfway" \in PCs /\ pc' = [pc EXCEPT ![o] = "halfway"]
      BY <1>7 DEF PCs, Goto
    <3> QED BY <1>5, <2>4, <3>1, <3>2, <3>3, Leaves
  <2> QED BY <1>6, <2>1, <2>2, <2>5 DEF OInv
<1>8. CASE NextTrade(o) /\ UNCHANGED <<available, pc>>
  <2>1. MoneyOK'
    BY <1>1, <1>8 DEF OInv, MoneyOK
  <2>2. TypesOK' /\ todo'[o] = Tail(todo[o])
    BY <1>1, <1>4, <1>8 DEF OInv, TypesOK, NextTrade
  <2>3. AgreesOn(o)' /\ CountsOn(o)'
    BY <1>1, <1>3, <1>5, <1>8 DEF AgreesOn, CountsOn, StageOf, Active
  <2>4. Agrees' /\ Counts' /\ Fits'
    <3>1. OthersStay(o)
      BY <1>1, <1>5, <1>8 DEF NextTrade, OInv, TypesOK, OthersStay
    <3>2. Within(todo'[o], got'[o], filled[o])
      BY <1>1, <1>3, <1>4, <2>2, WithinTail
    <3>3. pc' = [pc EXCEPT ![o] = "settling"] /\ "settling" \in PCs
      BY <1>1, <1>8 DEF OInv, TypesOK, PCs
    <3> QED BY <1>5, <2>3, <3>1, <3>2, <3>3, Leaves
  <2> QED BY <1>6, <2>1, <2>2, <2>4 DEF OInv
<1> QED BY <1>1, <1>7, <1>8

\* What counts as filled has been exchanged.
LEMMA SecondLegOInv ==
  ASSUME OInv, NEW o \in OrderIds, SecondLeg(o)
  PROVE  OInv'
<1> DEFINE t == Head(todo[o])
           l == Legs(o, t)[2]
<1>0. pc[o] = "halfway" /\ CountsOn(o) /\ AgreesOn(o)
  BY DEF SecondLeg, At, OInv, Agrees, Counts
<1>1. todo[o] # <<>> /\ stage[o] = "matched" /\ Within(todo[o], got[o], filled[o])
  BY <1>0 DEF AgreesOn, StageOf, OInv, Fits
<1>2. /\ NextTrade(o) /\ Goto(o, "settling")
      /\ \/ /\ CanPay(l) /\ Transfer(l)
            /\ settled' = [settled EXCEPT ![o] = @ + t.qty]
            /\ got' = [got EXCEPT ![o] = @ + t.qty] \/ UNCHANGED got
            /\ UNCHANGED halved
         \/ /\ halved' = halved \cup {o}
            /\ UNCHANGED <<available, settled, got>>
      /\ UNCHANGED <<req, book, row, held, restarts>>
  BY DEF SecondLeg
<1>3. /\ l.from \in Users /\ l.to \in Users /\ l.currency \in Currencies /\ l.amount \in Int
  BY <1>1, LegFields
<1>4. todo[o] \in Seq(Trades) /\ Tail(todo[o]) \in Seq(Trades) /\ t.qty \in Nat
  BY <1>1, HeadOf
<1>5. Within(Tail(todo[o]), got[o] + t.qty, filled[o]) /\ Within(Tail(todo[o]), got[o], filled[o])
  <2>1. got[o] \in Int /\ filled[o] \in Int
    BY BookTypes DEF OInv, TypesOK
  <2> QED BY <1>1, <1>4, <2>1, WithinTail
<1> HIDE DEF l, t
<1>6. stage' = stage /\ stage \in [OrderIds -> LB!Stages] /\ UNCHANGED <<run, req, filled, trades>>
  BY <1>2, BookTypes DEF OInv, book
<1>7. BookInv'
  <2>1. BookStep
    BY <1>2 DEF BookStep, LBP!vars, book
  <2> QED BY <2>1, BookStepKeeps DEF OInv
<1>8. MoneyOK'
  <2>1. CASE CanPay(l) /\ Transfer(l)
    BY <1>2, <1>3, <2>1, TransferKeepsTypes DEF OInv
  <2>2. CASE UNCHANGED available
    BY <1>2, <2>2 DEF OInv, MoneyOK
  <2> QED BY <1>2, <2>1, <2>2
<1>9. /\ pc' = [pc EXCEPT ![o] = "settling"] /\ todo' = [todo EXCEPT ![o] = Tail(@)]
      /\ pc'[o] = "settling" /\ todo'[o] = Tail(todo[o])
      /\ pc' \in [OrderIds -> PCs] /\ todo' \in [OrderIds -> Seq(Trades)]
  BY <1>2, <1>4 DEF Goto, NextTrade, OInv, TypesOK, PCs
<1>10. /\ got' \in [OrderIds -> Nat] /\ settled' \in [OrderIds -> Nat]
       /\ got'[o] \in {got[o], got[o] + t.qty}
       /\ settled'[o] \in {settled[o], settled[o] + t.qty}
       /\ got'[o] - got[o] <= settled'[o] - settled[o]
       /\ \A q \in OrderIds \ {o} : got'[q] = got[q] /\ settled'[q] = settled[q]
       /\ got[o] \in Nat /\ settled[o] \in Nat /\ row[o].filled \in Nat
  <2>1. /\ got \in [OrderIds -> Nat] /\ settled \in [OrderIds -> Nat]
        /\ got[o] + t.qty \in Nat /\ settled[o] + t.qty \in Nat
        /\ row[o].filled \in Nat
    BY <1>4 DEF OInv, TypesOK, Rows
  <2>2. CASE /\ settled' = [settled EXCEPT ![o] = @ + t.qty]
             /\ got' = [got EXCEPT ![o] = @ + t.qty]
    BY <1>4, <2>1, <2>2
  <2>3. CASE settled' = [settled EXCEPT ![o] = @ + t.qty] /\ got' = got
    BY <1>4, <2>1, <2>3
  <2>4. CASE settled' = settled /\ got' = got
    BY <2>1, <2>4
  <2> QED BY <1>2, <2>2, <2>3, <2>4
<1>11. TypesOK'
  BY <1>2, <1>9, <1>10 DEF OInv, TypesOK
<1>12. AgreesOn(o)' /\ CountsOn(o)'
  <2>1. row'[o] = row[o] /\ filled'[o] = filled[o]
    BY <1>2, <1>6
  <2>2. got'[o] <= settled'[o] /\ row[o].filled <= settled'[o]
    <3>1. got[o] <= settled[o] /\ row[o].filled <= settled[o]
      BY <1>0 DEF CountsOn
    <3>2. got'[o] - got[o] <= settled'[o] - settled[o] /\ settled[o] <= settled'[o]
      BY <1>4, <1>10
    <3>3. /\ got[o] \in Int /\ settled[o] \in Int /\ row[o].filled \in Int
          /\ got'[o] \in Int /\ settled'[o] \in Int
      BY <1>10
    <3> QED BY ONLY <3>1, <3>2, <3>3
  <2> QED BY <1>0, <1>1, <1>6, <1>9, <2>1, <2>2 DEF AgreesOn, CountsOn, StageOf, Active
<1>13. Agrees' /\ Counts' /\ Fits'
  <2>1. OthersStay(o)
    BY <1>2, <1>6, <1>9, <1>10 DEF OInv, TypesOK, OthersStay
  <2>2. Within(todo'[o], got'[o], filled[o])
    BY <1>5, <1>9, <1>10
  <2>3. "settling" \in PCs
    BY DEF PCs
  <2> QED BY <1>6, <1>9, <1>12, <2>1, <2>2, <2>3, Leaves
<1> QED BY <1>7, <1>8, <1>11, <1>13 DEF OInv

\* The row gets what the trades that counted come to.
LEMMA UpdateRowOInv ==
  ASSUME OInv, NEW o \in OrderIds, UpdateRow(o)
  PROVE  OInv'
<1> DEFINE new == [filled |-> got[o], status |-> StatusOf(o)]
<1>1. /\ pc[o] = "settling" /\ todo[o] = <<>>
      /\ \/ row' = [row EXCEPT ![o] = new] /\ Goto(o, "updated") /\ UNCHANGED <<req, book>>
         \/ Goto(o, "failed") /\ LB!Drop(o) /\ UNCHANGED row
      /\ UNCHANGED <<todo, got, money, restarts, settled, halved>>
  BY DEF UpdateRow, At
<1>2. /\ CountsOn(o) /\ AgreesOn(o) /\ stage[o] = "matched"
      /\ Within(todo[o], got[o], filled[o])
  <2>1. CountsOn(o) /\ AgreesOn(o) /\ Within(todo[o], got[o], filled[o])
    BY <1>1 DEF OInv, Agrees, Counts, Fits
  <2> QED BY <1>1, <2>1 DEF AgreesOn, StageOf
<1>3. got[o] \in Nat /\ filled[o] \in Nat /\ settled[o] \in Nat
  BY BookTypes DEF OInv, TypesOK
<1>4. got[o] <= filled[o]
  BY <1>1, <1>2, <1>3, WithinNothing
<1>5. new \in Rows /\ new.status # "none" /\ new.filled = got[o]
  BY <1>3 DEF StatusOf, Rows
<1> HIDE DEF new
<1>6. MoneyOK'
  BY <1>1 DEF OInv, MoneyOK, money
<1>7. TypesOK'
  <2>1. pc' \in [OrderIds -> PCs]
    BY <1>1 DEF OInv, TypesOK, Goto, PCs
  <2>2. row' \in [OrderIds -> Rows]
    BY <1>1, <1>5 DEF OInv, TypesOK
  <2> QED BY <1>1, <2>1, <2>2 DEF OInv, TypesOK
<1>8. CASE row' = [row EXCEPT ![o] = new] /\ Goto(o, "updated") /\ UNCHANGED <<req, book>>
  <2>1. BookInv'
    <3>1. BookStep
      BY <1>8 DEF BookStep, LBP!vars, book
    <3> QED BY <3>1, BookStepKeeps DEF OInv
  <2>2. pc'[o] = "updated" /\ row'[o] = new /\ UNCHANGED <<stage, run, req, filled, trades>>
    BY <1>8 DEF Goto, OInv, TypesOK, book
  <2>3. AgreesOn(o)'
    BY <1>2, <2>2 DEF AgreesOn, StageOf
  <2>4. CountsOn(o)'
    BY <1>1, <1>2, <1>3, <1>4, <1>5, <2>2 DEF CountsOn
  <2>5. Agrees' /\ Counts' /\ Fits'
    <3>1. OthersStay(o)
      BY <1>1, <1>8, <2>2 DEF OInv, TypesOK, OthersStay
    <3>2. pc' = [pc EXCEPT ![o] = "updated"] /\ "updated" \in PCs
      BY <1>8 DEF Goto, PCs
    <3>3. stage' \in [OrderIds -> LB!Stages]
      BY <2>2, BookTypes DEF OInv
    <3> QED BY <2>2, <2>3, <2>4, <3>1, <3>2, <3>3, Leaves
  <2> QED BY <1>6, <1>7, <2>1, <2>5 DEF OInv
<1>9. CASE Goto(o, "failed") /\ LB!Drop(o) /\ UNCHANGED row
  <2>1. BookInv'
    BY <1>9, CallsAreSteps, BookStepKeeps DEF OInv
  <2>2. stage' = [stage EXCEPT ![o] = "dropped"] /\ UNCHANGED <<run, req, filled, trades>>
    BY <1>9 DEF LB!Drop
  <2>3. /\ stage' \in [OrderIds -> LB!Stages] /\ stage'[o] = "dropped"
        /\ \A q \in OrderIds \ {o} : stage'[q] = stage[q]
    BY <2>2, Dropped
  <2>4. pc'[o] = "failed" /\ pc' = [pc EXCEPT ![o] = "failed"] /\ "failed" \in PCs
    BY <1>9 DEF Goto, OInv, TypesOK, PCs
  <2>5. AgreesOn(o)' /\ CountsOn(o)'
    BY <1>1, <1>2, <1>9, <2>2, <2>3, <2>4 DEF AgreesOn, CountsOn, StageOf
  <2>6. Agrees' /\ Counts' /\ Fits'
    <3>1. OthersStay(o)
      BY <1>1, <1>9, <2>3 DEF OthersStay
    <3> QED BY <2>2, <2>3, <2>4, <2>5, <3>1, Leaves
  <2> QED BY <1>6, <1>7, <2>1, <2>6 DEF OInv
<1> QED BY <1>1, <1>8, <1>9

\* The order rests, or is dropped because its row is filled.
LEMMA AddOrderOInv ==
  ASSUME OInv, NEW o \in OrderIds, AddOrder(o)
  PROVE  OInv'
<1>1. /\ pc[o] = "updated"
      /\ \/ /\ Active(o) /\ LB!AddOrder(o)
            /\ Goto(o, IF req[o].price = NoPrice THEN "failed" ELSE "answered")
         \/ LB!Drop(o) /\ Goto(o, "answered")
      /\ UNCHANGED <<todo, got, row, money, restarts, settled, halved>>
  BY DEF AddOrder, At
<1> DEFINE to == pc'[o]
<1>2. /\ to \in {"failed", "answered"} /\ pc' = [pc EXCEPT ![o] = to]
  BY <1>1 DEF Goto, OInv, TypesOK
<1>3. stage'[o] \in StageOf(to) /\ (stage'[o] = "resting" => Active(o))
      /\ stage' \in [OrderIds -> LB!Stages] /\ UNCHANGED <<run, req, filled, trades>>
      /\ \A q \in OrderIds \ {o} : stage'[q] = stage[q]
  <2>1. CASE Active(o) /\ LB!AddOrder(o)
             /\ Goto(o, IF req[o].price = NoPrice THEN "failed" ELSE "answered")
    <3>1. stage' = [stage EXCEPT ![o] = IF req[o].price = NoPrice THEN "panicked" ELSE "resting"]
          /\ stage' \in [OrderIds -> LB!Stages] /\ UNCHANGED <<run, req, filled, trades>>
      BY <2>1, Added
    <3>2. to = IF req[o].price = NoPrice THEN "failed" ELSE "answered"
      BY <2>1 DEF Goto, OInv, TypesOK
    <3>3. stage \in [OrderIds -> LB!Stages]
      BY BookTypes DEF OInv
    <3>4. stage'[o] = (IF req[o].price = NoPrice THEN "panicked" ELSE "resting")
          /\ \A q \in OrderIds \ {o} : stage'[q] = stage[q]
      BY <3>1, <3>3
    <3> HIDE DEF to
    <3> QED BY <2>1, <3>1, <3>2, <3>4 DEF StageOf
  <2>2. CASE LB!Drop(o) /\ Goto(o, "answered")
    <3>1. stage' = [stage EXCEPT ![o] = "dropped"] /\ UNCHANGED <<run, req, filled, trades>>
      BY <2>2 DEF LB!Drop
    <3>2. to = "answered"
      BY <2>2 DEF Goto, OInv, TypesOK
    <3> HIDE DEF to
    <3> QED BY <3>1, <3>2, Dropped DEF StageOf
  <2> QED BY <1>1, <2>1, <2>2
<1> HIDE DEF to
<1>4. CountsOn(o) /\ AgreesOn(o)
  BY DEF OInv, Agrees, Counts
<1>5. pc'[o] = to
  BY DEF to
<1>6. AgreesOn(o)' /\ CountsOn(o)'
  BY <1>1, <1>2, <1>3, <1>4, <1>5 DEF AgreesOn, CountsOn, Active
<1>7. BookInv'
  BY <1>1, CallsAreSteps, BookStepKeeps DEF OInv
<1>8. TypesOK' /\ MoneyOK'
  BY <1>1, <1>2 DEF OInv, TypesOK, PCs, MoneyOK, money
<1>9. Agrees' /\ Counts' /\ Fits'
  <2>1. OthersStay(o)
    BY <1>1, <1>3 DEF OthersStay
  <2>2. to \in PCs
    BY <1>2 DEF PCs
  <2> QED BY <1>2, <1>3, <1>6, <2>1, <2>2, Leaves
<1> QED BY <1>7, <1>8, <1>9 DEF OInv

\* A row that is loaded rests again.
LEMMA LoadOInv ==
  ASSUME OInv, NEW o \in OrderIds, Load(o)
  PROVE  OInv'
<1>1. /\ pc[o] = "loading" /\ LB!AddOrder(o)
      /\ IF req[o].price = NoPrice THEN UNCHANGED pc ELSE Goto(o, "loaded")
      /\ UNCHANGED <<todo, got, row, money, restarts, settled, halved>>
  BY DEF Load
<1> DEFINE to == pc'[o]
<1>2. /\ to = IF req[o].price = NoPrice THEN "loading" ELSE "loaded"
      /\ pc' = [pc EXCEPT ![o] = to]
  BY <1>1 DEF Goto, OInv, TypesOK
<1>3. pc'[o] = to
  BY DEF to
<1> HIDE DEF to
<1>4. CountsOn(o) /\ AgreesOn(o)
  BY DEF OInv, Agrees, Counts
<1>5. stage' = [stage EXCEPT ![o] = IF req[o].price = NoPrice THEN "panicked" ELSE "resting"]
      /\ stage' \in [OrderIds -> LB!Stages] /\ UNCHANGED <<run, req, filled, trades>>
  BY <1>1, Added
<1>6. stage'[o] = (IF req[o].price = NoPrice THEN "panicked" ELSE "resting")
      /\ \A q \in OrderIds \ {o} : stage'[q] = stage[q]
  <2>1. stage \in [OrderIds -> LB!Stages]
    BY BookTypes DEF OInv
  <2> QED BY <1>5, <2>1
<1>7. AgreesOn(o)' /\ CountsOn(o)'
  BY <1>1, <1>2, <1>3, <1>4, <1>5, <1>6 DEF AgreesOn, CountsOn, StageOf, Active
<1>8. BookInv'
  BY <1>1, CallsAreSteps, BookStepKeeps DEF OInv
<1>9. to \in PCs /\ to \notin {"settling", "halfway"}
  BY <1>2 DEF PCs
<1>10. TypesOK' /\ MoneyOK'
  BY <1>1, <1>2, <1>9 DEF OInv, TypesOK, MoneyOK, money
<1>11. Agrees' /\ Counts' /\ Fits'
  <2>1. OthersStay(o)
    BY <1>1, <1>6 DEF OthersStay
  <2> QED BY <1>2, <1>5, <1>7, <1>9, <2>1, Leaves
<1> QED BY <1>8, <1>10, <1>11 DEF OInv

\* A process that starts again finds the rows, and nothing else, as they were.
LEMMA RestartOInv ==
  ASSUME OInv, NEW found, found \subseteq {o \in OrderIds : Active(o)}, RestartWith(found)
  PROVE  OInv'
<1>1. /\ restarts < MaxRestarts
      /\ restarts' = restarts + 1
      /\ pc' = [o \in OrderIds |->
           IF o \in found THEN "loading"
           ELSE IF pc[o] \in {"new", "refused", "failed", "answered"} THEN pc[o] ELSE "failed"]
      /\ stage' = [o \in OrderIds |->
           IF o \in found THEN "matched" ELSE IF pc[o] = "new" THEN "new" ELSE "dropped"]
      /\ filled' = [o \in OrderIds |-> row[o].filled]
      /\ status' = [o \in OrderIds |-> IF row[o] = NoRow THEN "NEW" ELSE row[o].status]
      /\ level' = [s \in LB!Sides |-> <<>>]
      /\ levels' = [s \in LB!Sides |-> [p \in LB!Prices |-> 0]]
      /\ root' = [s \in LB!Sides |-> 0]
      /\ run' = LB!Idle
      /\ trades' = <<>>
      /\ todo' = [o \in OrderIds |-> <<>>]
      /\ got' = [o \in OrderIds |-> 0]
      /\ halved' = halved \cup {o \in OrderIds : pc[o] = "halfway"}
      /\ UNCHANGED <<req, row, money, settled>>
  BY DEF RestartWith
<1>2. \A o \in OrderIds : CountsOn(o) /\ AgreesOn(o) /\ pc[o] \in PCs /\ row[o] \in Rows
                          /\ settled[o] \in Nat
  BY DEF OInv, Agrees, Counts, TypesOK
<1>3. \A o \in OrderIds : (IF row[o] = NoRow THEN "NEW" ELSE row[o].status)
                            \in {"NEW", "PARTIALLY_FILLED", "FILLED"}
  BY <1>2 DEF CountsOn, Rows
<1>4. BookInv'
  <2>1. filled' \in [OrderIds -> Nat] /\ \A o \in OrderIds : filled'[o] <= req[o].qty
    <3>1. \A o \in OrderIds : /\ row[o].filled \in Nat /\ row[o].filled <= filled[o]
                               /\ filled[o] \in Nat /\ filled[o] <= req[o].qty
                               /\ req[o].qty \in Nat
      BY <1>2, BookTypes, RequestOf DEF OInv, Rows, CountsOn
    <3> QED BY <1>1, <3>1
  <2>2. status' \in [OrderIds -> {"NEW", "PARTIALLY_FILLED", "FILLED"}]
    BY <1>1, <1>3
  <2>3. stage' \in [OrderIds -> LB!Stages] /\ \A o \in OrderIds : stage'[o] # "resting"
    BY <1>1 DEF LB!Stages
  <2>4. LBP!IInv /\ req' = req /\ trades' = <<>> /\ run' = LBP!Idle
        /\ level' = [s \in LBP!Sides |-> <<>>]
        /\ levels' = [s \in LBP!Sides |-> [p \in LBP!Prices |-> 0]]
        /\ root' = [s \in LBP!Sides |-> 0]
    BY <1>1, SameNames DEF OInv, BookInv
  <2>5. LBP!OrderIds = OrderIds /\ LBP!Stages = LB!Stages
    BY SameNames
  <2>6. LBP!IInv' /\ LBP!BookInv'
    BY <2>1, <2>2, <2>3, <2>4, <2>5, LBP!EmptyBook, Assumed
  <2> QED BY <2>6 DEF BookInv
<1>5. TypesOK'
  <2>1. pc' \in [OrderIds -> PCs]
    BY <1>1, <1>2 DEF PCs
  <2>2. todo' \in [OrderIds -> Seq(Trades)] /\ got' \in [OrderIds -> Nat]
    BY <1>1
  <2>3. restarts' \in 0..MaxRestarts
    BY <1>1, OrdersAssumption DEF OInv, TypesOK
  <2> QED BY <1>1, <2>1, <2>2, <2>3 DEF OInv, TypesOK
<1>6. MoneyOK'
  BY <1>1 DEF OInv, MoneyOK, money
<1>7. ASSUME NEW o \in OrderIds
      PROVE  AgreesOn(o)' /\ CountsOn(o)'
  <2>0. row'[o].filled <= filled'[o]
    BY <1>1, <1>2 DEF Rows
  <2>1. CASE o \in found
    <3>1. pc'[o] = "loading" /\ stage'[o] = "matched" /\ Active(o)' /\ got'[o] = 0
      BY <1>1, <2>1 DEF Active
    <3> QED BY <1>1, <1>2, <2>0, <3>1 DEF AgreesOn, CountsOn, StageOf
  <2>2. CASE o \notin found
    <3>1. /\ pc'[o] = IF pc[o] \in {"new", "refused", "failed", "answered"} THEN pc[o] ELSE "failed"
          /\ stage'[o] = IF pc[o] = "new" THEN "new" ELSE "dropped"
          /\ got'[o] = 0
      BY <1>1, <2>2
    <3>2. (pc'[o] = "new" /\ stage'[o] = "new") \/ (pc'[o] # "new" /\ stage'[o] = "dropped")
      BY <3>1
    <3>3. pc'[o] \in {"new", "refused", "failed", "answered"} /\ (pc'[o] = "failed" \/ pc'[o] = pc[o])
      BY <3>1
    <3>4. AgreesOn(o)'
      BY <3>2, <3>3 DEF AgreesOn, StageOf
    <3>5. CountsOn(o)'
      BY <1>1, <1>2, <2>0, <3>1, <3>3 DEF CountsOn
    <3> QED BY <3>4, <3>5
  <2> QED BY <2>1, <2>2
<1>8. Fits'
  <2>1. run'.pc = "idle"
    BY <1>1 DEF LB!Idle
  <2>2. \A o \in OrderIds : pc'[o] \notin {"settling", "halfway"}
    BY <1>1
  <2> QED BY <2>1, <2>2 DEF Fits
<1> QED BY <1>4, <1>5, <1>6, <1>7, <1>8 DEF OInv, Agrees, Counts

-----------------------------------------------------------------------------

LEMMA NextOInv ==
  ASSUME OInv, [Next]_vars
  PROVE  OInv'
<1>1. CASE UNCHANGED vars
  <2>1. UNCHANGED <<req, book, pc, todo, got, row, money, restarts, settled, halved>>
    BY <1>1 DEF vars
  <2>2. BookInv'
    <3>1. BookStep
      BY <2>1 DEF BookStep, LBP!vars, book
    <3> QED BY <3>1, BookStepKeeps DEF OInv
  <2>3. UNCHANGED <<req, stage, run, trades, filled>>
    BY <2>1 DEF book
  <2>4. TypesOK' /\ MoneyOK' /\ Fits'
    BY <2>1, <2>3 DEF OInv, TypesOK, MoneyOK, money, Fits
  <2>5. Agrees' /\ Counts'
    BY <2>1, <2>3 DEF OInv, Agrees, AgreesOn, Counts, CountsOn, Active
  <2> QED BY <2>2, <2>4, <2>5 DEF OInv
<1>2. ASSUME NEW o \in OrderIds,
             HoldFunds(o) \/ InsertRow(o) \/ MatchOrder(o) \/ Finish(o) \/ Load(o)
      PROVE  OInv'
  BY <1>2, HoldFundsOInv, InsertRowOInv, MatchOrderOInv, FirstLegOInv, SecondLegOInv,
     UpdateRowOInv, AddOrderOInv, LoadOInv DEF Finish
<1>3. CASE MatchStep
  BY <1>3, MatchGoesOnOInv, MatchReturnsOInv, MatchPanicsOInv DEF MatchStep
<1>4. CASE Restart
  BY <1>4, RestartOInv DEF Restart
<1> QED BY <1>1, <1>2, <1>3, <1>4 DEF Next

LEMMA InitOInv == Init => OInv
<1> SUFFICES ASSUME Init PROVE OInv
  OBVIOUS
<1>1. LBP!Init
  BY SameNames DEF Init, LB!Init, LBP!Init
<1>2. BookInv
  BY <1>1, LBP!InitIInv, LBP!InitKeeps, Assumed DEF BookInv
<1>3. req \in [OrderIds -> Requests] /\ \A o \in OrderIds : stage[o] = "new" /\ filled[o] = 0
  BY <1>1, SameNames DEF LBP!Init
<1>4. TypesOK
  <2>1. row \in [OrderIds -> Rows]
    BY DEF Init, NoRow, Rows
  <2> QED BY <2>1, OrdersAssumption DEF Init, TypesOK, PCs
<1>5. MoneyOK
  BY OrdersAssumption DEF Init, MoneyOK
<1>6. Agrees /\ Counts
  BY <1>3 DEF Init, Agrees, AgreesOn, StageOf, Counts, CountsOn, NoRow, Active
<1>7. Fits
  BY DEF Init, LB!Init, LB!Idle, Fits
<1> QED BY <1>2, <1>4, <1>5, <1>6, <1>7 DEF OInv

-----------------------------------------------------------------------------
(***************************************************************************)
(* What is on hold                                                         *)
(***************************************************************************)

\* What the lemmas about the book call finite is finite.
LEMMA SameFinite ==
  ASSUME NEW S
  PROVE  LBP!IsFiniteSet(S) <=> IsFiniteSet(S)
BY DEF IsFiniteSet, LBP!IsFiniteSet

LEMMA Sums ==
  ASSUME NEW F, NEW S, IsFiniteSet(S)
  PROVE  /\ S = {} => LBP!Sum(F, S) = 0
         /\ (\A x \in S : F[x] \in Int) =>
              \A x \in S : LBP!Sum(F, S) = F[x] + LBP!Sum(F, S \ {x})
<1>1. LBP!IsFiniteSet(S)
  BY SameFinite
<1>2. ASSUME S = {}
      PROVE  LBP!Sum(F, S) = 0
  BY <1>1, <1>2, LBP!SumUnfolds, Assumed
<1>3. ASSUME \A x \in S : F[x] \in Int
      PROVE  \A x \in S : LBP!Sum(F, S) = F[x] + LBP!Sum(F, S \ {x})
  BY <1>1, <1>3, LBP!SumAdds, Assumed
<1> QED BY <1>2, <1>3
LEMMA HoldingFinite ==
  ASSUME OInv, NEW u, NEW c
  PROVE  /\ IsFiniteSet(OrderIds)
         /\ Holding(u, c) \subseteq OrderIds /\ IsFiniteSet(Holding(u, c))
         /\ \A o \in OrderIds : Required[o] \in Nat
<1>1. IsFiniteSet(OrderIds)
  BY FS_Interval, RequestsAssumption DEF OrderIds
<1>2. Holding(u, c) \subseteq OrderIds
  BY DEF Holding
<1>3. \A o \in OrderIds : Required[o] \in Nat
  BY RequestOf DEF Required
<1> QED BY <1>1, <1>2, <1>3, FS_Subset

\* What is asked for never changes.
LEMMA RequestsStay ==
  ASSUME OInv, [Next]_vars
  PROVE  req' = req /\ Required' = Required /\ \A o : HoldCurrency(o)' = HoldCurrency(o)
<1>1. CASE UNCHANGED vars
  <2>1. req' = req
    BY <1>1 DEF vars
  <2> QED BY <2>1 DEF Required, RequiredAmount, HoldCurrency
<1>2. ASSUME Next PROVE req' = req
  <2>1. CASE \E o \in OrderIds : HoldFunds(o) \/ InsertRow(o) \/ MatchOrder(o)
    BY <2>1 DEF HoldFunds, InsertRow, MatchOrder, NeverMatched, LB!MatchOrder
  <2>2. CASE \E o \in OrderIds : Finish(o)
    BY <2>2 DEF Finish, FirstLeg, SecondLeg, UpdateRow, AddOrder, NeverMatched,
       LB!AddOrder, LB!Drop
  <2>3. CASE \E o \in OrderIds : Load(o)
    BY <2>3 DEF Load, AddOrder, NeverMatched, LB!AddOrder, LB!Drop, LB!MatchOrder
  <2>4. CASE MatchStep
    BY <2>4 DEF MatchStep, MatchGoesOn, MatchReturns, MatchPanics, LB!EnterLevel,
       LB!LeaveLevel, LB!SkipOrder, LB!FillPartly, LB!FillMaker, LB!Return, LB!FillPanics
  <2>5. CASE Restart
    BY <2>5 DEF Restart, RestartWith
  <2> QED BY <1>2, <2>1, <2>2, <2>3, <2>4, <2>5 DEF Next
<1>3. CASE Next
  BY <1>2, <1>3 DEF Required, RequiredAmount, HoldCurrency
<1> QED BY <1>1, <1>3

\* Only HoldFunds changes what is on hold and who holds.
LEMMA HoldersStay ==
  ASSUME OInv, [Next]_vars, \A o \in OrderIds : ~HoldFunds(o)
  PROVE  /\ held' = held
         /\ \A o \in OrderIds : pc'[o] \in {"new", "refused"} <=> pc[o] \in {"new", "refused"}
<1>0. pc \in [OrderIds -> PCs]
  BY DEF OInv, TypesOK
<1>1. CASE UNCHANGED vars
  BY <1>1 DEF vars, money
<1>2. ASSUME NEW o \in OrderIds, NEW to \in PCs \ {"new", "refused"}, Goto(o, to),
             pc[o] \notin {"new", "refused"}
      PROVE  \A q \in OrderIds : pc'[q] \in {"new", "refused"} <=> pc[q] \in {"new", "refused"}
  BY <1>0, <1>2 DEF Goto
<1>3. ASSUME NEW o \in OrderIds,
             InsertRow(o) \/ MatchOrder(o) \/ Finish(o) \/ Load(o)
      PROVE  /\ held' = held
             /\ \/ UNCHANGED pc
                \/ /\ pc[o] \notin {"new", "refused"}
                   /\ \E to \in PCs \ {"new", "refused"} : Goto(o, to)
  <2>1. CASE InsertRow(o) \/ MatchOrder(o)
    BY <2>1 DEF InsertRow, MatchOrder, At, PCs, money
  <2>2. CASE FirstLeg(o) \/ SecondLeg(o) \/ UpdateRow(o)
    BY <2>2 DEF FirstLeg, SecondLeg, UpdateRow, At, PCs, money
  <2>3. CASE AddOrder(o) \/ Load(o)
    BY <2>3 DEF AddOrder, Load, At, PCs, money
  <2> QED BY <1>3, <2>1, <2>2, <2>3 DEF Finish
<1>4. ASSUME MatchStep
      PROVE  /\ held' = held
             /\ \/ UNCHANGED pc
                \/ /\ run.pc # "idle"
                   /\ \E to \in PCs \ {"new", "refused"} : Goto(run.taker, to)
  BY <1>4 DEF MatchStep, MatchGoesOn, MatchReturns, MatchPanics, PCs, money, LB!Return,
     LB!FillPanics, LB!FillsMaker, LB!AtOrder
<1>5. CASE MatchStep
  <2>1. CASE run.pc # "idle"
    <3>1. run.taker \in OrderIds /\ pc[run.taker] \notin {"new", "refused"}
      BY <2>1, Taker
    <3> QED BY <1>2, <1>4, <1>5, <3>1
  <2> QED BY <1>4, <1>5, <2>1
<1>6. ASSUME NEW found, found \subseteq {o \in OrderIds : Active(o)}, RestartWith(found)
      PROVE  /\ held' = held
             /\ \A o \in OrderIds : pc'[o] \in {"new", "refused"} <=> pc[o] \in {"new", "refused"}
  <2>1. held' = held
    BY <1>6 DEF RestartWith, money
  <2>2. ASSUME NEW o \in OrderIds
        PROVE  pc'[o] \in {"new", "refused"} <=> pc[o] \in {"new", "refused"}
    <3>1. pc'[o] = IF o \in found THEN "loading"
                   ELSE IF pc[o] \in {"new", "refused", "failed", "answered"} THEN pc[o] ELSE "failed"
      BY <1>6 DEF RestartWith
    <3>2. o \in found => pc[o] \notin {"new", "refused"}
      BY <1>6 DEF OInv, Counts, CountsOn, Active, NoRow
    <3> QED BY <3>1, <3>2
  <2> QED BY <2>1, <2>2
<1>7. CASE Restart
  BY <1>6, <1>7 DEF Restart
<1> QED BY <1>1, <1>2, <1>3, <1>5, <1>7 DEF Next

LEMMA NextHeldOK ==
  ASSUME OInv, HeldOK, [Next]_vars
  PROVE  HeldOK'
<1>1. Required' = Required /\ \A o : HoldCurrency(o)' = HoldCurrency(o)
  BY RequestsStay
<1>2. ASSUME held' = held,
             \A o \in OrderIds : pc'[o] \in {"new", "refused"} <=> pc[o] \in {"new", "refused"}
      PROVE  HeldOK'
  <2>1. \A u, c : Holding(u, c)' = Holding(u, c)
    BY <1>1, <1>2 DEF Holding
  <2> QED BY <1>1, <1>2, <2>1 DEF HeldOK
<1>3. ASSUME NEW o \in OrderIds, HoldFunds(o)
      PROVE  HeldOK'
  <2> DEFINE w == Owner[o]
             k == HoldCurrency(o)
             a == RequiredAmount(o)
  <2>1. /\ pc[o] = "new" /\ pc \in [OrderIds -> PCs]
        /\ w \in Users /\ k \in Currencies /\ a \in Nat /\ Required[o] = a
    BY <1>3, RequestOf DEF HoldFunds, At, OInv, TypesOK, Required
  <2>2. \/ Goto(o, "held") /\ held' = [held EXCEPT ![w][k] = @ + a]
        \/ Goto(o, "refused") /\ held' = held
    BY <1>3 DEF HoldFunds, money
  <2> HIDE DEF w, k, a
  <2>3. CASE Goto(o, "refused") /\ held' = held
    BY <1>2, <2>1, <2>3 DEF Goto
  <2>4. CASE Goto(o, "held") /\ held' = [held EXCEPT ![w][k] = @ + a]
    <3>1. pc'[o] = "held" /\ \A q \in OrderIds \ {o} : pc'[q] = pc[q]
      BY <2>1, <2>4 DEF Goto
    <3>2. ASSUME NEW u \in Users, NEW c \in Currencies
          PROVE  held'[u][c] = LBP!Sum(Required, Holding(u, c)')
      <4>1. held \in [Users -> [Currencies -> Nat]]
            /\ held[u][c] = LBP!Sum(Required, Holding(u, c))
        BY DEF OInv, MoneyOK, HeldOK
      <4>2. CASE u = w /\ c = k
        <5> DEFINE H == Holding(u, c)'
        <5>1. H = Holding(u, c) \cup {o} /\ o \notin Holding(u, c)
          BY <1>1, <2>1, <3>1, <4>2 DEF Holding, w, k
        <5> HIDE DEF H
        <5>2. IsFiniteSet(H) /\ \A q \in H : Required[q] \in Int
          BY <5>1, HoldingFinite, FS_AddElement
        <5>3. LBP!Sum(Required, H) = Required[o] + LBP!Sum(Required, H \ {o})
          BY <5>1, <5>2, Sums
        <5>4. H \ {o} = Holding(u, c)
          BY <5>1
        <5>5. held'[u][c] = held[u][c] + a /\ held[u][c] \in Nat
          BY <2>4, <4>1, <4>2
        <5>6. LBP!Sum(Required, H) = a + held[u][c]
          BY <2>1, <4>1, <5>3, <5>4
        <5> QED BY <2>1, <5>5, <5>6 DEF H
      <4>3. CASE ~(u = w /\ c = k)
        <5>1. Holding(u, c)' = Holding(u, c)
          BY <1>1, <3>1, <4>3, <2>1 DEF Holding, w, k
        <5>2. held'[u][c] = held[u][c]
          BY <2>4, <4>1, <4>3
        <5> QED BY <4>1, <5>1, <5>2
      <4> QED BY <4>2, <4>3
    <3> QED BY <1>1, <3>2 DEF HeldOK
  <2> QED BY <2>2, <2>3, <2>4
<1>4. CASE \A o \in OrderIds : ~HoldFunds(o)
  BY <1>2, <1>4, HoldersStay
<1> QED BY <1>3, <1>4

LEMMA InitHeldOK == Init => HeldOK
<1> SUFFICES ASSUME Init, NEW u \in Users, NEW c \in Currencies
             PROVE  held[u][c] = LBP!Sum(Required, Holding(u, c))
  BY DEF HeldOK
<1>1. Holding(u, c) = {}
  BY DEF Init, Holding
<1>2. LBP!Sum(Required, {}) = 0
  BY FS_EmptySet, Sums
<1> QED BY <1>1, <1>2 DEF Init

LEMMA SpecOInv == Spec => [](OInv /\ HeldOK)
<1>1. Init => OInv /\ HeldOK
  BY InitOInv, InitHeldOK
<1>2. OInv /\ HeldOK /\ [Next]_vars => (OInv /\ HeldOK)'
  BY NextOInv, NextHeldOK
<1> QED BY <1>1, <1>2, PTL DEF Spec

\* What MapThenSumSet sums up in HoldsCoverBook.
LEMMA SumOfRequired ==
  ASSUME OInv, NEW S \in SUBSET OrderIds
  PROVE  MapThenSumSet(RequiredAmount, S) = LBP!Sum(Required, S)
<1> DEFINE F == [o \in S |-> RequiredAmount(o)]
<1>1. MapThenSumSet(RequiredAmount, S) = LBP!Sum(F, S)
  BY DEF MapThenSumSet, MapThenFoldSet, LBP!Sum, LBP!Pick
<1>2. \A o \in S : F[o] \in Int /\ F[o] = Required[o]
  BY HoldingFinite DEF Required
<1>3. LBP!IsFiniteSet(S)
  BY HoldingFinite, SameFinite, FS_Subset
<1> HIDE DEF F
<1>4. LBP!Sum(F, S) = LBP!Sum(Required, S)
  BY <1>2, <1>3, LBP!SumSame, Assumed
<1> QED BY <1>1, <1>4

-----------------------------------------------------------------------------
(***************************************************************************)
(* The book, restarts included                                             *)
(***************************************************************************)

\* A step of the service is a step of the book, gives up an order that the book
\* has not seen, or begins with an empty book.
LEMMA BookMoves ==
  ASSUME OInv, [Next]_vars
  PROVE  \/ BookStep
         \/ \E o \in OrderIds : pc[o] \in {"new", "held"} /\ NeverMatched(o)
         \/ Restart
<1>1. CASE UNCHANGED <<req, book>>
  BY <1>1 DEF BookStep, LBP!vars, book
<1>2. ASSUME NEW o \in OrderIds, HoldFunds(o) \/ InsertRow(o)
      PROVE  \/ UNCHANGED <<req, book>>
             \/ pc[o] \in {"new", "held"} /\ NeverMatched(o)
  BY <1>2 DEF HoldFunds, InsertRow, At
<1>3. ASSUME NEW o \in OrderIds, Finish(o)
      PROVE  UNCHANGED <<req, book>> \/ LB!Drop(o) \/ LB!AddOrder(o)
  BY <1>3 DEF Finish, FirstLeg, SecondLeg, UpdateRow, AddOrder
<1>4. ASSUME NEW o \in OrderIds, MatchOrder(o) \/ Load(o)
      PROVE  LB!MatchOrder(o) \/ LB!AddOrder(o)
  BY <1>4 DEF MatchOrder, Load
<1>5. CASE \E o \in OrderIds :
             HoldFunds(o) \/ InsertRow(o) \/ MatchOrder(o) \/ Finish(o) \/ Load(o)
  BY <1>1, <1>2, <1>3, <1>4, <1>5, CallsAreSteps
<1>6. CASE MatchStep
  <2>1. LB!EnterLevel \/ LB!LeaveLevel \/ LB!SkipOrder \/ LB!FillPartly \/ LB!FillMaker
          \/ LB!Return \/ LB!FillPanics
    BY <1>6 DEF MatchStep, MatchGoesOn, MatchReturns, MatchPanics
  <2> QED BY <2>1, TurnsAreSteps
<1>7. CASE UNCHANGED vars
  BY <1>1, <1>7 DEF vars
<1> QED BY <1>5, <1>6, <1>7 DEF Next

\* What a restart leaves of the book.
LEMMA RestartEmpties ==
  ASSUME Restart
  PROVE  /\ run' = LB!Idle /\ trades' = <<>>
         /\ level' = [s \in LB!Sides |-> <<>>]
         /\ UNCHANGED req
BY DEF Restart, RestartWith

LEMMA NextFresh ==
  ASSUME OInv, LBP!FreshOK, [Next]_vars
  PROVE  LBP!FreshOK'
<1>1. CASE BookStep
  BY <1>1, LBP!FreshStays, Assumed DEF OInv, BookInv, BookStep
<1>2. CASE \E o \in OrderIds : NeverMatched(o)
  BY <1>2 DEF NeverMatched, LBP!FreshOK, LBP!Best, LBP!Book, LBP!Remaining
<1>3. CASE Restart
  BY <1>3, RestartEmpties DEF LBP!FreshOK, LB!Idle
<1> QED BY <1>1, <1>2, <1>3, BookMoves

\* Also when it is loaded again from the rows: no order is filled beyond its
\* quantity, trades keep within both limits, and a live order is at one place.
THEOREM BookAcrossRestarts ==
  Spec => [](LB!NeverOverfilled /\ LB!TradesWithinLimits /\ LB!LiveOrdersInBook)
<1>1. ASSUME OInv PROVE LB!NeverOverfilled /\ LB!TradesWithinLimits /\ LB!LiveOrdersInBook
  <2>1. LBP!NeverOverfilled /\ LBP!TradesWithinLimits
    BY <1>1 DEF OInv, BookInv, LBP!IInv
  <2>2. LBP!LiveOrdersInBook
    BY <1>1, LBP!ListedOnce, Assumed DEF OInv, BookInv
  <2>3. LB!NeverOverfilled
    BY <2>1, SameNames DEF LB!NeverOverfilled, LBP!NeverOverfilled
  <2>4. LB!TradesWithinLimits
    BY <2>1, SameNames DEF LB!TradesWithinLimits, LBP!TradesWithinLimits, LB!Crosses, LBP!Crosses
  <2>5. LB!LiveOrdersInBook
    BY <2>2, SameNames DEF LB!LiveOrdersInBook, LBP!LiveOrdersInBook, LB!Places, LBP!Places
  <2> QED BY <2>3, <2>4, <2>5
<1>2. OInv => LB!NeverOverfilled /\ LB!TradesWithinLimits /\ LB!LiveOrdersInBook
  BY <1>1
<1> QED BY <1>2, SpecOInv, PTL

\* Price and time priority hold across restarts, too: a buyer pays the lowest of the
\* resting asks, and the first trade of a call is with the oldest live order.
THEOREM PriorityAcrossRestarts == Spec => LB!AsksBestFirst /\ LB!FirstTradeHasPriority
<1>1. Init => LBP!FreshOK
  <2>1. Init => LBP!Init
    BY SameNames DEF Init, LB!Init, LBP!Init
  <2> QED BY <2>1, LBP!InitFresh, Assumed
<1>2. OInv /\ LBP!FreshOK /\ [Next]_vars => LBP!FreshOK'
  BY NextFresh
<1>3. ASSUME OInv, [Next]_vars, NEW j \in 1..Len(trades'), j > Len(trades),
             req[run.taker].side = "BUY",
             NEW o \in OrderIds, stage[o] = "resting", req[o].side = "SELL", LB!Remaining(o) > 0
      PROVE  trades'[j].price <= req[o].price
  <2>1. BookStep
    <3>1. trades \in Seq(Trades)
      BY <1>3, BookTypes DEF OInv
    <3>2. trades' # trades /\ trades' # <<>>
      BY <1>3, <3>1
    <3> QED BY <1>3, <3>2, BookMoves, RestartEmpties DEF NeverMatched
  <2>2. o \in LBP!OrderIds /\ LBP!Remaining(o) > 0
    BY <1>3, SameNames
  <2> QED BY <1>3, <2>1, <2>2, LBP!LowestAsk, Assumed DEF OInv, BookInv, BookStep
<1>4. ASSUME OInv, LBP!FreshOK, [Next]_vars, trades = <<>>, trades' # <<>>
      PROVE  trades'[1].maker = LB!Best.orders[CHOOSE i \in LB!LiveIndexes(LB!Best) :
                                                 \A j \in LB!LiveIndexes(LB!Best) : i <= j]
  <2>1. BookStep
    BY <1>4, BookMoves, RestartEmpties DEF NeverMatched
  <2>2. trades'[1].maker = LBP!Best.orders[CHOOSE i \in LBP!LiveIndexes(LBP!Best) :
                                             \A j \in LBP!LiveIndexes(LBP!Best) : i <= j]
    BY <1>4, <2>1, LBP!OldestFirst, Assumed DEF OInv, BookInv, BookStep
  <2>3. LB!LiveIndexes(LB!Best) = LBP!LiveIndexes(LBP!Best) /\ LB!Best = LBP!Best
    BY SameNames DEF LB!LiveIndexes, LBP!LiveIndexes
  <2> QED BY <2>2, <2>3
<1>5. OInv /\ LBP!FreshOK /\ [Next]_vars =>
        [\A j \in 1..Len(trades') :
           j > Len(trades) /\ req[run.taker].side = "BUY" =>
             \A o \in LB!OrderIds :
               stage[o] = "resting" /\ req[o].side = "SELL" /\ LB!Remaining(o) > 0 =>
                 trades'[j].price <= req[o].price]_(LB!vars)
  BY <1>3, SameNames
<1>6. OInv /\ LBP!FreshOK /\ [Next]_vars =>
        [trades = <<>> /\ trades' # <<>> =>
           trades'[1].maker = LB!Best.orders[CHOOSE i \in LB!LiveIndexes(LB!Best) :
                                               \A j \in LB!LiveIndexes(LB!Best) : i <= j]]_(LB!vars)
  BY <1>4
<1> QED BY <1>1, <1>2, <1>5, <1>6, SpecOInv, PTL
        DEF Spec, LB!AsksBestFirst, LB!FirstTradeHasPriority

-----------------------------------------------------------------------------
(***************************************************************************)
(* The exchange the service implements                                     *)
(***************************************************************************)

\* The slices of the book hold no stale cells but those of a range that is running.
LEMMA NextSlices ==
  ASSUME OInv, OInv', LBP!SliceOK, [Next]_vars
  PROVE  LBP!SliceOK'
<1>1. CASE BookStep
  BY <1>1, LBP!NextSliceOK, Assumed DEF OInv, BookInv, BookStep
<1>2. ASSUME NEW o \in OrderIds, pc[o] \in {"new", "held"}, NeverMatched(o)
      PROVE  LBP!SliceOK'
  <2>1. UNCHANGED <<req, level, root, run>> /\ stage' = [stage EXCEPT ![o] = "dropped"]
    BY <1>2 DEF NeverMatched
  <2>2. \A q \in OrderIds : stage[q] = "resting" => stage'[q] = "resting"
    BY <1>2, <2>1, Stages, BookTypes DEF OInv
  <2>3. LBP!Book' = LBP!Book /\ run'.pc = run.pc
    BY <2>1 DEF LBP!Book
  <2>4. ASSUME run.pc = "inner"
        PROVE  \A i \in 1..Len(LBP!Best.orders) : LBP!Best.orders[i] \in OrderIds
    <3>1. LBP!IInv /\ root[LBP!Book] # 0
      BY <2>4 DEF OInv, BookInv, LBP!IInv, LBP!TypeOK
    <3>2. LBP!Best \in LBP!LevelRecords
      BY <2>4, <3>1, LBP!BestGood, Assumed
    <3> QED BY <3>2, LBP!LevelFields, Assumed, SameNames
  <2> QED BY <2>1, <2>2, <2>3, <2>4, LBP!SlicesStay, Assumed, SameNames
<1>3. CASE Restart
  <2>1. run'.pc = "idle" /\ level' = [s \in LBP!Sides |-> <<>>]
    BY <1>3, RestartEmpties, SameNames DEF LB!Idle
  <2> QED BY <2>1 DEF LBP!SliceOK
<1> QED BY <1>1, <1>2, <1>3, BookMoves

\* A step of the book is one of the market, by the refinement of LimitBookProofs.
LEMMA BookStepServes ==
  ASSUME OInv, LBP!SliceOK, LBP!FreshOK, BookStep
  PROVE  [X!Serve]_(X!vars)
<1>1. [LBP!M!Next]_(LBP!M!vars)
  BY LBP!StepMarket, Assumed DEF BookStep, OInv, BookInv
<1>2. LBP!M!vars = X!vars /\ LBP!M!OrderIds = X!OrderIds
  BY DEF LBP!M!vars, X!vars, LBP!M!OrderIds, X!OrderIds
<1>3. /\ \A o : LBP!M!Remaining(o) = X!Remaining(o)
      /\ \A p : LBP!M!Accepts(p) <=> X!Accepts(p)
  BY DEF LBP!M!Remaining, X!Remaining, LBP!M!Accepts, X!Accepts
<1>4. LBP!M!Live = X!Live /\ \A m : LBP!M!Quantity(m) = X!Quantity(m)
  BY <1>2, <1>3 DEF LBP!M!Live, X!Live, LBP!M!Quantity, X!Quantity
<1>5. \A m : LBP!M!Charge(m) <=> X!Charge(m)
  BY <1>3, <1>4 DEF LBP!M!Charge, X!Charge
<1>6. ASSUME NEW o PROVE LBP!M!Begin(o) => X!Begin(o)
  BY DEF LBP!M!Begin, X!Begin, LBP!M!Move, X!Move
<1>7. ASSUME NEW o PROVE LBP!M!Trade(o) => X!Trade(o)
  BY <1>4, <1>5 DEF LBP!M!Trade, X!Trade
<1>8. ASSUME NEW o PROVE LBP!M!Lose(o) => X!Lose(o)
  BY <1>3, <1>5 DEF LBP!M!Lose, X!Lose, LBP!M!Move, X!Move
<1>9. ASSUME NEW o PROVE LBP!M!Rest(o) => X!Rest(o)
  BY DEF LBP!M!Rest, X!Rest, LBP!M!Move, X!Move
<1>10. ASSUME NEW o PROVE LBP!M!Withdraw(o) => X!Withdraw(o)
  BY DEF LBP!M!Withdraw, X!Withdraw, LBP!M!Move, X!Move
<1>11. ASSUME NEW o PROVE LBP!M!GiveUp(o) => X!GiveUp(o)
  BY DEF LBP!M!GiveUp, X!GiveUp, LBP!M!Move, X!Move
<1>12. LBP!M!End => X!End
  BY <1>3, <1>4 DEF LBP!M!End, X!End, LBP!M!Move, X!Move
<1>13. LBP!M!Next => X!Next
  BY <1>2, <1>6, <1>7, <1>8, <1>9, <1>10, <1>11, <1>12 DEF LBP!M!Next, X!Next
<1>14. LBP!M!vars' = X!vars'
  BY DEF LBP!M!vars, X!vars
<1> QED BY <1>1, <1>2, <1>13, <1>14 DEF X!Serve

\* A restart opens the market again with all that rests and is live, or with nothing.
LEMMA RestartReopens ==
  ASSUME OInv, Restart
  PROVE  X!Reopen
<1>0. X!OrderIds = OrderIds
  BY DEF X!OrderIds, OrderIds
<1>1. PICK found \in {{o \in OrderIds : Active(o)}, {}} : RestartWith(found)
  BY DEF Restart
<1>2. /\ stage' = [o \in OrderIds |->
           IF o \in found THEN "matched" ELSE IF pc[o] = "new" THEN "new" ELSE "dropped"]
      /\ filled' = [o \in OrderIds |-> row[o].filled]
      /\ run' = LB!Idle /\ trades' = <<>> /\ req' = req
  BY <1>1 DEF RestartWith
<1>3. run'.taker = NoOrder
  BY <1>2 DEF LB!Idle
<1>4. \A o \in OrderIds : row[o].filled \in Nat /\ row[o].filled <= filled[o]
  BY DEF OInv, TypesOK, Rows, Counts, CountsOn
<1>5. /\ filled' \in [OrderIds -> Nat]
      /\ \A o \in OrderIds : filled'[o] <= filled[o]
  BY <1>2, <1>4
<1>6. found \in SUBSET OrderIds
  BY <1>1
<1>7. found # {} => X!Tradable \subseteq found
  <2> SUFFICES ASSUME found # {}, NEW o \in X!Tradable PROVE o \in found
    OBVIOUS
  <2>1. o \in OrderIds /\ stage[o] = "resting"
    BY <1>0 DEF X!Tradable
  <2>2. Active(o)
    BY <2>1 DEF OInv, Agrees, AgreesOn
  <2> QED BY <1>1, <2>1, <2>2
<1> DEFINE waiting == {o \in OrderIds : pc[o] = "new"}
<1>8. waiting \in SUBSET {o \in OrderIds : stage[o] = "new"}
  BY Stages
<1>9. stage' = [o \in OrderIds |-> IF o \in found THEN "matched"
                                   ELSE IF o \in waiting THEN "new" ELSE "dropped"]
  BY <1>2
<1> HIDE DEF waiting
<1>10. \E f \in SUBSET X!OrderIds :
         /\ f # {} => X!Tradable \subseteq f
         /\ \E w \in SUBSET {o \in X!OrderIds : stage[o] = "new"} :
              stage' = [o \in X!OrderIds |-> IF o \in f THEN "matched"
                                             ELSE IF o \in w THEN "new" ELSE "dropped"]
  BY ONLY <1>0, <1>6, <1>7, <1>8, <1>9
<1>11. filled' \in [X!OrderIds -> Nat] /\ \A o \in X!OrderIds : filled'[o] <= filled[o]
  BY ONLY <1>0, <1>5
<1>12. trades' = <<>> /\ req' = req
  BY ONLY <1>2
<1> QED BY ONLY <1>3, <1>10, <1>11, <1>12 DEF X!Reopen

LEMMA NextServes ==
  ASSUME OInv, LBP!SliceOK, LBP!FreshOK, [Next]_vars
  PROVE  [X!Serve]_(X!vars)
<1>1. CASE BookStep
  BY <1>1, BookStepServes
<1>2. ASSUME NEW o \in OrderIds, pc[o] \in {"new", "held"}, NeverMatched(o)
      PROVE  X!Serve
  <2>1. stage[o] = "new" /\ o \in X!OrderIds
    BY <1>2, Stages DEF X!OrderIds, OrderIds
  <2>2. X!Refuse(o)
    BY <1>2, <2>1 DEF NeverMatched, X!Refuse, X!Move
  <2> QED BY <2>1, <2>2 DEF X!Serve
<1>3. CASE Restart
  BY <1>3, RestartReopens DEF X!Serve
<1> QED BY <1>1, <1>2, <1>3, BookMoves

\* Over any number of starts and failures, the service implements an exchange: every
\* order is matched at most once, with the cheapest orders it accepts, and a restart
\* opens the market again with all that others may still trade with, or with nothing.
THEOREM RefinesExchange == Spec => ServesExchange
<1>1. Init => LBP!FreshOK /\ LBP!SliceOK /\ X!Init
  <2>1. Init => LBP!Init
    BY SameNames DEF Init, LB!Init, LBP!Init
  <2>2. LBP!Init => X!Init
    BY SameNames DEF LBP!Init, LBP!Idle, X!Init, X!OrderIds, OrderIds
  <2> QED BY <2>1, <2>2, LBP!InitFresh, LBP!InitSliceOK, Assumed
<1>2. OInv /\ LBP!FreshOK /\ [Next]_vars => LBP!FreshOK'
  BY NextFresh
<1>3. OInv /\ OInv' /\ LBP!SliceOK /\ [Next]_vars => LBP!SliceOK'
  BY NextSlices
<1>4. OInv /\ LBP!SliceOK /\ LBP!FreshOK /\ [Next]_vars => [X!Serve]_(X!vars)
  BY NextServes
<1> QED
  BY <1>1, <1>2, <1>3, <1>4, SpecOInv, PTL DEF Spec, ServesExchange, X!Service

-----------------------------------------------------------------------------

\* Every variable of the service keeps its type, the book's own across restarts, too,
\* and no balance ever becomes negative.
THEOREM TypeCorrect == Spec => []TypeOK
<1>1. OInv => TypeOK
  BY BookTypes DEF OInv, TypesOK, MoneyOK, TypeOK, PCs, Rows, Trades
<1> QED BY <1>1, SpecOInv, PTL

\* No failed transaction, panic or restart makes a row claim more than both legs of
\* the order's trades have exchanged.
THEOREM RowsBacked == Spec => []RowsBackedByLedger
<1>1. OInv => RowsBackedByLedger
  BY DEF OInv, Counts, CountsOn, RowsBackedByLedger
<1> QED BY <1>1, SpecOInv, PTL

\* The funds of every order that is matched or may still be traded with are on hold,
\* whatever failed and however often the process was restarted.
THEOREM HoldsCover == Spec => []HoldsCoverBook
<1>1. OInv /\ HeldOK => HoldsCoverBook
  <2> SUFFICES ASSUME OInv, HeldOK, NEW u \in Users, NEW c \in Currencies
               PROVE  held[u][c] >= MapThenSumSet(RequiredAmount, Tradable(u, c))
    BY DEF HoldsCoverBook
  <2> DEFINE H == Holding(u, c)
             T == Tradable(u, c)
  <2>1. T \in SUBSET H
    <3> SUFFICES ASSUME NEW o \in T PROVE o \in H
      OBVIOUS
    <3>1. o \in OrderIds /\ stage[o] \in {"matching", "matched", "resting"}
      BY DEF Tradable
    <3>2. pc[o] \notin {"new", "refused"}
      BY <3>1, Stages DEF OInv, Agrees, AgreesOn, StageOf
    <3> QED BY <3>2 DEF Tradable, Holding
  <2>2. H \in SUBSET OrderIds /\ LBP!IsFiniteSet(H) /\ \A o \in H : Required[o] \in Nat
    BY HoldingFinite, SameFinite
  <2>3. held[u][c] = LBP!Sum(Required, H) /\ held[u][c] \in Nat
    BY DEF HeldOK, OInv, MoneyOK
  <2>4. MapThenSumSet(RequiredAmount, T) = LBP!Sum(Required, T)
    BY <2>1, <2>2, SumOfRequired
  <2> HIDE DEF H, T
  <2>5. LBP!IsFiniteSet(T) /\ \A o \in T : Required[o] \in Nat
    <3>1. IsFiniteSet(T)
      BY <2>1, <2>2, SameFinite, FS_Subset
    <3> QED BY <2>1, <2>2, <3>1, SameFinite
  <2>6. LBP!Sum(Required, T) <= LBP!Sum(Required, H)
    BY <2>1, <2>2, LBP!SumGrows, Assumed
  <2>7. LBP!Sum(Required, T) \in Nat
    BY <2>5, LBP!SumType, Assumed
  <2>8. held[u][c] >= LBP!Sum(Required, T)
    BY <2>3, <2>6, <2>7
  <2> QED BY <2>4, <2>8 DEF T
<1> QED BY <1>1, SpecOInv, PTL

\* An order that others may still trade with has an active row: a restart finds it.
THEOREM LiveRowsSurvive == Spec => []LiveOrdersSurvive
<1>1. OInv => LiveOrdersSurvive
  BY DEF OInv, Agrees, AgreesOn, LiveOrdersSurvive
<1> QED BY <1>1, SpecOInv, PTL

=============================================================================
