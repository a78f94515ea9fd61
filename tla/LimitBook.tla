------------------------------ MODULE LimitBook ------------------------------
(***************************************************************************)
(* The in-memory limit order book of one trading symbol                    *)
(* (internal/limitbook): two book sides, each a map from price to price    *)
(* level and a heap of levels, and the matching loop MatchOrder.           *)
(*                                                                         *)
(* MatchOrder holds the book's mutex from its first line to its return, so *)
(* at most one order is matched at a time.  The loop itself is modelled    *)
(* step by step (one action per turn of its outer and of its inner loop),  *)
(* because whether it ends, and what it does to the slice it ranges over,  *)
(* is what can go wrong.                                                   *)
(*                                                                         *)
(* The Go slice PriceLevel.Orders is modelled with its backing array: a    *)
(* range over the slice keeps the length the slice had when the range      *)
(* began and reads the cells of the array the deletions move.              *)
(***************************************************************************)
EXTENDS Integers, Sequences, FiniteSetsExt

CONSTANTS
  MaxOrders,  \* bound on the orders that callers create
  Requests,   \* what callers may ask for: records [side, type, price, qty]
  Removable,  \* the orders that some caller may pass to RemoveOrder
  NoPrice,    \* a nil *decimal.Decimal: a market order without a price
  NoOrder     \* no order is being matched

Sides == {"BUY", "SELL"}

\* Orders are numbered in the order in which they lock the book.
OrderIds == 1..MaxOrders

\* validateOrderRequest lets a limit order through only with a positive price
\* and every order only with a positive quantity.  The price of a market order
\* is not looked at.  (Other sides and types are refused by the enums of the
\* table `orders` before the order gets to the book.)
ASSUME RequestsAssumption ==
  /\ \A r \in Requests :
       /\ r.side \in Sides
       /\ r.type \in {"LIMIT", "MARKET"}
       /\ r.price \in Int \cup {NoPrice}
       /\ r.type = "LIMIT" => r.price \in Nat \ {0}
       /\ r.qty \in Nat \ {0}
  /\ NoPrice \notin Int
  /\ NoOrder \notin Int
  /\ MaxOrders \in Nat

Prices == {r.price : r \in Requests} \ {NoPrice}

VARIABLES
  req,      \* req[o]: what the creator of order o asked for; never changes
  filled,   \* filled[o]: Order.FilledQty
  status,   \* status[o]: Order.Status
  stage,    \* stage[o]: where order o is in the calls its creator makes
  level,    \* level[s]: the price levels of side s, in order of creation
  levels,   \* levels[s][p]: the map from price to level, 0 where it has no key
  root,     \* root[s]: the level at the root of side s's heap, 0 while empty
  run,      \* the MatchOrder call that holds the mutex: its loop variables
  trades    \* the trades of the latest MatchOrder call, in order

vars == <<req, filled, status, stage, level, levels, root, run, trades>>

Opposite(s) == IF s = "BUY" THEN "SELL" ELSE "BUY"

Remaining(o) == req[o].qty - filled[o]

\* A price level: `len` is len(level.Orders) and `orders` its backing array as
\* far as a range over the slice can see it.
Level(p) == [price |-> p, orders |-> <<>>, len |-> 0]

\* No MatchOrder call is running.
Idle == [pc |-> "idle", taker |-> NoOrder, i |-> 0, n |-> 0]

Stages == {"new", "matching", "matched", "resting", "dropped", "removed",
           "panicked"}

-----------------------------------------------------------------------------

Init ==
  /\ req \in [OrderIds -> Requests]
  /\ filled = [o \in OrderIds |-> 0]
  /\ status = [o \in OrderIds |-> "NEW"]
  /\ stage = [o \in OrderIds |-> "new"]
  /\ level = [s \in Sides |-> <<>>]
  /\ levels = [s \in Sides |-> [p \in Prices |-> 0]]
  /\ root = [s \in Sides |-> 0]
  /\ run = Idle
  /\ trades = <<>>

-----------------------------------------------------------------------------
(***************************************************************************)
(* AddOrder and RemoveOrder                                                *)
(***************************************************************************)

\* Mutants of PushRoot: the wrong level, and the order meant for bids.
PushRootOffByOne(s, p, k) ==
  IF root[s] = 0 \/ p < level[s][root[s]].price THEN k + 1 ELSE root[s]

PushRootHighest(s, p, k) ==
  IF root[s] = 0 \/ p > level[s][root[s]].price THEN k ELSE root[s]

\* Pushing level k, whose price is p, on the heap.  Less compares with
\* LessThan on both sides of the book and nothing is ever popped: the root
\* moves only to a strictly lower price (module PriceHeap shows that the
\* array heap does just this).
PushRoot(s, p, k) ==
  IF root[s] = 0 \/ p < level[s][root[s]].price THEN k ELSE root[s]

\* Appending o to the slice of level l.
AppendOrder(l, o) ==
  [l EXCEPT !.orders = [j \in 1..(l.len + 1) |-> IF j <= l.len THEN l.orders[j] ELSE o],
            !.len = l.len + 1]

\* The creator of o rests it on the book after MatchOrder returned.  Loading
\* the active orders when the process starts is the case of several orders
\* whose creators all ran MatchOrder on the empty book before any rested.
\* order.Price.String() on a nil price panics, with nothing changed and both
\* mutexes released by their defers.
AddOrder(o) ==
  LET s == req[o].side
      p == req[o].price
      k == Len(level[s]) + 1
  IN /\ run.pc = "idle"
     /\ stage[o] = "matched"
     /\ \/ /\ p = NoPrice
           /\ stage' = [stage EXCEPT ![o] = "panicked"]
           /\ UNCHANGED <<level, levels, root>>
        \/ /\ p # NoPrice
           /\ levels[s][p] # 0
           /\ level' = [level EXCEPT ![s][levels[s][p]] = AppendOrder(@, o)]
           /\ stage' = [stage EXCEPT ![o] = "resting"]
           /\ UNCHANGED <<levels, root>>
        \/ /\ p # NoPrice
           /\ levels[s][p] = 0
           /\ level' = [level EXCEPT ![s] = Append(@, AppendOrder(Level(p), o))]
           /\ levels' = [levels EXCEPT ![s][p] = k]
           /\ root' = [root EXCEPT ![s] = PushRoot(s, p, k)]
           /\ stage' = [stage EXCEPT ![o] = "resting"]
     /\ UNCHANGED <<req, filled, status, run, trades>>

\* The creator does not rest o: it is settled in full, or the update of its
\* row failed and CreateOrder returned before AddOrder.
Drop(o) ==
  /\ stage[o] = "matched"
  /\ stage' = [stage EXCEPT ![o] = "dropped"]
  /\ UNCHANGED <<req, filled, status, level, levels, root, run, trades>>

\* Mutant of Delete: cuts out the order after the one that was filled.
DeleteNext(cells, i, len) ==
  [j \in 1..Len(cells) |-> IF i < j /\ j < len THEN cells[j + 1] ELSE cells[j]]

\* append(s[:i], s[i+1:]...) on a slice of length len over the array `cells`:
\* the cells after i move down and the last one keeps a stale copy.
Delete(cells, i, len) ==
  [j \in 1..Len(cells) |-> IF i <= j /\ j < len THEN cells[j + 1] ELSE cells[j]]

CutOut(l, i) == [l EXCEPT !.orders = Delete(l.orders, i, l.len), !.len = l.len - 1]

\* The orders of a level, without the stale cells.
Trim(l) == [l EXCEPT !.orders = SubSeq(l.orders, 1, l.len)]

\* RemoveOrder searches the levels the map knows.  A level it empties leaves
\* the map but not the heap.
RemoveOrder(o) ==
  LET s == req[o].side
  IN /\ run.pc = "idle"
     /\ o \in Removable
     /\ stage[o] = "resting"
     /\ \E p \in Prices :
          LET k == levels[s][p]
              l == level[s][k]
          IN /\ k # 0
             /\ \E i \in 1..l.len :
                  /\ l.orders[i] = o
                  /\ level' = [level EXCEPT ![s][k] = Trim(CutOut(l, i))]
             /\ levels' = [levels EXCEPT ![s][p] = IF l.len = 1 THEN 0 ELSE k]
     /\ stage' = [stage EXCEPT ![o] = "removed"]
     /\ UNCHANGED <<req, filled, status, root, run, trades>>

-----------------------------------------------------------------------------
(***************************************************************************)
(* MatchOrder                                                              *)
(***************************************************************************)

\* The side the running order is matched against and its best level.
Book == Opposite(req[run.taker].side)
Best == level[Book][root[Book]]

\* Only a limit order stops at a level that is worse than its own price.
Crosses(o, p) ==
  req[o].type = "LIMIT" =>
    IF req[o].side = "BUY" THEN p <= req[o].price ELSE p >= req[o].price

\* MatchOrder locks the book.
MatchOrder(o) ==
  /\ run.pc = "idle"
  /\ stage[o] = "new"
  /\ \A p \in 1..(o - 1) : stage[p] # "new"
  /\ run' = [pc |-> "outer", taker |-> o, i |-> 0, n |-> 0]
  /\ stage' = [stage EXCEPT ![o] = "matching"]
  /\ trades' = <<>>
  /\ UNCHANGED <<req, filled, status, level, levels, root>>

\* Mutant of Continues: without the check of what is left.
ContinuesWhenFilled == root[Book] # 0 /\ Crosses(run.taker, Best.price)

\* The outer loop goes on with the best level or MatchOrder returns.
Continues ==
  /\ Remaining(run.taker) > 0
  /\ root[Book] # 0
  /\ Crosses(run.taker, Best.price)

\* Mutant of EnterLevel: the range begins at the second order.
EnterLevelLate ==
  /\ run.pc = "outer"
  /\ Continues
  /\ run' = [run EXCEPT !.pc = "inner", !.i = 2, !.n = Best.len]
  /\ UNCHANGED <<req, filled, status, stage, level, levels, root, trades>>

EnterLevel ==
  /\ run.pc = "outer"
  /\ Continues
  /\ run' = [run EXCEPT !.pc = "inner", !.i = 1, !.n = Best.len]
  /\ UNCHANGED <<req, filled, status, stage, level, levels, root, trades>>

Return ==
  /\ run.pc = "outer"
  /\ ~Continues
  /\ run' = Idle
  /\ stage' = [stage EXCEPT ![run.taker] = "matched"]
  /\ status' = [status EXCEPT ![run.taker] =
                  IF Remaining(run.taker) = 0 THEN "FILLED"
                  ELSE IF filled[run.taker] > 0 THEN "PARTIALLY_FILLED" ELSE @]
  /\ UNCHANGED <<req, filled, level, levels, root, trades>>

\* The range is exhausted or the order is filled.  RemoveOrder(uuid.Nil)
\* finds no order, so a level that is empty now stays where it is.
LeaveLevel ==
  /\ run.pc = "inner"
  /\ run.i > run.n \/ Remaining(run.taker) <= 0
  /\ run' = [run EXCEPT !.pc = "outer", !.i = 0, !.n = 0]
  /\ level' = [level EXCEPT ![Book][root[Book]] = Trim(@)]
  /\ UNCHANGED <<req, filled, status, stage, levels, root, trades>>

\* The range looks at the i-th cell of the array.
AtOrder ==
  /\ run.pc = "inner"
  /\ run.i <= run.n
  /\ Remaining(run.taker) > 0

Maker == Best.orders[run.i]

SkipOrder ==
  /\ AtOrder
  /\ Remaining(Maker) <= 0
  /\ run' = [run EXCEPT !.i = @ + 1]
  /\ UNCHANGED <<req, filled, status, stage, level, levels, root, trades>>

\* Mutant of FillQty: takes all that the taker wants.
FillQtyOfTaker == Remaining(run.taker)

FillQty ==
  IF Remaining(run.taker) <= Remaining(Maker) THEN Remaining(run.taker)
                                              ELSE Remaining(Maker)

\* Mutant of FillBoth: the taker's FilledQty is forgotten.
FillMakerOnly(t, m, q) == [filled EXCEPT ![m] = @ + q]

\* Both orders of a trade are charged with it.
FillBoth(t, m, q) == [filled EXCEPT ![t] = @ + q, ![m] = @ + q]

\* A trade with a maker that is not filled by it.
FillPartly ==
  /\ AtOrder
  /\ Remaining(Maker) > 0
  /\ Remaining(Maker) # FillQty
  /\ filled' = FillBoth(run.taker, Maker, FillQty)
  /\ status' = [status EXCEPT ![Maker] = "PARTIALLY_FILLED"]
  /\ run' = [run EXCEPT !.i = @ + 1]
  /\ trades' = Append(trades, [maker |-> Maker, price |-> Best.price, qty |-> FillQty])
  /\ UNCHANGED <<req, stage, level, levels, root>>

FillsMaker ==
  /\ AtOrder
  /\ Remaining(Maker) > 0
  /\ Remaining(Maker) = FillQty
  /\ filled' = FillBoth(run.taker, Maker, FillQty)

\* Mutant of FillMaker: the maker's status is not set.
FillMakerSilently ==
  /\ FillsMaker
  /\ run.i <= Best.len
  /\ level' = [level EXCEPT ![Book][root[Book]] = CutOut(@, run.i)]
  /\ run' = [run EXCEPT !.i = @ + 1]
  /\ trades' = Append(trades, [maker |-> Maker, price |-> Best.price, qty |-> FillQty])
  /\ UNCHANGED <<req, status, stage, levels, root>>

\* A trade that fills the maker, which is cut out of the slice ranged over.
FillMaker ==
  /\ FillsMaker
  /\ run.i <= Best.len
  /\ level' = [level EXCEPT ![Book][root[Book]] = CutOut(@, run.i)]
  /\ status' = [status EXCEPT ![Maker] = "FILLED"]
  /\ run' = [run EXCEPT !.i = @ + 1]
  /\ trades' = Append(trades, [maker |-> Maker, price |-> Best.price, qty |-> FillQty])
  /\ UNCHANGED <<req, stage, levels, root>>

\* The cell was a stale copy: level.Orders[i+1:] is out of range and panics
\* after both FilledQty changed.  The deferred Unlock releases the mutex,
\* net/http recovers the handler, and the trades so far are lost with the call.
FillPanics ==
  /\ FillsMaker
  /\ run.i > Best.len
  /\ run' = Idle
  /\ stage' = [stage EXCEPT ![run.taker] = "panicked"]
  /\ level' = [level EXCEPT ![Book][root[Book]] = Trim(@)]
  /\ trades' = <<>>
  /\ UNCHANGED <<req, status, levels, root>>

MatchStep ==
  EnterLevel \/ Return \/ LeaveLevel \/ SkipOrder
    \/ FillPartly \/ FillMaker \/ FillPanics

-----------------------------------------------------------------------------

Next ==
  \/ \E o \in OrderIds : MatchOrder(o)
  \/ \E o \in OrderIds : AddOrder(o)
  \/ \E o \in OrderIds : Drop(o)
  \/ \E o \in OrderIds : RemoveOrder(o)
  \/ MatchStep

Spec == Init /\ [][Next]_vars

\* The goroutine inside MatchOrder keeps running: it blocks on nothing.
FairSpec == Spec /\ WF_vars(MatchStep)

-----------------------------------------------------------------------------
(***************************************************************************)
(* Properties                                                              *)
(***************************************************************************)

LevelRecords ==
  [price : Prices, orders : Seq(OrderIds), len : Nat]

\* Type invariant: a range over a slice stays within its backing array, the
\* map and the heap refer to levels that exist, and the running order is one
\* that is being matched.
TypeOK ==
  /\ req \in [OrderIds -> Requests]
  /\ filled \in [OrderIds -> Nat]
  /\ status \in [OrderIds -> {"NEW", "PARTIALLY_FILLED", "FILLED"}]
  /\ stage \in [OrderIds -> Stages]
  /\ level \in [Sides -> Seq(LevelRecords)]
  /\ \A s \in Sides : \A k \in 1..Len(level[s]) :
       level[s][k].len <= Len(level[s][k].orders)
  /\ levels \in [Sides -> [Prices -> Nat]]
  /\ \A s \in Sides, p \in Prices : levels[s][p] <= Len(level[s])
  /\ root \in [Sides -> Nat]
  /\ \A s \in Sides : root[s] <= Len(level[s])
  /\ run \in [pc : {"idle", "outer", "inner"}, taker : OrderIds \cup {NoOrder},
              i : Nat, n : Nat]
  /\ IF run.pc = "idle" THEN run = Idle
     ELSE run.taker \in OrderIds /\ stage[run.taker] = "matching"
  /\ trades \in Seq([maker : OrderIds, price : Prices, qty : Nat])
  /\ run.pc = "inner" => /\ run.i \in 1..(run.n + 1)
                         /\ root[Book] # 0
                         /\ run.n <= Len(Best.orders)

\* No order is ever filled beyond its quantity, although the range over a
\* level may come to the same order twice (orderbook.go:203-243).
NeverOverfilled == \A o \in OrderIds : filled[o] <= req[o].qty

FilledOn(s) ==
  MapThenSumSet(LAMBDA o : filled[o], {o \in OrderIds : req[o].side = s})

\* What buyers bought is what sellers sold, also across a call that panics
\* between two trades.
FillsBalance == FilledOn("BUY") = FilledOn("SELL")

\* Every trade of a call is with an order of the other side, at the price that
\* order asked for, and within the limit of the order being matched.  (No run
\* checks it by itself: ImplementsMarket includes it, and the invariant of the
\* proofs needs it.)
TradesWithinLimits ==
  run.pc # "idle" =>
    \A j \in 1..Len(trades) :
      LET t == trades[j]
      IN /\ req[t.maker].side = Book
         /\ req[t.maker].price = t.price
         /\ Crosses(run.taker, t.price)

\* The places of order o in the book: side, level and index.
Places(o) ==
  {x \in Sides \X (1..MaxOrders) \X (1..MaxOrders) :
     /\ x[2] <= Len(level[x[1]])
     /\ x[3] <= level[x[1]][x[2]].len
     /\ level[x[1]][x[2]].orders[x[3]] = o}

\* Cutting orders out of a slice that is being ranged over never loses or
\* duplicates an order with something left to trade: it stays at one place, in
\* the level the map has for its price.  Orders that do not rest have none.
LiveOrdersInBook ==
  \A o \in OrderIds :
    IF stage[o] = "resting"
    THEN Remaining(o) > 0 =>
           \E i \in 1..MaxOrders :
             Places(o) = {<<req[o].side, levels[req[o].side][req[o].price], i>>}
    ELSE Places(o) = {}

\* An order that rests with nothing left to trade is marked as filled, unless a
\* call that had traded was cut short by a panic (orderbook.go:214-238).
\* (The dead orders of a level are what MatchOrder then spins on.)
DeadOrdersExplained ==
  \A o \in OrderIds :
    stage[o] = "resting" /\ Remaining(o) = 0 /\ status[o] # "FILLED" =>
      \E t \in OrderIds : stage[t] = "panicked" /\ filled[t] > 0

\* Levels, heap, slices and the loops over them add up to a set of orders of
\* which a call takes the cheapest, one trade after the other, until a buyer
\* finds nothing acceptable (orderbook.go:181-253).
M == INSTANCE Market WITH taker <- run.taker
ImplementsMarket == M!Spec

\* A buyer is never charged a price while an order asks for less
\* (orderbook.go:192: the heap's root is the lowest ask).  (Proved; the runs check
\* it as a part of ImplementsMarket.)
AsksBestFirst ==
  [][\A j \in 1..Len(trades') :
       j > Len(trades) /\ req[run.taker].side = "BUY" =>
         \A o \in OrderIds :
           stage[o] = "resting" /\ req[o].side = "SELL" /\ Remaining(o) > 0 =>
             trades'[j].price <= req[o].price]_vars

\* The orders of level l that still have something to trade.
LiveIndexes(l) == {i \in 1..l.len : Remaining(l.orders[i]) > 0}

\* The first trade of a call is with the oldest live order of the level.
FirstTradeHasPriority ==
  [][trades = <<>> /\ trades' # <<>> =>
       trades'[1].maker = Best.orders[CHOOSE i \in LiveIndexes(Best) :
                                         \A j \in LiveIndexes(Best) : i <= j]]_vars

Liquidity(l) == MapThenSumSet(LAMBDA i : Remaining(l.orders[i]), LiveIndexes(l))

\* MatchOrder returns when there is no level to trade with, or when the best
\* level alone can fill the order.
LiquidMatchReturns ==
  (/\ run.pc = "outer"
   /\ Continues => Liquidity(Best) >= Remaining(run.taker))
    ~> run.pc = "idle"

\* Every MatchOrder call returns: the matching engine fills an order as far as
\* the book can (docs/01_monolith.md:29-30) and lets the next request in.
MatchReturns == run.pc # "idle" ~> run.pc = "idle"

\* "For bids (buy orders), we want highest price first (max heap)"
\* (heap.go:24): a seller is never paid a price while a resting bid offers more.
BidsBestFirst ==
  [][\A j \in 1..Len(trades') :
       j > Len(trades) /\ req[run.taker].side = "SELL" =>
         \A o \in OrderIds :
           stage[o] = "resting" /\ req[o].side = "BUY" /\ Remaining(o) > 0 =>
             trades'[j].price >= req[o].price]_vars

=============================================================================
