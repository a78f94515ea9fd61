------------------------------- MODULE Orders -------------------------------
(***************************************************************************)
(* The order service (internal/orders/service.go): CreateOrder, from the   *)
(* hold on the creator's funds to the order resting on the book, composed  *)
(* with the book of one symbol (module LimitBook), the rows of the table   *)
(* `orders` and the balances of two currencies.                            *)
(*                                                                         *)
(* One HTTP request runs one CreateOrder.  Every database transaction and  *)
(* every call of the book is a step of its own: requests interleave        *)
(* between them, any of them may fail, and the process may die after any   *)
(* of them, which loses the book and every request but no committed row.   *)
(* A ledger operation is one atomic step here; what its own interleavings  *)
(* do to the balances is the subject of module Ledger.                     *)
(***************************************************************************)
EXTENDS Integers, Sequences, FiniteSetsExt

CONSTANTS
  MaxOrders, Requests, NoPrice, NoOrder,  \* as in LimitBook
  Users,
  Owner,       \* Owner[o]: the user who creates order o
  Quote,       \* the quoted price that the hold of a market order is based on
  Opening,     \* the available amount of every account at the start
  Failures,    \* whether a database transaction may fail
  MaxRestarts  \* bound on the restarts of the process

OrderIds == 1..MaxOrders

\* The two currencies of the symbol.
Currencies == {"USD", "BTC"}

\* What validateOrderRequest and the enums of the table `orders` let through
\* (see LimitBook).
ASSUME RequestsAssumption ==
  /\ \A r \in Requests :
       /\ r.side \in {"BUY", "SELL"}
       /\ r.type \in {"LIMIT", "MARKET"}
       /\ r.price \in Int \cup {NoPrice}
       /\ r.type = "LIMIT" => r.price \in Nat \ {0}
       /\ r.qty \in Nat \ {0}
  /\ NoPrice \notin Int
  /\ NoOrder \notin Int
  /\ MaxOrders \in Nat

ASSUME OrdersAssumption ==
  /\ Owner \in [OrderIds -> Users]
  /\ Quote \in Nat \ {0}
  /\ Opening \in Nat
  /\ Failures \in BOOLEAN
  /\ MaxRestarts \in Nat

VARIABLES
  req, filled, status, stage, level, levels, root, run, trades,  \* the book
  pc,         \* pc[o]: where CreateOrder is with order o
  todo,       \* todo[o]: the trades that it has still to process, in order
  got,        \* got[o]: totalFillQty
  row,        \* row[o]: the row of order o
  available,  \* available[u][c] and held[u][c]: the balances of the account
  held,       \*   of user u in currency c
  restarts,   \* how often the process has been restarted
  \* Variables that only record history:
  settled,    \* settled[o]: what both legs of o's trades have exchanged
  halved      \* the orders with a trade of which one leg only was transferred

LB == INSTANCE LimitBook WITH Removable <- {}

money == <<available, held>>
book == <<filled, status, stage, level, levels, root, run, trades>>
vars == <<req, book, pc, todo, got, row, money, restarts, settled, halved>>

NoRow == [filled |-> 0, status |-> "none"]

\* The rows that GetActiveOrdersBySymbol selects.
Active(o) == row[o].status \in {"NEW", "PARTIALLY_FILLED"}

Init ==
  /\ LB!Init
  /\ pc = [o \in OrderIds |-> "new"]
  /\ todo = [o \in OrderIds |-> <<>>]
  /\ got = [o \in OrderIds |-> 0]
  /\ row = [o \in OrderIds |-> NoRow]
  /\ available = [u \in Users |-> [c \in Currencies |-> Opening]]
  /\ held = [u \in Users |-> [c \in Currencies |-> 0]]
  /\ restarts = 0
  /\ settled = [o \in OrderIds |-> 0]
  /\ halved = {}

-----------------------------------------------------------------------------
(***************************************************************************)
(* CreateOrder, step by step                                               *)
(***************************************************************************)

\* The HTTP server starts after NewService has loaded the books.
Serving == \A o \in OrderIds : pc[o] # "loading"

\* Order o's handler is at `from` and the process serves requests.
At(o, from) == Serving /\ pc[o] = from

Goto(o, to) == pc' = [pc EXCEPT ![o] = to]

\* The order never reaches the book.
NeverMatched(o) ==
  /\ stage' = [stage EXCEPT ![o] = "dropped"]
  /\ UNCHANGED <<req, filled, status, level, levels, root, run, trades>>

\* calculateRequiredAmount: a market order is priced by the quote.
HoldCurrency(o) == IF req[o].side = "BUY" THEN "USD" ELSE "BTC"

RequiredAmount(o) ==
  IF req[o].side = "SELL" THEN req[o].qty
  ELSE req[o].qty * (IF req[o].type = "MARKET" THEN Quote ELSE req[o].price)

\* Mutant of HoldFunds: the error is not returned.
HoldFundsOrNot(o) ==
  LET u == Owner[o]
      c == HoldCurrency(o)
      a == RequiredAmount(o)
  IN /\ At(o, "new")
     /\ Goto(o, "held")
     /\ IF available[u][c] >= a
        THEN /\ available' = [available EXCEPT ![u][c] = @ - a]
             /\ held' = [held EXCEPT ![u][c] = @ + a]
        ELSE UNCHANGED money
     /\ UNCHANGED <<req, book, todo, got, row, restarts, settled, halved>>

\* holdFunds: refused without enough available funds, without a quote yet for
\* a market order, or when its transaction fails.
HoldFunds(o) ==
  LET u == Owner[o]
      c == HoldCurrency(o)
      a == RequiredAmount(o)
  IN /\ At(o, "new")
     /\ \/ /\ available[u][c] >= a
           /\ available' = [available EXCEPT ![u][c] = @ - a]
           /\ held' = [held EXCEPT ![u][c] = @ + a]
           /\ Goto(o, "held")
           /\ UNCHANGED <<req, book>>
        \/ /\ Failures \/ available[u][c] < a
           /\ Goto(o, "refused")
           /\ NeverMatched(o)
           /\ UNCHANGED money
     /\ UNCHANGED <<todo, got, row, restarts, settled, halved>>

\* orderRepo.CreateOrder.  Nothing releases the hold when it fails.
InsertRow(o) ==
  /\ At(o, "held")
  /\ \/ /\ row' = [row EXCEPT ![o] = [filled |-> 0, status |-> "NEW"]]
        /\ Goto(o, "saved")
        /\ UNCHANGED <<req, book>>
     \/ /\ Failures
        /\ Goto(o, "failed")
        /\ NeverMatched(o)
        /\ UNCHANGED row
  /\ UNCHANGED <<todo, got, money, restarts, settled, halved>>

\* orderBook.MatchOrder: called, at work, returned, or panicked.
MatchOrder(o) ==
  /\ At(o, "saved")
  /\ LB!MatchOrder(o)
  /\ Goto(o, "matching")
  /\ UNCHANGED <<todo, got, row, money, restarts, settled, halved>>

MatchGoesOn ==
  /\ \/ LB!EnterLevel \/ LB!LeaveLevel
     \/ LB!SkipOrder \/ LB!FillPartly \/ LB!FillMaker
  /\ UNCHANGED <<pc, todo, got, row, money, restarts, settled, halved>>

MatchReturns ==
  /\ LB!Return
  /\ Goto(run.taker, "settling")
  /\ todo' = [todo EXCEPT ![run.taker] = trades]
  /\ UNCHANGED <<got, row, money, restarts, settled, halved>>

MatchPanics ==
  /\ LB!FillPanics
  /\ Goto(run.taker, "failed")
  /\ UNCHANGED <<todo, got, row, money, restarts, settled, halved>>

MatchStep == MatchGoesOn \/ MatchReturns \/ MatchPanics

\* The two transfers of a trade of order o, in the order processTrade makes
\* them: the taker pays first.
Legs(o, t) ==
  LET taker == Owner[o]
      maker == Owner[t.maker]
      buys == req[o].side = "BUY"
      usd == [from |-> IF buys THEN taker ELSE maker, to |-> IF buys THEN maker ELSE taker,
              currency |-> "USD", amount |-> t.price * t.qty]
      base == [from |-> usd.to, to |-> usd.from, currency |-> "BTC", amount |-> t.qty]
  IN IF buys THEN <<usd, base>> ELSE <<base, usd>>

\* Mutant of CanPay: no check of the balance.
CanAlwaysPay(l) == l.amount > 0

\* TransferFunds takes from what is available, not from what is on hold, and
\* refuses the amount of a market order that rested at a price that is not
\* positive.
CanPay(l) == l.amount > 0 /\ available[l.from][l.currency] >= l.amount

\* The second absolute write of a transfer to the same account overwrites the
\* first (see Ledger).
Transfer(l) ==
  available' =
    IF l.from = l.to THEN [available EXCEPT ![l.to][l.currency] = @ + l.amount]
    ELSE [available EXCEPT ![l.from][l.currency] = @ - l.amount,
                           ![l.to][l.currency] = @ + l.amount]

NextTrade(o) == todo' = [todo EXCEPT ![o] = Tail(@)]

\* Mutant of FirstLeg: a trade that fails is tried again.
FirstLegAgain(o) ==
  /\ At(o, "settling")
  /\ todo[o] # <<>>
  /\ LET l == Legs(o, Head(todo[o]))[1]
     IN CanPay(l) /\ Transfer(l)
  /\ Goto(o, "halfway")
  /\ UNCHANGED <<req, book, todo, got, row, held, restarts, settled, halved>>

\* The first transfer commits by itself.  An error is logged and the next
\* trade is processed.
FirstLeg(o) ==
  /\ At(o, "settling")
  /\ todo[o] # <<>>
  /\ LET l == Legs(o, Head(todo[o]))[1]
     IN \/ /\ CanPay(l)
           /\ Transfer(l)
           /\ Goto(o, "halfway")
           /\ UNCHANGED todo
        \/ /\ Failures \/ ~CanPay(l)
           /\ NextTrade(o)
           /\ UNCHANGED <<available, pc>>
  /\ UNCHANGED <<req, book, got, row, held, restarts, settled, halved>>

\* Mutant of SecondLeg: a trade marks the maker's row filled.
SecondLegMarksMaker(o) ==
  LET t == Head(todo[o])
      l == Legs(o, t)[2]
  IN /\ At(o, "halfway")
     /\ NextTrade(o)
     /\ Goto(o, "settling")
     /\ CanPay(l)
     /\ Transfer(l)
     /\ settled' = [settled EXCEPT ![o] = @ + t.qty]
     /\ got' = [got EXCEPT ![o] = @ + t.qty]
     /\ row' = [row EXCEPT ![t.maker].status = "FILLED"]
     /\ UNCHANGED <<req, book, held, restarts, halved>>

\* The second transfer: nothing takes the first one back when it fails.  The
\* outer transaction, in which nothing was written, may fail to commit: then
\* the trade does not count although both transfers did.
SecondLeg(o) ==
  LET t == Head(todo[o])
      l == Legs(o, t)[2]
  IN /\ At(o, "halfway")
     /\ NextTrade(o)
     /\ Goto(o, "settling")
     /\ \/ /\ CanPay(l)
           /\ Transfer(l)
           /\ settled' = [settled EXCEPT ![o] = @ + t.qty]
           /\ \/ got' = [got EXCEPT ![o] = @ + t.qty]
              \/ Failures /\ UNCHANGED got
           /\ UNCHANGED halved
        \/ /\ Failures \/ ~CanPay(l)
           /\ halved' = halved \cup {o}
           /\ UNCHANGED <<available, settled, got>>
     /\ UNCHANGED <<req, book, row, held, restarts>>

\* The status the row gets depends on the trades that counted.
StatusOf(o) ==
  IF got[o] = req[o].qty THEN "FILLED" ELSE IF got[o] > 0 THEN "PARTIALLY_FILLED" ELSE "NEW"

\* Mutant of UpdateRow: the row gets the FilledQty of the book's order.
UpdateRowFromBook(o) ==
  /\ At(o, "settling")
  /\ todo[o] = <<>>
  /\ row' = [row EXCEPT ![o] = [filled |-> filled[o], status |-> StatusOf(o)]]
  /\ Goto(o, "updated")
  /\ UNCHANGED <<req, book, todo, got, money, restarts, settled, halved>>

\* orderRepo.UpdateOrder updates the creator's own row and no maker's.
UpdateRow(o) ==
  /\ At(o, "settling")
  /\ todo[o] = <<>>
  /\ \/ /\ row' = [row EXCEPT ![o] = [filled |-> got[o], status |-> StatusOf(o)]]
        /\ Goto(o, "updated")
        /\ UNCHANGED <<req, book>>
     \/ /\ Failures
        /\ Goto(o, "failed")
        /\ LB!Drop(o)
        /\ UNCHANGED row
  /\ UNCHANGED <<todo, got, money, restarts, settled, halved>>

\* The order rests on the book unless its row is filled now.  A market order
\* without a price panics there.
AddOrder(o) ==
  /\ At(o, "updated")
  /\ \/ /\ Active(o)
        /\ LB!AddOrder(o)
        /\ Goto(o, IF req[o].price = NoPrice THEN "failed" ELSE "answered")
     \/ /\ ~Active(o)
        /\ LB!Drop(o)
        /\ Goto(o, "answered")
  /\ UNCHANGED <<todo, got, row, money, restarts, settled, halved>>

-----------------------------------------------------------------------------
(***************************************************************************)
(* The process dies and starts again                                       *)
(***************************************************************************)

\* The book, and whatever the requests were doing, is lost.  An order is what
\* its row says: loadOrdersIntoBooks finds the active ones, or its query fails,
\* which is logged, and the process serves with an empty book.
RestartWith(found) ==
  /\ restarts < MaxRestarts
  /\ restarts' = restarts + 1
  /\ pc' = [o \in OrderIds |->
       IF o \in found THEN "loading"
       ELSE IF pc[o] \in {"new", "refused", "failed", "answered"} THEN pc[o] ELSE "failed"]
  /\ stage' = [o \in OrderIds |->
       IF o \in found THEN "matched" ELSE IF pc[o] = "new" THEN "new" ELSE "dropped"]
  /\ filled' = [o \in OrderIds |-> row[o].filled]
  /\ status' = [o \in OrderIds |-> IF row[o] = NoRow THEN "NEW" ELSE row[o].status]
  /\ level' = [s \in LB!Sides |-> <<>>]
  /\ levels' = [s \in LB!Sides |-> [p \in LB!Prices |-> 0]]
  /\ root' = [s \in LB!Sides |-> 0]
  /\ run' = LB!Idle
  /\ trades' = <<>>
  /\ todo' = [o \in OrderIds |-> <<>>]
  /\ got' = [o \in OrderIds |-> 0]
  /\ halved' = halved \cup {o \in OrderIds : pc[o] = "halfway"}
  /\ UNCHANGED <<req, row, money, settled>>

\* Mutant of Restart: the query returns one page of one row.
RestartPaged ==
  \/ RestartWith({o \in OrderIds : Active(o) /\ \A p \in 1..(o - 1) : ~Active(p)})
  \/ Failures /\ RestartWith({})

Restart ==
  \/ RestartWith({o \in OrderIds : Active(o)})
  \/ Failures /\ RestartWith({})

\* A row without a price has panicked in main: the process is gone.
StartFailed == \E o \in OrderIds : pc[o] = "loading" /\ stage[o] = "panicked"

\* Mutant of Load: goes no further than the first row.
LoadFirst(o) ==
  /\ pc[o] = "loading"
  /\ \A p \in OrderIds : pc[p] # "loaded"
  /\ LB!AddOrder(o)
  /\ IF req[o].price = NoPrice THEN UNCHANGED pc ELSE Goto(o, "loaded")
  /\ UNCHANGED <<todo, got, row, money, restarts, settled, halved>>

\* loadOrdersIntoBooks adds one of the rows (by created_at, which was taken
\* before the book was locked: in any order).
Load(o) ==
  /\ pc[o] = "loading"
  /\ ~StartFailed
  /\ LB!AddOrder(o)
  /\ IF req[o].price = NoPrice THEN UNCHANGED pc ELSE Goto(o, "loaded")
  /\ UNCHANGED <<todo, got, row, money, restarts, settled, halved>>

-----------------------------------------------------------------------------

\* The steps of order o's handler after MatchOrder returned.
Finish(o) == FirstLeg(o) \/ SecondLeg(o) \/ UpdateRow(o) \/ AddOrder(o)

Next ==
  \/ \E o \in OrderIds :
       HoldFunds(o) \/ InsertRow(o) \/ MatchOrder(o) \/ Finish(o) \/ Load(o)
  \/ MatchStep
  \/ Restart

Spec == Init /\ [][Next]_vars

\* Goroutines go on, the start-up included.  Requests need not come in.
Fairness ==
  /\ WF_vars(MatchStep)
  /\ \A o \in OrderIds : WF_vars(Finish(o)) /\ WF_vars(Load(o))

FairSpec == Spec /\ Fairness

-----------------------------------------------------------------------------
(***************************************************************************)
(* Properties                                                              *)
(***************************************************************************)

\* Type invariant.  The book's own holds across restarts, too, and no balance
\* becomes negative.
TypeOK ==
  /\ LB!TypeOK
  /\ pc \in [OrderIds -> {"new", "refused", "held", "saved", "matching", "settling",
                          "halfway", "updated", "answered", "failed", "loading", "loaded"}]
  /\ todo \in [OrderIds -> Seq([maker : OrderIds, price : LB!Prices, qty : Nat])]
  /\ got \in [OrderIds -> Nat]
  /\ row \in [OrderIds -> [filled : Nat, status : {"none", "NEW", "PARTIALLY_FILLED", "FILLED"}]]
  /\ available \in [Users -> [Currencies -> Nat]]
  /\ held \in [Users -> [Currencies -> Nat]]
  /\ restarts \in 0..MaxRestarts
  /\ settled \in [OrderIds -> Nat]
  /\ halved \subseteq OrderIds

\* What a row says is filled, both legs of its trades have exchanged: no
\* failure, panic or restart makes an order claim more than was paid.
RowsBackedByLedger == \A o \in OrderIds : row[o].filled <= settled[o]

\* The orders of user u that the book may trade with the funds of currency c.
Tradable(u, c) ==
  {o \in OrderIds : /\ stage[o] \in {"matching", "matched", "resting"}
                    /\ Owner[o] = u
                    /\ HoldCurrency(o) = c}

\* Nothing is matched or rests on the book without its funds on hold, also
\* what a restart has loaded.
HoldsCoverBook ==
  \A u \in Users, c \in Currencies :
    held[u][c] >= MapThenSumSet(RequiredAmount, Tradable(u, c))

\* An order that others may still trade with is found again by a restart: its
\* row is active.
LiveOrdersSurvive ==
  \A o \in OrderIds : stage[o] = "resting" /\ LB!Remaining(o) > 0 => Active(o)

\* Whatever fails and whenever the process dies, the service serves one market:
\* no order is ever matched twice or rests twice in one start, none that others may
\* trade with disappears while it runs, and a restart loads all of these, or none,
\* with no more filled than was (service.go:101-147 and 345-359).
X == INSTANCE Exchange WITH taker <- run.taker
ServesExchange == X!Service

\* MatchOrder goes round on a level with nothing left to trade, holding the
\* book's mutex.
Spinning == run.pc # "idle" /\ LB!Continues /\ LB!LiveIndexes(LB!Best) = {}

\* A request that has reached the book is answered or fails; only a book that
\* spins on an exhausted level keeps it, or another request, for ever.
RequestsEnd ==
  \A o \in OrderIds :
    pc[o] = "matching" ~> \/ pc[o] \notin {"matching", "settling", "halfway", "updated"}
                          \/ Spinning

\* A process that starts again comes to serve requests; only the row of an open
\* market order, which has no price to rest at, keeps it from that.
StartsAgain ==
  ~Serving ~> Serving \/ \E o \in OrderIds : Active(o) /\ req[o].price = NoPrice

\* docs/01_monolith.md:19, "Atomic transactions with PostgreSQL": a trade is
\* settled as a whole or not at all.
TradesAtomic == halved = {}

=============================================================================
