------------------------------- MODULE Market -------------------------------
(***************************************************************************)
(* What the order book of one symbol promises its callers: a set of        *)
(* resting orders, of which a call takes the cheapest it accepts, one      *)
(* whole trade after the other, and which it leaves when nothing is left   *)
(* to trade.  There are no levels, heaps or slices, and no loops.          *)
(*                                                                         *)
(* Two exceptions belong to what the code promises: sellers are matched    *)
(* with the lowest bid, too, and may be left with higher ones; and a call  *)
(* that has traded may be lost with its last trade.                        *)
(***************************************************************************)
EXTENDS Integers, Sequences

CONSTANTS
  MaxOrders, Requests, NoPrice,  \* as in LimitBook
  NoOrder                        \* no call is running

OrderIds == 1..MaxOrders

VARIABLES
  req,     \* req[o]: what the creator of order o asked for
  filled,  \* filled[o]: how much of it has been traded
  stage,   \* stage[o]: where order o is in the calls its creator makes
  taker,   \* the order of the running call
  trades   \* the trades of the latest call, in order

vars == <<req, filled, stage, taker, trades>>

Init ==
  /\ req \in [OrderIds -> Requests]
  /\ filled = [o \in OrderIds |-> 0]
  /\ stage = [o \in OrderIds |-> "new"]
  /\ taker = NoOrder
  /\ trades = <<>>

Remaining(o) == req[o].qty - filled[o]

Move(o, from, to) == stage[o] = from /\ stage' = [stage EXCEPT ![o] = to]

-----------------------------------------------------------------------------
(***************************************************************************)
(* A call                                                                  *)
(***************************************************************************)

\* The resting orders on the other side that have something left.
Live ==
  {m \in OrderIds :
     stage[m] = "resting" /\ req[m].side # req[taker].side /\ Remaining(m) > 0}

\* The taker's limit, if it has one, admits price p.
Accepts(p) ==
  req[taker].type = "LIMIT" =>
    IF req[taker].side = "BUY" THEN p <= req[taker].price ELSE p >= req[taker].price

Begin(o) ==
  /\ taker = NoOrder
  /\ Move(o, "new", "matching")
  /\ taker' = o
  /\ trades' = <<>>
  /\ UNCHANGED <<req, filled>>

Quantity(m) == IF Remaining(taker) <= Remaining(m) THEN Remaining(taker) ELSE Remaining(m)

\* The taker and m trade as much as both can; no live order is cheaper than m.
Charge(m) ==
  /\ taker # NoOrder
  /\ Remaining(taker) > 0
  /\ m \in Live
  /\ Accepts(req[m].price)
  /\ \A x \in Live : req[m].price <= req[x].price
  /\ filled' = [filled EXCEPT ![taker] = @ + Quantity(m), ![m] = @ + Quantity(m)]

Trade(m) ==
  /\ Charge(m)
  /\ trades' = Append(trades, [maker |-> m, price |-> req[m].price, qty |-> Quantity(m)])
  /\ UNCHANGED <<req, stage, taker>>

\* A later trade that fills its maker is made, but no trade of the call is ever
\* reported.
Lose(m) ==
  /\ Charge(m)
  /\ Remaining(m) <= Remaining(taker)
  /\ trades # <<>>
  /\ trades' = <<>>
  /\ Move(taker, "matching", "panicked")
  /\ taker' = NoOrder
  /\ UNCHANGED req

\* A buyer leaves no live order behind that it would accept.
End ==
  /\ taker # NoOrder
  /\ \/ Remaining(taker) = 0
     \/ req[taker].side = "BUY" => \A m \in Live : ~Accepts(req[m].price)
  /\ Move(taker, "matching", "matched")
  /\ taker' = NoOrder
  /\ UNCHANGED <<req, filled, trades>>

-----------------------------------------------------------------------------
(***************************************************************************)
(* Between calls                                                           *)
(***************************************************************************)

\* An order without a price cannot rest.
Rest(o) ==
  /\ taker = NoOrder
  /\ Move(o, "matched", IF req[o].price = NoPrice THEN "panicked" ELSE "resting")
  /\ UNCHANGED <<req, filled, taker, trades>>

Withdraw(o) ==
  /\ taker = NoOrder
  /\ Move(o, "resting", "removed")
  /\ UNCHANGED <<req, filled, taker, trades>>

GiveUp(o) ==
  /\ Move(o, "matched", "dropped")
  /\ UNCHANGED <<req, filled, taker, trades>>

Next ==
  \/ \E o \in OrderIds :
       Begin(o) \/ Trade(o) \/ Lose(o) \/ Rest(o) \/ Withdraw(o) \/ GiveUp(o)
  \/ End

Spec == Init /\ [][Next]_vars

=============================================================================
