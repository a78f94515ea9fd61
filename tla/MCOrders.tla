------------------------------ MODULE MCOrders ------------------------------
(***************************************************************************)
(* Instances of Orders for TLC: three orders of two users, who may meet    *)
(* their own orders.                                                       *)
(***************************************************************************)
EXTENDS Orders

Request(side, type, p, q) == [side |-> side, type |-> type, price |-> p, qty |-> q]

MCRequests ==
  {Request("SELL", "LIMIT", 1, q) : q \in {1, 2}}
    \cup {Request("BUY", "LIMIT", 1, 1), Request("BUY", "MARKET", NoPrice, 2)}
    \cup {Request("SELL", "MARKET", 0, 1)}

\* The users of the orders, in the order they lock the book.
MCOwner == [o \in OrderIds |-> IF o = 2 THEN "bob" ELSE "alice"]

\* A seller who sells all he has, and a buyer who can pay once more for what
\* he holds funds for.
MCPair == {Request("SELL", "LIMIT", 1, 2), Request("BUY", "LIMIT", 1, 1)}
=============================================================================
