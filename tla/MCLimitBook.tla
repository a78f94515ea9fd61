---------------------------- MODULE MCLimitBook ----------------------------
(***************************************************************************)
(* Instances of LimitBook for TLC: limit and market orders of a few        *)
(* prices and quantities; a market order may come without a price, or with *)
(* one that is not positive.                                               *)
(***************************************************************************)
EXTENDS LimitBook

Limit(side, p, q) == [side |-> side, type |-> "LIMIT", price |-> p, qty |-> q]
Market(side, p, q) == [side |-> side, type |-> "MARKET", price |-> p, qty |-> q]

MCRequests ==
  {Limit("SELL", 1, q) : q \in {1, 2}} \cup {Limit("SELL", 2, 1)}
    \cup {Limit("BUY", 1, 1), Limit("BUY", 2, 3), Market("SELL", 0, 2)}
    \cup {Market("BUY", NoPrice, 2)}

\* Bids at two prices and a seller whom both would pay.
MCBids == {Limit("BUY", p, 1) : p \in {1, 2}} \cup {Limit("SELL", 1, q) : q \in {1, 2}}
=============================================================================
