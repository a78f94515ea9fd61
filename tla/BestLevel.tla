------------------------------ MODULE BestLevel ------------------------------
(***************************************************************************)
(* What a book side needs from its heap of price levels: the level at the  *)
(* root.  Levels are numbered in the order in which they are pushed and    *)
(* none is ever popped.  LimitBook keeps its roots in just this way.       *)
(***************************************************************************)
EXTENDS Integers, Sequences

CONSTANTS
  Prices,     \* the prices of levels, integers
  MaxLevels   \* bound on the levels that are pushed

VARIABLES
  price,  \* price[k]: the price of level k
  root    \* the level at the root, 0 while the heap is empty

Init == price = <<>> /\ root = 0

\* A new level becomes the root only if it is strictly cheaper.
Push(p) ==
  /\ Len(price) < MaxLevels
  /\ price' = Append(price, p)
  /\ root' = IF root = 0 \/ p < price[root] THEN Len(price) + 1 ELSE root

Next == \E p \in Prices : Push(p)

Spec == Init /\ [][Next]_<<price, root>>

=============================================================================
