------------------------------ MODULE PriceHeap ------------------------------
(***************************************************************************)
(* PriceHeap of internal/limitbook/heap.go under heap.Push of Go's         *)
(* container/heap: the level is appended and then swapped upwards, one     *)
(* comparison at a time.  NewPriceHeap ignores its argument, so both sides *)
(* of the book keep the same heap, and heap.Pop is never called.           *)
(***************************************************************************)
EXTENDS Integers, Sequences

CONSTANTS
  Prices,     \* the prices of levels
  MaxLevels   \* bound on the levels that are pushed

ASSUME PricesAssumption == Prices \subseteq Int /\ MaxLevels \in Nat

VARIABLES
  price,  \* price[k]: the price of the k-th level that was pushed
  h,      \* the slice: h[i] is a level
  j       \* the index heap.Push is moving up, 0 when none is

vars == <<price, h, j>>

\* Mutants of Less: the other direction, and levels of one price.
LessGreater(a, b) == price[h[a]] > price[h[b]]

LessOrEqual(a, b) == price[h[a]] <= price[h[b]]

Less(a, b) == price[h[a]] < price[h[b]]

\* Mutant of Swap: one level is overwritten.
SwapHalf(a, b) == [h EXCEPT ![a] = h[b]]

Swap(a, b) == [h EXCEPT ![a] = h[b], ![b] = h[a]]

Init == price = <<>> /\ h = <<>> /\ j = 0

Push(p) ==
  /\ j = 0
  /\ Len(price) < MaxLevels
  /\ price' = Append(price, p)
  /\ h' = Append(h, Len(price) + 1)
  /\ j' = Len(h) + 1

Parent(i) == i \div 2

\* up: go on with the parent while the level is less than it.
Up ==
  /\ j # 0
  /\ \/ /\ j > 1 /\ Less(j, Parent(j))
        /\ h' = Swap(j, Parent(j))
        /\ j' = Parent(j)
     \/ /\ ~(j > 1 /\ Less(j, Parent(j)))
        /\ j' = 0
        /\ UNCHANGED h
  /\ UNCHANGED price

Next == (\E p \in Prices : Push(p)) \/ Up

Spec == Init /\ [][Next]_vars

-----------------------------------------------------------------------------

\* Type invariant: every level that was pushed is in the slice once.
TypeOK ==
  /\ price \in Seq(Prices)
  /\ h \in Seq(1..Len(price))
  /\ Len(h) = Len(price)
  /\ \A a, b \in 1..Len(h) : a # b => h[a] # h[b]
  /\ j \in 0..Len(h)

\* While a level is moving up, no other level is cheaper than the root.
RootIsLowest ==
  \A i \in 1..Len(h) : i # j => price[h[1]] <= price[h[i]]

\* The root that GetBestLevel reads when the push is complete.
Root ==
  IF h = <<>> THEN 0
  ELSE IF j > 1 /\ price[h[j]] < price[h[1]] THEN h[j]
  ELSE h[1]

Best == INSTANCE BestLevel WITH root <- Root

\* The array heap keeps the root as BestLevel says: only a strictly cheaper
\* level replaces it.
TracksBest == Best!Spec

=============================================================================
