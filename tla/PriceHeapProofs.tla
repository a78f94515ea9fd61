--------------------------- MODULE PriceHeapProofs ---------------------------
(***************************************************************************)
(* Proofs about PriceHeap, for every set of prices and every bound: types, *)
(* that the root is the lowest price, and that the array heap implements   *)
(* BestLevel.  The argument needs no heap order: a level that moves up is  *)
(* compared last with the root, which no other level is below.             *)
(***************************************************************************)
EXTENDS PriceHeap, SequenceTheorems, TLAPS

\* The inductive invariant: types, and that the root is below all others.
IInv == TypeOK /\ RootIsLowest

\* The cells of the slice are levels, and levels have integer prices.
LEMMA Cells ==
  ASSUME IInv
  PROVE  \A i \in 1..Len(h) : h[i] \in 1..Len(price) /\ price[h[i]] \in Int
<1> SUFFICES ASSUME NEW i \in 1..Len(h)
             PROVE  h[i] \in 1..Len(price) /\ price[h[i]] \in Int
  OBVIOUS
<1>1. h[i] \in 1..Len(price)
  BY DEF IInv, TypeOK
<1>2. price[h[i]] \in Prices
  BY <1>1 DEF IInv, TypeOK
<1> QED BY <1>1, <1>2, PricesAssumption

LEMMA InitIInv == Init => IInv
BY DEF Init, IInv, TypeOK, RootIsLowest

\* A push appends at the end, where RootIsLowest does not look.
LEMMA PushIInv ==
  ASSUME IInv, NEW p \in Prices, Push(p)
  PROVE  IInv'
<1>1. /\ price \in Seq(Prices) /\ h \in Seq(1..Len(price)) /\ Len(h) = Len(price)
      /\ Len(price) \in Nat /\ j = 0
      /\ \A a, b \in 1..Len(h) : a # b => h[a] # h[b]
  BY LenProperties DEF IInv, TypeOK, Push
<1>2. /\ price' = Append(price, p) /\ h' = Append(h, Len(price) + 1) /\ j' = Len(h) + 1
  BY DEF Push
<1>3. /\ price' \in Seq(Prices) /\ Len(price') = Len(price) + 1
      /\ \A i \in 1..Len(price) : price'[i] = price[i]
  BY ONLY <1>1, <1>2, p \in Prices, AppendProperties
<1>4. /\ \A i \in 1..Len(h) : h[i] \in 1..Len(price)
      /\ h \in Seq(1 .. Len(price) + 1)
  <2>1. \A i \in 1..Len(h) : h[i] \in 1..Len(price)
    BY ONLY <1>1, ElementOfSeq
  <2> QED BY ONLY <1>1, <2>1
<1>5. /\ h' \in Seq(1..Len(price')) /\ Len(h') = Len(h) + 1
      /\ \A i \in 1..Len(h) : h'[i] = h[i]
      /\ h'[Len(h) + 1] = Len(price) + 1
  <2>1. Len(price) + 1 \in 1 .. Len(price) + 1
    BY ONLY <1>1
  <2> QED BY ONLY <1>1, <1>2, <1>3, <1>4, <2>1, AppendProperties
<1>6. ASSUME NEW a \in 1..Len(h'), NEW b \in 1..Len(h'), a # b
      PROVE  h'[a] # h'[b]
  <2>1. (a \in 1..Len(h) \/ a = Len(h) + 1) /\ (b \in 1..Len(h) \/ b = Len(h) + 1)
    BY ONLY <1>1, <1>5, a \in 1..Len(h'), b \in 1..Len(h')
  <2>2. CASE a \in 1..Len(h) /\ b \in 1..Len(h)
    BY ONLY <1>1, <1>5, <1>6, <2>2
  <2>3. CASE a = Len(h) + 1 /\ b \in 1..Len(h)
    <3>1. h'[a] = Len(price) + 1 /\ h'[b] = h[b] /\ h[b] \in 1..Len(price)
      BY ONLY <1>4, <1>5, <2>3
    <3> QED BY ONLY <1>1, <3>1
  <2>4. CASE a \in 1..Len(h) /\ b = Len(h) + 1
    <3>1. h'[b] = Len(price) + 1 /\ h'[a] = h[a] /\ h[a] \in 1..Len(price)
      BY ONLY <1>4, <1>5, <2>4
    <3> QED BY ONLY <1>1, <3>1
  <2> QED BY ONLY <1>6, <2>1, <2>2, <2>3, <2>4
<1>7. TypeOK'
  BY ONLY <1>1, <1>2, <1>3, <1>5, <1>6 DEF TypeOK
<1>8. RootIsLowest'
  <2> SUFFICES ASSUME NEW i \in 1..Len(h'), i # j'
               PROVE  price'[h'[1]] <= price'[h'[i]]
    BY DEF RootIsLowest
  <2>1. i \in 1..Len(h) /\ i # j
    BY ONLY <1>1, <1>2, <1>5, i \in 1..Len(h'), i # j'
  <2>2. price[h[1]] <= price[h[i]]
    BY ONLY IInv, <2>1 DEF IInv, RootIsLowest
  <2>3. 1 \in 1..Len(h) /\ h'[1] = h[1] /\ h'[i] = h[i]
    BY ONLY <1>1, <1>5, <2>1
  <2>4. price'[h[1]] = price[h[1]] /\ price'[h[i]] = price[h[i]]
    BY ONLY <1>3, <1>4, <2>1, <2>3
  <2> QED BY ONLY <2>2, <2>3, <2>4
<1> QED BY <1>7, <1>8 DEF IInv

\* Swapping two cells, cell by cell.
LEMMA SwapCells ==
  ASSUME NEW S, h \in Seq(S), NEW a \in 1..Len(h), NEW b \in 1..Len(h), a # b
  PROVE  /\ Swap(a, b) \in Seq(S) /\ Len(Swap(a, b)) = Len(h)
         /\ \A i \in 1..Len(h) :
              Swap(a, b)[i] = IF i = a THEN h[b] ELSE IF i = b THEN h[a] ELSE h[i]
<1> DEFINE g == [h EXCEPT ![a] = h[b]]
<1>1. h[a] \in S /\ h[b] \in S
  OBVIOUS
<1>2. /\ g \in Seq(S) /\ Len(g) = Len(h)
      /\ \A i \in 1..Len(h) : g[i] = IF i = a THEN h[b] ELSE h[i]
  BY <1>1, ExceptSeq
<1>3. Swap(a, b) = [g EXCEPT ![b] = h[a]]
  BY DEF Swap
<1> HIDE DEF g
<1>4. b \in 1..Len(g)
  BY <1>2
<1>5. /\ [g EXCEPT ![b] = h[a]] \in Seq(S)
      /\ Len([g EXCEPT ![b] = h[a]]) = Len(g)
      /\ \A i \in 1..Len(g) : [g EXCEPT ![b] = h[a]][i] = IF i = b THEN h[a] ELSE g[i]
  BY ONLY <1>1, <1>2, <1>4, ExceptSeq
<1> QED BY ONLY <1>2, <1>3, <1>5, a # b

\* What the step of up that swaps does, with its parent named.
LEMMA SwapStep ==
  ASSUME IInv, j > 1, Less(j, Parent(j)), h' = Swap(j, Parent(j)), j' = Parent(j)
  PROVE  \E a \in 1..Len(h) :
           /\ a # j /\ j' = a /\ j \in 1..Len(h) /\ 1 \in 1..Len(h)
           /\ price[h[j]] < price[h[a]] /\ price[h[1]] <= price[h[a]]
           /\ h' \in Seq(1..Len(price)) /\ Len(h') = Len(h)
           /\ \A i \in 1..Len(h) :
                h'[i] = IF i = j THEN h[a] ELSE IF i = a THEN h[j] ELSE h[i]
<1>1. Parent(j) \in 1..Len(h) /\ Parent(j) # j /\ j \in 1..Len(h) /\ 1 \in 1..Len(h)
  BY DEF Parent, IInv, TypeOK
<1>2. h \in Seq(1..Len(price))
  BY DEF IInv, TypeOK
<1>3. price[h[1]] <= price[h[Parent(j)]]
  BY <1>1 DEF IInv, RootIsLowest
<1>4. price[h[j]] < price[h[Parent(j)]]
  BY DEF Less
<1>5. /\ h' \in Seq(1..Len(price)) /\ Len(h') = Len(h)
      /\ \A i \in 1..Len(h) :
           h'[i] = IF i = j THEN h[Parent(j)] ELSE IF i = Parent(j) THEN h[j] ELSE h[i]
  <2> DEFINE S == 1..Len(price)
             b == Parent(j)
  <2>1. h \in Seq(S) /\ j \in 1..Len(h) /\ b \in 1..Len(h) /\ j # b
    BY <1>1, <1>2
  <2> HIDE DEF S, b
  <2>2. /\ Swap(j, b) \in Seq(S) /\ Len(Swap(j, b)) = Len(h)
        /\ \A i \in 1..Len(h) :
             Swap(j, b)[i] = IF i = j THEN h[b] ELSE IF i = b THEN h[j] ELSE h[i]
    BY ONLY <2>1, SwapCells
  <2>3. h' = Swap(j, b)
    BY DEF b
  <2> QED BY ONLY <2>2, <2>3 DEF S, b
<1> QED BY <1>1, <1>3, <1>4, <1>5

\* What the step of up that stops has found: no level is below the root.
LEMMA StopStep ==
  ASSUME IInv, j # 0, ~(j > 1 /\ Less(j, Parent(j)))
  PROVE  \A i \in 1..Len(h) : price[h[1]] <= price[h[i]]
<1> SUFFICES ASSUME NEW i \in 1..Len(h) PROVE price[h[1]] <= price[h[i]]
  OBVIOUS
<1>0. j \in 1..Len(h) /\ 1 \in 1..Len(h)
  BY DEF IInv, TypeOK
<1>1. price[h[1]] \in Int /\ price[h[i]] \in Int /\ price[h[j]] \in Int
  BY ONLY <1>0, Cells, IInv, i \in 1..Len(h)
<1>2. CASE i # j
  BY <1>2 DEF IInv, RootIsLowest
<1>3. CASE i = j /\ j = 1
  BY <1>1, <1>3
<1>4. CASE i = j /\ j > 1
  <2>1. Parent(j) \in 1..Len(h) /\ Parent(j) # j
    BY <1>0, <1>4 DEF Parent
  <2>2. price[h[1]] <= price[h[Parent(j)]]
    BY <2>1 DEF IInv, RootIsLowest
  <2>3. price[h[Parent(j)]] \in Int
    BY ONLY <2>1, Cells, IInv
  <2>4. ~(price[h[j]] < price[h[Parent(j)]])
    BY <1>4 DEF Less
  <2> QED BY ONLY <1>1, <1>4, <2>2, <2>3, <2>4
<1> QED BY <1>0, <1>2, <1>3, <1>4

\* A step of up swaps two cells or stops where the parent is not above.
LEMMA UpIInv ==
  ASSUME IInv, Up
  PROVE  IInv'
<1>0. price' = price
  BY DEF Up
<1>1. CASE j > 1 /\ Less(j, Parent(j)) /\ h' = Swap(j, Parent(j)) /\ j' = Parent(j)
  <2>1. PICK a \in 1..Len(h) :
           /\ a # j /\ j' = a /\ j \in 1..Len(h) /\ 1 \in 1..Len(h)
           /\ price[h[j]] < price[h[a]] /\ price[h[1]] <= price[h[a]]
           /\ h' \in Seq(1..Len(price)) /\ Len(h') = Len(h)
           /\ \A i \in 1..Len(h) :
                h'[i] = IF i = j THEN h[a] ELSE IF i = a THEN h[j] ELSE h[i]
    BY <1>1, SwapStep
  <2>2. TypeOK'
    <3>1. \A c, d \in 1..Len(h) : c # d => h[c] # h[d]
      BY DEF IInv, TypeOK
    <3>2. \A c, d \in 1..Len(h) : c # d => h'[c] # h'[d]
      BY ONLY <2>1, <3>1
    <3> QED BY <1>0, <2>1, <3>2 DEF IInv, TypeOK
  <2>3. ASSUME NEW i \in 1..Len(h), i # a
        PROVE  price[h'[1]] <= price[h'[i]]
    <3>1. /\ price[h[1]] \in Int /\ price[h[j]] \in Int
          /\ price[h[a]] \in Int /\ price[h[i]] \in Int
      BY ONLY <2>1, <2>3, Cells, IInv
    <3>2. i # j => price[h[1]] <= price[h[i]]
      BY DEF IInv, RootIsLowest
    <3>3. /\ h'[i] = IF i = j THEN h[a] ELSE h[i]
          /\ h'[1] = IF a = 1 THEN h[j] ELSE h[1]
      BY ONLY <1>1, <2>1, <2>3
    <3>4. CASE i = j
      BY ONLY <2>1, <3>1, <3>3, <3>4
    <3>5. CASE i # j
      BY ONLY <2>1, <3>1, <3>2, <3>3, <3>5
    <3> QED BY <3>4, <3>5
  <2> QED BY <1>0, <2>1, <2>2, <2>3 DEF IInv, RootIsLowest
<1>2. CASE ~(j > 1 /\ Less(j, Parent(j))) /\ j' = 0 /\ UNCHANGED h
  <2>1. j # 0
    BY DEF Up
  <2>2. TypeOK'
    BY <1>0, <1>2 DEF IInv, TypeOK
  <2> QED BY <1>0, <1>2, <2>1, <2>2, StopStep DEF IInv, RootIsLowest
<1> QED BY <1>1, <1>2 DEF Up

LEMMA NextIInv == IInv /\ [Next]_vars => IInv'
<1> SUFFICES ASSUME IInv, [Next]_vars PROVE IInv'
  OBVIOUS
<1>1. CASE UNCHANGED vars
  BY <1>1 DEF IInv, TypeOK, RootIsLowest, vars
<1> QED BY <1>1, PushIInv, UpIInv DEF Next

LEMMA SpecIInv == Spec => []IInv
BY InitIInv, NextIInv, PTL DEF Spec

\* The slice always holds each level that was pushed once.
THEOREM TypeCorrect == Spec => []TypeOK
BY SpecIInv, PTL DEF IInv

\* The root is never above a level that is not being moved.
THEOREM LowestAtRoot == Spec => []RootIsLowest
BY SpecIInv, PTL DEF IInv

-----------------------------------------------------------------------------

LEMMA InitBest == Init => Best!Init
BY DEF Init, Best!Init, Root

\* Push is BestLevel's Push: Root is compared with the level just appended.
LEMMA PushBest ==
  ASSUME IInv, NEW p \in Prices, Push(p)
  PROVE  Best!Push(p)
<1> USE PricesAssumption DEF IInv, TypeOK, Push
<1>1. CASE h = <<>>
  BY <1>1 DEF Best!Push, Root
<1>2. CASE h # <<>>
  <2>1. Root = h[1] /\ h[1] \in 1..Len(price)
    BY <1>2 DEF Root
  <2>2. h'[1] = h[1] /\ h'[j'] = Len(price) + 1 /\ j' > 1 /\ h' # <<>>
    BY <1>2
  <2>3. price'[h[1]] = price[h[1]] /\ price'[Len(price) + 1] = p
    BY <2>1
  <2>4. Root' = IF p < price[h[1]] THEN Len(price) + 1 ELSE h[1]
    BY <2>2, <2>3 DEF Root
  <2>5. h[1] # 0
    BY <2>1
  <2> QED BY <2>1, <2>4, <2>5 DEF Best!Push
<1> QED BY <1>1, <1>2

\* A step of up leaves Root alone.
LEMMA UpBest ==
  ASSUME IInv, Up
  PROVE  UNCHANGED <<price, Root>>
<1>0. price' = price /\ h # <<>>
  BY DEF Up, IInv, TypeOK
<1>1. CASE j > 1 /\ Less(j, Parent(j)) /\ h' = Swap(j, Parent(j)) /\ j' = Parent(j)
  <2>1. PICK a \in 1..Len(h) :
           /\ a # j /\ j' = a /\ j \in 1..Len(h) /\ 1 \in 1..Len(h)
           /\ price[h[j]] < price[h[a]] /\ price[h[1]] <= price[h[a]]
           /\ h' \in Seq(1..Len(price)) /\ Len(h') = Len(h)
           /\ \A i \in 1..Len(h) :
                h'[i] = IF i = j THEN h[a] ELSE IF i = a THEN h[j] ELSE h[i]
    BY <1>1, SwapStep
  <2>2. h' # <<>>
    BY <2>1
  <2>3. CASE a = 1
    <3>1. Root = h[j]
      BY <1>0, <1>1, <2>1, <2>3 DEF Root
    <3>2. h'[1] = h[j] /\ j' = 1
      BY ONLY <2>1, <2>3
    <3> QED BY <1>0, <2>2, <3>1, <3>2 DEF Root
  <2>4. CASE a # 1
    <3>1. h'[1] = h[1] /\ h'[j'] = h[j] /\ j' > 1
      BY ONLY <1>1, <2>1, <2>4
    <3> QED BY <1>0, <1>1, <2>2, <3>1 DEF Root
  <2> QED BY <2>3, <2>4
<1>2. CASE ~(j > 1 /\ Less(j, Parent(j))) /\ j' = 0 /\ UNCHANGED h
  <2>1. Root' = h[1]
    BY <1>0, <1>2 DEF Root
  <2>2. j \in 1..Len(h) /\ 1 \in 1..Len(h)
    BY DEF Up, IInv, TypeOK
  <2>3. price[h[1]] <= price[h[j]] /\ price[h[1]] \in Int /\ price[h[j]] \in Int
    BY <1>2, <2>2, StopStep, Cells
  <2> QED BY <1>0, <2>1, <2>3 DEF Root
<1> QED BY <1>1, <1>2 DEF Up

\* The array heap implements BestLevel (TracksBest).
THEOREM Refinement == Spec => TracksBest
<1>1. IInv /\ [Next]_vars => [Best!Next]_<<price, Root>>
  <2> SUFFICES ASSUME IInv, [Next]_vars PROVE [Best!Next]_<<price, Root>>
    OBVIOUS
  <2>1. CASE UNCHANGED vars
    BY <2>1 DEF vars, Root
  <2> QED BY <2>1, PushBest, UpBest DEF Next, Best!Next
<1> QED BY <1>1, InitBest, SpecIInv, PTL DEF Spec, TracksBest, Best!Spec

=============================================================================
