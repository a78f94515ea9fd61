--------------------------- MODULE LimitBookProofs ---------------------------
(***************************************************************************)
(* Proofs about LimitBook, for any number of orders and any requests:      *)
(* types, no order is filled beyond its quantity, as much is sold as is    *)
(* bought, trades are made within the limits of both orders, with the      *)
(* cheapest ask and the oldest live order first, live orders are listed    *)
(* at exactly one place, which filled orders are not marked so, and that   *)
(* the book implements Market.                                             *)
(*                                                                         *)
(* The argument rests on what the levels hold, the cells behind the        *)
(* slices included: orders of that side and price that rest on the book    *)
(* (or were removed from it), hence never the order that is being matched  *)
(* (IInv); on the map leading to every level that holds orders, each of    *)
(* them once, and the root being the cheapest (BookInv); on nothing live   *)
(* being behind the range of a call that has not traded yet (FreshOK); on  *)
(* the stale cells that only this range sees (SliceOK);                    *)
(* and on sums over finite sets of orders, for which the module begins     *)
(* with the few facts it needs.                                            *)
(***************************************************************************)
EXTENDS LimitBook, SequenceTheorems, FiniteSetTheorems, WellFoundedInduction, TLAPS

Settled == {"resting", "removed"}

\* Level l of side s holds orders of that side and price.  The orders' requests
\* and stages are parameters, so that the lemmas about it are about constants.
Good(s, l, rq, st) ==
  /\ l \in LevelRecords
  /\ l.len <= Len(l.orders)
  /\ \A i \in 1..Len(l.orders) :
       /\ rq[l.orders[i]].side = s
       /\ rq[l.orders[i]].price = l.price
       /\ st[l.orders[i]] \in Settled

BookOK == \A s \in Sides : \A k \in 1..Len(level[s]) : Good(s, level[s][k], req, stage)

\* The map leads to levels of the right price.
MapOK ==
  \A s \in Sides, p \in Prices :
    levels[s][p] # 0 => level[s][levels[s][p]].price = p

\* The running order crosses the level it is matched against.
RunOK == run.pc = "inner" => Crosses(run.taker, Best.price)

IInv == TypeOK /\ BookOK /\ MapOK /\ RunOK /\ NeverOverfilled /\ TradesWithinLimits

-----------------------------------------------------------------------------
(***************************************************************************)
(* Sums over finite sets                                                   *)
(*                                                                         *)
(* Induction is stated about a set of numbers or of sets, not about a      *)
(* predicate; it follows from the least element principle of               *)
(* WellFoundedInduction.                                                   *)
(***************************************************************************)

LEMMA Induction ==
  ASSUME NEW S, 0 \in S, \A n \in Nat : n \in S => n + 1 \in S
  PROVE  Nat \subseteq S
<1>1. \A m, n \in Nat : m < n => <<m, n>> \in OpToRel(<, Nat)
  BY DEF OpToRel
<1> DEFINE T == Nat \ S
<1> SUFFICES ASSUME T # {} PROVE FALSE
  OBVIOUS
<1>2. PICK m \in T : \A n \in T : ~(<<n, m>> \in OpToRel(<, Nat))
  BY WFMin, NatLessThanWellFounded
<1>3. \A n \in T : ~(n < m)
  BY <1>1, <1>2
<1>4. m \in Nat /\ m # 0 /\ m - 1 \in Nat /\ m - 1 \notin T
  BY <1>3
<1> QED BY <1>4

\* A collection that holds the empty set and grows by any element holds every
\* finite set.
LEMMA FiniteInduction ==
  ASSUME NEW U, IsFiniteSet(U), NEW C, {} \in C,
         \A s \in SUBSET U, x \in U : s \in C => s \cup {x} \in C
  PROVE  U \in C
<1> DEFINE S == {n \in Nat : \A s \in SUBSET U : Cardinality(s) = n => s \in C}
<1>1. 0 \in S
  BY FS_Subset, FS_EmptySet
<1>2. ASSUME NEW n \in Nat, n \in S
      PROVE  n + 1 \in S
  <2> SUFFICES ASSUME NEW s \in SUBSET U, Cardinality(s) = n + 1
               PROVE  s \in C
    OBVIOUS
  <2>1. IsFiniteSet(s) /\ s # {}
    BY FS_Subset, FS_EmptySet
  <2>2. PICK x \in s : TRUE
    BY <2>1
  <2>3. Cardinality(s \ {x}) = n
    <3>1. Cardinality(s \ {x}) = Cardinality(s) - 1
      BY <2>1, FS_RemoveElement
    <3> QED BY <3>1
  <2>4. s \ {x} \in C
    BY <1>2, <2>3
  <2>5. (s \ {x}) \cup {x} \in C
    BY <2>4
  <2>6. (s \ {x}) \cup {x} = s
    OBVIOUS
  <2> QED BY <2>5, <2>6
<1> HIDE DEF S
<1>3. Nat \subseteq S
  BY <1>1, <1>2, Induction
<1>4. Cardinality(U) \in Nat
  BY FS_CardinalityType
<1> QED BY <1>3, <1>4 DEF S

Pick(s) == CHOOSE x \in s : TRUE

\* One step of a sum of F over s.
SumStep(F, g, s) == IF s = {} THEN 0 ELSE F[Pick(s)] + g[s \ {Pick(s)}]

\* g gives the sum of F over every subset of U.
IsSums(F, U, g) == g = [s \in SUBSET U |-> SumStep(F, g, s)]

\* The sum that MapThenSumSet computes, for a function.
Sum(F, S) ==
  LET g[s \in SUBSET S] == IF s = {} THEN 0 ELSE F[Pick(s)] + g[s \ {Pick(s)}]
  IN  g[S]

LEMMA SumsExist ==
  ASSUME NEW F, NEW U, IsFiniteSet(U)
  PROVE  \E g : IsSums(F, U, g)
<1> DEFINE T == {n \in Nat : \E g : \A s \in SUBSET U :
                   Cardinality(s) <= n => g[s] = SumStep(F, g, s)}
<1>0. \A s \in SUBSET U : IsFiniteSet(s) /\ Cardinality(s) \in Nat
  BY FS_Subset, FS_CardinalityType
<1>1. 0 \in T
  <2> DEFINE h == [s \in SUBSET U |-> 0]
  <2>1. \A s \in SUBSET U : Cardinality(s) <= 0 => s = {}
    BY <1>0, FS_EmptySet
  <2>2. \A s \in SUBSET U : Cardinality(s) <= 0 => h[s] = SumStep(F, h, s)
    BY <2>1 DEF SumStep
  <2> QED BY <2>2
<1>2. ASSUME NEW n \in Nat, n \in T
      PROVE  n + 1 \in T
  <2>1. PICK g : \A s \in SUBSET U : Cardinality(s) <= n => g[s] = SumStep(F, g, s)
    BY <1>2
  <2> DEFINE h == [s \in SUBSET U |-> SumStep(F, g, s)]
  <2>2. ASSUME NEW s \in SUBSET U, Cardinality(s) <= n + 1, s # {}
        PROVE  h[s \ {Pick(s)}] = g[s \ {Pick(s)}]
    <3>1. Pick(s) \in s
      BY <2>2 DEF Pick
    <3>2. Cardinality(s \ {Pick(s)}) = Cardinality(s) - 1
      BY <1>0, <3>1, FS_RemoveElement
    <3>3. s \ {Pick(s)} \in SUBSET U /\ Cardinality(s \ {Pick(s)}) <= n
      BY <1>0, <2>2, <3>2
    <3> QED BY <2>1, <3>3
  <2>3. ASSUME NEW s \in SUBSET U, Cardinality(s) <= n + 1
        PROVE  h[s] = SumStep(F, h, s)
    BY <2>2, <2>3 DEF SumStep
  <2> HIDE DEF h
  <2> QED BY <2>3
<1> HIDE DEF T
<1>3. Cardinality(U) \in T
  BY <1>0, <1>1, <1>2, Induction
<1>4. PICK g : \A s \in SUBSET U : Cardinality(s) <= Cardinality(U) => g[s] = SumStep(F, g, s)
  BY <1>3 DEF T
<1>5. \A s \in SUBSET U : g[s] = SumStep(F, g, s)
  BY <1>0, <1>4, FS_Subset
<1> DEFINE h == [s \in SUBSET U |-> g[s]]
<1>6. ASSUME NEW s \in SUBSET U
      PROVE  h[s] = SumStep(F, h, s)
  <2>1. s # {} => s \ {Pick(s)} \in SUBSET U
    OBVIOUS
  <2> QED BY <1>5, <2>1 DEF SumStep
<1>7. h = [s \in SUBSET U |-> h[s]]
  OBVIOUS
<1> HIDE DEF h
<1>8. IsSums(F, U, h)
  BY <1>6, <1>7 DEF IsSums
<1> QED BY <1>8

\* The sums of one function are the same in whichever set they are computed.
LEMMA SumsAgree ==
  ASSUME NEW F, NEW U, IsFiniteSet(U), NEW S \in SUBSET U, NEW g, NEW h,
         IsSums(F, U, g), IsSums(F, S, h)
  PROVE  \A s \in SUBSET S : g[s] = h[s]
<1> DEFINE T == {n \in Nat : \A s \in SUBSET S : Cardinality(s) = n => g[s] = h[s]}
<1>0. \A s \in SUBSET S : IsFiniteSet(s) /\ Cardinality(s) \in Nat
  BY FS_Subset, FS_CardinalityType
<1>1. \A s \in SUBSET S : g[s] = SumStep(F, g, s) /\ h[s] = SumStep(F, h, s)
  <2>1. \A s \in SUBSET S : s \in SUBSET U
    OBVIOUS
  <2>2. \A s \in SUBSET U : g[s] = SumStep(F, g, s)
    BY DEF IsSums
  <2>3. \A s \in SUBSET S : h[s] = SumStep(F, h, s)
    BY DEF IsSums
  <2> QED BY <2>1, <2>2, <2>3
<1>2. 0 \in T
  <2>1. \A s \in SUBSET S : Cardinality(s) = 0 => s = {}
    BY <1>0, FS_EmptySet
  <2> QED BY <1>1, <2>1 DEF SumStep
<1>3. ASSUME NEW n \in Nat, n \in T
      PROVE  n + 1 \in T
  <2> SUFFICES ASSUME NEW s \in SUBSET S, Cardinality(s) = n + 1
               PROVE  g[s] = h[s]
    <3>1. n + 1 \in Nat
      OBVIOUS
    <3> QED BY <3>1
  <2>1. IsFiniteSet(s) /\ s # {}
    BY <1>0, FS_EmptySet
  <2>2. Pick(s) \in s
    BY <2>1 DEF Pick
  <2>3. Cardinality(s \ {Pick(s)}) = n /\ s \ {Pick(s)} \in SUBSET S
    <3>1. Cardinality(s \ {Pick(s)}) = Cardinality(s) - 1
      BY <2>1, <2>2, FS_RemoveElement
    <3> QED BY <3>1
  <2>4. g[s \ {Pick(s)}] = h[s \ {Pick(s)}]
    BY <1>3, <2>3
  <2> QED BY <1>1, <2>4 DEF SumStep
<1> HIDE DEF T
<1>4. Nat \subseteq T
  BY <1>2, <1>3, Induction
<1> QED BY <1>0, <1>4 DEF T

\* The recursion that defines a sum.
LEMMA SumUnfolds ==
  ASSUME NEW F, NEW S, IsFiniteSet(S)
  PROVE  Sum(F, S) = IF S = {} THEN 0 ELSE F[Pick(S)] + Sum(F, S \ {Pick(S)})
<1> DEFINE R == S \ {Pick(S)}
           g == CHOOSE f : IsSums(F, S, f)
           h == CHOOSE f : IsSums(F, R, f)
<1>1. IsFiniteSet(R) /\ R \in SUBSET S
  BY FS_Subset
<1>2. Sum(F, S) = g[S] /\ Sum(F, R) = h[R]
  BY DEF Sum, SumStep, IsSums
<1> HIDE DEF R
<1>3. IsSums(F, S, g) /\ IsSums(F, R, h)
  BY <1>1, SumsExist
<1> HIDE DEF g, h
<1>4. g[R] = h[R]
  <2>1. \A s \in SUBSET R : g[s] = h[s]
    BY <1>1, <1>3, SumsAgree
  <2> QED BY <2>1
<1>5. g[S] = SumStep(F, g, S)
  BY <1>3 DEF IsSums
<1> QED BY <1>2, <1>4, <1>5 DEF SumStep, R

\* Sums stay among numbers that are closed under addition.
LEMMA SumClosed ==
  ASSUME NEW F, NEW T, 0 \in T, \A x, y \in T : x + y \in T,
         NEW U, IsFiniteSet(U), \A x \in U : F[x] \in T
  PROVE  Sum(F, U) \in T
<1> DEFINE N == {n \in Nat : \A s \in SUBSET U : Cardinality(s) = n => Sum(F, s) \in T}
<1>0. \A s \in SUBSET U : IsFiniteSet(s) /\ Cardinality(s) \in Nat
  BY FS_Subset, FS_CardinalityType
<1>1. 0 \in N
  <2>1. \A s \in SUBSET U : Cardinality(s) = 0 => s = {}
    BY <1>0, FS_EmptySet
  <2>2. Sum(F, {}) = 0
    BY FS_EmptySet, SumUnfolds
  <2> QED BY <2>1, <2>2
<1>2. ASSUME NEW n \in Nat, n \in N
      PROVE  n + 1 \in N
  <2> SUFFICES ASSUME NEW s \in SUBSET U, Cardinality(s) = n + 1
               PROVE  Sum(F, s) \in T
    <3>1. n + 1 \in Nat
      OBVIOUS
    <3> QED BY <3>1
  <2> DEFINE c == Pick(s)
  <2>1. s # {} /\ c \in s
    BY FS_EmptySet DEF Pick
  <2>2. Sum(F, s) = F[c] + Sum(F, s \ {c})
    BY <1>0, <2>1, SumUnfolds
  <2> HIDE DEF c
  <2>3. Cardinality(s \ {c}) = n
    <3>1. Cardinality(s \ {c}) = Cardinality(s) - 1
      BY <1>0, <2>1, FS_RemoveElement
    <3> QED BY <3>1
  <2>4. Sum(F, s \ {c}) \in T /\ F[c] \in T
    BY <1>2, <2>1, <2>3
  <2> QED BY <2>2, <2>4
<1> HIDE DEF N
<1>3. Nat \subseteq N
  BY <1>1, <1>2, Induction
<1> QED BY <1>0, <1>3 DEF N

\* A sum of integers is one, of natural numbers too, and of nothing is nothing.
LEMMA SumType ==
  ASSUME NEW F, NEW T \in {{0}, Nat, Int}, NEW U, IsFiniteSet(U), \A x \in U : F[x] \in T
  PROVE  Sum(F, U) \in T
<1>1. 0 \in T /\ \A x, y \in T : x + y \in T
  OBVIOUS
<1> QED BY <1>1, SumClosed

\* The order in which a sum is taken does not matter.
LEMMA SumAdds ==
  ASSUME NEW F, NEW U, IsFiniteSet(U), \A x \in U : F[x] \in Int
  PROVE  \A x \in U : Sum(F, U) = F[x] + Sum(F, U \ {x})
<1> DEFINE P(s) == \A x \in s : Sum(F, s) = F[x] + Sum(F, s \ {x})
           T == {n \in Nat : \A s \in SUBSET U : Cardinality(s) = n => P(s)}
<1>0. \A s \in SUBSET U : IsFiniteSet(s) /\ Cardinality(s) \in Nat
  BY FS_Subset, FS_CardinalityType
<1>1. 0 \in T
  <2>1. \A s \in SUBSET U : Cardinality(s) = 0 => s = {}
    BY <1>0, FS_EmptySet
  <2> QED BY <2>1
<1>2. ASSUME NEW n \in Nat, n \in T
      PROVE  n + 1 \in T
  <2> SUFFICES ASSUME NEW s \in SUBSET U, Cardinality(s) = n + 1, NEW x \in s
               PROVE  Sum(F, s) = F[x] + Sum(F, s \ {x})
    <3>1. n + 1 \in Nat
      OBVIOUS
    <3> QED BY <3>1
  <2> DEFINE c == Pick(s)
  <2>1. c \in s
    BY DEF Pick
  <2>2. Sum(F, s) = F[c] + Sum(F, s \ {c})
    BY <1>0, SumUnfolds
  <2> HIDE DEF c
  <2>3. CASE x = c
    BY <2>2, <2>3
  <2>4. CASE x # c
    <3>1. Cardinality(s \ {x}) = n /\ Cardinality(s \ {c}) = n
      <4>1. /\ Cardinality(s \ {x}) = Cardinality(s) - 1
            /\ Cardinality(s \ {c}) = Cardinality(s) - 1
        BY <1>0, <2>1, FS_RemoveElement
      <4> QED BY <4>1
    <3>2. P(s \ {x}) /\ P(s \ {c})
      BY <1>2, <3>1
    <3>3. /\ Sum(F, s \ {x}) = F[c] + Sum(F, (s \ {x}) \ {c})
          /\ Sum(F, s \ {c}) = F[x] + Sum(F, (s \ {c}) \ {x})
      BY <2>1, <2>4, <3>2
    <3>4. (s \ {x}) \ {c} = (s \ {c}) \ {x}
      OBVIOUS
    <3>5. Sum(F, (s \ {c}) \ {x}) \in Int /\ F[x] \in Int /\ F[c] \in Int
      <4>1. IsFiniteSet((s \ {c}) \ {x})
        BY <1>0, FS_RemoveElement
      <4> QED BY <2>1, <4>1, SumType
    <3>6. Sum(F, (s \ {x}) \ {c}) = Sum(F, (s \ {c}) \ {x})
      BY <3>4
    <3> DEFINE rest == Sum(F, (s \ {c}) \ {x})
    <3>7. /\ Sum(F, s) = F[c] + (F[x] + rest)
          /\ Sum(F, s \ {x}) = F[c] + rest
      BY <2>2, <3>3, <3>6
    <3> HIDE DEF rest
    <3>8. rest \in Int
      BY <3>5 DEF rest
    <3> QED BY <3>5, <3>7, <3>8
  <2> QED BY <2>3, <2>4
<1> HIDE DEF T
<1>3. Nat \subseteq T
  BY <1>1, <1>2, Induction
<1>4. \A s \in SUBSET U : P(s)
  BY <1>0, <1>3 DEF T
<1> QED BY <1>4

\* A sum depends on nothing but the values over its set.
LEMMA SumSame ==
  ASSUME NEW F, NEW G, NEW U, IsFiniteSet(U),
         \A x \in U : F[x] \in Int /\ F[x] = G[x]
  PROVE  Sum(F, U) = Sum(G, U)
<1> DEFINE C == {s \in SUBSET U : Sum(F, s) = Sum(G, s)}
<1>1. {} \in C
  BY FS_EmptySet, SumUnfolds
<1>2. ASSUME NEW s \in SUBSET U, NEW x \in U, s \in C
      PROVE  s \cup {x} \in C
  <2>1. CASE x \in s
    BY <1>2, <2>1, s \cup {x} = s
  <2>2. CASE x \notin s
    <3>1. IsFiniteSet(s \cup {x}) /\ (s \cup {x}) \ {x} = s /\ x \in s \cup {x}
      BY <2>2, FS_Subset, FS_AddElement
    <3>2. \A y \in s \cup {x} : F[y] \in Int /\ G[y] \in Int
      OBVIOUS
    <3>3. /\ Sum(F, s \cup {x}) = F[x] + Sum(F, (s \cup {x}) \ {x})
          /\ Sum(G, s \cup {x}) = G[x] + Sum(G, (s \cup {x}) \ {x})
      <4> DEFINE v == s \cup {x}
      <4>1. IsFiniteSet(v) /\ x \in v /\ \A y \in v : F[y] \in Int /\ G[y] \in Int
        BY <3>1, <3>2
      <4> HIDE DEF v
      <4>2. Sum(F, v) = F[x] + Sum(F, v \ {x}) /\ Sum(G, v) = G[x] + Sum(G, v \ {x})
        BY <4>1, SumAdds
      <4> QED BY <4>2 DEF v
    <3>4. /\ Sum(F, s \cup {x}) = F[x] + Sum(F, s)
          /\ Sum(G, s \cup {x}) = G[x] + Sum(G, s)
      BY <3>1, <3>3
    <3>5. Sum(F, s \cup {x}) = Sum(G, s \cup {x})
      BY <1>2, <3>4
    <3> QED BY <3>5
  <2> QED BY <2>1, <2>2
<1> HIDE DEF C
<1>3. U \in C
  BY <1>1, <1>2, FiniteInduction
<1> QED BY <1>3 DEF C

\* Changing one value changes the sum by as much.
LEMMA SumChanges ==
  ASSUME NEW F, NEW G, NEW U, IsFiniteSet(U), NEW x \in U,
         \A y \in U : F[y] \in Int /\ G[y] \in Int,
         \A y \in U \ {x} : F[y] = G[y]
  PROVE  Sum(G, U) = Sum(F, U) + G[x] - F[x]
<1>1. Sum(F, U) = F[x] + Sum(F, U \ {x}) /\ Sum(G, U) = G[x] + Sum(G, U \ {x})
  BY SumAdds
<1>2. IsFiniteSet(U \ {x})
  BY FS_RemoveElement
<1>3. Sum(F, U \ {x}) = Sum(G, U \ {x}) /\ Sum(F, U \ {x}) \in Int
  BY <1>2, SumSame, SumType
<1> QED BY <1>1, <1>3

\* A sum of natural numbers is no less than a part of it.
LEMMA SumGrows ==
  ASSUME NEW F, NEW U, IsFiniteSet(U), \A x \in U : F[x] \in Nat, NEW V \in SUBSET U
  PROVE  Sum(F, V) <= Sum(F, U)
<1> DEFINE W == U \ V
           C == {s \in SUBSET W : Sum(F, V) <= Sum(F, V \cup s)}
<1>0. /\ IsFiniteSet(V) /\ IsFiniteSet(W)
      /\ \A s \in SUBSET U : IsFiniteSet(s) /\ Sum(F, s) \in Nat
  BY FS_Subset, SumType
<1>1. {} \in C
  <2>1. V \cup {} = V
    OBVIOUS
  <2> QED BY <1>0, <2>1
<1>2. ASSUME NEW s \in SUBSET W, NEW x \in W, s \in C
      PROVE  s \cup {x} \in C
  <2>1. CASE x \in s
    BY <1>2, <2>1, s \cup {x} = s
  <2>2. CASE x \notin s
    <3> DEFINE v == V \cup (s \cup {x})
    <3>1. v \in SUBSET U /\ x \in v /\ v \ {x} = V \cup s
      BY <2>2
    <3> HIDE DEF v
    <3>2. Sum(F, v) = F[x] + Sum(F, v \ {x})
      <4>1. IsFiniteSet(v) /\ \A y \in v : F[y] \in Int
        BY <1>0, <3>1
      <4> QED BY <3>1, <4>1, SumAdds
    <3>3. Sum(F, v) = F[x] + Sum(F, V \cup s)
      BY <3>1, <3>2
    <3>4. /\ Sum(F, V) \in Nat /\ Sum(F, V \cup s) \in Nat /\ F[x] \in Nat
          /\ Sum(F, V) <= Sum(F, V \cup s)
      BY <1>0, <1>2
    <3>5. Sum(F, V) <= Sum(F, v)
      BY <3>3, <3>4
    <3> QED BY <3>5 DEF v
  <2> QED BY <2>1, <2>2
<1> HIDE DEF C
<1>3. W \in C
  <2> HIDE DEF W
  <2> QED BY <1>0, <1>1, <1>2, FiniteInduction
<1>4. V \cup W = U
  OBVIOUS
<1> QED BY <1>3, <1>4 DEF C

-----------------------------------------------------------------------------
(***************************************************************************)
(* Levels                                                                  *)
(***************************************************************************)

\* The fields of a level.
LEMMA LevelFields ==
  ASSUME NEW l \in LevelRecords
  PROVE  /\ l.price \in Prices /\ l.orders \in Seq(OrderIds) /\ l.len \in Nat
         /\ l = [price |-> l.price, orders |-> l.orders, len |-> l.len]
         /\ Len(l.orders) \in Nat
         /\ \A i \in 1..Len(l.orders) : l.orders[i] \in OrderIds
<1>1. /\ l.price \in Prices /\ l.orders \in Seq(OrderIds) /\ l.len \in Nat
      /\ l = [price |-> l.price, orders |-> l.orders, len |-> l.len]
  BY DEF LevelRecords
<1> QED BY <1>1, LenProperties, ElementOfSeq

\* Orders that settle in the book stay settled.
LEMMA GoodStays ==
  ASSUME NEW s, NEW l, NEW rq, NEW st, NEW st2, Good(s, l, rq, st),
         \A o \in OrderIds : st[o] \in Settled => st2[o] \in Settled
  PROVE  Good(s, l, rq, st2)
<1>1. \A i \in 1..Len(l.orders) : l.orders[i] \in OrderIds
  BY LevelFields DEF Good
<1> QED BY <1>1 DEF Good

\* A level made of cells of a good one is good.
LEMMA GoodCells ==
  ASSUME NEW s, NEW l, NEW rq, NEW st, Good(s, l, rq, st),
         NEW cells \in Seq(OrderIds), NEW n \in Nat, n <= Len(cells),
         \A j \in 1..Len(cells) : \E i \in 1..Len(l.orders) : cells[j] = l.orders[i]
  PROVE  Good(s, [l EXCEPT !.orders = cells, !.len = n], rq, st)
<1> DEFINE r == [l EXCEPT !.orders = cells, !.len = n]
<1>1. /\ r.price = l.price /\ r.orders = cells /\ r.len = n
      /\ r \in LevelRecords
  BY DEF Good, LevelRecords
<1> HIDE DEF r
<1>2. ASSUME NEW j \in 1..Len(cells)
      PROVE  /\ rq[cells[j]].side = s /\ rq[cells[j]].price = l.price
             /\ st[cells[j]] \in Settled
  <2>1. PICK i \in 1..Len(l.orders) : cells[j] = l.orders[i]
    OBVIOUS
  <2> QED BY <2>1 DEF Good
<1>3. Good(s, r, rq, st)
  BY <1>1, <1>2 DEF Good
<1> QED BY <1>3 DEF r

LEMMA TrimGood ==
  ASSUME NEW s, NEW l, NEW rq, NEW st, Good(s, l, rq, st)
  PROVE  Good(s, Trim(l), rq, st) /\ Trim(l).price = l.price
<1> DEFINE cells == SubSeq(l.orders, 1, l.len)
<1>1. l \in LevelRecords /\ l.len <= Len(l.orders)
  BY DEF Good
<1>2. /\ l.len \in Nat /\ Len(l.orders) \in Nat
      /\ \A i \in 1..Len(l.orders) : l.orders[i] \in OrderIds
  BY <1>1, LevelFields
<1>3. \A i \in 1..l.len : l.orders[i] \in OrderIds
  BY <1>1, <1>2
<1>4. /\ cells \in Seq(OrderIds) /\ Len(cells) = l.len
      /\ \A i \in 1..l.len : cells[i] = l.orders[i]
  BY <1>2, <1>3, SubSeqProperties
<1> HIDE DEF cells
<1>5. Good(s, [l EXCEPT !.orders = cells, !.len = l.len], rq, st)
  <2>1. \A j \in 1..Len(cells) : \E i \in 1..Len(l.orders) : cells[j] = l.orders[i]
    BY <1>1, <1>2, <1>4
  <2>2. l.len \in Nat /\ l.len <= Len(cells)
    BY <1>2, <1>4
  <2> QED BY <1>4, <2>1, <2>2, GoodCells
<1>6. Trim(l) = [l EXCEPT !.orders = cells, !.len = l.len]
  BY <1>1 DEF Trim, cells, LevelRecords
<1>7. Trim(l).price = l.price
  BY <1>1 DEF Trim, LevelRecords
<1> QED BY <1>5, <1>6, <1>7

LEMMA CutOutGood ==
  ASSUME NEW s, NEW l, NEW rq, NEW st, Good(s, l, rq, st), NEW i \in 1..l.len
  PROVE  /\ Good(s, CutOut(l, i), rq, st)
         /\ CutOut(l, i).price = l.price
         /\ Len(CutOut(l, i).orders) = Len(l.orders)
<1> DEFINE cells == Delete(l.orders, i, l.len)
<1>1. l \in LevelRecords /\ l.len <= Len(l.orders)
  BY DEF Good
<1>2. /\ l.len \in Nat /\ Len(l.orders) \in Nat
      /\ \A j \in 1..Len(l.orders) : l.orders[j] \in OrderIds
  BY <1>1, LevelFields
<1>3. cells \in [1..Len(l.orders) -> OrderIds]
  BY <1>1, <1>2 DEF Delete
<1>4. cells \in Seq(OrderIds) /\ Len(cells) = Len(l.orders)
  BY <1>2, <1>3
<1>5. \A j \in 1..Len(l.orders) : \E m \in 1..Len(l.orders) : cells[j] = l.orders[m]
  BY <1>1, <1>2 DEF Delete
<1>6. l.len - 1 \in Nat /\ l.len - 1 <= Len(l.orders)
  BY <1>1, <1>2
<1> HIDE DEF cells
<1>7. Good(s, [l EXCEPT !.orders = cells, !.len = l.len - 1], rq, st)
  BY <1>4, <1>5, <1>6, GoodCells
<1>8. CutOut(l, i) = [l EXCEPT !.orders = cells, !.len = l.len - 1]
  BY DEF CutOut, cells
<1>9. CutOut(l, i).price = l.price /\ CutOut(l, i).orders = cells
  BY <1>1, <1>8 DEF LevelRecords
<1> QED BY <1>4, <1>7, <1>8, <1>9

LEMMA AppendGood ==
  ASSUME NEW s, NEW l, NEW rq, NEW st, Good(s, l, rq, st),
         NEW o \in OrderIds, rq[o].side = s, rq[o].price = l.price, st[o] \in Settled
  PROVE  Good(s, AppendOrder(l, o), rq, st) /\ AppendOrder(l, o).price = l.price
<1> DEFINE cells == [j \in 1..(l.len + 1) |-> IF j <= l.len THEN l.orders[j] ELSE o]
           r == AppendOrder(l, o)
<1>1. l \in LevelRecords /\ l.len <= Len(l.orders)
  BY DEF Good
<1>2. /\ l.len \in Nat /\ Len(l.orders) \in Nat
      /\ \A j \in 1..Len(l.orders) : l.orders[j] \in OrderIds
  BY <1>1, LevelFields
<1>3. cells \in [1..(l.len + 1) -> OrderIds]
  BY <1>1, <1>2
<1>4. cells \in Seq(OrderIds) /\ Len(cells) = l.len + 1
  BY <1>2, <1>3
<1>5. \A j \in 1..(l.len + 1) :
        cells[j] = o \/ \E m \in 1..Len(l.orders) : cells[j] = l.orders[m]
  BY <1>1, <1>2
<1>6. r = [l EXCEPT !.orders = cells, !.len = l.len + 1]
  BY DEF AppendOrder
<1> HIDE DEF cells, r
<1>7. r.price = l.price /\ r.orders = cells /\ r.len = l.len + 1 /\ r \in LevelRecords
  <2>1. l.len + 1 \in Nat
    BY <1>2
  <2> QED BY <1>1, <1>4, <1>6, <2>1 DEF LevelRecords
<1>8. ASSUME NEW j \in 1..Len(cells)
      PROVE  /\ rq[cells[j]].side = s /\ rq[cells[j]].price = l.price
             /\ st[cells[j]] \in Settled
  <2>1. CASE cells[j] = o
    BY <2>1
  <2>2. CASE cells[j] # o
    <3>1. PICK m \in 1..Len(l.orders) : cells[j] = l.orders[m]
      BY <1>4, <1>5, <2>2
    <3> QED BY <3>1 DEF Good
  <2> QED BY <2>1, <2>2
<1>9. l.len + 1 <= Len(cells)
  BY <1>2, <1>4
<1>10. Good(s, r, rq, st)
  BY <1>7, <1>8, <1>9 DEF Good
<1> QED BY <1>10, <1>7 DEF r

-----------------------------------------------------------------------------
(***************************************************************************)
(* Books                                                                   *)
(***************************************************************************)

\* What the invariant says of `level` and asks of `levels` and `root`.
Books ==
  /\ level \in [Sides -> Seq(LevelRecords)]
  /\ BookOK

LEMMA GoodBooks ==
  ASSUME IInv, NEW s \in Sides, NEW k \in 1..Len(level[s])
  PROVE  Good(s, level[s][k], req, stage)
BY DEF IInv, BookOK

\* Replacing one level by a good one of the same price.
LEMMA ReplaceLevel ==
  ASSUME IInv, req' = req,
         \A o \in OrderIds : stage[o] \in Settled => stage'[o] \in Settled,
         NEW s \in Sides, NEW k \in 1..Len(level[s]), NEW r,
         Good(s, r, req, stage'), r.price = level[s][k].price,
         level' = [level EXCEPT ![s][k] = r]
  PROVE  /\ level' \in [Sides -> Seq(LevelRecords)]
         /\ BookOK'
         /\ \A t \in Sides : Len(level'[t]) = Len(level[t])
         /\ \A t \in Sides : \A j \in 1..Len(level[t]) :
              level'[t][j].price = level[t][j].price
         /\ level'[s][k] = r
<1>1. level \in [Sides -> Seq(LevelRecords)] /\ level[s] \in Seq(LevelRecords)
  BY DEF IInv, TypeOK
<1>2. r \in LevelRecords
  BY DEF Good
<1>3. /\ [level[s] EXCEPT ![k] = r] \in Seq(LevelRecords)
      /\ Len([level[s] EXCEPT ![k] = r]) = Len(level[s])
      /\ \A j \in 1..Len(level[s]) :
           [level[s] EXCEPT ![k] = r][j] = IF j = k THEN r ELSE level[s][j]
  BY <1>1, <1>2, ExceptSeq
<1>4. level' = [level EXCEPT ![s] = [level[s] EXCEPT ![k] = r]]
  OBVIOUS
<1>5. /\ level'[s] = [level[s] EXCEPT ![k] = r]
      /\ \A t \in Sides : t # s => level'[t] = level[t]
      /\ level' \in [Sides -> Seq(LevelRecords)]
  BY <1>1, <1>3, <1>4
<1>6. \A t \in Sides : Len(level'[t]) = Len(level[t])
  BY <1>3, <1>5
<1>7. \A t \in Sides : \A j \in 1..Len(level[t]) :
        level'[t][j] = IF t = s /\ j = k THEN r ELSE level[t][j]
  BY <1>3, <1>5
<1>8. BookOK'
  <2> SUFFICES ASSUME NEW t \in Sides, NEW j \in 1..Len(level[t])
               PROVE  Good(t, level'[t][j], req, stage')
    BY <1>6 DEF BookOK
  <2>1. CASE t = s /\ j = k
    BY <1>7, <2>1
  <2>2. CASE ~(t = s /\ j = k)
    BY <1>7, <2>2, GoodBooks, GoodStays
  <2> QED BY <2>1, <2>2
<1> QED BY <1>5, <1>6, <1>7, <1>8

\* Pushing a good level.
LEMMA PushLevel ==
  ASSUME IInv, req' = req,
         \A o \in OrderIds : stage[o] \in Settled => stage'[o] \in Settled,
         NEW s \in Sides, NEW r, Good(s, r, req, stage'),
         level' = [level EXCEPT ![s] = Append(@, r)]
  PROVE  /\ level' \in [Sides -> Seq(LevelRecords)]
         /\ BookOK'
         /\ \A t \in Sides : Len(level'[t]) = IF t = s THEN Len(level[t]) + 1 ELSE Len(level[t])
         /\ \A t \in Sides : \A j \in 1..Len(level[t]) : level'[t][j] = level[t][j]
         /\ level'[s][Len(level[s]) + 1] = r
<1>1. level \in [Sides -> Seq(LevelRecords)] /\ level[s] \in Seq(LevelRecords)
  BY DEF IInv, TypeOK
<1>2. r \in LevelRecords
  BY DEF Good
<1>3. /\ Append(level[s], r) \in Seq(LevelRecords)
      /\ Len(Append(level[s], r)) = Len(level[s]) + 1
      /\ \A j \in 1..Len(level[s]) : Append(level[s], r)[j] = level[s][j]
      /\ Append(level[s], r)[Len(level[s]) + 1] = r
  BY <1>1, <1>2
<1>4. /\ level'[s] = Append(level[s], r)
      /\ \A t \in Sides : t # s => level'[t] = level[t]
      /\ level' \in [Sides -> Seq(LevelRecords)]
  BY <1>1, <1>3
<1>5. \A t \in Sides : Len(level'[t]) = IF t = s THEN Len(level[t]) + 1 ELSE Len(level[t])
  BY <1>3, <1>4
<1>6. \A t \in Sides : \A j \in 1..Len(level[t]) : level'[t][j] = level[t][j]
  BY <1>3, <1>4
<1>7. BookOK'
  <2> SUFFICES ASSUME NEW t \in Sides, NEW j \in 1..Len(level'[t])
               PROVE  Good(t, level'[t][j], req, stage')
    BY DEF BookOK
  <2>1. CASE t = s /\ j = Len(level[s]) + 1
    BY <1>3, <1>4, <2>1
  <2>2. CASE ~(t = s /\ j = Len(level[s]) + 1)
    <3>1. Len(level[t]) \in Nat
      BY <1>1, LenProperties
    <3>2. j \in 1..Len(level[t])
      BY <1>5, <2>2, <3>1
    <3> QED BY <1>6, <3>2, GoodBooks, GoodStays
  <2> QED BY <2>1, <2>2
<1> QED BY <1>3, <1>4, <1>5, <1>6, <1>7

-----------------------------------------------------------------------------
(***************************************************************************)
(* Orders and the running call                                             *)
(***************************************************************************)

LEMMA RequestFields ==
  ASSUME IInv, NEW o \in OrderIds
  PROVE  /\ req[o].side \in Sides /\ req[o].qty \in Nat /\ req[o].qty > 0
         /\ req[o].price \in Prices \cup {NoPrice}
         /\ filled[o] \in Nat /\ filled[o] <= req[o].qty
<1>1. req[o] \in Requests /\ filled[o] \in Nat /\ filled[o] <= req[o].qty
  BY DEF IInv, TypeOK, NeverOverfilled
<1>2. req[o].side \in Sides /\ req[o].qty \in Nat \ {0}
  BY <1>1, RequestsAssumption
<1>3. req[o].price \in Prices \cup {NoPrice}
  BY <1>1 DEF Prices
<1> QED BY <1>1, <1>2, <1>3

\* The call that is running and the level it is at.
LEMMA RunningCall ==
  ASSUME IInv, run.pc # "idle"
  PROVE  /\ run.taker \in OrderIds /\ stage[run.taker] = "matching" /\ Book \in Sides
         /\ run.pc = "inner" => root[Book] \in 1..Len(level[Book])
<1>1. run.taker \in OrderIds /\ stage[run.taker] = "matching"
  BY DEF IInv, TypeOK
<1>2. Book \in Sides
  BY <1>1, RequestFields DEF Book, Opposite, Sides
<1>3. /\ root[Book] \in Nat /\ root[Book] <= Len(level[Book])
      /\ level[Book] \in Seq(LevelRecords)
  BY <1>2 DEF IInv, TypeOK
<1>4. run.pc = "inner" => root[Book] # 0
  BY DEF IInv, TypeOK
<1> QED BY <1>1, <1>2, <1>3, <1>4, LenProperties

\* The order at the cell the range is at is not the running order.
LEMMA AtCell ==
  ASSUME IInv, AtOrder
  PROVE  /\ Maker \in OrderIds /\ Maker # run.taker
         /\ req[Maker].side = Book /\ req[Maker].price = Best.price
         /\ Best.price \in Prices /\ Best \in LevelRecords
<1>1. /\ run.pc = "inner" /\ run.taker \in OrderIds /\ stage[run.taker] = "matching"
      /\ Book \in Sides /\ root[Book] \in 1..Len(level[Book])
  BY RunningCall DEF AtOrder
<1>2. Good(Book, Best, req, stage)
  BY <1>1, GoodBooks DEF Best
<1>3. run.i \in 1..Len(Best.orders)
  BY <1>1 DEF IInv, TypeOK, AtOrder
<1>4. Maker \in OrderIds /\ Best.price \in Prices /\ Best \in LevelRecords
  BY <1>2, <1>3, LevelFields DEF Good, Maker
<1>5. /\ req[Maker].side = Book /\ req[Maker].price = Best.price
      /\ stage[Maker] \in Settled
  BY <1>2, <1>3 DEF Good, Maker
<1> QED BY <1>1, <1>4, <1>5 DEF Settled

\* A fill takes from both orders what both have left.
LEMMA FillKeepsLimits ==
  ASSUME IInv, AtOrder, Remaining(Maker) > 0,
         filled' = FillBoth(run.taker, Maker, FillQty), req' = req
  PROVE  /\ FillQty \in Nat
         /\ filled' \in [OrderIds -> Nat]
         /\ NeverOverfilled'
<1>1. run.taker \in OrderIds /\ Maker \in OrderIds /\ Maker # run.taker
  BY AtCell, RunningCall DEF AtOrder
<1> DEFINE t == run.taker
           m == Maker
           q == FillQty
<1>2. /\ req[t].qty \in Nat /\ filled[t] \in Nat
      /\ req[m].qty \in Nat /\ filled[m] \in Nat
  BY <1>1, RequestFields
<1>3. q \in Nat /\ filled[t] + q <= req[t].qty /\ filled[m] + q <= req[m].qty
  BY <1>2 DEF FillQty, Remaining, AtOrder
<1>4. filled \in [OrderIds -> Nat]
  BY DEF IInv, TypeOK
<1> HIDE DEF t, m, q
<1>5. filled' = [filled EXCEPT ![t] = @ + q, ![m] = @ + q]
  BY DEF FillBoth, t, m, q
<1>6. t \in OrderIds /\ m \in OrderIds /\ m # t
  BY <1>1 DEF t, m
<1>7. \A o \in OrderIds :
        filled'[o] = IF o = t \/ o = m THEN filled[o] + q ELSE filled[o]
  BY <1>4, <1>5, <1>6
<1>8. filled' \in [OrderIds -> Nat]
  BY <1>2, <1>3, <1>4, <1>5, <1>6
<1>9. NeverOverfilled'
  BY <1>3, <1>7, <1>6 DEF NeverOverfilled, IInv
<1> QED BY <1>3, <1>8, <1>9 DEF q

-----------------------------------------------------------------------------
(***************************************************************************)
(* Steps                                                                   *)
(***************************************************************************)

LEMMA InitIInv == Init => IInv
<1> SUFFICES ASSUME Init PROVE IInv
  OBVIOUS
<1> USE RequestsAssumption DEF Init, Idle
<1>1. TypeOK
  BY DEF TypeOK, Sides, Stages
<1>2. BookOK /\ MapOK /\ RunOK /\ TradesWithinLimits
  BY DEF BookOK, MapOK, RunOK, TradesWithinLimits
<1>3. NeverOverfilled
  BY DEF NeverOverfilled
<1> QED BY <1>1, <1>2, <1>3 DEF IInv

\* Steps outside a call leave no running call to speak of.
LEMMA IdleRun ==
  ASSUME run' = run, run.pc = "idle"
  PROVE  RunOK' /\ TradesWithinLimits'
BY DEF RunOK, TradesWithinLimits

LEMMA AddOrderIInv ==
  ASSUME IInv, NEW o \in OrderIds, AddOrder(o)
  PROVE  IInv'
<1> DEFINE s == req[o].side
           p == req[o].price
           k == Len(level[s]) + 1
<1>0. /\ run.pc = "idle" /\ stage[o] = "matched"
      /\ UNCHANGED <<req, filled, status, run, trades>>
  BY DEF AddOrder
<1>1. s \in Sides /\ p \in Prices \cup {NoPrice} /\ level[s] \in Seq(LevelRecords)
  BY RequestFields DEF IInv, TypeOK
<1>2. RunOK' /\ TradesWithinLimits' /\ NeverOverfilled'
  BY <1>0, IdleRun DEF IInv, NeverOverfilled
<1>3. CASE p = NoPrice /\ stage' = [stage EXCEPT ![o] = "panicked"]
           /\ UNCHANGED <<level, levels, root>>
  <2>1. TypeOK'
    BY <1>0, <1>3 DEF IInv, TypeOK, Stages, Idle
  <2>2. BookOK'
    <3>1. \A q \in OrderIds : stage[q] \in Settled => stage'[q] \in Settled
      BY <1>0, <1>3 DEF IInv, TypeOK, Settled
    <3> QED BY <1>0, <1>3, <3>1, GoodBooks, GoodStays DEF BookOK
  <2>3. MapOK'
    BY <1>3 DEF IInv, MapOK
  <2> QED BY <1>2, <2>1, <2>2, <2>3 DEF IInv
<1>4. CASE p # NoPrice /\ stage' = [stage EXCEPT ![o] = "resting"]
  <2>1. p \in Prices
    BY <1>1, <1>4
  <2>2. /\ stage' \in [OrderIds -> Stages] /\ stage'[o] = "resting"
        /\ \A q \in OrderIds : stage[q] \in Settled => stage'[q] \in Settled
    BY <1>0, <1>4 DEF IInv, TypeOK, Stages, Settled
  <2>3. levels[s][p] \in Nat /\ levels[s][p] <= Len(level[s]) /\ Len(level[s]) \in Nat
    BY <1>1, <2>1, LenProperties DEF IInv, TypeOK
  <2>4. CASE /\ levels[s][p] # 0
             /\ level' = [level EXCEPT ![s][levels[s][p]] = AppendOrder(@, o)]
             /\ UNCHANGED <<levels, root>>
    <3> DEFINE m == levels[s][p]
               r == AppendOrder(level[s][m], o)
    <3>1. m \in 1..Len(level[s])
      BY <2>3, <2>4
    <3>2. level[s][m].price = p
      BY <1>1, <2>1, <2>4 DEF IInv, MapOK
    <3>3. Good(s, level[s][m], req, stage')
      BY <1>1, <2>2, <3>1, GoodBooks, GoodStays
    <3> DEFINE l == level[s][m]
               st == stage'
    <3>a. s = req[o].side /\ p = req[o].price /\ st[o] \in Settled
      BY <2>2 DEF Settled
    <3>5. level' = [level EXCEPT ![s][m] = AppendOrder(l, o)]
      BY <2>4
    <3> HIDE DEF s, p, m, l, st
    <3>b. Good(s, l, req, st) /\ l.price = p
      BY <3>2, <3>3 DEF l, st
    <3>c. Good(s, AppendOrder(l, o), req, st) /\ AppendOrder(l, o).price = l.price
      BY <3>a, <3>b, AppendGood
    <3>4. Good(s, r, req, stage') /\ r.price = level[s][m].price /\ r = AppendOrder(l, o)
      BY <3>c DEF l, st
    <3> HIDE DEF r
    <3>6. /\ level' \in [Sides -> Seq(LevelRecords)] /\ BookOK'
          /\ \A t \in Sides : Len(level'[t]) = Len(level[t])
          /\ \A t \in Sides : \A j \in 1..Len(level[t]) :
               level'[t][j].price = level[t][j].price
      BY <1>0, <1>1, <2>2, <3>1, <3>4, <3>5, ReplaceLevel
    <3>7. TypeOK'
      BY <1>0, <2>2, <2>4, <3>6 DEF IInv, TypeOK, BookOK, Good, Idle
    <3>8. MapOK'
      <4> SUFFICES ASSUME NEW t \in Sides, NEW u \in Prices, levels[t][u] # 0
                   PROVE  level'[t][levels[t][u]].price = u
        BY <2>4 DEF MapOK
      <4>1. levels[t][u] \in Nat /\ levels[t][u] <= Len(level[t]) /\ Len(level[t]) \in Nat
        BY LenProperties DEF IInv, TypeOK
      <4> QED BY <3>6, <4>1 DEF IInv, MapOK
    <3> QED BY <1>2, <3>6, <3>7, <3>8 DEF IInv
  <2>5. CASE /\ levels[s][p] = 0
             /\ level' = [level EXCEPT ![s] = Append(@, AppendOrder(Level(p), o))]
             /\ levels' = [levels EXCEPT ![s][p] = k]
             /\ root' = [root EXCEPT ![s] = PushRoot(s, p, k)]
    <3> DEFINE r == AppendOrder(Level(p), o)
    <3>1. Good(s, Level(p), req, stage') /\ Level(p).price = p
      BY <2>1 DEF Good, Level, LevelRecords
    <3> DEFINE l == Level(p)
               st == stage'
    <3>a. s = req[o].side /\ p = req[o].price /\ st[o] \in Settled
      BY <2>2 DEF Settled
    <3>b. Good(s, l, req, st) /\ l.price = p
      BY <3>1
    <3> HIDE DEF s, p, l, st
    <3>c. Good(s, AppendOrder(l, o), req, st) /\ AppendOrder(l, o).price = l.price
      BY <3>a, <3>b, AppendGood
    <3>2. Good(s, r, req, stage') /\ r.price = p
      BY <3>b, <3>c DEF l, st
    <3> HIDE DEF r
    <3>3. /\ level' \in [Sides -> Seq(LevelRecords)] /\ BookOK'
          /\ \A t \in Sides : Len(level'[t]) = IF t = s THEN Len(level[t]) + 1 ELSE Len(level[t])
          /\ \A t \in Sides : \A j \in 1..Len(level[t]) : level'[t][j] = level[t][j]
          /\ level'[s][Len(level[s]) + 1] = r
      BY <1>0, <1>1, <2>2, <2>5, <3>2, PushLevel DEF r
    <3>4. root[s] \in Nat /\ root[s] <= Len(level[s])
      BY <1>1 DEF IInv, TypeOK
    <3>5. PushRoot(s, p, k) \in Nat /\ PushRoot(s, p, k) <= k
      BY <2>3, <3>4 DEF PushRoot
    <3>6. TypeOK'
      <4>1. /\ levels' \in [Sides -> [Prices -> Nat]]
            /\ \A t \in Sides, u \in Prices : levels'[t][u] <= Len(level'[t])
        BY <1>1, <2>1, <2>3, <2>5, <3>3 DEF IInv, TypeOK
      <4>2. /\ root' \in [Sides -> Nat]
            /\ \A t \in Sides : root'[t] <= Len(level'[t])
        BY <1>1, <2>5, <3>3, <3>5 DEF IInv, TypeOK
      <4> QED BY <1>0, <2>2, <3>3, <4>1, <4>2 DEF IInv, TypeOK, BookOK, Good, Idle
    <3>7. MapOK'
      <4> SUFFICES ASSUME NEW t \in Sides, NEW u \in Prices, levels'[t][u] # 0
                   PROVE  level'[t][levels'[t][u]].price = u
        BY DEF MapOK
      <4>1. levels[t][u] \in Nat /\ levels[t][u] <= Len(level[t]) /\ Len(level[t]) \in Nat
        BY LenProperties DEF IInv, TypeOK
      <4>2. CASE t = s /\ u = p
        <5>1. levels'[t][u] = Len(level[s]) + 1
          BY <1>1, <2>1, <2>5, <4>2 DEF IInv, TypeOK
        <5> QED BY <3>2, <3>3, <4>2, <5>1
      <4>3. CASE ~(t = s /\ u = p)
        <5>1. levels'[t][u] = levels[t][u]
          BY <1>1, <2>1, <2>5, <4>3 DEF IInv, TypeOK
        <5>2. levels[t][u] \in 1..Len(level[t])
          BY <4>1, <5>1
        <5> QED BY <3>3, <5>1, <5>2 DEF IInv, MapOK
      <4> QED BY <4>2, <4>3
    <3> QED BY <1>2, <3>3, <3>6, <3>7 DEF IInv
  <2> QED BY <1>0, <1>4, <2>4, <2>5 DEF AddOrder
<1> QED BY <1>3, <1>4 DEF AddOrder

LEMMA DropIInv ==
  ASSUME IInv, NEW o \in OrderIds, Drop(o)
  PROVE  IInv'
<1> USE DEF Drop
<1>1. TypeOK'
  BY DEF IInv, TypeOK, Stages, Idle, Book, Best
<1>2. BookOK'
  <2>1. \A q \in OrderIds : stage[q] \in Settled => stage'[q] \in Settled
    BY DEF IInv, TypeOK, Settled
  <2> QED BY <2>1, GoodBooks, GoodStays DEF BookOK
<1>3. MapOK' /\ RunOK' /\ TradesWithinLimits' /\ NeverOverfilled'
  BY DEF IInv, MapOK, RunOK, TradesWithinLimits, NeverOverfilled, Book, Best, Crosses
<1> QED BY <1>1, <1>2, <1>3 DEF IInv

LEMMA RemoveOrderIInv ==
  ASSUME IInv, NEW o \in OrderIds, RemoveOrder(o)
  PROVE  IInv'
<1> DEFINE s == req[o].side
           st == stage'
<1>1. PICK p \in Prices : 
        LET k == levels[s][p]
            l == level[s][k]
        IN /\ k # 0
           /\ \E i \in 1..l.len :
                /\ l.orders[i] = o
                /\ level' = [level EXCEPT ![s][k] = Trim(CutOut(l, i))]
           /\ levels' = [levels EXCEPT ![s][p] = IF l.len = 1 THEN 0 ELSE k]
  BY DEF RemoveOrder
<1> DEFINE k == levels[s][p]
           l == level[s][k]
<1>2. PICK i \in 1..l.len : level' = [level EXCEPT ![s][k] = Trim(CutOut(l, i))]
  BY <1>1
<1>3. /\ run.pc = "idle" /\ stage[o] = "resting"
      /\ UNCHANGED <<req, filled, status, root, run, trades>>
      /\ stage' = [stage EXCEPT ![o] = "removed"]
  BY DEF RemoveOrder
<1>4. s \in Sides
  BY RequestFields
<1>5. /\ stage' \in [OrderIds -> Stages]
      /\ \A q \in OrderIds : stage[q] \in Settled => stage'[q] \in Settled
  BY <1>3 DEF IInv, TypeOK, Stages, Settled
<1>6. k \in 1..Len(level[s])
  <2>1. level[s] \in Seq(LevelRecords) /\ k \in Nat /\ k <= Len(level[s])
    BY <1>4 DEF IInv, TypeOK
  <2>2. k # 0
    BY <1>1
  <2>3. Len(level[s]) \in Nat
    BY ONLY <2>1, LenProperties
  <2> HIDE DEF k
  <2> QED BY ONLY <2>1, <2>2, <2>3
<1>7. Good(s, l, req, st)
  BY <1>4, <1>5, <1>6, GoodBooks, GoodStays
<1>8. levels' = [levels EXCEPT ![s][p] = IF l.len = 1 THEN 0 ELSE k]
  BY <1>1
<1> HIDE DEF s, st, k, l
<1> DEFINE r == Trim(CutOut(l, i))
<1>9. Good(s, r, req, st) /\ r.price = l.price
  <2> DEFINE c == CutOut(l, i)
  <2>1. Good(s, c, req, st) /\ c.price = l.price
    BY <1>7, CutOutGood
  <2> HIDE DEF c
  <2>2. Good(s, Trim(c), req, st) /\ Trim(c).price = c.price
    BY <2>1, TrimGood
  <2> QED BY <2>1, <2>2 DEF c
<1> HIDE DEF r
<1>10. /\ level' \in [Sides -> Seq(LevelRecords)] /\ BookOK'
       /\ \A t \in Sides : Len(level'[t]) = Len(level[t])
       /\ \A t \in Sides : \A j \in 1..Len(level[t]) :
            level'[t][j].price = level[t][j].price
  <2>1. Good(s, r, req, stage') /\ r.price = level[s][k].price
    BY <1>9 DEF st, l
  <2>2. level' = [level EXCEPT ![s][k] = r]
    BY <1>2 DEF r
  <2> QED BY <1>3, <1>4, <1>5, <1>6, <2>1, <2>2, ReplaceLevel
<1>11. TypeOK'
  <2>1. /\ levels' \in [Sides -> [Prices -> Nat]]
        /\ \A t \in Sides, u \in Prices : levels'[t][u] <= Len(level[t])
    <3>1. levels \in [Sides -> [Prices -> Nat]] /\ k \in Nat /\ k <= Len(level[s])
      BY <1>4, <1>6 DEF IInv, TypeOK
    <3>2. \A t \in Sides, u \in Prices :
            levels[t][u] \in Nat /\ levels[t][u] <= Len(level[t]) /\ Len(level[t]) \in Nat
      BY LenProperties DEF IInv, TypeOK
    <3> QED BY <1>4, <1>8, <3>1, <3>2
  <2>2. \A t \in Sides, u \in Prices : levels'[t][u] <= Len(level'[t])
    BY <1>10, <2>1
  <2>3. \A t \in Sides : root[t] <= Len(level'[t])
    BY <1>10 DEF IInv, TypeOK
  <2> QED BY <1>3, <1>5, <1>10, <2>1, <2>2, <2>3 DEF IInv, TypeOK, BookOK, Good, Idle
<1>12. MapOK'
  <2> SUFFICES ASSUME NEW t \in Sides, NEW u \in Prices, levels'[t][u] # 0
               PROVE  level'[t][levels'[t][u]].price = u
    BY DEF MapOK
  <2>1. levels[t][u] \in Nat /\ levels[t][u] <= Len(level[t]) /\ Len(level[t]) \in Nat
    BY LenProperties DEF IInv, TypeOK
  <2>2. levels'[t][u] = levels[t][u]
    BY <1>4, <1>8 DEF IInv, TypeOK, k
  <2> QED BY <1>10, <2>1, <2>2 DEF IInv, MapOK
<1>13. RunOK' /\ TradesWithinLimits' /\ NeverOverfilled'
  BY <1>3, IdleRun DEF IInv, NeverOverfilled
<1> QED BY <1>10, <1>11, <1>12, <1>13 DEF IInv

LEMMA MatchOrderIInv ==
  ASSUME IInv, NEW o \in OrderIds, MatchOrder(o)
  PROVE  IInv'
<1> USE DEF MatchOrder
<1>1. TypeOK'
  BY DEF IInv, TypeOK, Stages, Idle
<1>2. BookOK'
  <2>1. \A q \in OrderIds : stage[q] \in Settled => stage'[q] \in Settled
    BY DEF IInv, TypeOK, Settled
  <2> QED BY <2>1, GoodBooks, GoodStays DEF BookOK
<1>3. MapOK' /\ RunOK' /\ TradesWithinLimits' /\ NeverOverfilled'
  BY DEF IInv, MapOK, RunOK, TradesWithinLimits, NeverOverfilled
<1> QED BY <1>1, <1>2, <1>3 DEF IInv

\* Steps that leave the books alone.
LEMMA SameBooks ==
  ASSUME IInv, UNCHANGED <<req, level, levels, root>>,
         \A o \in OrderIds : stage[o] \in Settled => stage'[o] \in Settled
  PROVE  BookOK' /\ MapOK'
<1>1. BookOK'
  BY GoodBooks, GoodStays DEF BookOK
<1> QED BY <1>1 DEF IInv, MapOK

\* Within a call, what BookOK and TypeOK say of the level it is at.
LEMMA BestGood ==
  ASSUME IInv, run.pc # "idle", root[Book] # 0
  PROVE  /\ Book \in Sides /\ root[Book] \in 1..Len(level[Book])
         /\ Good(Book, Best, req, stage)
         /\ Best \in LevelRecords /\ Best.len \in Nat /\ Best.len <= Len(Best.orders)
<1>1. Book \in Sides
  BY RunningCall
<1>2. root[Book] \in 1..Len(level[Book])
  BY <1>1, LenProperties DEF IInv, TypeOK
<1>3. Good(Book, Best, req, stage)
  BY <1>1, <1>2, GoodBooks DEF Best
<1> QED BY <1>1, <1>2, <1>3, LevelFields DEF Good

LEMMA EnterLevelIInv ==
  ASSUME IInv, EnterLevel
  PROVE  IInv'
<1>1. /\ run.pc = "outer" /\ run' = [run EXCEPT !.pc = "inner", !.i = 1, !.n = Best.len]
      /\ UNCHANGED <<req, filled, status, stage, level, levels, root, trades>>
      /\ root[Book] # 0 /\ Crosses(run.taker, Best.price)
  BY DEF EnterLevel, Continues
<1>2. run.taker \in OrderIds /\ stage[run.taker] = "matching" /\ Book \in Sides
  BY <1>1, RunningCall
<1>3. run'.pc = "inner" /\ run'.taker = run.taker /\ run'.i = 1 /\ run'.n = Best.len
  BY <1>1 DEF IInv, TypeOK
<1>4. Book' = Book /\ Best' = Best
  BY <1>1, <1>3 DEF Book, Best
<1>5. Best.len \in Nat /\ Best.len <= Len(Best.orders)
  BY <1>1, BestGood
<1>6. TypeOK'
  <2>1. run' \in [pc : {"idle", "outer", "inner"}, taker : OrderIds \cup {NoOrder},
                  i : Nat, n : Nat]
    BY <1>1, <1>5 DEF IInv, TypeOK
  <2>2. run'.pc = "inner" => /\ run'.i \in 1..(run'.n + 1)
                             /\ root'[Book'] # 0
                             /\ run'.n <= Len(Best'.orders)
    BY <1>1, <1>3, <1>4, <1>5
  <2> HIDE DEF Best, Book
  <2> QED BY <1>1, <1>2, <1>3, <2>1, <2>2 DEF IInv, TypeOK
<1>7. BookOK' /\ MapOK'
  BY <1>1, SameBooks
<1>8. RunOK'
  BY <1>1, <1>3, <1>4 DEF RunOK, Crosses
<1>9. TradesWithinLimits'
  BY <1>1, <1>3, <1>4 DEF IInv, TradesWithinLimits, Crosses
<1>10. NeverOverfilled'
  BY <1>1 DEF IInv, NeverOverfilled
<1> QED BY <1>6, <1>7, <1>8, <1>9, <1>10 DEF IInv

LEMMA ReturnIInv ==
  ASSUME IInv, Return
  PROVE  IInv'
<1>1. /\ run.pc = "outer" /\ run' = Idle
      /\ stage' = [stage EXCEPT ![run.taker] = "matched"]
      /\ UNCHANGED <<req, filled, level, levels, root, trades>>
  BY DEF Return
<1>2. run.taker \in OrderIds /\ stage[run.taker] = "matching"
  BY <1>1, RunningCall
<1>3. /\ stage' \in [OrderIds -> Stages]
      /\ \A o \in OrderIds : stage[o] \in Settled => stage'[o] \in Settled
  BY <1>1, <1>2 DEF IInv, TypeOK, Stages, Settled
<1>4. status' \in [OrderIds -> {"NEW", "PARTIALLY_FILLED", "FILLED"}]
  BY <1>2 DEF Return, IInv, TypeOK
<1>5. TypeOK'
  BY <1>1, <1>3, <1>4 DEF IInv, TypeOK, Idle
<1>6. BookOK' /\ MapOK'
  BY <1>1, <1>3, SameBooks
<1>7. RunOK' /\ TradesWithinLimits' /\ NeverOverfilled'
  BY <1>1 DEF IInv, RunOK, TradesWithinLimits, NeverOverfilled, Idle
<1> QED BY <1>5, <1>6, <1>7 DEF IInv

LEMMA NextIndex ==
  ASSUME IInv, run' = [run EXCEPT !.i = @ + 1]
  PROVE  /\ run' \in [pc : {"idle", "outer", "inner"}, taker : OrderIds \cup {NoOrder},
                     i : Nat, n : Nat]
         /\ run'.pc = run.pc /\ run'.taker = run.taker
         /\ run'.i = run.i + 1 /\ run'.n = run.n
<1>1. run \in [pc : {"idle", "outer", "inner"}, taker : OrderIds \cup {NoOrder},
               i : Nat, n : Nat]
  BY DEF IInv, TypeOK
<1>2. run.i + 1 \in Nat
  BY <1>1
<1> QED BY <1>1, <1>2

LEMMA SkipOrderIInv ==
  ASSUME IInv, SkipOrder
  PROVE  IInv'
<1>1. /\ run.pc = "inner" /\ run.i <= run.n /\ run' = [run EXCEPT !.i = @ + 1]
      /\ UNCHANGED <<req, filled, status, stage, level, levels, root, trades>>
  BY DEF SkipOrder, AtOrder
<1>2. run'.pc = "inner" /\ run'.taker = run.taker /\ run'.i = run.i + 1 /\ run'.n = run.n
  BY <1>1 DEF IInv, TypeOK
<1>3. Book' = Book /\ Best' = Best
  BY <1>1, <1>2 DEF Book, Best
<1>4. TypeOK'
  <2>1. run' \in [pc : {"idle", "outer", "inner"}, taker : OrderIds \cup {NoOrder},
                  i : Nat, n : Nat]
    BY <1>1, NextIndex
  <2>2. run'.pc = "inner" => /\ run'.i \in 1..(run'.n + 1)
                             /\ root'[Book'] # 0
                             /\ run'.n <= Len(Best'.orders)
    BY <1>1, <1>2, <1>3 DEF IInv, TypeOK
  <2> HIDE DEF Best, Book
  <2> QED BY <1>1, <1>2, <2>1, <2>2 DEF IInv, TypeOK
<1>5. BookOK' /\ MapOK'
  BY <1>1, SameBooks
<1>6. RunOK' /\ TradesWithinLimits' /\ NeverOverfilled'
  BY <1>1, <1>2, <1>3 DEF IInv, RunOK, TradesWithinLimits, NeverOverfilled, Crosses
<1> QED BY <1>4, <1>5, <1>6 DEF IInv

\* Steps that replace the level the call is at by r.
LEMMA ReplaceBest ==
  ASSUME IInv, req' = req, levels' = levels, root' = root, run.pc = "inner",
         \A o \in OrderIds : stage[o] \in Settled => stage'[o] \in Settled,
         NEW r, Good(Book, r, req, stage), r.price = Best.price,
         level' = [level EXCEPT ![Book][root[Book]] = r]
  PROVE  /\ level' \in [Sides -> Seq(LevelRecords)]
         /\ \A s \in Sides : \A k \in 1..Len(level'[s]) :
              level'[s][k].len <= Len(level'[s][k].orders)
         /\ \A s \in Sides, p \in Prices : levels'[s][p] <= Len(level'[s])
         /\ \A s \in Sides : root'[s] <= Len(level'[s])
         /\ BookOK' /\ MapOK'
         /\ level'[Book][root[Book]] = r
<1> DEFINE s == Book
           k == root[Book]
<1>1. s \in Sides /\ k \in 1..Len(level[s])
  BY RunningCall
<1>2. Good(s, r, req, stage') 
  BY GoodStays
<1>3. r.price = level[s][k].price /\ level' = [level EXCEPT ![s][k] = r]
  BY DEF Best
<1> HIDE DEF s, k
<1>4. /\ level' \in [Sides -> Seq(LevelRecords)] /\ BookOK'
      /\ \A t \in Sides : Len(level'[t]) = Len(level[t])
      /\ \A t \in Sides : \A j \in 1..Len(level[t]) :
           level'[t][j].price = level[t][j].price
      /\ level'[s][k] = r
  BY ONLY <1>1, <1>2, <1>3, IInv, req' = req, ReplaceLevel,
          \A o \in OrderIds : stage[o] \in Settled => stage'[o] \in Settled
<1>5. \A t \in Sides : \A j \in 1..Len(level'[t]) :
        level'[t][j].len <= Len(level'[t][j].orders)
  BY <1>4 DEF BookOK, Good
<1>6. /\ \A t \in Sides, p \in Prices : levels'[t][p] <= Len(level'[t])
      /\ \A t \in Sides : root'[t] <= Len(level'[t])
  BY <1>4 DEF IInv, TypeOK
<1>7. MapOK'
  <2> SUFFICES ASSUME NEW t \in Sides, NEW u \in Prices, levels[t][u] # 0
               PROVE  level'[t][levels[t][u]].price = u
    BY DEF MapOK
  <2>1. levels[t][u] \in Nat /\ levels[t][u] <= Len(level[t]) /\ Len(level[t]) \in Nat
    BY LenProperties DEF IInv, TypeOK
  <2> QED BY <1>4, <2>1 DEF IInv, MapOK
<1> QED BY <1>4, <1>5, <1>6, <1>7 DEF s, k

LEMMA LeaveLevelIInv ==
  ASSUME IInv, LeaveLevel
  PROVE  IInv'
<1> DEFINE r == Trim(Best)
<1>1. /\ run.pc = "inner" /\ run' = [run EXCEPT !.pc = "outer", !.i = 0, !.n = 0]
      /\ UNCHANGED <<req, filled, status, stage, levels, root, trades>>
      /\ level' = [level EXCEPT ![Book][root[Book]] = r]
  BY DEF LeaveLevel, Best
<1>2. run'.pc = "outer" /\ run'.taker = run.taker
  BY <1>1 DEF IInv, TypeOK
<1>3. run.taker \in OrderIds /\ stage[run.taker] = "matching" /\ root[Book] # 0
  BY <1>1, RunningCall DEF IInv, TypeOK
<1>4. Good(Book, r, req, stage) /\ r.price = Best.price
  BY <1>1, <1>3, BestGood, TrimGood
<1> HIDE DEF r
<1>5. /\ level' \in [Sides -> Seq(LevelRecords)]
      /\ \A s \in Sides : \A k \in 1..Len(level'[s]) :
           level'[s][k].len <= Len(level'[s][k].orders)
      /\ \A s \in Sides, p \in Prices : levels'[s][p] <= Len(level'[s])
      /\ \A s \in Sides : root'[s] <= Len(level'[s])
      /\ BookOK' /\ MapOK'
  BY <1>1, <1>4, ReplaceBest
<1>6. TypeOK'
  <2>1. run' \in [pc : {"idle", "outer", "inner"}, taker : OrderIds \cup {NoOrder},
                  i : Nat, n : Nat]
    BY <1>1 DEF IInv, TypeOK
  <2> HIDE DEF Book, Best
  <2> QED BY <1>1, <1>2, <1>3, <1>5, <2>1 DEF IInv, TypeOK
<1>7. RunOK' /\ NeverOverfilled'
  BY <1>1, <1>2 DEF IInv, RunOK, NeverOverfilled
<1>8. TradesWithinLimits'
  BY <1>1, <1>2 DEF IInv, TradesWithinLimits, Crosses, Book
<1> QED BY <1>5, <1>6, <1>7, <1>8 DEF IInv

\* A fill adds a trade at the maker's price, which the taker's limit allows.
LEMMA NewTrade ==
  ASSUME IInv, AtOrder, FillQty \in Nat, req' = req, run'.taker = run.taker,
         trades' = Append(trades, [maker |-> Maker, price |-> Best.price, qty |-> FillQty])
  PROVE  /\ trades' \in Seq([maker : OrderIds, price : Prices, qty : Nat])
         /\ TradesWithinLimits'
<1> DEFINE t == [maker |-> Maker, price |-> Best.price, qty |-> FillQty]
<1>1. run.pc = "inner" /\ run.taker \in OrderIds
  BY RunningCall DEF AtOrder
<1>2. /\ t \in [maker : OrderIds, price : Prices, qty : Nat]
      /\ req[t.maker].side = Book /\ req[t.maker].price = t.price
  BY AtCell
<1>3. Crosses(run.taker, t.price)
  BY <1>1 DEF IInv, RunOK
<1>4. trades \in Seq([maker : OrderIds, price : Prices, qty : Nat])
  BY DEF IInv, TypeOK
<1>5. \A j \in 1..Len(trades) : /\ req[trades[j].maker].side = Book
                               /\ req[trades[j].maker].price = trades[j].price
                               /\ Crosses(run.taker, trades[j].price)
  BY <1>1 DEF IInv, TradesWithinLimits
<1>6. trades' = Append(trades, t)
  OBVIOUS
<1> HIDE DEF t
<1>7. /\ trades' \in Seq([maker : OrderIds, price : Prices, qty : Nat])
      /\ Len(trades') = Len(trades) + 1 /\ Len(trades) \in Nat
      /\ \A j \in 1..Len(trades) : trades'[j] = trades[j]
      /\ trades'[Len(trades) + 1] = t
  BY <1>2, <1>4, <1>6
<1>8. \A j \in 1..Len(trades') : /\ req[trades'[j].maker].side = Book
                                /\ req[trades'[j].maker].price = trades'[j].price
                                /\ Crosses(run.taker, trades'[j].price)
  <2> SUFFICES ASSUME NEW j \in 1..Len(trades')
               PROVE  /\ req[trades'[j].maker].side = Book
                      /\ req[trades'[j].maker].price = trades'[j].price
                      /\ Crosses(run.taker, trades'[j].price)
    OBVIOUS
  <2>1. CASE j = Len(trades) + 1
    BY <1>2, <1>3, <1>7, <2>1
  <2>2. CASE j # Len(trades) + 1
    <3>1. j \in 1..Len(trades)
      BY <1>7, <2>2
    <3> QED BY <1>5, <1>7, <3>1
  <2> QED BY <2>1, <2>2
<1>9. Book' = Book
  BY DEF Book
<1> QED BY <1>7, <1>8, <1>9 DEF TradesWithinLimits, Crosses

\* What FillPartly and FillMaker have in common: r is the level after the fill.
LEMMA FillIInv ==
  ASSUME IInv, AtOrder, Remaining(Maker) > 0,
         filled' = FillBoth(run.taker, Maker, FillQty),
         status' \in [OrderIds -> {"NEW", "PARTIALLY_FILLED", "FILLED"}],
         run' = [run EXCEPT !.i = @ + 1],
         trades' = Append(trades, [maker |-> Maker, price |-> Best.price, qty |-> FillQty]),
         UNCHANGED <<req, stage, levels, root>>,
         NEW r, Good(Book, r, req, stage), r.price = Best.price,
         Len(r.orders) = Len(Best.orders),
         level' = [level EXCEPT ![Book][root[Book]] = r]
  PROVE  IInv'
<1>1. /\ run.pc = "inner" /\ run.i <= run.n
      /\ run.taker \in OrderIds /\ stage[run.taker] = "matching" /\ root[Book] # 0
  BY RunningCall DEF AtOrder, IInv, TypeOK
<1>2. run'.pc = "inner" /\ run'.taker = run.taker /\ run'.i = run.i + 1 /\ run'.n = run.n
  BY <1>1, NextIndex
<1>3. FillQty \in Nat /\ filled' \in [OrderIds -> Nat] /\ NeverOverfilled'
  BY FillKeepsLimits
<1>4. /\ trades' \in Seq([maker : OrderIds, price : Prices, qty : Nat])
      /\ TradesWithinLimits'
  BY <1>2, <1>3, NewTrade
<1>5. /\ level' \in [Sides -> Seq(LevelRecords)]
      /\ \A s \in Sides : \A k \in 1..Len(level'[s]) :
           level'[s][k].len <= Len(level'[s][k].orders)
      /\ \A s \in Sides, p \in Prices : levels'[s][p] <= Len(level'[s])
      /\ \A s \in Sides : root'[s] <= Len(level'[s])
      /\ BookOK' /\ MapOK'
      /\ level'[Book][root[Book]] = r
  BY <1>1, ReplaceBest
<1>6. Book' = Book
  BY <1>2 DEF Book
<1>7. Best' = r
  BY <1>5, <1>6 DEF Best
<1>8. TypeOK'
  <2>1. run' \in [pc : {"idle", "outer", "inner"}, taker : OrderIds \cup {NoOrder},
                  i : Nat, n : Nat]
    BY NextIndex
  <2>2. run'.pc = "inner" => /\ run'.i \in 1..(run'.n + 1)
                             /\ root'[Book'] # 0
                             /\ run'.n <= Len(Best'.orders)
    BY <1>1, <1>2, <1>6, <1>7 DEF IInv, TypeOK
  <2> HIDE DEF Best, Book
  <2> QED BY <1>1, <1>2, <1>3, <1>4, <1>5, <2>1, <2>2 DEF IInv, TypeOK
<1>9. RunOK'
  BY <1>1, <1>2, <1>7 DEF IInv, RunOK, Crosses
<1> QED BY <1>3, <1>4, <1>5, <1>8, <1>9 DEF IInv

LEMMA FillPartlyIInv ==
  ASSUME IInv, FillPartly
  PROVE  IInv'
<1>1. run.pc # "idle" /\ root[Book] # 0 /\ AtOrder
  BY DEF FillPartly, AtOrder, IInv, TypeOK
<1>2. /\ Book \in Sides /\ root[Book] \in 1..Len(level[Book])
      /\ Good(Book, Best, req, stage)
  BY <1>1, BestGood
<1>3. Maker \in OrderIds /\ run.taker \in OrderIds
  BY <1>1, AtCell, RunningCall DEF AtOrder
<1>4. Remaining(Maker) > 0
  <2>1. /\ req[Maker].qty \in Nat /\ filled[Maker] \in Nat
        /\ req[run.taker].qty \in Nat /\ filled[run.taker] \in Nat
    BY <1>3, RequestFields
  <2> QED BY <1>1, <2>1 DEF FillPartly, FillQty, Remaining, AtOrder
<1>5. status' \in [OrderIds -> {"NEW", "PARTIALLY_FILLED", "FILLED"}]
  BY <1>3 DEF FillPartly, IInv, TypeOK
<1>6. level' = [level EXCEPT ![Book][root[Book]] = Best]
  BY <1>2 DEF FillPartly, Best, IInv, TypeOK
<1> QED BY <1>1, <1>2, <1>4, <1>5, <1>6, FillIInv DEF FillPartly

LEMMA FillMakerIInv ==
  ASSUME IInv, FillMaker
  PROVE  IInv'
<1>1. run.pc # "idle" /\ root[Book] # 0 /\ AtOrder /\ Remaining(Maker) > 0
  BY DEF FillMaker, FillsMaker, AtOrder, IInv, TypeOK
<1>2. /\ Book \in Sides /\ root[Book] \in 1..Len(level[Book])
      /\ Good(Book, Best, req, stage) /\ Best.len \in Nat
  BY <1>1, BestGood
<1>3. Maker \in OrderIds
  BY <1>1, AtCell
<1>4. run.i \in 1..Best.len
  BY <1>1, <1>2 DEF FillMaker, AtOrder, IInv, TypeOK
<1> DEFINE r == CutOut(Best, run.i)
<1>5. /\ Good(Book, r, req, stage) /\ r.price = Best.price
      /\ Len(r.orders) = Len(Best.orders)
  BY <1>2, <1>4, CutOutGood
<1>6. status' \in [OrderIds -> {"NEW", "PARTIALLY_FILLED", "FILLED"}]
  BY <1>3 DEF FillMaker, IInv, TypeOK
<1>7. level' = [level EXCEPT ![Book][root[Book]] = r]
  BY DEF FillMaker, Best
<1> HIDE DEF r
<1> QED BY <1>1, <1>5, <1>6, <1>7, FillIInv DEF FillMaker, FillsMaker

LEMMA FillPanicsIInv ==
  ASSUME IInv, FillPanics
  PROVE  IInv'
<1> DEFINE r == Trim(Best)
<1>1. /\ run.pc = "inner" /\ AtOrder /\ Remaining(Maker) > 0 /\ run' = Idle
      /\ filled' = FillBoth(run.taker, Maker, FillQty)
      /\ stage' = [stage EXCEPT ![run.taker] = "panicked"] /\ trades' = <<>>
      /\ UNCHANGED <<req, status, levels, root>>
      /\ level' = [level EXCEPT ![Book][root[Book]] = r]
  BY DEF FillPanics, FillsMaker, AtOrder, Best
<1>2. run.taker \in OrderIds /\ stage[run.taker] = "matching" /\ root[Book] # 0
  BY <1>1, RunningCall DEF IInv, TypeOK
<1>3. /\ stage' \in [OrderIds -> Stages]
      /\ \A o \in OrderIds : stage[o] \in Settled => stage'[o] \in Settled
  BY <1>1, <1>2 DEF IInv, TypeOK, Stages, Settled
<1>4. Good(Book, r, req, stage) /\ r.price = Best.price
  BY <1>1, <1>2, BestGood, TrimGood
<1> HIDE DEF r
<1>5. /\ level' \in [Sides -> Seq(LevelRecords)]
      /\ \A s \in Sides : \A k \in 1..Len(level'[s]) :
           level'[s][k].len <= Len(level'[s][k].orders)
      /\ \A s \in Sides, p \in Prices : levels'[s][p] <= Len(level'[s])
      /\ \A s \in Sides : root'[s] <= Len(level'[s])
      /\ BookOK' /\ MapOK'
  BY <1>1, <1>3, <1>4, ReplaceBest
<1>6. filled' \in [OrderIds -> Nat] /\ NeverOverfilled'
  BY <1>1, FillKeepsLimits
<1>7. TypeOK'
  BY <1>1, <1>3, <1>5, <1>6 DEF IInv, TypeOK, Idle
<1>8. RunOK' /\ TradesWithinLimits'
  BY <1>1 DEF RunOK, TradesWithinLimits, Idle
<1> QED BY <1>5, <1>6, <1>7, <1>8 DEF IInv

-----------------------------------------------------------------------------

LEMMA NextIInv == IInv /\ [Next]_vars => IInv'
<1> SUFFICES ASSUME IInv, [Next]_vars PROVE IInv'
  OBVIOUS
<1>1. ASSUME NEW o \in OrderIds, MatchOrder(o) PROVE IInv'
  BY <1>1, MatchOrderIInv
<1>2. ASSUME NEW o \in OrderIds, AddOrder(o) PROVE IInv'
  BY <1>2, AddOrderIInv
<1>3. ASSUME NEW o \in OrderIds, Drop(o) PROVE IInv'
  BY <1>3, DropIInv
<1>4. ASSUME NEW o \in OrderIds, RemoveOrder(o) PROVE IInv'
  BY <1>4, RemoveOrderIInv
<1>5. CASE MatchStep
  BY <1>5, EnterLevelIInv, ReturnIInv, LeaveLevelIInv, SkipOrderIInv,
     FillPartlyIInv, FillMakerIInv, FillPanicsIInv DEF MatchStep
<1>6. CASE UNCHANGED vars
  <2> USE <1>6 DEF vars
  <2>1. TypeOK'
    BY DEF IInv, TypeOK, Book, Best, Idle
  <2>2. BookOK' /\ MapOK'
    BY SameBooks
  <2>3. RunOK' /\ NeverOverfilled' /\ TradesWithinLimits'
    BY DEF IInv, RunOK, NeverOverfilled, TradesWithinLimits, Crosses, Best, Book
  <2> QED BY <2>1, <2>2, <2>3 DEF IInv
<1> QED BY <1>1, <1>2, <1>3, <1>4, <1>5, <1>6 DEF Next

LEMMA SpecIInv == Spec => []IInv
BY InitIInv, NextIInv, PTL DEF Spec

-----------------------------------------------------------------------------
(***************************************************************************)
(* Bought and sold                                                         *)
(***************************************************************************)

OrdersOn(s) == {o \in OrderIds : req[o].side = s}

LEMMA FilledOnSum ==
  ASSUME NEW s
  PROVE  /\ FilledOn(s) = Sum(filled, OrdersOn(s))
         /\ FilledOn(s)' = Sum(filled', OrdersOn(s)')
<1>1. FilledOn(s) = Sum(filled, OrdersOn(s))
  BY DEF FilledOn, OrdersOn, MapThenSumSet, MapThenFoldSet, Sum, Pick
<1>2. FilledOn(s)' = Sum(filled', OrdersOn(s)')
  BY DEF FilledOn, OrdersOn, MapThenSumSet, MapThenFoldSet, Sum, Pick
<1> QED BY <1>1, <1>2

LEMMA OrdersFinite ==
  ASSUME NEW s
  PROVE  IsFiniteSet(OrderIds) /\ IsFiniteSet(OrdersOn(s)) /\ OrdersOn(s) \subseteq OrderIds
<1>1. IsFiniteSet(OrderIds)
  BY FS_Interval, RequestsAssumption DEF OrderIds
<1>2. OrdersOn(s) \in SUBSET OrderIds
  BY DEF OrdersOn
<1> QED BY <1>1, <1>2, FS_Subset

\* A step changes what is filled by a trade of two orders or not at all.
LEMMA FillSteps ==
  ASSUME IInv, [Next]_vars
  PROVE  /\ req' = req
         /\ \/ filled' = filled
            \/ /\ AtOrder /\ Remaining(Maker) > 0
               /\ filled' = FillBoth(run.taker, Maker, FillQty)
BY DEF Next, vars, MatchOrder, AddOrder, Drop, RemoveOrder, MatchStep, EnterLevel, Return,
       LeaveLevel, SkipOrder, FillPartly, FillMaker, FillPanics, FillsMaker

LEMMA TradeBalances ==
  ASSUME IInv, FillsBalance, AtOrder, Remaining(Maker) > 0, req' = req,
         filled' = FillBoth(run.taker, Maker, FillQty)
  PROVE  FillsBalance'
<1> DEFINE t == run.taker
           m == Maker
           q == FillQty
           B(s) == OrdersOn(s)
<1>1. /\ t \in OrderIds /\ m \in OrderIds /\ m # t
      /\ req[m].side = Book /\ req[t].side \in Sides
  BY AtCell, RunningCall, RequestFields DEF AtOrder
<1>2. q \in Nat /\ filled \in [OrderIds -> Nat] /\ filled' \in [OrderIds -> Nat]
  BY FillKeepsLimits DEF IInv, TypeOK
<1>3. filled' = [filled EXCEPT ![t] = @ + q, ![m] = @ + q]
  BY DEF FillBoth
<1>4. req[m].side = Opposite(req[t].side)
  BY <1>1 DEF Book
<1> HIDE DEF t, m, q
<1>5. \A o \in OrderIds :
        filled'[o] = IF o = t \/ o = m THEN filled[o] + q ELSE filled[o]
  BY <1>1, <1>2, <1>3
<1>6. ASSUME NEW s \in Sides, NEW x \in {t, m}, req[x].side = s,
             \A y \in {t, m} : y # x => req[y].side # s
      PROVE  Sum(filled', B(s)) = Sum(filled, B(s)) + q
  <2>1. IsFiniteSet(B(s)) /\ x \in B(s) /\ B(s) \subseteq OrderIds
    BY <1>1, <1>6, OrdersFinite DEF OrdersOn
  <2>2. \A y \in B(s) : y \in {t, m} => y = x
    BY <1>6 DEF OrdersOn
  <2>3. \A y \in B(s) \ {x} : filled[y] = filled'[y]
    BY <1>5, <2>1, <2>2
  <2>4. \A y \in B(s) : filled[y] \in Int /\ filled'[y] \in Int
    BY <1>2, <2>1
  <2>5. Sum(filled', B(s)) = Sum(filled, B(s)) + filled'[x] - filled[x]
    <3> HIDE DEF B
    <3> QED BY <2>1, <2>3, <2>4, SumChanges
  <2>6. Sum(filled, B(s)) \in Int
    BY <2>1, <2>4, SumType
  <2>7. filled'[x] = filled[x] + q /\ filled[x] \in Nat
    BY <1>1, <1>2, <1>5
  <2> HIDE DEF B
  <2> QED BY <1>2, <2>5, <2>6, <2>7
<1>7. Sum(filled', B("BUY")) = Sum(filled, B("BUY")) + q
  BY <1>1, <1>4, <1>6 DEF Sides, Opposite
<1>8. Sum(filled', B("SELL")) = Sum(filled, B("SELL")) + q
  BY <1>1, <1>4, <1>6 DEF Sides, Opposite
<1>9. \A s : OrdersOn(s)' = OrdersOn(s)
  BY DEF OrdersOn
<1> QED BY <1>7, <1>8, <1>9, FilledOnSum DEF FillsBalance

\* What buyers have bought is what sellers have sold, for any number of orders and
\* also when a call panics after a fill.
THEOREM BoughtIsSold == Spec => []FillsBalance
<1>1. ASSUME Init PROVE FillsBalance
  <2>1. ASSUME NEW s PROVE Sum(filled, OrdersOn(s)) = 0
    <3>1. \A o \in OrdersOn(s) : filled[o] \in {0}
      BY <1>1 DEF Init, OrdersOn
    <3>2. Sum(filled, OrdersOn(s)) \in {0}
      BY <3>1, OrdersFinite, SumType
    <3> QED BY <3>2
  <2> QED BY <2>1, FilledOnSum DEF FillsBalance
<1>2. ASSUME IInv, FillsBalance, [Next]_vars PROVE FillsBalance'
  <2>1. CASE filled' = filled
    <3>1. req' = req /\ \A s : OrdersOn(s)' = OrdersOn(s)
      BY <1>2, FillSteps DEF OrdersOn
    <3> QED BY <1>2, <2>1, <3>1, FilledOnSum DEF FillsBalance
  <2> QED BY <1>2, <2>1, FillSteps, TradeBalances
<1> QED BY <1>1, <1>2, SpecIInv, PTL DEF Spec

-----------------------------------------------------------------------------
(***************************************************************************)
(* Which orders the levels hold                                            *)
(***************************************************************************)

\* Level l holds order o.
Holds(l, o) == \E i \in 1..l.len : l.orders[i] = o

\* The orders of level l rest on the book, and none of them is there twice.
OnceResting(l, st) ==
  /\ \A i, j \in 1..l.len : l.orders[i] = l.orders[j] => i = j
  /\ \A i \in 1..l.len : st[l.orders[i]] = "resting"

\* The map leads to every level that holds orders.
CellsOK ==
  \A s \in Sides : \A k \in 1..Len(level[s]) :
    /\ OnceResting(level[s][k], stage)
    /\ level[s][k].len > 0 => levels[s][level[s][k].price] = k

\* Order o is where RemoveOrder would look for it.
Listed(o) ==
  LET s == req[o].side
      k == levels[s][req[o].price]
  IN req[o].price \in Prices /\ k \in 1..Len(level[s]) /\ Holds(level[s][k], o)

LiveOK == \A o \in OrderIds : stage[o] = "resting" /\ Remaining(o) > 0 => Listed(o)

InBook == {o \in OrderIds : stage[o] \in Settled}

\* Every level was pushed for an order.
CountOK == \A s \in Sides : Len(level[s]) <= Cardinality(InBook)

RootOK ==
  \A s \in Sides : \A k \in 1..Len(level[s]) :
    root[s] # 0 /\ level[s][root[s]].price <= level[s][k].price

BookInv == CellsOK /\ LiveOK /\ CountOK /\ RootOK

\* The step leaves the orders of every level as they were.
SameCells ==
  /\ UNCHANGED <<req, levels, root>>
  /\ \A s \in Sides :
       /\ Len(level'[s]) = Len(level[s])
       /\ \A k \in 1..Len(level[s]) :
            /\ level'[s][k].price = level[s][k].price
            /\ level'[s][k].len = level[s][k].len
            /\ \A i \in 1..level[s][k].len : level'[s][k].orders[i] = level[s][k].orders[i]
  /\ \A o \in OrderIds :
       /\ stage'[o] = "resting" <=> stage[o] = "resting"
       /\ stage[o] \in Settled => stage'[o] \in Settled
       /\ filled'[o] >= filled[o]

\* What the lemmas below need of the types.
LEMMA BookTypes ==
  ASSUME IInv
  PROVE  /\ \A s \in Sides :
              /\ Len(level[s]) \in Nat
              /\ root[s] \in Nat /\ root[s] <= Len(level[s])
              /\ \A p \in Prices : levels[s][p] \in Nat /\ levels[s][p] <= Len(level[s])
              /\ \A k \in 1..Len(level[s]) :
                   /\ level[s][k].len \in Nat
                   /\ level[s][k].price \in Prices
                   /\ \A i \in 1..level[s][k].len :
                        /\ level[s][k].orders[i] \in OrderIds
                        /\ req[level[s][k].orders[i]].side = s
                        /\ req[level[s][k].orders[i]].price = level[s][k].price
         /\ \A o \in OrderIds : req[o].qty \in Nat /\ filled[o] \in Nat /\ req[o].side \in Sides
         /\ Prices \subseteq Int
<1>1. ASSUME NEW s \in Sides
      PROVE  /\ Len(level[s]) \in Nat
             /\ root[s] \in Nat /\ root[s] <= Len(level[s])
             /\ \A p \in Prices : levels[s][p] \in Nat /\ levels[s][p] <= Len(level[s])
  BY LenProperties DEF IInv, TypeOK
<1>2. ASSUME NEW s \in Sides, NEW k \in 1..Len(level[s])
      PROVE  /\ level[s][k].len \in Nat
             /\ level[s][k].price \in Prices
             /\ \A i \in 1..level[s][k].len :
                  /\ level[s][k].orders[i] \in OrderIds
                  /\ req[level[s][k].orders[i]].side = s
                  /\ req[level[s][k].orders[i]].price = level[s][k].price
  <2> DEFINE l == level[s][k]
  <2>1. Good(s, l, req, stage)
    BY GoodBooks
  <2> HIDE DEF l
  <2>2. l \in LevelRecords /\ l.len <= Len(l.orders)
    BY <2>1 DEF Good
  <2>3. /\ l.len \in Nat /\ l.price \in Prices /\ Len(l.orders) \in Nat
        /\ \A i \in 1..Len(l.orders) : l.orders[i] \in OrderIds
    BY <2>2, LevelFields
  <2>4. \A i \in 1..l.len : i \in 1..Len(l.orders)
    BY <2>2, <2>3
  <2>5. \A i \in 1..l.len : /\ l.orders[i] \in OrderIds
                           /\ req[l.orders[i]].side = s
                           /\ req[l.orders[i]].price = l.price
    BY <2>1, <2>3, <2>4 DEF Good
  <2> QED BY <2>3, <2>5 DEF l
<1>3. Prices \subseteq Int
  BY RequestsAssumption DEF Prices
<1> QED BY <1>1, <1>2, <1>3, RequestFields

\* The orders that settled in the book only grow in number.
LEMMA CountStays ==
  ASSUME IInv, CountOK, \A o \in OrderIds : stage[o] \in Settled => stage'[o] \in Settled,
         \A s \in Sides : Len(level'[s]) = Len(level[s])
  PROVE  CountOK'
<1>1. InBook' \in SUBSET OrderIds /\ InBook \in SUBSET InBook'
  BY DEF InBook
<1>2. IsFiniteSet(InBook')
  BY <1>1, OrdersFinite, FS_Subset
<1>3. IsFiniteSet(InBook) /\ Cardinality(InBook) <= Cardinality(InBook')
  BY <1>1, <1>2, FS_Subset
<1>4. Cardinality(InBook) \in Nat /\ Cardinality(InBook') \in Nat
  BY <1>2, <1>3, FS_CardinalityType
<1>5. \A s \in Sides : Len(level[s]) \in Nat
  BY BookTypes
<1> QED BY <1>3, <1>4, <1>5 DEF CountOK

LEMMA SameCellsKeep ==
  ASSUME IInv, IInv', BookInv, SameCells
  PROVE  BookInv'
<1>1. CountOK'
  BY CountStays DEF SameCells, BookInv
<1>2. RootOK'
  <2> SUFFICES ASSUME NEW s \in Sides, NEW k \in 1..Len(level[s])
               PROVE  root'[s] # 0 /\ level'[s][root'[s]].price <= level'[s][k].price
    BY DEF RootOK, SameCells
  <2>1. root[s] # 0 /\ level[s][root[s]].price <= level[s][k].price
    BY DEF BookInv, RootOK
  <2>2. root[s] \in 1..Len(level[s])
    BY <2>1, BookTypes
  <2> QED BY <2>1, <2>2 DEF SameCells
<1>3. CellsOK'
  <2> SUFFICES ASSUME NEW s \in Sides, NEW k \in 1..Len(level[s])
               PROVE  /\ OnceResting(level'[s][k], stage')
                      /\ level'[s][k].len > 0 => levels'[s][level'[s][k].price] = k
    BY DEF CellsOK, SameCells
  <2>1. /\ level'[s][k].price = level[s][k].price
        /\ level'[s][k].len = level[s][k].len
        /\ \A i \in 1..level[s][k].len : level'[s][k].orders[i] = level[s][k].orders[i]
        /\ levels' = levels
    BY DEF SameCells
  <2>2. /\ OnceResting(level[s][k], stage)
        /\ level[s][k].len > 0 => levels[s][level[s][k].price] = k
    BY DEF BookInv, CellsOK
  <2>3. \A i \in 1..level[s][k].len : stage'[level[s][k].orders[i]] = "resting"
    BY <2>2, BookTypes DEF OnceResting, SameCells
  <2>4. OnceResting(level'[s][k], stage')
    BY <2>1, <2>2, <2>3 DEF OnceResting
  <2> QED BY <2>1, <2>2, <2>4
<1>4. LiveOK'
  <2> SUFFICES ASSUME NEW o \in OrderIds, stage'[o] = "resting", Remaining(o)' > 0
               PROVE  Listed(o)'
    BY DEF LiveOK
  <2>1. req' = req /\ levels' = levels /\ stage[o] = "resting" /\ filled'[o] >= filled[o]
    BY DEF SameCells
  <2>2. req[o].qty \in Nat /\ filled[o] \in Nat /\ filled'[o] \in Nat /\ req[o].side \in Sides
    BY BookTypes DEF IInv, TypeOK
  <2>3. Remaining(o) > 0
    BY <2>1, <2>2 DEF Remaining
  <2>4. Listed(o)
    BY <2>1, <2>3 DEF BookInv, LiveOK
  <2> DEFINE s == req[o].side
             k == levels[s][req[o].price]
  <2>5. /\ req[o].price \in Prices /\ k \in 1..Len(level[s])
        /\ \E i \in 1..level[s][k].len : level[s][k].orders[i] = o
    BY ONLY <2>4 DEF Listed, Holds
  <2>6. s \in Sides /\ req'[o].side = s /\ levels'[s][req'[o].price] = k
    BY ONLY <2>1, <2>2
  <2> HIDE DEF s, k
  <2>7. /\ Len(level'[s]) = Len(level[s]) /\ level'[s][k].len = level[s][k].len
        /\ \A i \in 1..level[s][k].len : level'[s][k].orders[i] = level[s][k].orders[i]
    BY ONLY SameCells, <2>5, <2>6 DEF SameCells
  <2>8. k \in 1..Len(level'[s]) /\ Holds(level'[s][k], o)
    BY ONLY <2>5, <2>7 DEF Holds
  <2> QED BY ONLY <2>1, <2>5, <2>6, <2>8 DEF Listed, s
<1> QED BY <1>1, <1>2, <1>3, <1>4 DEF BookInv

\* The orders of r are those of l without the i-th.
IsCut(r, l, i) ==
  /\ r.price = l.price /\ r.len = l.len - 1
  /\ \A j \in 1..(l.len - 1) : r.orders[j] = l.orders[IF j < i THEN j ELSE j + 1]

LEMMA CutOutCuts ==
  ASSUME NEW l \in LevelRecords, l.len <= Len(l.orders), NEW i \in 1..l.len
  PROVE  IsCut(CutOut(l, i), l, i) /\ IsCut(Trim(CutOut(l, i)), l, i)
<1> DEFINE c == CutOut(l, i)
<1>1. /\ l.len \in Nat /\ Len(l.orders) \in Nat
      /\ \A j \in 1..Len(l.orders) : l.orders[j] \in OrderIds
  BY LevelFields
<1> DEFINE cells == Delete(l.orders, i, l.len)
<1>2. c = [l EXCEPT !.orders = cells, !.len = l.len - 1]
  BY DEF CutOut
<1>a. \A j \in 1..Len(l.orders) :
        cells[j] = IF i <= j /\ j < l.len THEN l.orders[j + 1] ELSE l.orders[j]
  BY DEF Delete
<1> HIDE DEF c, cells
<1>b. /\ c.price = l.price /\ c.len = l.len - 1 /\ c.orders = cells
      /\ Trim(c).price = c.price /\ Trim(c).len = c.len
      /\ Trim(c).orders = SubSeq(c.orders, 1, c.len)
  BY <1>2 DEF Trim, LevelRecords
<1>3. ASSUME NEW j \in 1..(l.len - 1)
      PROVE  /\ c.orders[j] = l.orders[IF j < i THEN j ELSE j + 1]
             /\ c.orders[j] \in OrderIds
  <2>1. j \in 1..Len(l.orders) /\ j + 1 \in 1..Len(l.orders) /\ j < l.len
    BY <1>1
  <2>2. c.orders[j] = IF j < i THEN l.orders[j] ELSE l.orders[j + 1]
    BY <1>1, <1>a, <1>b, <2>1
  <2> QED BY <1>1, <2>1, <2>2
<1>4. IsCut(c, l, i)
  BY <1>3, <1>b DEF IsCut
<1>5. \A j \in 1..c.len : SubSeq(c.orders, 1, c.len)[j] = c.orders[j]
  <2>1. c.len \in Nat /\ \A j \in 1..c.len : c.orders[j] \in OrderIds
    BY <1>1, <1>3, <1>b
  <2> QED BY <2>1, SubSeqProperties
<1>7. IsCut(Trim(c), l, i)
  BY <1>4, <1>5, <1>b DEF IsCut
<1> QED BY <1>4, <1>7 DEF c

\* What a cut leaves in the level: every order but one, each of them once.
LEMMA CutKeepsOthers ==
  ASSUME NEW l, NEW r, NEW i \in 1..l.len, l.len \in Nat, IsCut(r, l, i),
         NEW st, OnceResting(l, st)
  PROVE  /\ OnceResting(r, st)
         /\ \A j \in 1..r.len : r.orders[j] # l.orders[i]
         /\ \A o : Holds(l, o) /\ o # l.orders[i] => Holds(r, o)
<1> DEFINE u(j) == IF j < i THEN j ELSE j + 1
<1>1. /\ r.len = l.len - 1
      /\ \A j \in 1..r.len : /\ u(j) \in 1..l.len /\ u(j) # i
                            /\ r.orders[j] = l.orders[u(j)]
  BY DEF IsCut
<1>2. \A j, m \in 1..r.len : u(j) = u(m) => j = m
  BY <1>1
<1>3. ASSUME NEW j \in 1..l.len, j # i
      PROVE  \E m \in 1..r.len : u(m) = j
  <2>1. CASE j < i
    BY <1>1, <2>1
  <2>2. CASE j > i
    <3>1. j - 1 \in 1..r.len /\ u(j - 1) = j
      BY <1>1, <2>2
    <3> QED BY <3>1
  <2> QED BY <1>3, <2>1, <2>2
<1> HIDE DEF u
<1>4. OnceResting(r, st)
  BY <1>1, <1>2 DEF OnceResting
<1>5. \A j \in 1..r.len : r.orders[j] # l.orders[i]
  BY <1>1 DEF OnceResting
<1>6. ASSUME NEW o, Holds(l, o), o # l.orders[i]
      PROVE  Holds(r, o)
  <2>1. PICK j \in 1..l.len : l.orders[j] = o
    BY <1>6 DEF Holds
  <2>2. PICK m \in 1..r.len : u(m) = j
    BY <1>3, <1>6, <2>1
  <2> QED BY <1>1, <2>1, <2>2 DEF Holds
<1> QED BY <1>4, <1>5, <1>6

Replaced(s, k, r) == level' = [level EXCEPT ![s][k] = r]

\* Replacing one level changes that level and no other.
LEMMA LevelReplaced ==
  ASSUME IInv, IInv', NEW s \in Sides, NEW k \in 1..Len(level[s]), NEW r, Replaced(s, k, r)
  PROVE  /\ \A t \in Sides : Len(level'[t]) = Len(level[t])
         /\ \A t \in Sides : \A j \in 1..Len(level[t]) :
              level'[t][j] = IF t = s /\ j = k THEN r ELSE level[t][j]
<1>0. level \in [Sides -> Seq(LevelRecords)] /\ level' \in [Sides -> Seq(LevelRecords)]
  BY DEF IInv, TypeOK
<1>1. level' = [level EXCEPT ![s] = [level[s] EXCEPT ![k] = r]]
  BY DEF Replaced
<1>2. /\ level'[s] = [level[s] EXCEPT ![k] = r]
      /\ \A t \in Sides : t # s => level'[t] = level[t]
  BY <1>0, <1>1
<1>3. level[s] \in Seq(LevelRecords) /\ level'[s] \in Seq(LevelRecords)
  BY <1>0
<1>4. DOMAIN level'[s] = DOMAIN level[s]
  BY <1>2
<1>5. Len(level'[s]) = Len(level[s])
  BY <1>3, <1>4, LenProperties
<1>6. \A j \in 1..Len(level[s]) : level'[s][j] = IF j = k THEN r ELSE level[s][j]
  BY <1>2, <1>3, LenProperties
<1> QED BY <1>2, <1>5, <1>6

\* A step that cuts order x out of its level, because it leaves the book or has
\* nothing left to trade.
CutsOrder(s, k, i, r) ==
  /\ Replaced(s, k, r)
  /\ IsCut(r, level[s][k], i)
  /\ req' = req /\ root' = root
  /\ \A o \in OrderIds :
       /\ stage[o] \in Settled => stage'[o] \in Settled
       /\ filled'[o] >= filled[o]
       /\ o # level[s][k].orders[i] => (stage'[o] = "resting" <=> stage[o] = "resting")
       /\ o = level[s][k].orders[i] => stage'[o] # "resting" \/ Remaining(o)' <= 0
  /\ \/ levels' = levels
     \/ levels' = [levels EXCEPT ![s][level[s][k].price] = IF r.len = 0 THEN 0 ELSE k]

LEMMA CutKeeps ==
  ASSUME IInv, IInv', BookInv, NEW s \in Sides, NEW k \in 1..Len(level[s]),
         NEW i \in 1..level[s][k].len, NEW r, CutsOrder(s, k, i, r)
  PROVE  BookInv'
<1> DEFINE l == level[s][k]
           x == l.orders[i]
<1>0. /\ level \in [Sides -> Seq(LevelRecords)] /\ level' \in [Sides -> Seq(LevelRecords)]
      /\ levels \in [Sides -> [Prices -> Nat]] /\ filled' \in [OrderIds -> Nat]
  BY DEF IInv, TypeOK
<1>1. /\ \A t \in Sides : Len(level'[t]) = Len(level[t])
      /\ \A t \in Sides : \A j \in 1..Len(level[t]) :
           level'[t][j] = IF t = s /\ j = k THEN r ELSE level[t][j]
  <2>1. Replaced(s, k, r)
    BY DEF CutsOrder
  <2> QED BY ONLY IInv, IInv', <2>1, s \in Sides, k \in 1..Len(level[s]), LevelReplaced
<1>2. /\ OnceResting(l, stage) /\ (l.len > 0 => levels[s][l.price] = k)
      /\ l.len \in Nat /\ l.len > 0 /\ l.price \in Prices
      /\ x \in OrderIds /\ req[x].side = s /\ req[x].price = l.price
  <2>1. l.len \in Nat /\ l.price \in Prices
    BY BookTypes
  <2>2. x \in OrderIds /\ req[x].side = s /\ req[x].price = l.price
    BY BookTypes
  <2> QED BY <2>1, <2>2 DEF BookInv, CellsOK
<1>3. IsCut(r, l, i) /\ r.price = l.price /\ r.len = l.len - 1
  BY DEF CutsOrder, IsCut
<1>4. /\ OnceResting(r, stage)
      /\ \A j \in 1..r.len : r.orders[j] # x
      /\ \A o : Holds(l, o) /\ o # x => Holds(r, o)
  <2>1. i \in 1..l.len
    OBVIOUS
  <2> HIDE DEF l
  <2> QED BY <1>2, <1>3, <2>1, CutKeepsOthers
<1>5. \A o \in OrderIds :
        /\ stage[o] \in Settled => stage'[o] \in Settled
        /\ filled'[o] >= filled[o]
        /\ o # x => (stage'[o] = "resting" <=> stage[o] = "resting")
        /\ o = x => stage'[o] # "resting" \/ Remaining(o)' <= 0
  BY DEF CutsOrder
<1>6. /\ req' = req /\ root' = root
      /\ \A t \in Sides, p \in Prices :
           levels'[t][p] = levels[t][p]
             \/ (t = s /\ p = l.price /\ r.len = 0 /\ levels'[t][p] = 0)
  <2>1. /\ req' = req /\ root' = root
        /\ \/ levels' = levels
           \/ levels' = [levels EXCEPT ![s][l.price] = IF r.len = 0 THEN 0 ELSE k]
    BY DEF CutsOrder
  <2>2. levels[s][l.price] = k
    BY <1>2
  <2> HIDE DEF l
  <2>3. CASE levels' = [levels EXCEPT ![s][l.price] = IF r.len = 0 THEN 0 ELSE k]
    BY ONLY <1>0, <1>2, <2>2, <2>3, s \in Sides, <2>1
  <2> QED BY <2>1, <2>3
<1>t. \A t \in Sides : \A j \in 1..Len(level[t]) :
        /\ level[t][j].len \in Nat /\ level[t][j].price \in Prices
        /\ \A m \in 1..level[t][j].len :
             /\ level[t][j].orders[m] \in OrderIds
             /\ req[level[t][j].orders[m]].side = t
             /\ req[level[t][j].orders[m]].price = level[t][j].price
  BY BookTypes
<1> HIDE DEF l, x
<1>7. CountOK'
  BY <1>1, <1>5, CountStays DEF BookInv
<1>8. RootOK'
  <2> SUFFICES ASSUME NEW t \in Sides, NEW j \in 1..Len(level[t])
               PROVE  root[t] # 0 /\ level'[t][root[t]].price <= level'[t][j].price
    BY <1>1, <1>6 DEF RootOK
  <2>1. root[t] # 0 /\ level[t][root[t]].price <= level[t][j].price
    BY DEF BookInv, RootOK
  <2>2. root[t] \in 1..Len(level[t])
    BY <2>1, BookTypes
  <2>3. \A m \in 1..Len(level[t]) : level'[t][m].price = level[t][m].price
    BY <1>1, <1>3 DEF l
  <2> QED BY <2>1, <2>2, <2>3
<1>9. CellsOK'
  <2> SUFFICES ASSUME NEW t \in Sides, NEW j \in 1..Len(level[t])
               PROVE  /\ OnceResting(level'[t][j], stage')
                      /\ level'[t][j].len > 0 => levels'[t][level'[t][j].price] = j
    BY <1>1 DEF CellsOK
  <2>1. /\ OnceResting(level[t][j], stage)
        /\ level[t][j].len > 0 => levels[t][level[t][j].price] = j
    BY DEF BookInv, CellsOK
  <2>2. CASE t = s /\ j = k
    <3>1. level'[t][j] = r
      BY <1>1, <2>2
    <3>2. \A m \in 1..r.len : r.orders[m] \in OrderIds
      <4>1. \A m \in 1..l.len : l.orders[m] \in OrderIds
        BY <1>t DEF l
      <4> QED BY <1>2, <1>3, <4>1 DEF IsCut
    <3>3. OnceResting(r, stage')
      BY <1>4, <1>5, <3>2 DEF OnceResting
    <3>4. r.len > 0 => levels'[s][r.price] = k
      BY <1>2, <1>3, <1>6
    <3> QED BY <2>2, <3>1, <3>3, <3>4
  <2>3. CASE ~(t = s /\ j = k)
    <3>1. level'[t][j] = level[t][j]
      BY <1>1, <2>3
    <3>2. ASSUME NEW m \in 1..level[t][j].len
          PROVE  level[t][j].orders[m] # x
      <4>1. level[t][j].len > 0 /\ levels[t][level[t][j].price] = j
        BY <1>t, <2>1
      <4>2. CASE level[t][j].orders[m] = x
        <5>1. t = s /\ level[t][j].price = l.price
          BY <1>2, <1>t, <4>2
        <5> QED BY <1>2, <2>3, <4>1, <5>1
      <4> QED BY <4>2
    <3>3. OnceResting(level[t][j], stage')
      BY <1>5, <1>t, <2>1, <3>2 DEF OnceResting
    <3>4. ASSUME level[t][j].len > 0
          PROVE  levels'[t][level[t][j].price] = j
      <4>1. ~(t = s /\ level[t][j].price = l.price)
        BY <1>2, <2>1, <2>3, <3>4
      <4> QED BY <1>6, <1>t, <2>1, <3>4, <4>1
    <3> QED BY <3>1, <3>3, <3>4
  <2> QED BY <2>2, <2>3
<1>10. LiveOK'
  <2> SUFFICES ASSUME NEW o \in OrderIds, stage'[o] = "resting", Remaining(o)' > 0
               PROVE  Listed(o)'
    BY DEF LiveOK
  <2>1. req[o].qty \in Nat /\ filled[o] \in Nat /\ filled'[o] \in Nat /\ req[o].side \in Sides
    BY <1>0, BookTypes
  <2>2. o # x
    BY <1>5, <1>6, <2>1 DEF Remaining
  <2>3. stage[o] = "resting" /\ Remaining(o) > 0
    BY <1>5, <1>6, <2>1, <2>2 DEF Remaining
  <2> DEFINE t == req[o].side
             j == levels[t][req[o].price]
  <2>4. req[o].price \in Prices /\ j \in 1..Len(level[t]) /\ Holds(level[t][j], o)
    BY <2>3 DEF BookInv, LiveOK, Listed
  <2>5. Holds(level'[t][j], o)
    BY <1>1, <1>4, <2>1, <2>2, <2>4 DEF l
  <2>6. levels'[t][req[o].price] = j
    <3>1. CASE t = s /\ req[o].price = l.price /\ r.len = 0
      <4>1. j = k
        BY <1>2, <3>1
      <4>2. l.len = 1
        BY <1>2, <1>3, <3>1
      <4>3. o = x
        BY <2>4, <3>1, <4>1, <4>2 DEF Holds, l, x
      <4> QED BY <2>2, <4>3
    <3> QED BY <1>6, <2>1, <2>4, <3>1
  <2> QED BY <1>1, <1>6, <2>1, <2>4, <2>5, <2>6 DEF Listed
<1> QED BY <1>7, <1>8, <1>9, <1>10 DEF BookInv

\* Steps of the orders that leave the levels alone.
LEMMA SameLevelsKeep ==
  ASSUME IInv, IInv', BookInv, UNCHANGED <<req, level, levels, root>>,
         \A o \in OrderIds :
           /\ stage'[o] = "resting" <=> stage[o] = "resting"
           /\ stage[o] \in Settled => stage'[o] \in Settled
           /\ filled'[o] >= filled[o]
  PROVE  BookInv'
<1>1. SameCells
  BY DEF SameCells
<1> QED BY <1>1, SameCellsKeep

\* Steps that forget the stale cells of the level the call is at.
LEMMA TrimKeeps ==
  ASSUME IInv, IInv', BookInv, run.pc = "inner", UNCHANGED <<req, levels, root>>,
         level' = [level EXCEPT ![Book][root[Book]] = Trim(@)],
         \A o \in OrderIds :
           /\ stage'[o] = "resting" <=> stage[o] = "resting"
           /\ stage[o] \in Settled => stage'[o] \in Settled
           /\ filled'[o] >= filled[o]
  PROVE  BookInv'
<1> DEFINE s == Book
           k == root[Book]
           l == level[s][k]
           r == Trim(l)
<1>1. s \in Sides /\ k \in 1..Len(level[s])
  BY RunningCall
<1>2. Good(s, l, req, stage)
  BY <1>1, GoodBooks
<1>3. Replaced(s, k, r)
  BY DEF Replaced
<1> HIDE DEF s, k, l, r
<1>4. /\ \A t \in Sides : Len(level'[t]) = Len(level[t])
      /\ \A t \in Sides : \A j \in 1..Len(level[t]) :
           level'[t][j] = IF t = s /\ j = k THEN r ELSE level[t][j]
  BY ONLY IInv, IInv', <1>1, <1>3, LevelReplaced
<1>5. /\ r.price = l.price /\ r.len = l.len
      /\ \A i \in 1..l.len : r.orders[i] = l.orders[i]
  <2>1. l \in LevelRecords /\ l.len <= Len(l.orders)
    BY <1>2 DEF Good
  <2>2. l.len \in Nat /\ \A i \in 1..l.len : l.orders[i] \in OrderIds
    BY <2>1, LevelFields
  <2>3. \A i \in 1..l.len : SubSeq(l.orders, 1, l.len)[i] = l.orders[i]
    BY <2>2, SubSeqProperties
  <2>4. r.price = l.price /\ r.len = l.len /\ r.orders = SubSeq(l.orders, 1, l.len)
    BY <2>1 DEF r, Trim, LevelRecords
  <2> QED BY <2>3, <2>4
<1>6. SameCells
  <2>1. \A t \in Sides : \A j \in 1..Len(level[t]) :
          /\ level'[t][j].price = level[t][j].price
          /\ level'[t][j].len = level[t][j].len
          /\ \A i \in 1..level[t][j].len : level'[t][j].orders[i] = level[t][j].orders[i]
    BY <1>4, <1>5 DEF l
  <2> QED BY <1>4, <2>1 DEF SameCells
<1> QED BY <1>6, SameCellsKeep

\* A fill takes nothing back from any order.
LEMMA FillsGrow ==
  ASSUME IInv, AtOrder, Remaining(Maker) > 0,
         filled' = FillBoth(run.taker, Maker, FillQty), req' = req
  PROVE  /\ \A o \in OrderIds : filled'[o] >= filled[o]
         /\ FillQty > 0 /\ FillQty \in Nat
         /\ filled'[Maker] = filled[Maker] + FillQty
         /\ filled'[run.taker] = filled[run.taker] + FillQty
         /\ \A o \in OrderIds : o \notin {run.taker, Maker} => filled'[o] = filled[o]
<1>1. run.taker \in OrderIds /\ Maker \in OrderIds /\ Maker # run.taker
  BY AtCell, RunningCall DEF AtOrder
<1> DEFINE t == run.taker
           m == Maker
           q == FillQty
<1>2. q \in Nat
  BY FillKeepsLimits
<1>3. q > 0
  BY DEF FillQty, AtOrder
<1>4. filled \in [OrderIds -> Nat]
  BY DEF IInv, TypeOK
<1> HIDE DEF t, m, q
<1>5. filled' = [filled EXCEPT ![t] = @ + q, ![m] = @ + q]
  BY DEF FillBoth, t, m, q
<1>6. t \in OrderIds /\ m \in OrderIds /\ m # t
  BY <1>1 DEF t, m
<1>7. \A o \in OrderIds :
        filled'[o] = IF o = t \/ o = m THEN filled[o] + q ELSE filled[o]
  BY <1>4, <1>5, <1>6
<1>8. \A o \in OrderIds : filled'[o] >= filled[o]
  BY <1>2, <1>4, <1>7
<1> QED BY <1>2, <1>3, <1>6, <1>7, <1>8 DEF t, m, q

\* A full fill leaves the maker nothing to trade.
LEMMA FillMakerKeeps ==
  ASSUME IInv, IInv', BookInv, FillMaker
  PROVE  BookInv'
<1> DEFINE s == Book
           k == root[Book]
           r == CutOut(level[s][k], run.i)
           i == run.i
<1>1. /\ run.pc # "idle" /\ root[Book] # 0 /\ AtOrder /\ Remaining(Maker) > 0
      /\ filled' = FillBoth(run.taker, Maker, FillQty) /\ Remaining(Maker) = FillQty
      /\ UNCHANGED <<req, stage, levels, root>> /\ i <= Best.len
      /\ level' = [level EXCEPT ![s][k] = CutOut(@, i)]
  BY DEF FillMaker, FillsMaker, AtOrder, IInv, TypeOK
<1>2. /\ s \in Sides /\ k \in 1..Len(level[s])
      /\ Best \in LevelRecords /\ Best.len \in Nat /\ Best.len <= Len(Best.orders)
  BY <1>1, BestGood
<1>3. i \in 1..Best.len
  BY <1>1, <1>2 DEF AtOrder, IInv, TypeOK
<1>4. IsCut(r, level[s][k], i)
  BY <1>2, <1>3, CutOutCuts DEF Best
<1>5. Replaced(s, k, r)
  BY <1>1 DEF Replaced
<1>6. \A o \in OrderIds : filled'[o] >= filled[o]
  BY <1>1, FillsGrow
<1>7. Maker = level[s][k].orders[i]
  BY DEF Maker, Best
<1>8. ASSUME NEW o \in OrderIds, o = Maker
      PROVE  Remaining(o)' <= 0
  <2> DEFINE q == FillQty
  <2>1. filled'[o] = filled[o] + q /\ q = req[o].qty - filled[o] /\ req' = req
    BY <1>1, <1>8, FillsGrow DEF Remaining
  <2>2. req[o].qty \in Nat /\ filled[o] \in Nat
    BY RequestFields
  <2> QED BY <2>1, <2>2 DEF Remaining
<1>9. CutsOrder(s, k, i, r)
  BY <1>1, <1>4, <1>5, <1>6, <1>7, <1>8 DEF CutsOrder
<1>10. i \in 1..level[s][k].len
  BY <1>3 DEF Best
<1> HIDE DEF s, k, i, r
<1> QED BY <1>2, <1>9, <1>10, CutKeeps

\* An order that leaves the book leaves one level.
LEMMA RemoveOrderKeeps ==
  ASSUME IInv, IInv', BookInv, NEW o \in OrderIds, RemoveOrder(o)
  PROVE  BookInv'
<1> DEFINE s == req[o].side
<1>1. PICK p \in Prices :
        LET k == levels[s][p]
            l == level[s][k]
        IN /\ k # 0
           /\ \E i \in 1..l.len :
                /\ l.orders[i] = o
                /\ level' = [level EXCEPT ![s][k] = Trim(CutOut(l, i))]
           /\ levels' = [levels EXCEPT ![s][p] = IF l.len = 1 THEN 0 ELSE k]
  BY DEF RemoveOrder
<1> DEFINE k == levels[s][p]
           l == level[s][k]
<1>2. PICK i \in 1..l.len : /\ l.orders[i] = o
                           /\ level' = [level EXCEPT ![s][k] = Trim(CutOut(l, i))]
  BY <1>1
<1> DEFINE r == Trim(CutOut(l, i))
<1>3. /\ UNCHANGED <<req, filled, root>>
      /\ stage' = [stage EXCEPT ![o] = "removed"]
  BY DEF RemoveOrder
<1>4. s \in Sides /\ k \in 1..Len(level[s]) /\ filled \in [OrderIds -> Nat]
  <2>1. s \in Sides
    BY RequestFields
  <2>2. k \in Nat /\ k <= Len(level[s]) /\ Len(level[s]) \in Nat
    BY <2>1, BookTypes
  <2>3. k # 0
    BY <1>1
  <2>4. filled \in [OrderIds -> Nat]
    BY DEF IInv, TypeOK
  <2> QED BY <2>1, <2>2, <2>3, <2>4
<1>5. l \in LevelRecords /\ l.len <= Len(l.orders) /\ l.price = p /\ l.len \in Nat
  <2>1. Good(s, l, req, stage)
    BY <1>4, GoodBooks
  <2>2. l.price = p
    BY <1>1, <1>4 DEF IInv, MapOK
  <2> HIDE DEF l
  <2> QED BY <2>1, <2>2, LevelFields DEF Good
<1>6. IsCut(r, l, i)
  <2> HIDE DEF l
  <2> QED BY <1>5, CutOutCuts
<1>7. Replaced(s, k, r)
  BY <1>2 DEF Replaced
<1>8. levels' = [levels EXCEPT ![s][l.price] = IF r.len = 0 THEN 0 ELSE k]
  <2>1. levels' = [levels EXCEPT ![s][p] = IF l.len = 1 THEN 0 ELSE k]
    BY <1>1
  <2> HIDE DEF l, r
  <2>2. r.len = l.len - 1
    BY <1>6 DEF IsCut
  <2>3. (r.len = 0) = (l.len = 1)
    BY <1>5, <2>2
  <2> QED BY <1>5, <2>1, <2>3
<1>9. \A q \in OrderIds :
        /\ stage[q] \in Settled => stage'[q] \in Settled
        /\ filled'[q] >= filled[q]
        /\ q # o => (stage'[q] = "resting" <=> stage[q] = "resting")
        /\ q = o => stage'[q] # "resting"
  BY <1>3, <1>4 DEF IInv, TypeOK, Settled
<1>10. CutsOrder(s, k, i, r)
  <2>1. \A q \in OrderIds :
          /\ q # l.orders[i] => (stage'[q] = "resting" <=> stage[q] = "resting")
          /\ q = l.orders[i] => stage'[q] # "resting" \/ Remaining(q)' <= 0
    BY <1>2, <1>9
  <2> HIDE DEF s, k, r
  <2> QED BY <1>3, <1>6, <1>7, <1>8, <1>9, <2>1 DEF CutsOrder
<1> HIDE DEF s, k, r
<1> QED BY <1>4, <1>10, CutKeeps

\* The orders of a level after o was appended to it.
LEMMA AppendHolds ==
  ASSUME NEW l \in LevelRecords, l.len <= Len(l.orders), NEW o \in OrderIds,
         NEW st, NEW st2, OnceResting(l, st), st[o] # "resting", st2[o] = "resting",
         \A q \in OrderIds : st[q] = "resting" => st2[q] = "resting"
  PROVE  /\ AppendOrder(l, o).price = l.price /\ AppendOrder(l, o).len = l.len + 1
         /\ OnceResting(AppendOrder(l, o), st2)
         /\ Holds(AppendOrder(l, o), o)
         /\ \A q : Holds(l, q) => Holds(AppendOrder(l, o), q)
<1> DEFINE cells == [j \in 1..(l.len + 1) |-> IF j <= l.len THEN l.orders[j] ELSE o]
           r == AppendOrder(l, o)
<1>1. /\ l.len \in Nat /\ Len(l.orders) \in Nat
      /\ \A j \in 1..Len(l.orders) : l.orders[j] \in OrderIds
  BY LevelFields
<1>2. \A j \in 1..l.len : l.orders[j] \in OrderIds
  BY <1>1
<1>3. \A j \in 1..(l.len + 1) : cells[j] = IF j <= l.len THEN l.orders[j] ELSE o
  OBVIOUS
<1>4. r = [l EXCEPT !.orders = cells, !.len = l.len + 1]
  BY DEF AppendOrder
<1> HIDE DEF cells, r
<1>5. r.price = l.price /\ r.orders = cells /\ r.len = l.len + 1
  BY <1>4 DEF LevelRecords
<1>6. /\ \A j \in 1..l.len : r.orders[j] = l.orders[j] /\ j \in 1..r.len
      /\ r.orders[l.len + 1] = o /\ l.len + 1 \in 1..r.len
      /\ \A j \in 1..r.len : j \in 1..l.len \/ j = l.len + 1
  BY <1>1, <1>3, <1>5
<1>7. OnceResting(r, st2)
  BY <1>2, <1>6 DEF OnceResting
<1> QED BY <1>5, <1>6, <1>7 DEF Holds, r

\* An order that is added goes to the level of its price, at the end.
LEMMA AppendKeeps ==
  ASSUME IInv, IInv', BookInv, NEW o \in OrderIds, NEW s, NEW k, NEW p \in Prices,
         s = req[o].side, p = req[o].price, k = levels[s][p], k # 0,
         stage[o] = "matched", stage' = [stage EXCEPT ![o] = "resting"],
         level' = [level EXCEPT ![s][k] = AppendOrder(@, o)],
         UNCHANGED <<req, filled, levels, root>>
  PROVE  BookInv'
<1> DEFINE l == level[s][k]
           r == AppendOrder(l, o)
<1>1. s \in Sides /\ k \in 1..Len(level[s]) /\ l.price = p
  <2>1. s \in Sides
    BY RequestFields
  <2>2. k \in Nat /\ k <= Len(level[s]) /\ Len(level[s]) \in Nat
    BY <2>1, BookTypes
  <2>3. l.price = p
    BY <2>1 DEF IInv, MapOK
  <2>4. k \in 1..Len(level[s])
    <3> HIDE DEF l, r
    <3> QED BY ONLY <2>2, k # 0
  <2> QED BY <2>1, <2>3, <2>4
<1>2. /\ stage'[o] = "resting" /\ \A q \in OrderIds : q # o => stage'[q] = stage[q]
      /\ \A q \in OrderIds : stage[q] = "resting" => stage'[q] = "resting"
      /\ \A q \in OrderIds : stage[q] \in Settled => stage'[q] \in Settled
  BY DEF IInv, TypeOK, Settled
<1>3. Replaced(s, k, r)
  BY DEF Replaced
<1>4. /\ \A t \in Sides : Len(level'[t]) = Len(level[t])
      /\ \A t \in Sides : \A j \in 1..Len(level[t]) :
           level'[t][j] = IF t = s /\ j = k THEN r ELSE level[t][j]
  <2> HIDE DEF r
  <2> QED BY ONLY IInv, IInv', <1>1, <1>3, LevelReplaced
<1>5. l \in LevelRecords /\ l.len <= Len(l.orders) /\ l.len \in Nat
  <2>1. Good(s, l, req, stage)
    BY <1>1, GoodBooks
  <2> HIDE DEF l
  <2> QED BY <2>1, LevelFields DEF Good
<1>6. OnceResting(l, stage)
  BY <1>1 DEF BookInv, CellsOK
<1>7. /\ r.price = l.price /\ r.len = l.len + 1 /\ OnceResting(r, stage')
      /\ Holds(r, o) /\ \A q : Holds(l, q) => Holds(r, q)
  <2> DEFINE st == stage
             st2 == stage'
  <2>1. st[o] # "resting" /\ st2[o] = "resting" /\ OnceResting(l, st)
    BY <1>2, <1>6
  <2>2. \A q \in OrderIds : st[q] = "resting" => st2[q] = "resting"
    BY <1>2
  <2> HIDE DEF l, st, st2
  <2>3. /\ AppendOrder(l, o).price = l.price /\ AppendOrder(l, o).len = l.len + 1
        /\ OnceResting(AppendOrder(l, o), st2)
        /\ Holds(AppendOrder(l, o), o)
        /\ \A q : Holds(l, q) => Holds(AppendOrder(l, o), q)
    BY <1>5, <2>1, <2>2, AppendHolds
  <2> QED BY <2>3 DEF st2
<1>t. \A t \in Sides : \A j \in 1..Len(level[t]) :
        /\ level[t][j].len \in Nat
        /\ \A m \in 1..level[t][j].len : level[t][j].orders[m] \in OrderIds
  BY BookTypes
<1> HIDE DEF r, l
<1>8. CountOK'
  BY <1>2, <1>4, CountStays DEF BookInv
<1>9. RootOK'
  <2> SUFFICES ASSUME NEW t \in Sides, NEW j \in 1..Len(level[t])
               PROVE  root[t] # 0 /\ level'[t][root[t]].price <= level'[t][j].price
    BY <1>4 DEF RootOK
  <2>1. root[t] # 0 /\ level[t][root[t]].price <= level[t][j].price
    BY DEF BookInv, RootOK
  <2>2. root[t] \in 1..Len(level[t])
    BY <2>1, BookTypes
  <2>3. \A m \in 1..Len(level[t]) : level'[t][m].price = level[t][m].price
    <3>1. r.price = l.price
      BY <1>7
    <3> QED BY ONLY <1>4, <3>1, t \in Sides DEF l
  <2> QED BY <2>1, <2>2, <2>3
<1>10. CellsOK'
  <2> SUFFICES ASSUME NEW t \in Sides, NEW j \in 1..Len(level[t])
               PROVE  /\ OnceResting(level'[t][j], stage')
                      /\ level'[t][j].len > 0 => levels[t][level'[t][j].price] = j
    BY <1>4 DEF CellsOK
  <2>1. /\ OnceResting(level[t][j], stage)
        /\ level[t][j].len > 0 => levels[t][level[t][j].price] = j
    BY DEF BookInv, CellsOK
  <2>2. CASE t = s /\ j = k
    <3>1. level'[s][k] = r /\ levels[s][r.price] = k
      <4>1. r.price = p
        BY <1>1, <1>7
      <4>2. levels[s][p] = k
        OBVIOUS
      <4> QED BY ONLY <1>1, <1>4, <4>1, <4>2
    <3> QED BY ONLY <1>7, <2>2, <3>1
  <2>3. CASE ~(t = s /\ j = k)
    <3>1. level'[t][j] = level[t][j]
      BY ONLY <1>4, <2>3, t \in Sides, j \in 1..Len(level[t])
    <3>2. OnceResting(level[t][j], stage')
      BY ONLY <1>2, <1>t, <2>1, t \in Sides, j \in 1..Len(level[t]) DEF OnceResting
    <3> QED BY ONLY <2>1, <3>1, <3>2
  <2> QED BY <2>2, <2>3
<1>11. LiveOK'
  <2> SUFFICES ASSUME NEW q \in OrderIds, stage'[q] = "resting", Remaining(q)' > 0
               PROVE  Listed(q)'
    BY DEF LiveOK
  <2>1. CASE q = o
    <3>1. k \in 1..Len(level'[s]) /\ Holds(level'[s][k], o)
      BY ONLY <1>1, <1>4, <1>7
    <3>2. req'[o].side = s /\ req'[o].price \in Prices /\ levels'[s][req'[o].price] = k
      OBVIOUS
    <3> QED BY ONLY <2>1, <3>1, <3>2 DEF Listed
  <2>2. CASE q # o
    <3> DEFINE t == req[q].side
               j == levels[t][req[q].price]
    <3>1. req[q].price \in Prices /\ j \in 1..Len(level[t]) /\ Holds(level[t][j], q)
      BY <1>2, <2>2 DEF BookInv, LiveOK, Remaining, Listed
    <3>2. t \in Sides
      BY RequestFields
    <3>3. Holds(level'[t][j], q)
      <4>1. Holds(l, q) => Holds(r, q)
        BY <1>7
      <4>2. CASE t = s /\ j = k
        <5>1. level'[t][j] = r
          BY ONLY <1>1, <1>4, <4>2
        <5>2. Holds(l, q)
          BY ONLY <3>1, <4>2 DEF l
        <5> QED BY ONLY <4>1, <5>1, <5>2
      <4>3. CASE ~(t = s /\ j = k)
        BY ONLY <1>4, <3>1, <3>2, <4>3
      <4> QED BY ONLY <4>2, <4>3
    <3>4. j \in 1..Len(level'[t])
      BY ONLY <1>4, <3>1, <3>2
    <3>5. req' = req /\ levels' = levels
      OBVIOUS
    <3> QED BY ONLY <3>1, <3>3, <3>4, <3>5 DEF Listed
  <2> QED BY <2>1, <2>2
<1> QED BY <1>8, <1>9, <1>10, <1>11 DEF BookInv

\* An order of a new price brings a level of its own.
LEMMA PushKeeps ==
  ASSUME IInv, IInv', BookInv, NEW o \in OrderIds, NEW s, NEW k, NEW p \in Prices,
         s = req[o].side, p = req[o].price, levels[s][p] = 0, k = Len(level[s]) + 1,
         stage[o] = "matched", stage' = [stage EXCEPT ![o] = "resting"],
         level' = [level EXCEPT ![s] = Append(@, AppendOrder(Level(p), o))],
         levels' = [levels EXCEPT ![s][p] = k],
         root' = [root EXCEPT ![s] = PushRoot(s, p, k)],
         UNCHANGED <<req, filled>>
  PROVE  BookInv'
<1> DEFINE r == AppendOrder(Level(p), o)
<1>1. s \in Sides /\ k \in Nat /\ level[s] \in Seq(LevelRecords) /\ Len(level[s]) \in Nat
  <2>1. s \in Sides
    BY RequestFields
  <2>2. level \in [Sides -> Seq(LevelRecords)] /\ \A t \in Sides : Len(level[t]) \in Nat
    BY ONLY IInv, BookTypes DEF IInv, TypeOK
  <2> QED BY ONLY <2>1, <2>2, k = Len(level[s]) + 1
<1>2. /\ stage'[o] = "resting" /\ \A q \in OrderIds : q # o => stage'[q] = stage[q]
      /\ \A q \in OrderIds : stage[q] \in Settled => stage'[q] \in Settled
  <2>1. stage \in [OrderIds -> Stages] /\ stage' = [stage EXCEPT ![o] = "resting"]
    BY DEF IInv, TypeOK
  <2> QED BY ONLY <2>1, o \in OrderIds DEF Settled
<1>3. /\ r.price = p /\ r.len = 1 /\ r.orders = [j \in 1..1 |-> o]
  BY DEF AppendOrder, Level
<1>4. OnceResting(r, stage') /\ Holds(r, o)
  <2>1. r.len = 1 /\ r.orders[1] = o
    BY <1>3
  <2> HIDE DEF r
  <2> QED BY <1>2, <2>1 DEF OnceResting, Holds
<1>5. /\ \A t \in Sides : Len(level'[t]) = IF t = s THEN k ELSE Len(level[t])
      /\ \A t \in Sides : \A j \in 1..Len(level[t]) : level'[t][j] = level[t][j]
      /\ level'[s][k] = r
      /\ \A t \in Sides : \A j \in 1..Len(level'[t]) : j \in 1..Len(level[t]) \/ (t = s /\ j = k)
  <2> HIDE DEF r
  <2>1. level' = [level EXCEPT ![s] = Append(level[s], r)]
    BY DEF r
  <2>2. /\ level'[s] = Append(level[s], r)
        /\ \A t \in Sides : t # s => level'[t] = level[t]
    BY <1>1, <2>1 DEF IInv, TypeOK
  <2>3. level'[s] \in Seq(LevelRecords)
    BY <1>1 DEF IInv, TypeOK
  <2>4. /\ Len(level'[s]) = k /\ level'[s][k] = r
        /\ \A j \in 1..Len(level[s]) : level'[s][j] = level[s][j]
    BY <1>1, <2>2
  <2>5. \A t \in Sides : Len(level[t]) \in Nat
    BY BookTypes
  <2> QED BY <2>2, <2>4, <2>5
<1>6. /\ levels'[s][p] = k
      /\ \A t \in Sides, u \in Prices : ~(t = s /\ u = p) => levels'[t][u] = levels[t][u]
  BY <1>1 DEF IInv, TypeOK
<1>7. /\ root'[s] = PushRoot(s, p, k)
      /\ \A t \in Sides : t # s => root'[t] = root[t]
  BY <1>1 DEF IInv, TypeOK
<1>t. \A t \in Sides : \A j \in 1..Len(level[t]) :
        /\ level[t][j].len \in Nat /\ level[t][j].price \in Prices /\ level[t][j].price \in Int
        /\ \A m \in 1..level[t][j].len : level[t][j].orders[m] \in OrderIds
  BY BookTypes
<1> HIDE DEF r
<1>8. CountOK'
  <2>1. InBook' = InBook \cup {o} /\ o \notin InBook
    BY <1>2 DEF InBook, Settled
  <2>2. IsFiniteSet(InBook)
    <3>1. InBook \in SUBSET OrderIds
      BY DEF InBook
    <3> QED BY <3>1, OrdersFinite, FS_Subset
  <2>3. Cardinality(InBook) \in Nat /\ Cardinality(InBook') = Cardinality(InBook) + 1
    BY <2>1, <2>2, FS_AddElement, FS_CardinalityType
  <2>4. \A t \in Sides : Len(level[t]) \in Nat /\ Len(level[t]) <= Cardinality(InBook)
    BY BookTypes DEF BookInv, CountOK
  <2>5. \A t \in Sides : Len(level'[t]) <= Cardinality(InBook) + 1
    BY <1>5, <2>3, <2>4
  <2> QED BY <2>3, <2>5 DEF CountOK
<1>9. RootOK'
  <2> SUFFICES ASSUME NEW t \in Sides, NEW j \in 1..Len(level'[t])
               PROVE  root'[t] # 0 /\ level'[t][root'[t]].price <= level'[t][j].price
    BY DEF RootOK
  <2>1. \A m \in 1..Len(level[t]) :
          root[t] # 0 /\ level[t][root[t]].price <= level[t][m].price
    BY DEF BookInv, RootOK
  <2>2. root[t] # 0 => root[t] \in 1..Len(level[t])
    BY BookTypes
  <2>3. CASE t # s
    <3>1. root'[t] = root[t] /\ j \in 1..Len(level[t])
      BY <1>5, <1>7, <2>3
    <3> QED BY <1>5, <2>1, <2>2, <3>1
  <2>4. CASE t = s
    <3>1. k # 0 /\ p \in Int
      BY <1>1, BookTypes
    <3>2. CASE root[s] = 0
      <4>1. j = k /\ root'[s] = k
        BY <1>5, <1>7, <2>1, <2>4, <3>2 DEF PushRoot
      <4> QED BY <1>3, <1>5, <2>4, <3>1, <4>1
    <3>3. CASE root[s] # 0 /\ p < level[s][root[s]].price
      <4>1. root'[s] = k /\ level'[s][k].price = p
        BY <1>3, <1>5, <1>7, <3>3 DEF PushRoot
      <4>2. CASE j = k
        BY <2>4, <3>1, <4>1, <4>2
      <4>3. CASE j \in 1..Len(level[s])
        <5>1. level[s][root[s]].price <= level[s][j].price
          BY <2>1, <2>4, <4>3
        <5>2. level[s][root[s]].price \in Int /\ level[s][j].price \in Int
          BY <1>t, <2>2, <2>4, <3>3, <4>3
        <5>3. p <= level[s][j].price
          BY <3>1, <3>3, <5>1, <5>2
        <5>4. level'[s][j] = level[s][j]
          BY <1>1, <1>5, <4>3
        <5> QED BY <2>4, <3>1, <4>1, <5>3, <5>4
      <4>4. j \in 1..Len(level[s]) \/ j = k
        BY ONLY <1>1, <1>5, <2>4, j \in 1..Len(level'[t])
      <4> QED BY ONLY <4>2, <4>3, <4>4
    <3>4. CASE root[s] # 0 /\ ~(p < level[s][root[s]].price)
      <4>1. root'[s] = root[s] /\ root[s] \in 1..Len(level[s])
        BY <1>7, <2>2, <2>4, <3>4 DEF PushRoot
      <4>2. level'[s][root'[s]].price = level[s][root[s]].price
        BY ONLY <1>1, <1>5, <4>1
      <4>3. CASE j = k
        <5>1. level'[s][k].price = p /\ level[s][root[s]].price \in Int
          BY ONLY <1>1, <1>3, <1>5, <1>t, <4>1
        <5> QED BY ONLY <2>4, <3>1, <3>4, <4>1, <4>2, <4>3, <5>1
      <4>4. CASE j \in 1..Len(level[s])
        <5>1. level[s][root[s]].price <= level[s][j].price
          BY ONLY <2>1, <2>4, <4>4
        <5>2. level'[s][j] = level[s][j]
          BY ONLY <1>1, <1>5, <4>4
        <5> QED BY ONLY <2>4, <3>4, <4>1, <4>2, <5>1, <5>2
      <4>5. j \in 1..Len(level[s]) \/ j = k
        BY ONLY <1>1, <1>5, <2>4, j \in 1..Len(level'[t])
      <4> QED BY ONLY <4>3, <4>4, <4>5
    <3> QED BY <3>2, <3>3, <3>4
  <2> QED BY <2>3, <2>4
<1>10. CellsOK'
  <2> SUFFICES ASSUME NEW t \in Sides, NEW j \in 1..Len(level'[t])
               PROVE  /\ OnceResting(level'[t][j], stage')
                      /\ level'[t][j].len > 0 => levels'[t][level'[t][j].price] = j
    BY DEF CellsOK
  <2>1. CASE t = s /\ j = k
    <3>1. level'[t][j] = r /\ levels'[t][r.price] = j
      BY ONLY <1>3, <1>5, <1>6, <2>1
    <3> QED BY ONLY <1>4, <3>1
  <2>2. CASE j \in 1..Len(level[t])
    <3>1. /\ OnceResting(level[t][j], stage)
          /\ level[t][j].len > 0 => levels[t][level[t][j].price] = j
      BY <2>2 DEF BookInv, CellsOK
    <3>2. level'[t][j] = level[t][j]
      BY ONLY <1>5, <2>2, t \in Sides
    <3>3. OnceResting(level[t][j], stage')
      <4>1. \A m \in 1..level[t][j].len : level[t][j].orders[m] # o
        BY <3>1 DEF OnceResting
      <4> QED BY ONLY <1>2, <1>t, <2>2, <3>1, <4>1, t \in Sides DEF OnceResting
    <3>4. ASSUME level[t][j].len > 0
          PROVE  levels'[t][level[t][j].price] = j
      <4>1. ~(t = s /\ level[t][j].price = p)
        BY <2>2, <3>1, <3>4
      <4> QED BY ONLY <1>6, <1>t, <2>2, <3>1, <3>4, <4>1, t \in Sides
    <3> QED BY ONLY <3>2, <3>3, <3>4
  <2>3. j \in 1..Len(level[t]) \/ (t = s /\ j = k)
    BY ONLY <1>5, t \in Sides, j \in 1..Len(level'[t])
  <2> QED BY ONLY <2>1, <2>2, <2>3
<1>11. LiveOK'
  <2> SUFFICES ASSUME NEW q \in OrderIds, stage'[q] = "resting", Remaining(q)' > 0
               PROVE  Listed(q)'
    BY DEF LiveOK
  <2>1. CASE q = o
    <3>1. k \in 1..Len(level'[s])
      BY ONLY <1>1, <1>5, k = Len(level[s]) + 1
    <3>2. req'[o].side = s /\ req'[o].price = p
      OBVIOUS
    <3>3. Holds(level'[s][k], o)
      BY ONLY <1>4, <1>5
    <3> QED BY ONLY <1>6, <2>1, <3>1, <3>2, <3>3, p \in Prices DEF Listed
  <2>2. CASE q # o
    <3>1. Listed(q)
      BY <1>2, <2>2 DEF BookInv, LiveOK, Remaining
    <3>2. req[q].side \in Sides
      BY RequestFields
    <3> DEFINE t == req[q].side
               j == levels[t][req[q].price]
    <3>3. req[q].price \in Prices /\ j \in 1..Len(level[t]) /\ Holds(level[t][j], q)
      BY <3>1 DEF Listed
    <3>4. ~(t = s /\ req[q].price = p)
      <4>1. CASE t = s /\ req[q].price = p
        <5>1. j = 0
          BY ONLY <4>1, levels[s][p] = 0
        <5>2. j \in 1..Len(level[t])
          BY ONLY <3>3
        <5> HIDE DEF j
        <5> QED BY ONLY <5>1, <5>2
      <4> QED BY ONLY <4>1
    <3>5. levels'[t][req[q].price] = j
      BY ONLY <1>6, <3>2, <3>3, <3>4
    <3>6. level'[t][j] = level[t][j]
      BY ONLY <1>5, <3>2, <3>3
    <3>7. j \in 1..Len(level'[t])
      <4>1. Len(level'[t]) = IF t = s THEN k ELSE Len(level[t])
        BY ONLY <1>5, <3>2
      <4> HIDE DEF t, j
      <4> QED BY ONLY <1>1, <3>3, <4>1, k = Len(level[s]) + 1
    <3>8. req' = req
      OBVIOUS
    <3> QED BY ONLY <3>3, <3>5, <3>6, <3>7, <3>8 DEF Listed
  <2> QED BY <2>1, <2>2
<1> QED BY <1>8, <1>9, <1>10, <1>11 DEF BookInv

LEMMA AddOrderKeeps ==
  ASSUME IInv, IInv', BookInv, NEW o \in OrderIds, AddOrder(o)
  PROVE  BookInv'
<1> DEFINE s == req[o].side
           p == req[o].price
           k == Len(level[s]) + 1
<1>0. stage[o] = "matched" /\ req' = req /\ filled' = filled
  BY DEF AddOrder
<1>1. p \in Prices \cup {NoPrice} /\ filled \in [OrderIds -> Nat]
  BY RequestFields DEF IInv, TypeOK
<1>2. CASE /\ stage' = [stage EXCEPT ![o] = "panicked"]
           /\ UNCHANGED <<level, levels, root>>
  <2>1. \A q \in OrderIds :
          /\ stage'[q] = "resting" <=> stage[q] = "resting"
          /\ stage[q] \in Settled => stage'[q] \in Settled
          /\ filled'[q] >= filled[q]
    BY <1>0, <1>1, <1>2 DEF IInv, TypeOK, Settled
  <2> QED BY <1>0, <1>2, <2>1, SameLevelsKeep
<1>3. CASE /\ p # NoPrice /\ levels[s][p] # 0
           /\ level' = [level EXCEPT ![s][levels[s][p]] = AppendOrder(@, o)]
           /\ stage' = [stage EXCEPT ![o] = "resting"]
           /\ UNCHANGED <<levels, root>>
  BY <1>0, <1>1, <1>3, AppendKeeps
<1>4. CASE /\ p # NoPrice /\ levels[s][p] = 0
           /\ level' = [level EXCEPT ![s] = Append(@, AppendOrder(Level(p), o))]
           /\ levels' = [levels EXCEPT ![s][p] = k]
           /\ root' = [root EXCEPT ![s] = PushRoot(s, p, k)]
           /\ stage' = [stage EXCEPT ![o] = "resting"]
  BY <1>0, <1>1, <1>4, PushKeeps
<1> QED BY <1>2, <1>3, <1>4 DEF AddOrder

LEMMA NextKeeps ==
  ASSUME IInv, IInv', BookInv, [Next]_vars
  PROVE  BookInv'
<1>0. filled \in [OrderIds -> Nat] /\ stage \in [OrderIds -> Stages]
  BY DEF IInv, TypeOK
<1> DEFINE Stay ==
      \A q \in OrderIds : /\ stage'[q] = "resting" <=> stage[q] = "resting"
                          /\ stage[q] \in Settled => stage'[q] \in Settled
                          /\ filled'[q] >= filled[q]
<1>1. ASSUME NEW o \in OrderIds, MatchOrder(o) PROVE BookInv'
  <2>1. UNCHANGED <<req, level, levels, root>>
    BY <1>1 DEF MatchOrder
  <2>2. Stay
    BY <1>0, <1>1 DEF MatchOrder, Settled
  <2> QED BY <2>1, <2>2, SameLevelsKeep
<1>2. ASSUME NEW o \in OrderIds, AddOrder(o) PROVE BookInv'
  BY <1>2, AddOrderKeeps
<1>3. ASSUME NEW o \in OrderIds, Drop(o) PROVE BookInv'
  <2>1. UNCHANGED <<req, level, levels, root>>
    BY <1>3 DEF Drop
  <2>2. Stay
    BY <1>0, <1>3 DEF Drop, Settled
  <2> QED BY <2>1, <2>2, SameLevelsKeep
<1>4. ASSUME NEW o \in OrderIds, RemoveOrder(o) PROVE BookInv'
  BY <1>4, RemoveOrderKeeps
<1>5. CASE EnterLevel \/ SkipOrder \/ UNCHANGED vars
  <2>1. UNCHANGED <<req, filled, stage, level, levels, root>>
    BY <1>5 DEF EnterLevel, SkipOrder, vars
  <2>2. Stay
    BY <1>0, <2>1
  <2> QED BY <2>1, <2>2, SameLevelsKeep
<1>6. CASE Return
  <2>1. /\ run.pc # "idle" /\ stage' = [stage EXCEPT ![run.taker] = "matched"]
        /\ UNCHANGED <<req, filled, level, levels, root>>
    BY <1>6 DEF Return
  <2>2. \A q \in OrderIds : /\ stage'[q] = "resting" <=> stage[q] = "resting"
                            /\ stage[q] \in Settled => stage'[q] \in Settled
    BY <2>1, RunningCall DEF IInv, TypeOK, Settled
  <2>3. Stay
    BY <1>0, <2>1, <2>2
  <2> QED BY <2>1, <2>3, SameLevelsKeep
<1>7. CASE LeaveLevel
  <2>1. /\ run.pc = "inner" /\ UNCHANGED <<req, filled, stage, levels, root>>
        /\ level' = [level EXCEPT ![Book][root[Book]] = Trim(@)]
    BY <1>7 DEF LeaveLevel
  <2>2. Stay
    BY <1>0, <2>1
  <2> QED BY <2>1, <2>2, TrimKeeps
<1>8. CASE FillPartly
  <2>1. /\ UNCHANGED <<req, stage, level, levels, root>>
        /\ AtOrder /\ Remaining(Maker) > 0
        /\ filled' = FillBoth(run.taker, Maker, FillQty)
    BY <1>8 DEF FillPartly
  <2>2. Stay
    BY <2>1, FillsGrow
  <2> QED BY <2>1, <2>2, SameLevelsKeep
<1>9. CASE FillMaker
  BY <1>9, FillMakerKeeps
<1>10. CASE FillPanics
  <2>1. /\ run.pc = "inner" /\ AtOrder /\ Remaining(Maker) > 0
        /\ filled' = FillBoth(run.taker, Maker, FillQty)
        /\ stage' = [stage EXCEPT ![run.taker] = "panicked"]
        /\ UNCHANGED <<req, levels, root>>
        /\ level' = [level EXCEPT ![Book][root[Book]] = Trim(@)]
    BY <1>10 DEF FillPanics, FillsMaker, AtOrder
  <2>2. \A q \in OrderIds : /\ stage'[q] = "resting" <=> stage[q] = "resting"
                            /\ stage[q] \in Settled => stage'[q] \in Settled
    BY <2>1, RunningCall DEF IInv, TypeOK, Settled
  <2>3. Stay
    BY <2>1, <2>2, FillsGrow
  <2> QED BY <2>1, <2>3, TrimKeeps
<1> QED BY <1>1, <1>2, <1>3, <1>4, <1>5, <1>6, <1>7, <1>8, <1>9, <1>10 DEF Next, MatchStep

LEMMA InitKeeps == Init => BookInv
<1> SUFFICES ASSUME Init PROVE BookInv
  OBVIOUS
<1>1. \A s \in Sides : Len(level[s]) = 0
  BY DEF Init
<1>2. CellsOK /\ RootOK
  BY <1>1 DEF CellsOK, RootOK
<1>3. LiveOK
  BY DEF LiveOK, Init
<1>4. CountOK
  <2>1. InBook = {}
    BY DEF InBook, Init, Settled
  <2> QED BY <1>1, <2>1, FS_EmptySet DEF CountOK
<1> QED BY <1>2, <1>3, <1>4 DEF BookInv

LEMMA SpecBookInv == Spec => []BookInv
<1>1. Init => BookInv
  BY InitKeeps
<1>2. IInv /\ IInv' /\ BookInv /\ [Next]_vars => BookInv'
  BY NextKeeps
<1> QED BY <1>1, <1>2, SpecIInv, PTL DEF Spec


\* A level has no more orders, and a side no more levels, than there are orders.
LEMMA FewPlaces ==
  ASSUME IInv, BookInv, NEW s \in Sides
  PROVE  /\ Len(level[s]) <= MaxOrders
         /\ \A k \in 1..Len(level[s]) : level[s][k].len <= MaxOrders
<1>0. /\ MaxOrders \in Nat /\ IsFiniteSet(OrderIds) /\ Cardinality(OrderIds) = MaxOrders
      /\ Len(level[s]) \in Nat
  <2>1. MaxOrders \in Nat
    BY RequestsAssumption
  <2>2. IsFiniteSet(OrderIds) /\ Cardinality(OrderIds) = IF 1 > MaxOrders THEN 0 ELSE MaxOrders - 1 + 1
    BY <2>1, FS_Interval DEF OrderIds
  <2>3. Cardinality(OrderIds) = MaxOrders
    BY <2>1, <2>2
  <2> QED BY <2>1, <2>2, <2>3, BookTypes
<1>1. Len(level[s]) <= MaxOrders
  <2>1. InBook \in SUBSET OrderIds
    BY DEF InBook
  <2>2. Cardinality(InBook) <= MaxOrders /\ IsFiniteSet(InBook)
    BY <1>0, <2>1, FS_Subset
  <2>3. Cardinality(InBook) \in Nat
    BY <2>2, FS_CardinalityType
  <2> QED BY <1>0, <2>2, <2>3 DEF BookInv, CountOK
<1>2. ASSUME NEW k \in 1..Len(level[s])
      PROVE  level[s][k].len <= MaxOrders
  <2> DEFINE l == level[s][k]
             f == [i \in 1..l.len |-> l.orders[i]]
  <2>1. l.len \in Nat /\ \A i \in 1..l.len : l.orders[i] \in OrderIds
    BY BookTypes
  <2>2. OnceResting(l, stage)
    BY DEF BookInv, CellsOK
  <2> HIDE DEF l
  <2>3. f \in Injection(1..l.len, OrderIds)
    BY <2>1, <2>2 DEF OnceResting, Injection, IsInjective
  <2> HIDE DEF f
  <2>4. Cardinality(1..l.len) <= Cardinality(OrderIds)
    BY <1>0, <2>3, FS_Injection
  <2> DEFINE n == l.len
  <2>5. n \in Nat
    BY <2>1
  <2> HIDE DEF n
  <2>6. Cardinality(1..n) = IF 1 > n THEN 0 ELSE n - 1 + 1
    BY <2>5, FS_Interval
  <2>7. Cardinality(1..n) = n
    BY <2>5, <2>6
  <2> QED BY <1>0, <2>4, <2>7 DEF l, n
<1> QED BY <1>1, <1>2

\* An order in a level is there once, and in the level of its price.
LEMMA AtPlace ==
  ASSUME IInv, BookInv, NEW t \in Sides, NEW j \in 1..Len(level[t]),
         NEW i \in 1..level[t][j].len
  PROVE  LET o == level[t][j].orders[i]
         IN /\ stage[o] = "resting" /\ req[o].side = t /\ levels[t][req[o].price] = j
            /\ \A m \in 1..level[t][j].len : level[t][j].orders[m] = o => m = i
<1> DEFINE l == level[t][j]
           o == l.orders[i]
<1>1. OnceResting(l, stage) /\ (l.len > 0 => levels[t][l.price] = j)
  BY DEF BookInv, CellsOK
<1>2. l.len \in Nat
  BY BookTypes
<1>3. req[o].side = t /\ req[o].price = l.price
  BY BookTypes
<1>4. i \in 1..l.len
  OBVIOUS
<1> HIDE DEF l
<1>5. stage[o] = "resting" /\ levels[t][req[o].price] = j
  BY <1>1, <1>2, <1>3, <1>4 DEF OnceResting
<1>6. \A m \in 1..l.len : l.orders[m] = o => m = i
  BY <1>1, <1>4 DEF OnceResting
<1> QED BY <1>3, <1>5, <1>6 DEF l

LEMMA ListedOnce ==
  ASSUME IInv, BookInv
  PROVE  LiveOrdersInBook
<1> SUFFICES ASSUME NEW o \in OrderIds
             PROVE  IF stage[o] = "resting"
                    THEN Remaining(o) > 0 =>
                           \E i \in 1..MaxOrders :
                             Places(o) = {<<req[o].side, levels[req[o].side][req[o].price], i>>}
                    ELSE Places(o) = {}
  BY DEF LiveOrdersInBook
<1> DEFINE s == req[o].side
           k == levels[s][req[o].price]
<1>0. MaxOrders \in Nat /\ s \in Sides
  BY RequestFields, RequestsAssumption
<1>1. ASSUME NEW x \in Places(o)
      PROVE  /\ stage[o] = "resting"
             /\ \E i \in 1..level[s][k].len : x = <<s, k, i>> /\ level[s][k].orders[i] = o
  <2>1. PICK t \in Sides, j \in 1..MaxOrders, i \in 1..MaxOrders :
          /\ x = <<t, j, i>>
          /\ j <= Len(level[t]) /\ i <= level[t][j].len /\ level[t][j].orders[i] = o
    BY DEF Places
  <2>2. j \in 1..Len(level[t])
    <3>1. Len(level[t]) \in Nat
      BY <2>1, BookTypes
    <3> QED BY <1>0, <2>1, <3>1
  <2>3. i \in 1..level[t][j].len
    <3>1. level[t][j].len \in Nat
      BY <2>1, <2>2, BookTypes
    <3> QED BY <1>0, <2>1, <3>1
  <2>4. stage[o] = "resting" /\ s = t /\ k = j
    BY <2>1, <2>2, <2>3, AtPlace
  <2> QED BY <2>1, <2>3, <2>4
<1>2. CASE stage[o] # "resting"
  BY <1>1, <1>2
<1>3. CASE stage[o] = "resting" /\ Remaining(o) > 0
  <2>1. k \in 1..Len(level[s]) /\ Holds(level[s][k], o)
    BY <1>3 DEF BookInv, LiveOK, Listed
  <2>2. PICK i \in 1..level[s][k].len : level[s][k].orders[i] = o
    BY <2>1 DEF Holds
  <2> HIDE DEF s, k
  <2>3. /\ level[s][k].len \in Nat /\ level[s][k].len <= MaxOrders
        /\ Len(level[s]) <= MaxOrders /\ Len(level[s]) \in Nat
    BY <1>0, <2>1, BookTypes, FewPlaces
  <2>4. k \in 1..MaxOrders /\ i \in 1..MaxOrders /\ k <= Len(level[s]) /\ i <= level[s][k].len
    BY <1>0, <2>1, <2>3
  <2>5. <<s, k, i>> \in Places(o)
    BY <1>0, <2>1, <2>2, <2>4 DEF Places
  <2>6. \A m \in 1..level[s][k].len : level[s][k].orders[m] = o => m = i
    BY <1>0, <2>1, <2>2, AtPlace
  <2>7. ASSUME NEW x \in Places(o) PROVE x = <<s, k, i>>
    BY <1>1, <2>6
  <2>8. Places(o) = {<<s, k, i>>}
    BY <2>5, <2>7
  <2> QED BY <1>3, <2>4, <2>8 DEF s, k
<1> QED BY <1>2, <1>3

\* An order with something left to trade is at one place of the book while it
\* rests, in the level the map has for its price, and nowhere otherwise: whatever
\* MatchOrder cuts out of the slice it ranges over.
THEOREM LiveOrdersListedOnce == Spec => []LiveOrdersInBook
BY ListedOnce, SpecIInv, SpecBookInv, PTL

-----------------------------------------------------------------------------
(***************************************************************************)
(* Price and time priority                                                 *)
(***************************************************************************)

\* The trades of a step: none new, or one with the order the range is at.
LEMMA TradeSteps ==
  ASSUME IInv, [Next]_vars
  PROVE  \/ trades' = trades
         \/ trades' = <<>>
         \/ /\ FillPartly \/ FillMaker
            /\ AtOrder /\ Remaining(Maker) > 0
            /\ trades' = Append(trades, [maker |-> Maker, price |-> Best.price, qty |-> FillQty])
<1>1. CASE FillPartly \/ FillMaker
  BY <1>1 DEF FillPartly, FillMaker, FillsMaker
<1>2. CASE ~(FillPartly \/ FillMaker)
  BY <1>2 DEF Next, vars, MatchOrder, AddOrder, Drop, RemoveOrder, MatchStep, EnterLevel, Return,
       LeaveLevel, SkipOrder, FillPanics
<1> QED BY <1>1, <1>2

\* A trade with a buyer is at the lowest of the live asks.
LEMMA LowestAsk ==
  ASSUME IInv, BookInv, [Next]_vars, NEW j \in 1..Len(trades'), j > Len(trades),
         req[run.taker].side = "BUY",
         NEW o \in OrderIds, stage[o] = "resting", req[o].side = "SELL", Remaining(o) > 0
  PROVE  trades'[j].price <= req[o].price
<1>0. trades \in Seq([maker : OrderIds, price : Prices, qty : Nat])
  BY DEF IInv, TypeOK
<1>1. /\ AtOrder
      /\ trades' = Append(trades, [maker |-> Maker, price |-> Best.price, qty |-> FillQty])
  BY <1>0, TradeSteps
<1>2. trades'[j].price = Best.price
  <2> DEFINE t == [maker |-> Maker, price |-> Best.price, qty |-> FillQty]
  <2>1. t.price = Best.price
    OBVIOUS
  <2>2. trades' = Append(trades, t)
    BY <1>1
  <2> HIDE DEF t
  <2>3. j = Len(trades) + 1
    BY <1>0, <2>2
  <2> QED BY <1>0, <2>1, <2>2, <2>3
<1> DEFINE k == levels["SELL"][req[o].price]
<1>3. req[o].price \in Prices /\ k \in 1..Len(level["SELL"])
  BY DEF BookInv, LiveOK, Listed
<1>4. level["SELL"][k].price = req[o].price
  BY <1>3 DEF IInv, MapOK, Sides
<1>5. Book = "SELL"
  BY DEF Book, Opposite
<1>6. level["SELL"][root["SELL"]].price <= level["SELL"][k].price
  BY <1>3 DEF BookInv, RootOK, Sides
<1> QED BY <1>2, <1>4, <1>5, <1>6 DEF Best

\* A buyer trades at the lowest of the prices that resting sellers with something
\* left ask for, on a book of any size.
THEOREM BuyersPayTheLowestAsk == Spec => AsksBestFirst
<1>1. IInv /\ BookInv /\ [Next]_vars =>
        [\A j \in 1..Len(trades') :
           j > Len(trades) /\ req[run.taker].side = "BUY" =>
             \A o \in OrderIds :
               stage[o] = "resting" /\ req[o].side = "SELL" /\ Remaining(o) > 0 =>
                 trades'[j].price <= req[o].price]_vars
  BY LowestAsk
<1> QED BY <1>1, SpecIInv, SpecBookInv, PTL DEF Spec, AsksBestFirst

\* Before the first trade of a call, the range has only passed dead orders.
FreshOK ==
  run.pc = "inner" /\ trades = <<>> =>
    /\ run.n = Best.len
    /\ \A j \in 1..(run.i - 1) : Remaining(Best.orders[j]) <= 0

LEMMA FreshStays ==
  ASSUME IInv, FreshOK, [Next]_vars
  PROVE  FreshOK'
<1>1. CASE EnterLevel
  <2>1. /\ run.pc = "outer" /\ run' = [run EXCEPT !.pc = "inner", !.i = 1, !.n = Best.len]
        /\ UNCHANGED <<req, level, root>>
    BY <1>1 DEF EnterLevel
  <2>2. run'.taker = run.taker /\ run'.i = 1 /\ run'.n = Best.len
    BY <2>1 DEF IInv, TypeOK
  <2>3. Best' = Best
    BY <2>1, <2>2 DEF Best, Book
  <2> QED BY <2>2, <2>3 DEF FreshOK
<1>2. CASE SkipOrder
  <2>1. /\ AtOrder /\ Remaining(Maker) <= 0 /\ run' = [run EXCEPT !.i = @ + 1]
        /\ UNCHANGED <<req, filled, level, root, trades>>
    BY <1>2 DEF SkipOrder
  <2>2. run'.taker = run.taker /\ run'.i = run.i + 1 /\ run'.n = run.n /\ run.i \in Nat
    BY <2>1, NextIndex DEF IInv, TypeOK
  <2>3. Best' = Best
    BY <2>1, <2>2 DEF Best, Book
  <2>4. ASSUME trades = <<>>, NEW j \in 1..run.i
        PROVE  Remaining(Best.orders[j]) <= 0
    <3>1. CASE j = run.i
      BY <2>1, <3>1 DEF Maker
    <3>2. CASE j # run.i
      BY <2>1, <2>2, <2>4, <3>2 DEF FreshOK, AtOrder
    <3> QED BY <3>1, <3>2
  <2>5. \A x : Remaining(x)' = Remaining(x)
    BY <2>1 DEF Remaining
  <2>6. run'.i - 1 = run.i
    BY <2>2
  <2> QED BY <2>1, <2>2, <2>3, <2>4, <2>5, <2>6 DEF FreshOK, AtOrder
<1>3. CASE FillPartly \/ FillMaker
  <2>1. trades' # <<>>
    <3>1. trades \in Seq([maker : OrderIds, price : Prices, qty : Nat])
      BY DEF IInv, TypeOK
    <3>2. trades' = Append(trades, [maker |-> Maker, price |-> Best.price, qty |-> FillQty])
      BY <1>3 DEF FillPartly, FillMaker
    <3>3. Len(trades') = Len(trades) + 1 /\ Len(trades) \in Nat
      BY <3>1, <3>2
    <3> QED BY <3>3
  <2> QED BY <2>1 DEF FreshOK
<1>4. CASE Return \/ LeaveLevel \/ FillPanics \/ \E o \in OrderIds : MatchOrder(o)
  <2>1. run'.pc # "inner"
    <3>1. run \in [pc : {"idle", "outer", "inner"}, taker : OrderIds \cup {NoOrder},
                    i : Nat, n : Nat]
      BY DEF IInv, TypeOK
    <3>2. CASE LeaveLevel
      BY <3>1, <3>2 DEF LeaveLevel
    <3>3. CASE Return \/ FillPanics \/ \E o \in OrderIds : MatchOrder(o)
      BY <3>3 DEF Return, FillPanics, MatchOrder, Idle
    <3> QED BY <1>4, <3>2, <3>3
  <2> QED BY <2>1 DEF FreshOK
<1>5. CASE \E o \in OrderIds : AddOrder(o) \/ RemoveOrder(o)
  <2>1. run'.pc # "inner"
    BY <1>5 DEF AddOrder, RemoveOrder
  <2> QED BY <2>1 DEF FreshOK
<1>6. CASE (\E o \in OrderIds : Drop(o)) \/ UNCHANGED vars
  <2>1. UNCHANGED <<req, filled, level, root, run, trades>>
    BY <1>6 DEF Drop, vars
  <2> QED BY <2>1 DEF FreshOK, Best, Book, Remaining
<1> QED BY <1>1, <1>2, <1>3, <1>4, <1>5, <1>6 DEF Next, MatchStep

LEMMA InitFresh == Init => FreshOK
BY DEF Init, Idle, FreshOK

\* The live order the range comes to first is the oldest one.
LEMMA OldestFirst ==
  ASSUME IInv, FreshOK, [Next]_vars, trades = <<>>, trades' # <<>>
  PROVE  trades'[1].maker = Best.orders[CHOOSE i \in LiveIndexes(Best) :
                                          \A j \in LiveIndexes(Best) : i <= j]
<1>1. /\ AtOrder /\ Remaining(Maker) > 0
      /\ trades' = Append(trades, [maker |-> Maker, price |-> Best.price, qty |-> FillQty])
  BY TradeSteps
<1>2. trades'[1].maker = Maker
  BY <1>1
<1>3. /\ run.i \in 1..run.n /\ run.n = Best.len /\ Best.len \in Nat
      /\ \A j \in 1..(run.i - 1) : Remaining(Best.orders[j]) <= 0
  <2>1. run.n = Best.len /\ \A j \in 1..(run.i - 1) : Remaining(Best.orders[j]) <= 0
    BY <1>1 DEF FreshOK, AtOrder
  <2>2. run.pc # "idle" /\ root[Book] # 0
    BY <1>1, RunningCall DEF AtOrder, IInv, TypeOK
  <2>3. Best.len \in Nat
    BY <2>2, BestGood
  <2>4. run.i \in 1..run.n
    BY <1>1, <2>1, <2>3 DEF AtOrder, IInv, TypeOK
  <2> QED BY <2>1, <2>3, <2>4
<1>4. run.i \in LiveIndexes(Best)
  BY <1>1, <1>3 DEF LiveIndexes, Maker
<1>5. \A j \in LiveIndexes(Best) : run.i <= j /\ j \in Nat
  <2> SUFFICES ASSUME NEW j \in LiveIndexes(Best), ~(run.i <= j)
               PROVE  FALSE
    BY <1>3 DEF LiveIndexes
  <2>1. j \in 1..Best.len /\ Remaining(Best.orders[j]) > 0
    BY DEF LiveIndexes
  <2>2. j \in 1..(run.i - 1)
    BY <1>3, <2>1
  <2>3. Remaining(Best.orders[j]) <= 0
    BY <1>3, <2>2
  <2>4. Remaining(Best.orders[j]) \in Int
    <3>1. Best.orders[j] \in OrderIds
      BY <1>1, <1>3, <2>1, BestGood, LevelFields DEF AtOrder, IInv, TypeOK
    <3> QED BY <3>1, RequestFields DEF Remaining
  <2> QED BY <2>1, <2>3, <2>4
<1>6. run.i \in Nat /\ \A i \in LiveIndexes(Best) :
        (\A j \in LiveIndexes(Best) : i <= j) => i = run.i
  BY <1>3, <1>4, <1>5
<1>7. (CHOOSE i \in LiveIndexes(Best) : \A j \in LiveIndexes(Best) : i <= j) = run.i
  BY <1>4, <1>5, <1>6
<1> QED BY <1>2, <1>7 DEF Maker

\* The first trade of a call is with the order that has waited longest among
\* those of the best level with something left to trade.
THEOREM OldestTradesFirst == Spec => FirstTradeHasPriority
<1>1. Init => FreshOK
  BY InitFresh
<1>2. IInv /\ FreshOK /\ [Next]_vars => FreshOK'
  BY FreshStays
<1>3. IInv /\ FreshOK /\ [Next]_vars =>
        [trades = <<>> /\ trades' # <<>> =>
           trades'[1].maker = Best.orders[CHOOSE i \in LiveIndexes(Best) :
                                            \A j \in LiveIndexes(Best) : i <= j]]_vars
  BY OldestFirst
<1> QED BY <1>1, <1>2, <1>3, SpecIInv, PTL DEF Spec, FirstTradeHasPriority


-----------------------------------------------------------------------------
(***************************************************************************)
(* Dead orders                                                             *)
(***************************************************************************)

\* What a MatchOrder call returns with nothing left was marked, unless a panic
\* took the taker of a trade away.
Explained == \E t \in OrderIds : stage[t] = "panicked" /\ filled[t] > 0

DeadOK ==
  \A o \in OrderIds :
    stage[o] \in {"matched", "resting"} /\ Remaining(o) = 0 /\ status[o] # "FILLED" => Explained

LEMMA ExplainedStays ==
  ASSUME IInv, [Next]_vars, Explained
  PROVE  Explained'
<1>1. PICK t \in OrderIds : stage[t] = "panicked" /\ filled[t] > 0
  BY DEF Explained
<1>2. stage'[t] = "panicked"
  <2>1. run.pc # "idle" => run.taker # t
    BY <1>1, RunningCall
  <2>2. stage \in [OrderIds -> Stages]
    BY DEF IInv, TypeOK
  <2> QED BY <1>1, <2>1, <2>2 DEF Next, vars, MatchOrder, AddOrder, Drop, RemoveOrder, MatchStep,
        EnterLevel, Return, LeaveLevel, SkipOrder, FillPartly, FillMaker, FillPanics, AtOrder, FillsMaker
<1>3. filled'[t] > 0
  <2>1. filled[t] \in Nat /\ filled \in [OrderIds -> Nat]
    BY DEF IInv, TypeOK
  <2>2. CASE filled' = filled
    BY <1>1, <2>2
  <2>3. CASE AtOrder /\ Remaining(Maker) > 0 /\ filled' = FillBoth(run.taker, Maker, FillQty) /\ req' = req
    <3>1. filled'[t] >= filled[t] /\ filled' \in [OrderIds -> Nat]
      BY <1>1, <2>3, FillsGrow, FillKeepsLimits
    <3> QED BY <1>1, <2>1, <3>1
  <2> QED BY <2>2, <2>3, FillSteps
<1> QED BY <1>1, <1>2, <1>3 DEF Explained

LEMMA DeadStays ==
  ASSUME IInv, IInv', DeadOK, [Next]_vars
  PROVE  DeadOK'
<1> SUFFICES ASSUME NEW o \in OrderIds, stage'[o] \in {"matched", "resting"},
                    Remaining(o)' = 0, status'[o] # "FILLED", ~Explained'
             PROVE  FALSE
  BY DEF DeadOK
<1>1. ~Explained
  BY ExplainedStays
<1>2. /\ filled \in [OrderIds -> Nat] /\ filled' \in [OrderIds -> Nat]
      /\ stage \in [OrderIds -> Stages] /\ req' = req
      /\ status \in [OrderIds -> {"NEW", "PARTIALLY_FILLED", "FILLED"}]
  BY FillSteps DEF IInv, TypeOK
<1>3. ~(stage[o] \in {"matched", "resting"} /\ Remaining(o) = 0 /\ status[o] # "FILLED")
  BY <1>1 DEF DeadOK
<1>4. CASE UNCHANGED <<filled, status>>
           /\ (stage'[o] \in {"matched", "resting"} => stage[o] \in {"matched", "resting"})
  BY <1>2, <1>3, <1>4 DEF Remaining
<1>5. CASE EnterLevel \/ LeaveLevel \/ SkipOrder \/ UNCHANGED vars
  BY <1>4, <1>5 DEF EnterLevel, LeaveLevel, SkipOrder, vars
<1>6. ASSUME NEW q \in OrderIds, MatchOrder(q) \/ AddOrder(q) \/ Drop(q) \/ RemoveOrder(q)
      PROVE  FALSE
  <2>1. UNCHANGED <<filled, status>>
    BY <1>6 DEF MatchOrder, AddOrder, Drop, RemoveOrder
  <2>2. stage'[o] \in {"matched", "resting"} => stage[o] \in {"matched", "resting"}
    BY <1>2, <1>6 DEF MatchOrder, AddOrder, Drop, RemoveOrder
  <2> QED BY <1>4, <2>1, <2>2
<1>7. CASE Return
  <2>1. /\ run.pc # "idle" /\ stage' = [stage EXCEPT ![run.taker] = "matched"]
        /\ status' = [status EXCEPT ![run.taker] =
                        IF Remaining(run.taker) = 0 THEN "FILLED"
                        ELSE IF filled[run.taker] > 0 THEN "PARTIALLY_FILLED" ELSE @]
        /\ filled' = filled
    BY <1>7 DEF Return
  <2>2. CASE o = run.taker
    <3>1. Remaining(o) = 0
      BY <1>2, <2>1 DEF Remaining
    <3> QED BY <1>2, <2>1, <2>2, <3>1
  <2>3. CASE o # run.taker
    <3>1. stage'[o] = stage[o] /\ status'[o] = status[o]
      BY <1>2, <2>1, <2>3
    <3> QED BY <1>2, <1>3, <2>1, <3>1 DEF Remaining
  <2> QED BY <2>2, <2>3
<1>8. CASE FillPartly \/ FillMaker
  <2>1. /\ AtOrder /\ Remaining(Maker) > 0 /\ run.pc # "idle"
        /\ filled' = FillBoth(run.taker, Maker, FillQty) /\ stage' = stage
    BY <1>8 DEF FillPartly, FillMaker, FillsMaker, AtOrder
  <2>2. /\ run.taker \in OrderIds /\ stage[run.taker] = "matching"
        /\ Maker \in OrderIds /\ Maker # run.taker
    BY <2>1, RunningCall, AtCell
  <2>3. /\ FillQty \in Nat /\ filled'[Maker] = filled[Maker] + FillQty
        /\ \A q \in OrderIds : q \notin {run.taker, Maker} => filled'[q] = filled[q]
    BY <1>2, <2>1, FillsGrow
  <2>4. o # run.taker
    BY <2>1, <2>2
  <2>5. CASE o = Maker
    <3>1. CASE FillMaker
      BY <1>2, <2>2, <2>5, <3>1 DEF FillMaker
    <3>2. CASE FillPartly
      <4>1. Remaining(Maker) # FillQty
        BY <3>2 DEF FillPartly
      <4>2. req[o].qty \in Nat /\ filled[o] \in Nat
        BY RequestFields
      <4> QED BY <1>2, <2>3, <2>5, <4>1, <4>2 DEF Remaining
    <3> QED BY <1>8, <3>1, <3>2
  <2>6. CASE o # Maker
    <3>1. filled'[o] = filled[o]
      BY <2>3, <2>4, <2>6
    <3>2. status'[o] = status[o]
      BY <1>2, <1>8, <2>2, <2>6 DEF FillPartly, FillMaker
    <3> QED BY <1>2, <1>3, <2>1, <3>1, <3>2 DEF Remaining
  <2> QED BY <2>5, <2>6
<1>9. CASE FillPanics
  <2>1. /\ AtOrder /\ Remaining(Maker) > 0 /\ run.pc # "idle"
        /\ filled' = FillBoth(run.taker, Maker, FillQty)
        /\ stage' = [stage EXCEPT ![run.taker] = "panicked"]
    BY <1>9 DEF FillPanics, FillsMaker, AtOrder
  <2>2. run.taker \in OrderIds
    BY <2>1, RunningCall
  <2>3. /\ FillQty \in Nat /\ FillQty > 0
        /\ filled'[run.taker] = filled[run.taker] + FillQty
    BY <1>2, <2>1, FillsGrow
  <2>4. stage'[run.taker] = "panicked" /\ filled'[run.taker] > 0
    BY <1>2, <2>1, <2>2, <2>3
  <2>5. \E t \in OrderIds : stage'[t] = "panicked" /\ filled'[t] > 0
    BY <2>2, <2>4
  <2> QED BY <2>5 DEF Explained
<1> QED BY <1>5, <1>6, <1>7, <1>8, <1>9 DEF Next, MatchStep

\* A resting order with nothing left to trade is marked as filled, unless a panic
\* took the taker of one of its trades away.
THEOREM DeadOrdersMarked == Spec => []DeadOrdersExplained
<1>1. Init => DeadOK
  BY DEF Init, DeadOK
<1>2. IInv /\ IInv' /\ DeadOK /\ [Next]_vars => DeadOK'
  BY DeadStays
<1>3. DeadOK => DeadOrdersExplained
  BY DEF DeadOK, Explained, DeadOrdersExplained
<1> QED BY <1>1, <1>2, <1>3, SpecIInv, PTL DEF Spec

-----------------------------------------------------------------------------
(***************************************************************************)
(* The market the book implements                                          *)
(***************************************************************************)

\* The array of l ends with the slice: there are no stale cells.
Trimmed(l) == Len(l.orders) = l.len

\* A range is at level k of side s.
Ranged(s, k) == run.pc = "inner" /\ s = Book /\ k = root[Book]

\* Stale cells are seen only by the range that made them, and hold orders that
\* still rest.
SliceOK ==
  /\ \A s \in Sides : \A k \in 1..Len(level[s]) : Trimmed(level[s][k]) \/ Ranged(s, k)
  /\ run.pc = "inner" =>
       \A i \in 1..Len(Best.orders) : stage[Best.orders[i]] = "resting"

LEMMA TrimTrims ==
  ASSUME NEW l \in LevelRecords, l.len <= Len(l.orders)
  PROVE  Trimmed(Trim(l))
<1>1. /\ l.len \in Nat /\ Len(l.orders) \in Nat
      /\ \A i \in 1..Len(l.orders) : l.orders[i] \in OrderIds
  BY LevelFields
<1>2. \A i \in 1..l.len : l.orders[i] \in OrderIds
  BY ONLY <1>1, l.len <= Len(l.orders)
<1>3. Len(SubSeq(l.orders, 1, l.len)) = l.len
  BY ONLY <1>1, <1>2, SubSeqProperties
<1>4. Trim(l).orders = SubSeq(l.orders, 1, l.len) /\ Trim(l).len = l.len
  BY DEF Trim, LevelRecords
<1> QED BY ONLY <1>3, <1>4 DEF Trimmed

LEMMA AppendTrims ==
  ASSUME NEW l \in LevelRecords, l.len <= Len(l.orders), NEW o \in OrderIds
  PROVE  Trimmed(AppendOrder(l, o)) /\ AppendOrder(l, o) \in LevelRecords
<1> DEFINE cells == [j \in 1..(l.len + 1) |-> IF j <= l.len THEN l.orders[j] ELSE o]
<1>1. /\ l.len \in Nat /\ Len(l.orders) \in Nat
      /\ \A j \in 1..Len(l.orders) : l.orders[j] \in OrderIds
  BY LevelFields
<1>2. cells \in [1..(l.len + 1) -> OrderIds]
  BY <1>1
<1>3. cells \in Seq(OrderIds) /\ Len(cells) = l.len + 1 /\ l.len + 1 \in Nat
  BY <1>1, <1>2
<1>4. AppendOrder(l, o) = [l EXCEPT !.orders = cells, !.len = l.len + 1]
  BY DEF AppendOrder
<1> HIDE DEF cells
<1>5. /\ AppendOrder(l, o).orders = cells /\ AppendOrder(l, o).len = l.len + 1
      /\ AppendOrder(l, o) \in LevelRecords
  BY <1>3, <1>4 DEF LevelRecords
<1> QED BY <1>3, <1>5 DEF Trimmed

\* Cutting out an order brings no other order into the array.
LEMMA CutOutCells ==
  ASSUME NEW l \in LevelRecords, l.len <= Len(l.orders), NEW i \in 1..l.len
  PROVE  /\ Len(CutOut(l, i).orders) = Len(l.orders)
         /\ \A j \in 1..Len(l.orders) : \E m \in 1..Len(l.orders) :
              CutOut(l, i).orders[j] = l.orders[m]
<1> DEFINE cells == Delete(l.orders, i, l.len)
<1>1. /\ l.len \in Nat /\ Len(l.orders) \in Nat
      /\ \A j \in 1..Len(l.orders) : l.orders[j] \in OrderIds
  BY LevelFields
<1>2. cells \in [1..Len(l.orders) -> OrderIds]
  BY <1>1 DEF Delete
<1>3. Len(cells) = Len(l.orders)
  BY <1>1, <1>2
<1>4. \A j \in 1..Len(l.orders) : \E m \in 1..Len(l.orders) : cells[j] = l.orders[m]
  BY <1>1 DEF Delete
<1> HIDE DEF cells
<1>5. CutOut(l, i).orders = cells
  BY DEF CutOut, LevelRecords, cells
<1> QED BY <1>3, <1>4, <1>5

\* Replacing a level by one without stale cells.
LEMMA ReplacedTrims ==
  ASSUME IInv, IInv', SliceOK, NEW s \in Sides, NEW k \in 1..Len(level[s]), NEW r,
         Replaced(s, k, r), Trimmed(r)
  PROVE  \A t \in Sides : \A j \in 1..Len(level'[t]) :
           Trimmed(level'[t][j]) \/ (Ranged(t, j) /\ ~(t = s /\ j = k))
<1>1. /\ \A t \in Sides : Len(level'[t]) = Len(level[t])
      /\ \A t \in Sides : \A j \in 1..Len(level[t]) :
           level'[t][j] = IF t = s /\ j = k THEN r ELSE level[t][j]
  BY ONLY IInv, IInv', s \in Sides, k \in 1..Len(level[s]), Replaced(s, k, r), LevelReplaced
<1> QED BY ONLY <1>1, SliceOK, Trimmed(r) DEF SliceOK

\* Steps that leave books, slices and their orders as they are.
LEMMA SlicesStay ==
  ASSUME SliceOK, level' = level, root' = root, Book' = Book,
         run'.pc = run.pc, \A o \in OrderIds : stage[o] = "resting" => stage'[o] = "resting",
         run.pc = "inner" => \A i \in 1..Len(Best.orders) : Best.orders[i] \in OrderIds
  PROVE  SliceOK'
<1>1. Best' = Best
  BY DEF Best
<1>2. \A s, k : Ranged(s, k)' <=> Ranged(s, k)
  BY DEF Ranged
<1>3. \A s \in Sides : \A k \in 1..Len(level'[s]) :
        Trimmed(level'[s][k]) \/ Ranged(s, k)'
  BY <1>2 DEF SliceOK
<1> QED BY <1>1, <1>3 DEF SliceOK

\* Only the running range has stale cells, whatever the step.
LEMMA NextSliceOK ==
  ASSUME IInv, IInv', BookInv, SliceOK, [Next]_vars
  PROVE  SliceOK'
<1> DEFINE NoStale == \A s \in Sides : \A k \in 1..Len(level[s]) : Trimmed(level[s][k])
<1>0. run.pc # "inner" => NoStale
  BY DEF SliceOK, Ranged
<1>a. ASSUME run'.pc # "inner", NoStale' PROVE SliceOK'
  BY <1>a DEF SliceOK
<1>b. run.pc = "inner" => /\ Book \in Sides /\ root[Book] \in 1..Len(level[Book])
                         /\ Best \in LevelRecords /\ Best.len \in Nat
                         /\ Best.len <= Len(Best.orders)
                         /\ \A i \in 1..Len(Best.orders) : Best.orders[i] \in OrderIds
  <2> SUFFICES ASSUME run.pc = "inner" PROVE 
         /\ Book \in Sides /\ root[Book] \in 1..Len(level[Book])
         /\ Best \in LevelRecords /\ Best.len \in Nat
         /\ Best.len <= Len(Best.orders)
         /\ \A i \in 1..Len(Best.orders) : Best.orders[i] \in OrderIds
    OBVIOUS
  <2>1. run.pc # "idle" /\ root[Book] # 0
    BY DEF IInv, TypeOK
  <2>2. /\ Book \in Sides /\ root[Book] \in 1..Len(level[Book])
        /\ Best \in LevelRecords /\ Best.len \in Nat /\ Best.len <= Len(Best.orders)
    BY ONLY IInv, <2>1, BestGood
  <2>3. \A i \in 1..Len(Best.orders) : Best.orders[i] \in OrderIds
    BY ONLY <2>2, LevelFields
  <2> QED BY <2>2, <2>3
<1>1. CASE UNCHANGED vars
  BY <1>1, <1>b, SlicesStay DEF vars, Book
<1>2. ASSUME NEW o \in OrderIds, MatchOrder(o) PROVE SliceOK'
  <2>1. run.pc = "idle" /\ run'.pc = "outer" /\ level' = level
    BY <1>2 DEF MatchOrder
  <2> QED BY ONLY <1>0, <1>a, <2>1
<1>3. ASSUME NEW o \in OrderIds, AddOrder(o) PROVE SliceOK'
  <2> DEFINE s == req[o].side
             p == req[o].price
             m == levels[s][p]
  <2>1. run.pc = "idle" /\ run' = run /\ NoStale
    BY <1>0, <1>3 DEF AddOrder
  <2>2. CASE level' = level
    BY ONLY <1>a, <2>1, <2>2
  <2>3. CASE /\ p # NoPrice /\ m # 0
             /\ level' = [level EXCEPT ![s][m] = AppendOrder(@, o)]
    <3>1. s \in Sides /\ p \in Prices
      BY <2>3, RequestFields
    <3>2. m \in 1..Len(level[s])
      <4>1. m \in Nat /\ m <= Len(level[s]) /\ Len(level[s]) \in Nat
        BY <3>1, BookTypes
      <4> QED BY ONLY <2>3, <4>1
    <3>3. Trimmed(AppendOrder(level[s][m], o))
      <4>1. Good(s, level[s][m], req, stage)
        BY <3>1, <3>2, GoodBooks
      <4> DEFINE l == level[s][m]
      <4>2. l \in LevelRecords /\ l.len <= Len(l.orders)
        BY <4>1 DEF Good
      <4> HIDE DEF l
      <4>3. Trimmed(AppendOrder(l, o))
        BY ONLY <4>2, o \in OrderIds, AppendTrims
      <4> QED BY ONLY <4>3 DEF l
    <3>4. Replaced(s, m, AppendOrder(level[s][m], o))
      BY <2>3 DEF Replaced
    <3> HIDE DEF s, p, m
    <3>5. \A t \in Sides : \A j \in 1..Len(level'[t]) :
            Trimmed(level'[t][j]) \/ Ranged(t, j)
      BY ONLY IInv, IInv', SliceOK, <3>1, <3>2, <3>3, <3>4, ReplacedTrims
    <3> QED BY ONLY <1>a, <2>1, <3>5 DEF Ranged
  <2>4. CASE p # NoPrice /\ level' = [level EXCEPT ![s] = Append(@, AppendOrder(Level(p), o))]
    <3> DEFINE r == AppendOrder(Level(p), o)
    <3>1. s \in Sides /\ p \in Prices
      BY <2>4, RequestFields
    <3>2. Trimmed(r) /\ r \in LevelRecords
      <4>1. Level(p) \in LevelRecords /\ Level(p).len <= Len(Level(p).orders)
        BY <3>1, EmptySeq DEF Level, LevelRecords
      <4> DEFINE l == Level(p)
      <4>2. l \in LevelRecords /\ l.len <= Len(l.orders)
        BY <4>1
      <4> HIDE DEF l
      <4>3. Trimmed(AppendOrder(l, o)) /\ AppendOrder(l, o) \in LevelRecords
        BY ONLY <4>2, o \in OrderIds, AppendTrims
      <4> QED BY ONLY <4>3 DEF l
    <3>3. level[s] \in Seq(LevelRecords)
      BY <3>1 DEF IInv, TypeOK
    <3>4. /\ level'[s] = Append(level[s], r)
          /\ \A t \in Sides : t # s => level'[t] = level[t]
      BY <2>4, <3>1 DEF IInv, TypeOK
    <3> HIDE DEF r, s, p
    <3>5. /\ Len(level'[s]) = Len(level[s]) + 1 /\ Len(level[s]) \in Nat
          /\ \A j \in 1..Len(level[s]) : level'[s][j] = level[s][j]
          /\ level'[s][Len(level[s]) + 1] = r
      BY ONLY <3>2, <3>3, <3>4, AppendProperties, LenProperties
    <3>6. ASSUME NEW t \in Sides, NEW j \in 1..Len(level'[t]) PROVE Trimmed(level'[t][j])
      <4>1. CASE t # s
        BY ONLY <2>1, <3>4, <4>1, t \in Sides, j \in 1..Len(level'[t])
      <4>2. CASE t = s /\ j = Len(level[s]) + 1
        BY ONLY <3>2, <3>5, <4>2
      <4>3. CASE t = s /\ j # Len(level[s]) + 1
        <5>1. j \in 1..Len(level[s])
          BY ONLY <3>5, <4>3, j \in 1..Len(level'[t])
        <5> QED BY ONLY <2>1, <3>1, <3>5, <4>3, <5>1
      <4> QED BY ONLY <4>1, <4>2, <4>3
    <3> QED BY ONLY <1>a, <2>1, <3>6
  <2> QED BY <1>3, <2>2, <2>3, <2>4 DEF AddOrder
<1>4. ASSUME NEW o \in OrderIds, Drop(o) PROVE SliceOK'
  <2>1. \A q \in OrderIds : stage[q] = "resting" => stage'[q] = "resting"
    BY <1>4 DEF Drop, IInv, TypeOK
  <2> QED BY <1>4, <1>b, <2>1, SlicesStay DEF Drop, Book
<1>5. ASSUME NEW o \in OrderIds, RemoveOrder(o) PROVE SliceOK'
  <2> DEFINE s == req[o].side
  <2>1. PICK p \in Prices :
          /\ levels[s][p] # 0
          /\ \E i \in 1..level[s][levels[s][p]].len :
               level' = [level EXCEPT ![s][levels[s][p]] =
                           Trim(CutOut(level[s][levels[s][p]], i))]
    BY <1>5 DEF RemoveOrder
  <2> DEFINE k == levels[s][p]
             l == level[s][k]
  <2>2. PICK i \in 1..l.len : level' = [level EXCEPT ![s][k] = Trim(CutOut(l, i))]
    BY <2>1
  <2>3. run.pc = "idle" /\ run' = run /\ NoStale
    BY <1>0, <1>5 DEF RemoveOrder
  <2>4. s \in Sides /\ k \in 1..Len(level[s])
    <3>1. s \in Sides
      BY RequestFields
    <3>2. k \in Nat /\ k <= Len(level[s]) /\ Len(level[s]) \in Nat
      BY <3>1, BookTypes
    <3>3. k # 0
      BY <2>1
    <3> HIDE DEF k
    <3> QED BY ONLY <3>1, <3>2, <3>3
  <2>5. Trimmed(Trim(CutOut(l, i)))
    <3>1. Good(s, l, req, stage)
      BY <2>4, GoodBooks
    <3> HIDE DEF l
    <3>2. Good(s, CutOut(l, i), req, stage)
      BY ONLY <3>1, i \in 1..l.len, CutOutGood
    <3> QED BY <3>2, TrimTrims DEF Good
  <2>6. Replaced(s, k, Trim(CutOut(l, i)))
    BY <2>2 DEF Replaced
  <2> HIDE DEF s, k, l
  <2>7. \A t \in Sides : \A j \in 1..Len(level'[t]) :
          Trimmed(level'[t][j]) \/ Ranged(t, j)
    BY ONLY IInv, IInv', SliceOK, <2>4, <2>5, <2>6, ReplacedTrims
  <2> QED BY ONLY <1>a, <2>3, <2>7 DEF Ranged
<1>6. CASE EnterLevel
  <2>1. /\ run.pc = "outer" /\ run' = [run EXCEPT !.pc = "inner", !.i = 1, !.n = Best.len]
        /\ UNCHANGED <<req, stage, level, root>> /\ Continues
    BY <1>6 DEF EnterLevel
  <2>2. run'.pc = "inner" /\ run'.taker = run.taker
    BY <2>1 DEF IInv, TypeOK
  <2>3. Book' = Book /\ Best' = Best
    BY <2>1, <2>2 DEF Book, Best
  <2>4. Book \in Sides /\ root[Book] \in 1..Len(level[Book])
    BY <2>1, BestGood DEF Continues
  <2>5. Trimmed(Best) /\ OnceResting(Best, stage)
    BY <1>0, <2>1, <2>4 DEF BookInv, CellsOK, Best
  <2>6. \A i \in 1..Len(Best.orders) : stage[Best.orders[i]] = "resting"
    BY ONLY <2>5 DEF Trimmed, OnceResting
  <2>7. \A t \in Sides : \A j \in 1..Len(level'[t]) : Trimmed(level'[t][j]) \/ Ranged(t, j)'
    <3>1. NoStale
      BY <1>0, <2>1
    <3> QED BY ONLY <2>1, <3>1
  <2>8. \A j \in 1..Len(Best'.orders) : stage'[Best'.orders[j]] = "resting"
    BY ONLY <2>1, <2>3, <2>6
  <2> QED BY ONLY <2>7, <2>8 DEF SliceOK
<1>7. CASE Return
  <2>1. run.pc = "outer" /\ run'.pc # "inner" /\ level' = level
    BY <1>7 DEF Return, Idle
  <2> QED BY ONLY <1>0, <1>a, <2>1
<1>8. CASE LeaveLevel \/ FillPanics
  <2>1. /\ run.pc = "inner" /\ run'.pc # "inner"
        /\ level' = [level EXCEPT ![Book][root[Book]] = Trim(@)]
    <3>1. CASE LeaveLevel
      <4>1. run.pc = "inner" /\ run' = [run EXCEPT !.pc = "outer", !.i = 0, !.n = 0]
        BY <3>1 DEF LeaveLevel
      <4>2. run'.pc = "outer"
        BY <4>1 DEF IInv, TypeOK
      <4> QED BY <3>1, <4>1, <4>2 DEF LeaveLevel
    <3>2. CASE FillPanics
      <4>1. run.pc = "inner" /\ run'.pc = "idle"
        BY <3>2 DEF FillPanics, FillsMaker, AtOrder, Idle
      <4> QED BY <3>2, <4>1 DEF FillPanics
    <3> QED BY <1>8, <3>1, <3>2
  <2>2. Trimmed(Trim(Best)) /\ Replaced(Book, root[Book], Trim(Best))
    <3>1. Trimmed(Trim(Best))
      BY ONLY <1>b, <2>1, TrimTrims
    <3>2. Replaced(Book, root[Book], Trim(Best))
      BY ONLY <2>1 DEF Replaced, Best
    <3> QED BY <3>1, <3>2
  <2>3. \A t \in Sides : \A j \in 1..Len(level'[t]) :
          Trimmed(level'[t][j]) \/ (Ranged(t, j) /\ ~(t = Book /\ j = root[Book]))
    BY ONLY IInv, IInv', SliceOK, <1>b, <2>1, <2>2, ReplacedTrims
  <2> QED BY ONLY <1>a, <2>1, <2>3 DEF Ranged
<1>9. CASE SkipOrder \/ FillPartly
  <2>1. run' = [run EXCEPT !.i = @ + 1] /\ UNCHANGED <<req, stage, level, root>>
    BY <1>9 DEF SkipOrder, FillPartly
  <2>2. run'.pc = run.pc /\ run'.taker = run.taker
    BY <2>1, NextIndex
  <2> QED BY <1>b, <2>1, <2>2, SlicesStay DEF Book
<1>10. CASE FillMaker
  <2> DEFINE i == run.i
             r == CutOut(Best, i)
  <2>1. /\ run.pc = "inner" /\ run' = [run EXCEPT !.i = @ + 1] /\ i <= Best.len
        /\ UNCHANGED <<req, stage, root>>
        /\ level' = [level EXCEPT ![Book][root[Book]] = r]
    BY <1>10 DEF FillMaker, FillsMaker, AtOrder, Best
  <2>2. run'.pc = run.pc /\ run'.taker = run.taker
    BY <2>1, NextIndex
  <2>3. i \in 1..Best.len
    BY <1>b, <2>1 DEF IInv, TypeOK
  <2>4. /\ Len(r.orders) = Len(Best.orders)
        /\ \A j \in 1..Len(Best.orders) : \E m \in 1..Len(Best.orders) :
             r.orders[j] = Best.orders[m]
    BY ONLY <1>b, <2>1, <2>3, CutOutCells
  <2>5. Book' = Book /\ root' = root
    BY <2>1, <2>2 DEF Book
  <2>6. Replaced(Book, root[Book], r)
    BY <2>1 DEF Replaced
  <2> HIDE DEF r, i
  <2>7. /\ \A t \in Sides : Len(level'[t]) = Len(level[t])
        /\ \A t \in Sides : \A j \in 1..Len(level[t]) :
             level'[t][j] = IF t = Book /\ j = root[Book] THEN r ELSE level[t][j]
    BY ONLY IInv, IInv', <1>b, <2>1, <2>6, LevelReplaced
  <2>8. Best' = r
    BY ONLY <1>b, <2>1, <2>5, <2>7 DEF Best
  <2>9. \A t \in Sides : \A j \in 1..Len(level'[t]) : Trimmed(level'[t][j]) \/ Ranged(t, j)'
    BY ONLY SliceOK, <2>1, <2>2, <2>5, <2>7 DEF SliceOK, Ranged
  <2>10. \A j \in 1..Len(Best'.orders) : stage'[Best'.orders[j]] = "resting"
    BY ONLY SliceOK, <2>1, <2>4, <2>8 DEF SliceOK
  <2> QED BY ONLY <2>9, <2>10 DEF SliceOK
<1> QED
  BY <1>1, <1>2, <1>3, <1>4, <1>5, <1>6, <1>7, <1>8, <1>9, <1>10 DEF Next, MatchStep

LEMMA InitSliceOK == Init => SliceOK
BY EmptySeq DEF Init, SliceOK, Idle

\* The other side of the running order's is the side it is matched against.
LEMMA OtherSide ==
  ASSUME NEW s \in Sides, NEW t \in Sides
  PROVE  s # t <=> s = Opposite(t)
BY DEF Sides, Opposite

\* Every live order of the other side asks for what the best level does, or more.
LEMMA LiveAboveRoot ==
  ASSUME IInv, BookInv, run.pc # "idle", NEW x \in M!Live
  PROVE  /\ root[Book] # 0
         /\ Best.price \in Int /\ req[x].price \in Int
         /\ Best.price <= req[x].price
<1>1. x \in OrderIds /\ stage[x] = "resting" /\ req[x].side # req[run.taker].side
      /\ Remaining(x) > 0
  BY DEF M!Live, M!OrderIds, OrderIds, M!Remaining, Remaining
<1>2. run.taker \in OrderIds /\ Book \in Sides
  BY RunningCall
<1>3. req[x].side = Book
  BY <1>1, <1>2, RequestFields, OtherSide DEF Book
<1> DEFINE k == levels[Book][req[x].price]
<1>4. req[x].price \in Prices /\ k \in 1..Len(level[Book])
  BY <1>1, <1>3 DEF BookInv, LiveOK, Listed
<1>5. level[Book][k].price = req[x].price
  <2>1. k # 0
    BY <1>4
  <2> QED BY <1>2, <1>4, <2>1 DEF IInv, MapOK
<1> HIDE DEF k
<1>6. root[Book] # 0 /\ Best.price <= level[Book][k].price
  BY <1>2, <1>4 DEF BookInv, RootOK, Best
<1>7. \A p \in Prices : p \in Int
  BY RequestsAssumption DEF Prices
<1>8. Best.price \in Prices
  BY <1>2, <1>6, BestGood, LevelFields DEF Good
<1> QED BY <1>4, <1>5, <1>6, <1>7, <1>8

LEMMA AcceptsCrosses ==
  ASSUME NEW p
  PROVE  M!Accepts(p) <=> Crosses(run.taker, p)
BY DEF M!Accepts, Crosses

\* A call that is running, as the market sees it.
LEMMA TakerRuns ==
  ASSUME IInv
  PROVE  /\ run.pc = "idle" => run.taker = NoOrder
         /\ run.pc # "idle" => run.taker # NoOrder /\ run.taker \in Int
<1>1. run.pc = "idle" => run.taker = NoOrder
  BY DEF IInv, TypeOK, Idle
<1>2. run.pc # "idle" => run.taker \in OrderIds
  BY RunningCall
<1> QED BY <1>1, <1>2, RequestsAssumption DEF OrderIds

\* The orders that the range trades with are those the market offers.
LEMMA FillCharges ==
  ASSUME IInv, BookInv, SliceOK, AtOrder, Remaining(Maker) > 0,
         filled' = FillBoth(run.taker, Maker, FillQty)
  PROVE  M!Charge(Maker) /\ M!Quantity(Maker) = FillQty /\ req[Maker].price = Best.price
<1>1. /\ run.pc = "inner" /\ run.i \in 1..Len(Best.orders) /\ Remaining(run.taker) > 0
      /\ Book \in Sides /\ run.taker \in OrderIds
  <2>1. run.pc = "inner" /\ Remaining(run.taker) > 0 /\ run.i <= run.n
    BY DEF AtOrder
  <2>2. run.i \in 1..(run.n + 1) /\ run.n <= Len(Best.orders) /\ run.n \in Nat
    BY <2>1 DEF IInv, TypeOK
  <2>3. Best \in LevelRecords /\ Len(Best.orders) \in Nat
    BY AtCell, LevelFields
  <2>4. run.taker \in OrderIds /\ Book \in Sides
    BY <2>1, RunningCall
  <2> QED BY ONLY <2>1, <2>2, <2>3, <2>4
<1>2. stage[Maker] = "resting"
  BY <1>1 DEF SliceOK, Maker
<1>3. /\ Maker \in OrderIds /\ Maker # run.taker
      /\ req[Maker].side = Book /\ req[Maker].price = Best.price
  BY AtCell
<1>4. req[Maker].side # req[run.taker].side
  BY <1>1, <1>3, RequestFields, OtherSide DEF Book
<1>5. Maker \in M!Live
  BY <1>2, <1>3, <1>4 DEF M!Live, M!OrderIds, OrderIds, M!Remaining, Remaining
<1>6. M!Accepts(req[Maker].price)
  BY <1>1, <1>3, AcceptsCrosses DEF IInv, RunOK
<1>7. \A x \in M!Live : req[Maker].price <= req[x].price
  BY <1>1, <1>3, LiveAboveRoot
<1>8. M!Quantity(Maker) = FillQty
  BY DEF M!Quantity, M!Remaining, FillQty, Remaining
<1>9. run.taker # NoOrder /\ M!Remaining(run.taker) > 0
  BY <1>1, TakerRuns DEF M!Remaining, Remaining
<1>10. filled' = [filled EXCEPT ![run.taker] = @ + M!Quantity(Maker),
                                ![Maker] = @ + M!Quantity(Maker)]
  BY <1>8 DEF FillBoth
<1> QED BY <1>3, <1>5, <1>6, <1>7, <1>8, <1>9, <1>10 DEF M!Charge

LEMMA MatchOrderBegins ==
  ASSUME IInv, NEW o \in OrderIds, MatchOrder(o)
  PROVE  M!Begin(o)
<1>1. run.taker = NoOrder /\ run'.taker = o
  BY TakerRuns DEF MatchOrder
<1> QED BY <1>1 DEF MatchOrder, M!Begin, M!Move

LEMMA AddOrderRests ==
  ASSUME IInv, NEW o \in OrderIds, AddOrder(o)
  PROVE  M!Rest(o)
<1>1. run.taker = NoOrder
  BY TakerRuns DEF AddOrder
<1> QED BY <1>1 DEF AddOrder, M!Rest, M!Move

LEMMA RemoveOrderWithdraws ==
  ASSUME IInv, NEW o \in OrderIds, RemoveOrder(o)
  PROVE  M!Withdraw(o)
<1>1. run.taker = NoOrder
  BY TakerRuns DEF RemoveOrder
<1> QED BY <1>1 DEF RemoveOrder, M!Withdraw, M!Move

\* When MatchOrder returns a buyer's order that is not filled, no live order on
\* the other side is acceptable.
LEMMA ReturnEnds ==
  ASSUME IInv, BookInv, Return
  PROVE  M!End
<1>1. /\ run.pc # "idle" /\ ~Continues /\ run' = Idle
      /\ stage' = [stage EXCEPT ![run.taker] = "matched"]
      /\ UNCHANGED <<req, filled, trades>>
  BY DEF Return
<1>2. run.taker \in OrderIds /\ stage[run.taker] = "matching" /\ run.taker # NoOrder
  BY <1>1, RunningCall, TakerRuns
<1>3. \/ M!Remaining(run.taker) = 0
      \/ req[run.taker].side = "BUY" => \A m \in M!Live : ~M!Accepts(req[m].price)
  <2> SUFFICES ASSUME M!Remaining(run.taker) # 0, req[run.taker].side = "BUY",
                      NEW m \in M!Live, M!Accepts(req[m].price)
               PROVE  FALSE
    OBVIOUS
  <2>1. Remaining(run.taker) > 0
    BY <1>2, RequestFields DEF M!Remaining, Remaining
  <2>2. /\ root[Book] # 0 /\ Best.price \in Int /\ req[m].price \in Int
        /\ Best.price <= req[m].price
    BY <1>1, LiveAboveRoot
  <2>3. ~Crosses(run.taker, Best.price) /\ Crosses(run.taker, req[m].price)
    BY <1>1, <2>1, <2>2, AcceptsCrosses DEF Continues
  <2>4. /\ req[run.taker].type = "LIMIT" /\ ~(Best.price <= req[run.taker].price)
        /\ req[m].price <= req[run.taker].price
    BY ONLY <2>3, req[run.taker].side = "BUY" DEF Crosses
  <2>5. req[run.taker].price \in Int
    <3>1. req[run.taker] \in Requests
      BY <1>2 DEF IInv, TypeOK
    <3> QED BY <2>4, <3>1, RequestsAssumption
  <2> QED BY ONLY <2>2, <2>4, <2>5
<1>4. run'.taker = NoOrder
  BY <1>1 DEF Idle
<1> QED BY <1>1, <1>2, <1>3, <1>4 DEF M!End, M!Move

LEMMA FillTrades ==
  ASSUME IInv, BookInv, SliceOK, FillPartly \/ FillMaker
  PROVE  Maker \in OrderIds /\ M!Trade(Maker)
<1>1. /\ AtOrder /\ Remaining(Maker) > 0
      /\ filled' = FillBoth(run.taker, Maker, FillQty)
      /\ run' = [run EXCEPT !.i = @ + 1] /\ UNCHANGED <<req, stage>>
      /\ trades' = Append(trades, [maker |-> Maker, price |-> Best.price, qty |-> FillQty])
  BY DEF FillPartly, FillMaker, FillsMaker
<1>2. run'.taker = run.taker
  BY <1>1, NextIndex
<1>3. M!Charge(Maker) /\ M!Quantity(Maker) = FillQty /\ req[Maker].price = Best.price
  BY ONLY IInv, BookInv, SliceOK, <1>1, FillCharges
<1>4. Maker \in OrderIds
  BY <1>1, AtCell
<1> HIDE DEF Maker, Best, FillQty
<1> QED BY ONLY <1>1, <1>2, <1>3, <1>4 DEF M!Trade

\* The range comes to a stale cell only when it has cut out an order before.
LEMMA PanicLoses ==
  ASSUME IInv, BookInv, SliceOK, FreshOK, FillPanics
  PROVE  Maker \in OrderIds /\ M!Lose(Maker)
<1>1. /\ AtOrder /\ Remaining(Maker) > 0 /\ Remaining(Maker) = FillQty
      /\ filled' = FillBoth(run.taker, Maker, FillQty)
      /\ run' = Idle /\ run.i > Best.len /\ trades' = <<>> /\ req' = req
      /\ stage' = [stage EXCEPT ![run.taker] = "panicked"]
  BY DEF FillPanics, FillsMaker
<1>2. run'.taker = NoOrder
  BY <1>1 DEF Idle
<1>3. M!Charge(Maker) /\ M!Quantity(Maker) = FillQty
  BY ONLY IInv, BookInv, SliceOK, <1>1, FillCharges
<1>4. Maker \in OrderIds /\ run.taker \in OrderIds /\ stage[run.taker] = "matching"
  BY <1>1, AtCell, RunningCall DEF AtOrder
<1>5. M!Remaining(Maker) <= M!Remaining(run.taker)
  <2>1. /\ req[Maker].qty \in Nat /\ filled[Maker] \in Nat
        /\ req[run.taker].qty \in Nat /\ filled[run.taker] \in Nat
    BY <1>4, RequestFields
  <2> HIDE DEF Maker
  <2> QED BY ONLY <1>1, <2>1 DEF FillQty, Remaining, M!Remaining
<1>6. trades # <<>>
  <2> SUFFICES ASSUME trades = <<>> PROVE FALSE
    OBVIOUS
  <2>1. run.pc = "inner" /\ run.i <= run.n
    BY <1>1 DEF AtOrder
  <2>2. run.n = Best.len /\ run.i \in Nat /\ run.n \in Nat
    BY <2>1 DEF FreshOK, IInv, TypeOK
  <2> HIDE DEF Best
  <2> QED BY ONLY <1>1, <2>1, <2>2
<1> HIDE DEF Maker
<1> QED BY ONLY <1>1, <1>2, <1>3, <1>4, <1>5, <1>6 DEF M!Lose, M!Move

\* Every step of the book is a step of the market, or none that it sees.
LEMMA StepMarket ==
  ASSUME IInv, BookInv, SliceOK, FreshOK, [Next]_vars
  PROVE  [M!Next]_(M!vars)
<1>0. M!OrderIds = OrderIds
  BY DEF M!OrderIds, OrderIds
<1>1. CASE UNCHANGED vars
  BY <1>1 DEF vars, M!vars
<1>2. CASE \E o \in OrderIds : MatchOrder(o)
  BY <1>0, <1>2, MatchOrderBegins DEF M!Next
<1>3. CASE \E o \in OrderIds : AddOrder(o)
  BY <1>0, <1>3, AddOrderRests DEF M!Next
<1>4. CASE \E o \in OrderIds : Drop(o)
  <2>1. PICK o \in OrderIds : Drop(o)
    BY <1>4
  <2>2. M!GiveUp(o)
    BY <2>1 DEF Drop, M!GiveUp, M!Move
  <2> QED BY <1>0, <2>2 DEF M!Next
<1>5. CASE \E o \in OrderIds : RemoveOrder(o)
  BY <1>0, <1>5, RemoveOrderWithdraws DEF M!Next
<1>6. CASE EnterLevel \/ LeaveLevel \/ SkipOrder
  <2>1. /\ UNCHANGED <<req, filled, stage, trades>>
        /\ \/ run' = [run EXCEPT !.pc = "inner", !.i = 1, !.n = Best.len]
           \/ run' = [run EXCEPT !.pc = "outer", !.i = 0, !.n = 0]
           \/ run' = [run EXCEPT !.i = @ + 1]
    BY <1>6 DEF EnterLevel, LeaveLevel, SkipOrder
  <2>2. run'.taker = run.taker
    BY <2>1 DEF IInv, TypeOK
  <2> QED BY <2>1, <2>2 DEF M!vars
<1>7. CASE Return
  BY <1>7, ReturnEnds DEF M!Next
<1>8. CASE FillPartly \/ FillMaker
  BY <1>0, <1>8, FillTrades DEF M!Next
<1>9. CASE FillPanics
  BY <1>0, <1>9, PanicLoses DEF M!Next
<1> QED
  BY <1>1, <1>2, <1>3, <1>4, <1>5, <1>6, <1>7, <1>8, <1>9 DEF Next, MatchStep

LEMMA InitMarket == Init => M!Init
BY DEF Init, Idle, M!Init, M!OrderIds, OrderIds

\* The book of the code, with its levels, heap, slices and loops, implements a
\* market that takes the cheapest acceptable resting order, one trade after the
\* other, and lets a buyer go only when none is left.
THEOREM RefinesMarket == Spec => ImplementsMarket
<1>1. Init => FreshOK /\ SliceOK /\ M!Init
  BY InitFresh, InitSliceOK, InitMarket
<1>2. IInv /\ FreshOK /\ [Next]_vars => FreshOK'
  BY FreshStays
<1>3. IInv /\ IInv' /\ BookInv /\ SliceOK /\ [Next]_vars => SliceOK'
  BY NextSliceOK
<1>4. IInv /\ BookInv /\ SliceOK /\ FreshOK /\ [Next]_vars => [M!Next]_(M!vars)
  BY StepMarket
<1> QED
  BY <1>1, <1>2, <1>3, <1>4, SpecIInv, SpecBookInv, PTL DEF Spec, ImplementsMarket, M!Spec

-----------------------------------------------------------------------------
(***************************************************************************)
(* What the order service does to a book besides                           *)
(***************************************************************************)

\* An order that is given up before MatchOrder.
LEMMA GivenUp ==
  ASSUME IInv, BookInv, NEW o \in OrderIds, stage[o] = "new",
         stage' = [stage EXCEPT ![o] = "dropped"],
         UNCHANGED <<req, filled, status, level, levels, root, run, trades>>
  PROVE  IInv' /\ BookInv'
<1>1. TypeOK'
  BY DEF IInv, TypeOK, Stages, Idle, Book, Best
<1>2. \A q \in OrderIds : /\ stage'[q] = "resting" <=> stage[q] = "resting"
                          /\ stage[q] \in Settled => stage'[q] \in Settled
                          /\ filled'[q] >= filled[q]
  BY DEF IInv, TypeOK, Settled
<1>3. BookOK' /\ MapOK'
  BY <1>2, SameBooks
<1>4. RunOK' /\ TradesWithinLimits' /\ NeverOverfilled'
  BY DEF IInv, RunOK, TradesWithinLimits, NeverOverfilled, Book, Best, Crosses
<1>5. IInv'
  BY <1>1, <1>3, <1>4 DEF IInv
<1> QED BY <1>2, <1>5, SameLevelsKeep

\* A book that starts empty, with orders that are filled in part.
LEMMA EmptyBook ==
  ASSUME IInv, req' = req, filled' \in [OrderIds -> Nat],
         \A o \in OrderIds : filled'[o] <= req[o].qty,
         status' \in [OrderIds -> {"NEW", "PARTIALLY_FILLED", "FILLED"}],
         stage' \in [OrderIds -> Stages], \A o \in OrderIds : stage'[o] # "resting",
         level' = [s \in Sides |-> <<>>],
         levels' = [s \in Sides |-> [p \in Prices |-> 0]],
         root' = [s \in Sides |-> 0], run' = Idle, trades' = <<>>
  PROVE  IInv' /\ BookInv'
<1>1. TypeOK'
  BY DEF IInv, TypeOK, Idle
<1>2. BookOK' /\ MapOK' /\ RunOK' /\ TradesWithinLimits' /\ NeverOverfilled'
  BY DEF BookOK, MapOK, RunOK, TradesWithinLimits, NeverOverfilled, Idle
<1>3. \A s \in Sides : Len(level'[s]) = 0
  OBVIOUS
<1>4. CellsOK' /\ RootOK' /\ LiveOK'
  BY <1>3 DEF CellsOK, RootOK, LiveOK
<1>5. CountOK'
  <2>1. InBook' \in SUBSET OrderIds
    BY DEF InBook
  <2>2. IsFiniteSet(InBook')
    BY <2>1, OrdersFinite, FS_Subset
  <2>3. Cardinality(InBook') \in Nat
    BY <2>2, FS_CardinalityType
  <2> QED BY <1>3, <2>3 DEF CountOK
<1> QED BY <1>1, <1>2, <1>4, <1>5 DEF IInv, BookInv

-----------------------------------------------------------------------------

\* Every variable of the book keeps its type; the index of a range stays within
\* the array behind the slice, and the heap's root is a level that exists.
THEOREM TypeCorrect == Spec => []TypeOK
<1>1. IInv => TypeOK
  BY DEF IInv
<1> QED BY <1>1, SpecIInv, PTL

\* MatchOrder never fills an order beyond its quantity, however many orders and
\* levels there are and whatever the range over a level comes across.
THEOREM FillsWithinQuantity == Spec => []NeverOverfilled
<1>1. IInv => NeverOverfilled
  BY DEF IInv
<1> QED BY <1>1, SpecIInv, PTL

\* Every trade of the running call is made at the maker's price, with the other
\* side, and within the taker's limit.
THEOREM TradesAtLimits == Spec => []TradesWithinLimits
<1>1. IInv => TradesWithinLimits
  BY DEF IInv
<1> QED BY <1>1, SpecIInv, PTL

=============================================================================
