---------------------------- MODULE LedgerProofs ----------------------------
(***************************************************************************)
(* Proofs about Ledger, for any accounts, workers, amounts and bound:      *)
(* types (balances never go negative) and reconciliation (an account on    *)
(* which no update was overwritten agrees with its ledger entries, up to   *)
(* what rounding adds).                                                    *)
(*                                                                         *)
(* Neither is inductive alone.  A commit writes what was read, so the      *)
(* invariant says of every operation that is under way that what it read   *)
(* passed the check, and is still the row unless another commit overtook   *)
(* it.                                                                     *)
(***************************************************************************)
EXTENDS Ledger, TLAPS

\* A worker is at the second read or update only in a transfer.
FlowOK ==
  \A w \in Workers : pc[w] \in {"readTo", "updateTo"} => op[w].kind = "transfer"

\* What an operation is about to write was checked.
Checked ==
  \A w \in Workers :
    pc[w] \in {"updateFrom", "updateTo", "commit"} => Acceptable(op[w], seen[w].from)

\* A row that was read is current unless another commit has overtaken it.
Current ==
  \A w \in Workers : \A x \in HasRead(w) \ overtaken[w] : seen[w][x] = row[op[w][x]]

IInv == TypeOK /\ FlowOK /\ Checked /\ Current /\ Reconciled

\* Operations, field by field.
LEMMA OperationFields ==
  ASSUME NEW o \in Operations
  PROVE  /\ o.kind \in {"topup", "hold", "release", "transfer"}
         /\ o.from \in Accounts /\ o.to \in Accounts
         /\ o.amount \in Nat /\ o.amount > 0
         /\ o.kind # "transfer" => o.to = o.from
<1>1. /\ o \in [kind : Kinds, from : Accounts, to : Accounts, amount : Amounts]
      /\ o.kind # "transfer" => o.to = o.from
  BY DEF Operations
<1>2. o.kind \in Kinds /\ o.from \in Accounts /\ o.to \in Accounts /\ o.amount \in Amounts
  BY <1>1
<1>3. o.amount \in Nat /\ o.amount # 0
  BY <1>2, LedgerAssumption
<1>4. o.amount > 0
  BY <1>3
<1>5. o.kind \in {"topup", "hold", "release", "transfer"}
  BY <1>2, LedgerAssumption
<1> QED BY <1>1, <1>2, <1>3, <1>4, <1>5

-----------------------------------------------------------------------------
(***************************************************************************)
(* Rounding                                                                *)
(***************************************************************************)

\* What a column keeps of a positive or a negative amount.
LEMMA KeptAmounts ==
  ASSUME NEW x \in Nat
  PROVE  Kept(x) \in Nat /\ Kept(-x) = -Kept(x)
BY DEF Kept

\* Putting in is exact; taking out gives half a unit away.
LEMMA Rounding ==
  ASSUME NEW b \in Nat, NEW x \in Nat
  PROVE  /\ Plus(b, x) = b + Kept(x)
         /\ x <= 4 * b => Minus(b, x) \in Nat
         /\ x <= 4 * b => Minus(b, x) - (b - Kept(x)) \in 0 .. IF x % 4 = 2 THEN 1 ELSE 0
BY DEF Plus, Minus, Kept

-----------------------------------------------------------------------------
(***************************************************************************)
(* The invariant                                                           *)
(***************************************************************************)

LEMMA InitIInv == Init => IInv
<1> SUFFICES ASSUME Init PROVE IInv
  OBVIOUS
<1> USE LedgerAssumption DEF Init
<1>1. TypeOK
  BY DEF TypeOK, Rows, NoRow, NothingSeen, NoOp
<1>2. FlowOK /\ Checked
  BY DEF FlowOK, Checked
<1>3. Current
  BY DEF Current, HasRead
<1>4. ASSUME NEW a \in Accounts
      PROVE  /\ row[a].held - holds[a] \in 0..halves[a]
             /\ row[a].available + row[a].held - posted[a] \in 0..halves[a]
  <2>1. /\ row[a] = [available |-> Opening[a], held |-> 0] /\ holds[a] = 0 /\ halves[a] = 0
        /\ Opening[a] \in Nat
    OBVIOUS
  <2>2. posted[a] = Opening[a]
    OBVIOUS
  <2> QED BY <2>1, <2>2
<1>5. Reconciled
  BY <1>4 DEF Reconciled
<1> QED BY <1>1, <1>2, <1>3, <1>5 DEF IInv

LEMMA BeginIInv ==
  ASSUME IInv, NEW w \in Workers, NEW o \in Operations, Begin(w, o)
  PROVE  IInv'
<1> USE DEF IInv, Begin
<1>1. TypeOK'
  BY LedgerAssumption DEF TypeOK
<1>2. FlowOK' /\ Checked'
  BY DEF FlowOK, Checked, TypeOK
<1>3. Current'
  BY DEF Current, HasRead, TypeOK
<1>4. Reconciled'
  BY DEF Reconciled
<1> QED BY <1>1, <1>2, <1>3, <1>4

\* Ending an operation without a commit keeps the invariant.
LEMMA EndIInv ==
  ASSUME IInv, NEW w \in Workers, NEW how \in {"refused", "failed", "violates_foreign_key"},
         EndWith(w, how, overtaken), UNCHANGED <<row, posted, ops, lost, holds, halves>>
  PROVE  IInv'
<1> USE DEF IInv, EndWith
<1>1. TypeOK'
  BY LedgerAssumption DEF TypeOK, NoOp, NothingSeen, NoRow, Rows
<1>2. FlowOK' /\ Checked'
  BY DEF FlowOK, Checked, TypeOK
<1>3. Current'
  BY DEF Current, HasRead, TypeOK
<1>4. Reconciled'
  BY DEF Reconciled
<1> QED BY <1>1, <1>2, <1>3, <1>4

LEMMA ReadFromIInv ==
  ASSUME IInv, NEW w \in Workers, ReadFrom(w)
  PROVE  IInv'
<1> DEFINE o == op[w]
<1>0. o \in Operations /\ pc[w] = "readFrom" /\ UNCHANGED <<row, posted, ops, lost, holds, halves>>
  BY DEF IInv, TypeOK, ReadFrom
<1>1. CASE /\ o.kind = "transfer" \/ Acceptable(o, row[o.from])
           /\ seen' = [seen EXCEPT ![w].from = row[o.from]]
           /\ pc' = [pc EXCEPT ![w] = IF o.kind = "transfer" THEN "readTo" ELSE "updateFrom"]
           /\ UNCHANGED <<op, outcome, lock, overtaken>>
  <2> USE <1>0, <1>1 DEF IInv
  <2>0. row[o.from] \in Rows
    BY OperationFields DEF TypeOK
  <2>1. TypeOK'
    BY <2>0 DEF TypeOK
  <2>2. FlowOK' /\ Checked'
    BY DEF FlowOK, Checked, TypeOK, Acceptable
  <2>3. Current'
    BY DEF Current, HasRead, TypeOK
  <2>4. Reconciled'
    BY DEF Reconciled
  <2> QED BY <2>1, <2>2, <2>3, <2>4
<1>2. CASE EndWith(w, IF o.kind = "topup" THEN "violates_foreign_key" ELSE "refused",
                   overtaken)
  BY <1>0, <1>2, EndIInv
<1> QED BY <1>1, <1>2 DEF ReadFrom

LEMMA ReadToIInv ==
  ASSUME IInv, NEW w \in Workers, ReadTo(w)
  PROVE  IInv'
<1>0. /\ op[w] \in Operations /\ pc[w] = "readTo"
      /\ UNCHANGED <<row, posted, ops, lost, holds, halves>>
  BY DEF IInv, TypeOK, ReadTo
<1>1. CASE /\ Acceptable(op[w], seen[w].from)
           /\ seen' = [seen EXCEPT ![w].to = row[op[w].to]]
           /\ pc' = [pc EXCEPT ![w] = "updateFrom"]
           /\ UNCHANGED <<op, outcome, lock, overtaken>>
  <2> USE <1>0, <1>1 DEF IInv
  <2>0. row[op[w].to] \in Rows
    BY OperationFields DEF TypeOK
  <2>1. TypeOK'
    BY <2>0 DEF TypeOK
  <2>2. FlowOK' /\ Checked'
    BY DEF FlowOK, Checked, TypeOK
  <2>3. Current'
    BY DEF Current, HasRead, TypeOK
  <2>4. Reconciled'
    BY DEF Reconciled
  <2> QED BY <2>1, <2>2, <2>3, <2>4
<1>2. CASE EndWith(w, "refused", overtaken)
  BY <1>0, <1>2, EndIInv
<1> QED BY <1>1, <1>2 DEF ReadTo

LEMMA UpdateIInv ==
  ASSUME IInv, NEW w \in Workers, UpdateFrom(w) \/ UpdateTo(w)
  PROVE  IInv'
<1>0. op[w] \in Operations /\ op[w].from \in Accounts /\ op[w].to \in Accounts
  BY OperationFields DEF IInv, TypeOK, UpdateFrom, UpdateTo
<1>1. CASE UpdateFrom(w)
  <2> USE <1>1 DEF IInv, UpdateFrom
  <2>1. TypeOK'
    BY <1>0 DEF TypeOK
  <2>2. FlowOK' /\ Checked'
    BY DEF FlowOK, Checked, TypeOK
  <2>3. Current'
    BY DEF Current, HasRead, TypeOK
  <2>4. Reconciled'
    BY DEF Reconciled
  <2> QED BY <2>1, <2>2, <2>3, <2>4
<1>2. CASE UpdateTo(w)
  <2> USE <1>2 DEF IInv, UpdateTo
  <2>1. TypeOK'
    BY <1>0 DEF TypeOK
  <2>2. FlowOK' /\ Checked'
    BY DEF FlowOK, Checked, TypeOK
  <2>3. Current'
    BY DEF Current, HasRead, TypeOK
  <2>4. Reconciled'
    BY DEF Reconciled
  <2> QED BY <2>1, <2>2, <2>3, <2>4
<1> QED BY <1>1, <1>2

\* What a commit writes is a pair of natural numbers.
LEMMA NewRowType ==
  ASSUME IInv, NEW w \in Workers, pc[w] = "commit", NEW a \in Touched(op[w])
  PROVE  NewRow(w, a) \in Rows
<1> DEFINE o == op[w]
           r == seen[w].from
           t == seen[w].to
<1>1. o \in Operations /\ r \in Rows /\ t \in Rows /\ Acceptable(o, r)
  BY DEF IInv, TypeOK, Checked
<1>2. /\ r.available \in Nat /\ r.held \in Nat
      /\ t.available \in Nat /\ t.held \in Nat
  BY <1>1 DEF Rows
<1> HIDE DEF o, r, t
<1>3. o.amount \in Nat /\ o.kind \in {"topup", "hold", "release", "transfer"}
  BY <1>1, OperationFields
<1>4. /\ Plus(r.available, o.amount) \in Nat /\ Plus(r.held, o.amount) \in Nat
      /\ Plus(t.available, o.amount) \in Nat
  <2>1. ASSUME NEW b \in Nat PROVE Plus(b, o.amount) \in Nat
    <3>1. Plus(b, o.amount) = b + Kept(o.amount)
      BY <1>3, Rounding
    <3>2. Kept(o.amount) \in Nat
      BY <1>3, KeptAmounts
    <3> QED BY <3>1, <3>2
  <2> QED BY <1>2, <2>1
<1>5. /\ o.kind \in {"hold", "transfer"} => Minus(r.available, o.amount) \in Nat
      /\ o.kind = "release" => Minus(r.held, o.amount) \in Nat
  BY <1>1, <1>2, <1>3, Rounding DEF Acceptable
<1>6. FromRow(o, r) \in Rows
  BY <1>1, <1>3, <1>4, <1>5 DEF FromRow, Rows
<1>7. ToRow(o, t) \in Rows
  BY <1>1, <1>4 DEF ToRow, Rows
<1> QED BY <1>6, <1>7 DEF NewRow, o, r, t

\* How far a row may be from what holds and entries say.
Near(h, e, n, r) == r.held - h \in 0..n /\ r.available + r.held - e \in 0..n

\* The first row that is written follows holds and entries.
LEMMA FromRowNear ==
  ASSUME NEW o \in Operations, NEW r \in Rows, Acceptable(o, r), o.from # Equity,
         o.kind = "transfer" => o.from # o.to,
         NEW h \in Int, NEW e \in Int, NEW n \in Nat, Near(h, e, n, r)
  PROVE  Near(h + Held(o, o.from), e + Credit(o, o.from), n + Halves(o, o.from), FromRow(o, r))
<1> DEFINE x == o.amount
           k == Kept(o.amount)
           m == IF x % 4 = 2 THEN 1 ELSE 0
<1>1. x \in Nat /\ o.kind \in {"topup", "hold", "release", "transfer"}
  BY OperationFields
<1>2. r.available \in Nat /\ r.held \in Nat
  BY DEF Rows
<1>3. k \in Nat /\ Kept(-x) = -k /\ m \in 0..1
  BY <1>1, KeptAmounts
<1>4. Plus(r.available, x) = r.available + k /\ Plus(r.held, x) = r.held + k
  BY <1>1, <1>2, Rounding
<1>5. /\ r.held - h \in 0..n /\ r.available + r.held - e \in 0..n
  BY DEF Near
<1>6. CASE o.kind = "topup"
  <2>1. FromRow(o, r) = [r EXCEPT !.available = Plus(@, x)]
    BY <1>6 DEF FromRow
  <2>2. /\ FromRow(o, r).available = r.available + k
        /\ FromRow(o, r).held = r.held
    BY <1>4, <2>1 DEF Rows
  <2>3. Held(o, o.from) = 0 /\ Credit(o, o.from) = k /\ Halves(o, o.from) = 0
    BY <1>6 DEF Held, Credit, Halves
  <2> HIDE DEF k, x, m
  <2> QED BY <1>2, <1>3, <1>5, <2>2, <2>3 DEF Near
<1>7. CASE o.kind = "hold"
  <2>1. /\ FromRow(o, r).available = Minus(r.available, x)
        /\ FromRow(o, r).held = r.held + k
    BY <1>4, <1>7 DEF FromRow
  <2>2. Minus(r.available, x) \in Nat /\ Minus(r.available, x) - (r.available - k) \in 0..m
    BY <1>1, <1>2, <1>7, Rounding DEF Acceptable
  <2>3. Held(o, o.from) = k /\ Credit(o, o.from) = 0 /\ Halves(o, o.from) = m
    BY <1>7 DEF Held, Credit, Halves
  <2> HIDE DEF k, x, m
  <2> QED BY <1>2, <1>3, <1>5, <2>1, <2>2, <2>3 DEF Near
<1>8. CASE o.kind = "release"
  <2>1. /\ FromRow(o, r).available = r.available + k
        /\ FromRow(o, r).held = Minus(r.held, x)
    BY <1>4, <1>8 DEF FromRow
  <2>2. Minus(r.held, x) \in Nat /\ Minus(r.held, x) - (r.held - k) \in 0..m
    BY <1>1, <1>2, <1>8, Rounding DEF Acceptable
  <2>3. Held(o, o.from) = -k /\ Credit(o, o.from) = 0 /\ Halves(o, o.from) = m
    BY <1>3, <1>8 DEF Held, Credit, Halves
  <2> HIDE DEF k, x, m
  <2> QED BY <1>2, <1>3, <1>5, <2>1, <2>2, <2>3 DEF Near
<1>9. CASE o.kind = "transfer"
  <2>1. FromRow(o, r) = [r EXCEPT !.available = Minus(@, x)]
    BY <1>9 DEF FromRow
  <2>2. /\ FromRow(o, r).available = Minus(r.available, x)
        /\ FromRow(o, r).held = r.held
    BY <2>1 DEF Rows
  <2>3. Minus(r.available, x) \in Nat /\ Minus(r.available, x) - (r.available - k) \in 0..m
    BY <1>1, <1>2, <1>9, Rounding DEF Acceptable
  <2>4. Held(o, o.from) = 0 /\ Credit(o, o.from) = 0 + -k /\ Halves(o, o.from) = m
    BY <1>3, <1>9 DEF Held, Credit, Halves
  <2> HIDE DEF k, x, m
  <2> QED BY <1>2, <1>3, <1>5, <2>2, <2>3, <2>4 DEF Near
<1> QED BY <1>1, <1>6, <1>7, <1>8, <1>9

\* A commit that nothing has overtaken moves the balances by its journal.
LEMMA CommitReconciles ==
  ASSUME IInv, NEW w \in Workers, pc[w] = "commit", NEW a \in Touched(op[w]),
         a \notin lost, \A x \in overtaken[w] : op[w][x] # a,
         ~(op[w].kind = "transfer" /\ op[w].from = op[w].to)
  PROVE  Near(holds[a] + Held(op[w], a), posted[a] + Credit(op[w], a),
              halves[a] + Halves(op[w], a), NewRow(w, a))
<1> DEFINE o == op[w]
           r == row[a]
<1>1. o \in Operations
  BY DEF IInv, TypeOK
<1>2. /\ o.kind \in {"topup", "hold", "release", "transfer"}
      /\ o.from \in Accounts /\ o.to \in Accounts /\ o.amount \in Nat
      /\ a \in Accounts /\ a # Equity
  BY <1>1, OperationFields, LedgerAssumption DEF Touched
<1>3. /\ r \in Rows /\ r.available \in Nat /\ r.held \in Nat
      /\ holds[a] \in Int /\ posted[a] \in Int /\ halves[a] \in Nat
  BY <1>2 DEF IInv, TypeOK, Rows
<1>4. Near(holds[a], posted[a], halves[a], r)
  BY <1>2 DEF IInv, Reconciled, Near
<1>5. a = o.from => seen[w].from = r
  BY DEF IInv, Current, HasRead
<1>6. o.kind = "transfer" /\ a = o.to => seen[w].to = r
  BY DEF IInv, Current, HasRead
<1>7. a = o.from \/ a = o.to
  BY DEF Touched
<1>8. o.kind # "transfer" => o.to = o.from
  BY <1>1, OperationFields
<1>9. CASE o.kind = "transfer" /\ a = o.to
  <2>1. a # o.from
    BY <1>9
  <2>2. Held(o, a) = 0 /\ Credit(o, a) = Kept(o.amount) + 0 /\ Halves(o, a) = 0
    BY <1>9, <2>1 DEF Held, Credit, Halves
  <2>3. NewRow(w, a) = [r EXCEPT !.available = Plus(@, o.amount)]
    BY <1>6, <1>9 DEF NewRow, ToRow
  <2>4. /\ NewRow(w, a).held = r.held
        /\ NewRow(w, a).available = r.available + Kept(o.amount)
    BY <1>2, <1>3, <2>3, Rounding DEF Rows
  <2>5. Kept(o.amount) \in Nat
    BY <1>2, KeptAmounts
  <2>6. /\ row[a].held - holds[a] \in 0..halves[a]
        /\ row[a].available + row[a].held - posted[a] \in 0..halves[a]
    BY <1>4 DEF Near
  <2> QED BY <1>3, <2>2, <2>4, <2>5, <2>6 DEF Near
<1>10. CASE ~(o.kind = "transfer" /\ a = o.to)
  <2>1. a = o.from /\ NewRow(w, a) = FromRow(o, r)
    BY <1>5, <1>7, <1>8, <1>10 DEF NewRow
  <2>2. Acceptable(o, r)
    BY <1>5, <2>1 DEF IInv, Checked
  <2>3. o.kind = "transfer" => o.from # o.to
    OBVIOUS
  <2>4. Near(holds[a] + Held(o, a), posted[a] + Credit(o, a), halves[a] + Halves(o, a),
             FromRow(o, r))
    <3> HIDE DEF o, r
    <3> QED BY <1>1, <1>2, <1>3, <1>4, <2>1, <2>2, <2>3, FromRowNear
  <2> QED BY <2>1, <2>4
<1> QED BY <1>9, <1>10

LEMMA CommitIInv ==
  ASSUME IInv, NEW w \in Workers, Commit(w)
  PROVE  IInv'
<1> DEFINE o == op[w]
           others == [v \in Workers |->
             overtaken[v] \cup {x \in HasRead(v) : op[v][x] \in Touched(op[w])}]
<1>0. /\ pc[w] = "commit" /\ o \in Operations
      /\ row' = [a \in Accounts |-> IF a \in Touched(o) THEN NewRow(w, a) ELSE row[a]]
      /\ posted' = [a \in Accounts \cup {Equity} |-> posted[a] + Credit(o, a)]
      /\ lost' = lost \cup {o[x] : x \in overtaken[w]}
                      \cup (IF o.kind = "transfer" /\ o.from = o.to THEN {o.from} ELSE {})
      /\ holds' = [a \in Accounts |-> holds[a] + Held(o, a)]
      /\ halves' = [a \in Accounts |-> halves[a] + Halves(o, a)]
      /\ ops' = ops
  BY DEF IInv, TypeOK, Commit
<1>1. /\ op' = [op EXCEPT ![w] = NoOp]
      /\ seen' = [seen EXCEPT ![w] = NothingSeen]
      /\ overtaken' = [others EXCEPT ![w] = {}]
      /\ pc' = [pc EXCEPT ![w] = "idle"]
      /\ outcome' = [outcome EXCEPT ![w] = "ok"]
      /\ lock' = [a \in Accounts |-> IF lock[a] = w THEN NoWorker ELSE lock[a]]
  BY DEF Commit, EndWith
<1>2. /\ o.from \in Accounts /\ o.to \in Accounts /\ o.amount \in Nat
      /\ o.kind \in {"topup", "hold", "release", "transfer"}
  BY <1>0, OperationFields
<1>3. TypeOK'
  <2>1. row' \in [Accounts -> Rows]
    BY <1>0, NewRowType DEF IInv, TypeOK
  <2>2. posted' \in [Accounts \cup {Equity} -> Int]
    <3>1. \A a \in Accounts \cup {Equity} : Credit(o, a) \in Int
      BY <1>2, KeptAmounts DEF Credit
    <3> QED BY <1>0, <3>1 DEF IInv, TypeOK
  <2>3. holds' \in [Accounts -> Int]
    <3>1. \A a \in Accounts : Held(o, a) \in Int
      BY <1>2, KeptAmounts DEF Held
    <3> QED BY <1>0, <3>1 DEF IInv, TypeOK
  <2>4. lost' \subseteq Accounts
    <3>1. \A x \in overtaken[w] : x \in {"from", "to"}
      BY DEF IInv, TypeOK
    <3>2. \A x \in overtaken[w] : o[x] \in Accounts
      BY <1>2, <3>1
    <3> QED BY <1>0, <1>2, <3>2 DEF IInv, TypeOK
  <2>5. overtaken' \in [Workers -> SUBSET {"from", "to"}]
    BY <1>1 DEF IInv, TypeOK, HasRead
  <2>6. /\ op' \in [Workers -> Operations \cup {NoOp}]
        /\ pc' \in [Workers -> {"idle", "readFrom", "readTo", "updateFrom", "updateTo", "commit"}]
        /\ \A v \in Workers : pc'[v] # "idle" => op'[v] \in Operations
        /\ outcome' \in [Workers -> {"none", "ok", "refused", "failed", "violates_foreign_key"}]
        /\ lock' \in [Accounts -> Workers \cup {NoWorker}]
        /\ ops' \in 0..MaxOps
    BY <1>0, <1>1 DEF IInv, TypeOK
  <2>7. seen' \in [Workers -> [from : Rows, to : Rows]]
    BY <1>1 DEF IInv, TypeOK, NothingSeen, NoRow, Rows
  <2>8. halves' \in [Accounts -> Nat]
    <3>1. \A a \in Accounts : Halves(o, a) \in Nat
      BY DEF Halves
    <3> QED BY <1>0, <3>1 DEF IInv, TypeOK
  <2> QED BY <2>1, <2>2, <2>3, <2>4, <2>5, <2>6, <2>7, <2>8 DEF TypeOK
<1>4. FlowOK' /\ Checked'
  BY <1>1 DEF IInv, FlowOK, Checked, TypeOK
<1>5. Current'
  <2> SUFFICES ASSUME NEW v \in Workers, NEW x \in (HasRead(v) \ overtaken[v])'
               PROVE  (seen[v][x] = row[op[v][x]])'
    BY DEF Current
  <2>1. v # w
    BY <1>1 DEF IInv, TypeOK, HasRead
  <2>2. /\ op'[v] = op[v] /\ pc'[v] = pc[v] /\ seen'[v] = seen[v]
        /\ overtaken'[v] = overtaken[v] \cup {y \in HasRead(v) : op[v][y] \in Touched(o)}
    BY <1>1, <2>1 DEF IInv, TypeOK
  <2>3. HasRead(v)' = HasRead(v)
    BY <2>2 DEF HasRead
  <2>4. x \in HasRead(v) /\ x \notin overtaken[v] /\ op[v][x] \notin Touched(o)
    BY <2>2, <2>3
  <2>5. seen[v][x] = row[op[v][x]]
    BY <2>4 DEF IInv, Current
  <2>6. op[v][x] \in Accounts
    <3>1. x \in {"from", "to"} /\ op[v] \in Operations
      BY <2>4 DEF HasRead, IInv, TypeOK
    <3>2. op[v].from \in Accounts /\ op[v].to \in Accounts
      BY <3>1, OperationFields
    <3> QED BY <3>1, <3>2
  <2>7. row'[op[v][x]] = row[op[v][x]]
    BY <1>0, <2>4, <2>6
  <2> QED BY <2>2, <2>5, <2>7
<1>6. Reconciled'
  <2> SUFFICES ASSUME NEW a \in Accounts, a \notin lost'
               PROVE  Near(holds'[a], posted'[a], halves'[a], row'[a])
    BY DEF Reconciled, Near
  <2>1. /\ a \notin lost /\ (\A x \in overtaken[w] : o[x] # a)
        /\ o.kind = "transfer" /\ o.from = o.to => a # o.from
    BY <1>0
  <2>2. /\ holds'[a] = holds[a] + Held(o, a) /\ posted'[a] = posted[a] + Credit(o, a)
        /\ halves'[a] = halves[a] + Halves(o, a)
    BY <1>0
  <2>3. CASE a \in Touched(o)
    <3>1. ~(o.kind = "transfer" /\ o.from = o.to)
      BY <2>1, <2>3 DEF Touched
    <3>2. row'[a] = NewRow(w, a)
      BY <1>0, <2>3
    <3>3. Near(holds[a] + Held(o, a), posted[a] + Credit(o, a), halves[a] + Halves(o, a),
               NewRow(w, a))
      BY <1>0, <2>1, <2>3, <3>1, CommitReconciles
    <3> QED BY <2>2, <3>2, <3>3
  <2>4. CASE a \notin Touched(o)
    <3>1. a # o.from /\ a # o.to /\ a # Equity /\ row'[a] = row[a]
      BY <1>0, <2>4, LedgerAssumption DEF Touched
    <3>2. Held(o, a) = 0 /\ Credit(o, a) = 0 /\ Halves(o, a) = 0
      BY <1>2, <3>1 DEF Held, Credit, Halves
    <3>3. /\ Near(holds[a], posted[a], halves[a], row[a])
          /\ holds[a] \in Int /\ posted[a] \in Int /\ halves[a] \in Nat
      BY <2>1 DEF IInv, Reconciled, TypeOK, Near
    <3> QED BY <2>2, <3>1, <3>2, <3>3
  <2> QED BY <2>3, <2>4
<1> QED BY <1>3, <1>4, <1>5, <1>6 DEF IInv

LEMMA NextIInv == IInv /\ [Next]_vars => IInv'
<1> SUFFICES ASSUME IInv, [Next]_vars PROVE IInv'
  OBVIOUS
<1>1. CASE UNCHANGED vars
  BY <1>1 DEF vars, IInv, TypeOK, FlowOK, Checked, Current, HasRead, Reconciled
<1>2. ASSUME NEW w \in Workers, Abort(w) \/ DeadlockVictim(w)
      PROVE  IInv'
  BY <1>2, EndIInv DEF Abort, DeadlockVictim
<1>3. ASSUME NEW w \in Workers, NEW o \in Operations, Begin(w, o)
      PROVE  IInv'
  BY <1>3, BeginIInv
<1>4. ASSUME NEW w \in Workers, ReadFrom(w) \/ ReadTo(w)
      PROVE  IInv'
  BY <1>4, ReadFromIInv, ReadToIInv
<1>5. ASSUME NEW w \in Workers, UpdateFrom(w) \/ UpdateTo(w)
      PROVE  IInv'
  BY <1>5, UpdateIInv
<1>6. ASSUME NEW w \in Workers, Commit(w)
      PROVE  IInv'
  BY <1>6, CommitIInv
<1> QED BY <1>1, <1>2, <1>3, <1>4, <1>5, <1>6 DEF Next

LEMMA SpecIInv == Spec => []IInv
BY InitIInv, NextIInv, PTL DEF Spec

\* Types are kept; in particular no interleaving of operations, failures and
\* deadlocks makes an available or a held balance negative.
THEOREM TypeCorrect == Spec => []TypeOK
BY SpecIInv, PTL DEF IInv

\* The balances of an account on which no update was overwritten are what its
\* journal entries and holds say, and at most a unit more each time that half a
\* unit was taken from one.
THEOREM AccountsReconcile == Spec => []Reconciled
BY SpecIInv, PTL DEF IInv

=============================================================================
