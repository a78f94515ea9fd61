------------------------------- MODULE Ledger -------------------------------
(***************************************************************************)
(* The ledger service (internal/ledger): TopUpUser, HoldFunds, ReleaseHold *)
(* and TransferFunds on the accounts of one currency, called by concurrent *)
(* request handlers over one Postgres database.                            *)
(*                                                                         *)
(* Every operation reads its accounts outside its transaction, computes    *)
(* new balances in memory and writes them back as absolute values inside   *)
(* it.  A read and the commit it leads to are therefore separate steps.    *)
(* Postgres (external) gives READ COMMITTED: reads see committed rows, an  *)
(* UPDATE locks its row until the transaction ends, and of transactions    *)
(* that wait for each other in a cycle one is aborted.                     *)
(*                                                                         *)
(* Amounts are decimals of any length, computed with exactly; a column     *)
(* keeps ten decimals.  Balances and entries count the last of these, and  *)
(* amounts count quarters of it, so that there are amounts below, at and   *)
(* above the half that is rounded away from zero.                          *)
(***************************************************************************)
EXTENDS Integers

CONSTANTS
  Accounts,      \* the accounts of one currency, one per user
  Equity,        \* the account uuid.Nil, the "system equity account"
  EquityExists,  \* whether accounts has a row for uuid.Nil (no migration adds it)
  Workers,       \* the goroutines that serve requests
  NoWorker,      \* nobody holds the lock of a row
  Kinds,         \* the operations that callers use
  Amounts,       \* the amounts that are asked for, in quarters of a unit
  Opening,       \* the available balances in the database at the start
  MaxOps         \* bound on the operations that begin

ASSUME LedgerAssumption ==
  /\ Kinds \subseteq {"topup", "hold", "release", "transfer"}
  /\ Amounts \subseteq Nat \ {0}
  /\ Opening \in [Accounts -> Nat]
  /\ Equity \notin Accounts
  /\ EquityExists \in BOOLEAN
  /\ NoWorker \notin Workers
  /\ MaxOps \in Nat

\* An operation and its arguments.  A transfer may be to the same account (a
\* user whose order meets an own order); the others have one account.
Operations ==
  {o \in [kind : Kinds, from : Accounts, to : Accounts, amount : Amounts] :
     o.kind # "transfer" => o.to = o.from}

VARIABLES
  row,        \* row[a]: the committed balances of account a
  posted,     \* posted[a]: the sum of the committed ledger entries of a, with
              \* the opening balance as if it had been posted
  lock,       \* lock[a]: the worker whose open transaction has updated row a
  op,         \* op[w]: the operation w runs
  pc,         \* pc[w]: where w is in it
  seen,       \* seen[w]: the rows fromAccount and toAccount that w has read
  outcome,    \* outcome[w]: how the latest operation of w ended
  ops,        \* how many operations have begun
  \* Variables that only record history:
  overtaken,  \* overtaken[w]: rows that others committed since w read them
  lost,       \* accounts on which a committed update was overwritten
  holds,      \* holds[a]: committed holds on a less committed releases
  halves      \* halves[a]: how often half a unit has been taken from a balance of a

vars == <<row, posted, lock, op, pc, seen, outcome, ops, overtaken, lost, holds, halves>>

\* What a NUMERIC(30,10) column keeps of so many quarters.
Kept(x) == IF x >= 0 THEN (x + 2) \div 4 ELSE -((2 - x) \div 4)

Rows == [available : Nat, held : Nat]

NoRow == [available |-> 0, held |-> 0]

NothingSeen == [from |-> NoRow, to |-> NoRow]

NoOp == [kind |-> "none"]

Init ==
  /\ row = [a \in Accounts |-> [available |-> Opening[a], held |-> 0]]
  /\ posted = [a \in Accounts \cup {Equity} |-> IF a = Equity THEN 0 ELSE Opening[a]]
  /\ lock = [a \in Accounts |-> NoWorker]
  /\ op = [w \in Workers |-> NoOp]
  /\ pc = [w \in Workers |-> "idle"]
  /\ seen = [w \in Workers |-> NothingSeen]
  /\ outcome = [w \in Workers |-> "none"]
  /\ ops = 0
  /\ overtaken = [w \in Workers |-> {}]
  /\ lost = {}
  /\ holds = [a \in Accounts |-> 0]
  /\ halves = [a \in Accounts |-> 0]

-----------------------------------------------------------------------------
(***************************************************************************)
(* One operation, step by step                                             *)
(***************************************************************************)

\* The accounts the operation updates.
Touched(o) == {o.from, o.to}

\* Mutant of Acceptable: the available balance is not checked.
AcceptableUnchecked(o, r) ==
  /\ o.kind = "release" => 4 * r.held >= o.amount
  /\ o.kind = "topup" => EquityExists

\* What the operation asks of the row it takes from.  The journal of a top-up
\* names the equity account, which the foreign key of ledger_entries wants to
\* exist.
Acceptable(o, r) ==
  /\ o.kind \in {"hold", "transfer"} => 4 * r.available >= o.amount
  /\ o.kind = "release" => 4 * r.held >= o.amount
  /\ o.kind = "topup" => EquityExists

Begin(w, o) ==
  /\ pc[w] = "idle"
  /\ ops < MaxOps
  /\ op' = [op EXCEPT ![w] = o]
  /\ pc' = [pc EXCEPT ![w] = "readFrom"]
  /\ outcome' = [outcome EXCEPT ![w] = "none"]
  /\ ops' = ops + 1
  /\ UNCHANGED <<row, posted, lock, seen, overtaken, lost, holds, halves>>

\* Mutant of EndWith: no Rollback is deferred, so a failed transaction stays
\* open with its locks.
EndWithoutRollback(w, how, others) ==
  /\ op' = [op EXCEPT ![w] = NoOp]
  /\ seen' = [seen EXCEPT ![w] = NothingSeen]
  /\ overtaken' = [others EXCEPT ![w] = {}]
  /\ pc' = [pc EXCEPT ![w] = "idle"]
  /\ outcome' = [outcome EXCEPT ![w] = how]
  /\ lock' = IF how = "ok" THEN [a \in Accounts |-> IF lock[a] = w THEN NoWorker ELSE lock[a]]
             ELSE lock

\* The operation returns: its transaction is over and releases its row locks,
\* its local variables are gone (`others`: who it has overtaken).
EndWith(w, how, others) ==
  /\ op' = [op EXCEPT ![w] = NoOp]
  /\ seen' = [seen EXCEPT ![w] = NothingSeen]
  /\ overtaken' = [others EXCEPT ![w] = {}]
  /\ pc' = [pc EXCEPT ![w] = "idle"]
  /\ outcome' = [outcome EXCEPT ![w] = how]
  /\ lock' = [a \in Accounts |-> IF lock[a] = w THEN NoWorker ELSE lock[a]]

\* GetAccountByUserIDAndCurrency and the check of the row; a transfer's first
\* GetAccountByID, whose check comes after the second.
ReadFrom(w) ==
  LET o == op[w]
      r == row[o.from]
  IN /\ pc[w] = "readFrom"
     /\ \/ /\ o.kind = "transfer" \/ Acceptable(o, r)
           /\ seen' = [seen EXCEPT ![w].from = r]
           /\ pc' = [pc EXCEPT ![w] = IF o.kind = "transfer" THEN "readTo" ELSE "updateFrom"]
           /\ UNCHANGED <<op, outcome, lock, overtaken>>
        \/ /\ o.kind # "transfer" /\ ~Acceptable(o, r)
           /\ EndWith(w, IF o.kind = "topup" THEN "violates_foreign_key" ELSE "refused",
                      overtaken)
     /\ UNCHANGED <<row, posted, ops, lost, holds, halves>>

\* The second GetAccountByID of a transfer and the check of the first.
ReadTo(w) ==
  /\ pc[w] = "readTo"
  /\ \/ /\ Acceptable(op[w], seen[w].from)
        /\ seen' = [seen EXCEPT ![w].to = row[op[w].to]]
        /\ pc' = [pc EXCEPT ![w] = "updateFrom"]
        /\ UNCHANGED <<op, outcome, lock, overtaken>>
     \/ /\ ~Acceptable(op[w], seen[w].from)
        /\ EndWith(w, "refused", overtaken)
  /\ UNCHANGED <<row, posted, ops, lost, holds, halves>>

\* UPDATE accounts: waits for the row lock and keeps it until the end.
UpdateFrom(w) ==
  /\ pc[w] = "updateFrom"
  /\ lock[op[w].from] = NoWorker
  /\ lock' = [lock EXCEPT ![op[w].from] = w]
  /\ pc' = [pc EXCEPT ![w] = IF op[w].kind = "transfer" THEN "updateTo" ELSE "commit"]
  /\ UNCHANGED <<row, posted, op, seen, outcome, ops, overtaken, lost, holds,
                 halves>>

UpdateTo(w) ==
  /\ pc[w] = "updateTo"
  /\ lock[op[w].to] \in {NoWorker, w}
  /\ lock' = [lock EXCEPT ![op[w].to] = w]
  /\ pc' = [pc EXCEPT ![w] = "commit"]
  /\ UNCHANGED <<row, posted, op, seen, outcome, ops, overtaken, lost, holds,
                 halves>>

\* A balance with an amount put in or taken out, computed exactly and rounded
\* by the column.
Plus(b, amount) == Kept(4 * b + amount)
Minus(b, amount) == Kept(4 * b - amount)

\* Mutant of FromRow: a hold leaves what is available as it was.
FromRowHoldsTwice(o, r) ==
  CASE o.kind = "topup" -> [r EXCEPT !.available = Plus(@, o.amount)]
    [] o.kind = "hold" -> [r EXCEPT !.held = Plus(@, o.amount)]
    [] o.kind = "release" -> [available |-> Plus(r.available, o.amount),
                              held |-> Minus(r.held, o.amount)]
    [] o.kind = "transfer" -> [r EXCEPT !.available = Minus(@, o.amount)]

\* The balances the first UPDATE wrote, computed from what was read.
FromRow(o, r) ==
  CASE o.kind = "topup" -> [r EXCEPT !.available = Plus(@, o.amount)]
    [] o.kind = "hold" -> [available |-> Minus(r.available, o.amount),
                           held |-> Plus(r.held, o.amount)]
    [] o.kind = "release" -> [available |-> Plus(r.available, o.amount),
                              held |-> Minus(r.held, o.amount)]
    [] o.kind = "transfer" -> [r EXCEPT !.available = Minus(@, o.amount)]

\* The balances the second UPDATE wrote; on a transfer to the same account it
\* overwrites the first.
ToRow(o, r) == [r EXCEPT !.available = Plus(@, o.amount)]

NewRow(w, a) ==
  LET o == op[w]
  IN IF o.kind = "transfer" /\ a = o.to THEN ToRow(o, seen[w].to)
                                         ELSE FromRow(o, seen[w].from)

\* The journal: a top-up credits the user and debits equity, a transfer debits
\* one account and credits the other, a hold or a release posts nothing.
Credit(o, a) ==
  CASE o.kind = "topup" -> IF a = o.from THEN Kept(o.amount)
                           ELSE IF a = Equity THEN Kept(-o.amount) ELSE 0
    [] o.kind = "transfer" -> (IF a = o.to THEN Kept(o.amount) ELSE 0)
                              + (IF a = o.from THEN Kept(-o.amount) ELSE 0)
    [] o.kind \in {"hold", "release"} -> 0

Held(o, a) ==
  IF a # o.from THEN 0
  ELSE CASE o.kind = "hold" -> Kept(o.amount)
         [] o.kind = "release" -> Kept(-o.amount)
         [] o.kind \in {"topup", "transfer"} -> 0

\* Whether the operation takes half a unit, or so much and whole ones, from a
\* balance of a.
Halves(o, a) == IF a = o.from /\ o.kind # "topup" /\ o.amount % 4 = 2 THEN 1 ELSE 0

\* What worker v has read so far and will write back.
HasRead(v) ==
  (IF pc[v] \in {"readTo", "updateFrom", "updateTo", "commit"} THEN {"from"} ELSE {})
    \cup (IF op[v].kind = "transfer" /\ pc[v] \in {"updateFrom", "updateTo", "commit"}
          THEN {"to"} ELSE {})

Commit(w) ==
  LET o == op[w]
  IN /\ pc[w] = "commit"
     /\ row' = [a \in Accounts |-> IF a \in Touched(o) THEN NewRow(w, a) ELSE row[a]]
     /\ posted' = [a \in Accounts \cup {Equity} |-> posted[a] + Credit(o, a)]
     /\ EndWith(w, "ok", [v \in Workers |->
          overtaken[v] \cup {x \in HasRead(v) : op[v][x] \in Touched(o)}])
     /\ lost' = lost \cup {o[x] : x \in overtaken[w]}
                     \cup (IF o.kind = "transfer" /\ o.from = o.to THEN {o.from} ELSE {})
     /\ holds' = [a \in Accounts |-> holds[a] + Held(o, a)]
     /\ halves' = [a \in Accounts |-> halves[a] + Halves(o, a)]
     /\ UNCHANGED ops

\* A statement or the commit fails, or the process dies: Postgres rolls back.
\* A crash is an Abort of every operation that is running.
Abort(w) ==
  /\ pc[w] # "idle"
  /\ EndWith(w, "failed", overtaken)
  /\ UNCHANGED <<row, posted, ops, lost, holds, halves>>

\* v waits for a row that u has updated.
WaitsFor(v, u) ==
  /\ u # v
  /\ \/ pc[v] = "updateFrom" /\ lock[op[v].from] = u
     \/ pc[v] = "updateTo" /\ lock[op[v].to] = u

\* Postgres (external) aborts a transaction that is in a cycle of waits.
DeadlockVictim(w) ==
  /\ \E S \in SUBSET Workers :
       /\ w \in S
       /\ \A u \in S : \E v \in S : WaitsFor(v, u)
  /\ EndWith(w, "failed", overtaken)
  /\ UNCHANGED <<row, posted, ops, lost, holds, halves>>

-----------------------------------------------------------------------------

Next ==
  \E w \in Workers :
    \/ \E o \in Operations : Begin(w, o)
    \/ ReadFrom(w)
    \/ ReadTo(w)
    \/ UpdateFrom(w)
    \/ UpdateTo(w)
    \/ Commit(w)
    \/ Abort(w)
    \/ DeadlockVictim(w)

Spec == Init /\ [][Next]_vars

\* A goroutine goes on, a row lock is granted to who waits for it, and the
\* deadlock detector runs (deadlock_timeout).
Fairness ==
  \A w \in Workers :
    /\ WF_vars(ReadFrom(w) \/ ReadTo(w) \/ Commit(w))
    /\ SF_vars(UpdateFrom(w))
    /\ SF_vars(UpdateTo(w))
    /\ WF_vars(DeadlockVictim(w))

FairSpec == Spec /\ Fairness

-----------------------------------------------------------------------------
(***************************************************************************)
(* Properties                                                              *)
(***************************************************************************)

\* Type invariant.  Balances are natural numbers: no interleaving of reads and
\* absolute writes makes one negative, although the schema has no CHECK.
TypeOK ==
  /\ row \in [Accounts -> Rows]
  /\ posted \in [Accounts \cup {Equity} -> Int]
  /\ lock \in [Accounts -> Workers \cup {NoWorker}]
  /\ op \in [Workers -> Operations \cup {NoOp}]
  /\ pc \in [Workers -> {"idle", "readFrom", "readTo", "updateFrom", "updateTo", "commit"}]
  /\ \A w \in Workers : pc[w] # "idle" => op[w] \in Operations
  /\ seen \in [Workers -> [from : Rows, to : Rows]]
  /\ outcome \in [Workers -> {"none", "ok", "refused", "failed", "violates_foreign_key"}]
  /\ ops \in 0..MaxOps
  /\ overtaken \in [Workers -> SUBSET {"from", "to"}]
  /\ lost \subseteq Accounts
  /\ holds \in [Accounts -> Int]
  /\ halves \in [Accounts -> Nat]

\* An account on which no commit has overwritten another's holds what its
\* ledger entries say, and has on hold what was held and not released, but for
\* the rounding: that never loses anything and adds at most a unit each time
\* half a unit is taken from a balance.
Reconciled ==
  \A a \in Accounts \ lost :
    /\ row[a].held - holds[a] \in 0..halves[a]
    /\ row[a].available + row[a].held - posted[a] \in 0..halves[a]

\* Every operation ends, also when two transfers in opposite directions lock
\* each other out.
OperationsEnd == \A w \in Workers : pc[w] # "idle" ~> pc[w] = "idle"

=============================================================================
