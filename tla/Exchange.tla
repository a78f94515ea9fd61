------------------------------ MODULE Exchange ------------------------------
(***************************************************************************)
(* What the order service promises about matching, over any number of      *)
(* starts of the process: the market of module Market, which some orders   *)
(* never reach and which a restart opens again with the orders that are    *)
(* still active.                                                           *)
(***************************************************************************)
EXTENDS Market

\* An order that is turned down before it is matched.
Refuse(o) ==
  /\ Move(o, "new", "dropped")
  /\ UNCHANGED <<req, filled, taker, trades>>

\* All orders that others may still trade with.
Tradable == {o \in OrderIds : stage[o] = "resting" /\ Remaining(o) > 0}

\* The running call is lost.  The orders that are found again wait to rest, with
\* some of what was filled forgotten; none is matched again.  Unless none at all
\* is found, no tradable order is missing.
Reopen ==
  /\ taker' = NoOrder
  /\ trades' = <<>>
  /\ filled' \in [OrderIds -> Nat]
  /\ \A o \in OrderIds : filled'[o] <= filled[o]
  /\ \E found \in SUBSET OrderIds :
       /\ found # {} => Tradable \subseteq found
       /\ \E waiting \in SUBSET {o \in OrderIds : stage[o] = "new"} :
            stage' = [o \in OrderIds |-> IF o \in found THEN "matched"
                                         ELSE IF o \in waiting THEN "new" ELSE "dropped"]
  /\ UNCHANGED req

Serve == Next \/ Reopen \/ \E o \in OrderIds : Refuse(o)

Service == Init /\ [][Serve]_vars

=============================================================================
