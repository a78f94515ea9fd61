------------------------------ MODULE MCLedger ------------------------------
(***************************************************************************)
(* Instances of Ledger for TLC: two accounts that can each pay for one     *)
(* of the amounts.                                                         *)
(***************************************************************************)
EXTENDS Ledger

MCOpening == [a \in Accounts |-> 1]
=============================================================================
