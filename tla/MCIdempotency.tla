---------------------------- MODULE MCIdempotency ----------------------------
(***************************************************************************)
(* Instances of Idempotency for TLC: one key, used for a request, twice    *)
(* for its retries, and once for another request.                          *)
(***************************************************************************)
EXTENDS Idempotency

MCKeyOf == [c \in Calls |-> "key"]

MCContentOf == [c \in Calls |-> IF c = "other" THEN "B" ELSE "A"]
=============================================================================
