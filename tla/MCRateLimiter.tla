---------------------------- MODULE MCRateLimiter ----------------------------
(***************************************************************************)
(* Instances of RateLimiter for TLC.  Every property is about single steps *)
(* and treats the requests alike.                                          *)
(***************************************************************************)
EXTENDS RateLimiter, TLC

MCSymmetry == Permutations(Requests)
=============================================================================
