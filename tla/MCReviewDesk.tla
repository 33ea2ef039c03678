---------------------------- MODULE MCReviewDesk ----------------------------
(* Small instances of ReviewDesk for TLC. *)
EXTENDS ReviewDesk, TLC

CONSTANTS r1, r2

\* Handler slots are interchangeable.
Handlers == Permutations(Request)
=============================================================================
