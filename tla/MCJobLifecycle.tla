--------------------------- MODULE MCJobLifecycle ---------------------------
(* Small instances of JobLifecycle for TLC. *)
EXTENDS JobLifecycle, TLC

CONSTANTS j1, j2, f1, f2, t1, t2, r1, r2

\* j1 converts f1; any other job converts f2.
OwnFileOf == [j \in Job |-> IF j = j1 THEN f1 ELSE f2]
OneTitleOf == [f \in File |-> t1]

\* Of the titles t1 is plain; t2 is one that _slugify takes for t1.
GuessOf == [t \in Title |-> <<t1, 1>>]
OddTitleOf == [f \in File |-> t2]

\* Handler slots are interchangeable: nothing orders or chooses among them.
Instructors == Permutations(Request)
=============================================================================
