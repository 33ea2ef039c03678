--------------------------- MODULE MCCourseIntake ---------------------------
(* Small instances of CourseIntake for TLC. *)
EXTENDS CourseIntake, TLC

CONSTANTS f1, f2, f3, c1, c2

\* Two copies of one document, and a third file of its own.
CopiedContent == [f \in File |-> IF f = f3 THEN c2 ELSE c1]

Jobs == Permutations(Job)
=============================================================================
