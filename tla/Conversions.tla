----------------------------- MODULE Conversions -----------------------------
(***************************************************************************)
(* What the connector promises a course about its conversions, whatever    *)
(* the scan, the purge and faculty do in between: a job is bought for one  *)
(* file, and for bytes that were bought before only after a failure; its   *)
(* record is made once, and one that is dropped comes back only from       *)
(* somebody who had read it while it was there; and a file is shown only a *)
(* conversion of its own bytes whose record was made.                      *)
(*                                                                         *)
(* CourseIntake, with its markers, index, aliases and faults, implements   *)
(* this (CourseIntake!ImplementsConversions).                              *)
(***************************************************************************)
EXTENDS Naturals, FiniteSets

CONSTANTS
    File, Content, Job,
    ContentOf,  \* the bytes of each file
    MaxFailures,
    NoFile, NoJob

VARIABLES
    source,     \* the file each job was bought for
    stage,      \* each job is "new", "bought", "recorded" or "dropped"
    shown,      \* the job whose conversion a file is shown, if any
    held,       \* jobs of whose record somebody has a copy
    failures

vars == <<source, stage, shown, held, failures>>

Init ==
    /\ source = [j \in Job |-> NoFile]
    /\ stage = [j \in Job |-> "new"]
    /\ shown = [f \in File |-> NoJob]
    /\ held = {}
    /\ failures = 0

Bought(c) == {j \in Job : source[j] # NoFile /\ ContentOf[source[j]] = c}

Fail == failures < MaxFailures /\ failures' = failures + 1

\* Reflow takes a document; its answer may get lost, and that is a failure.
Buy(j, f) ==
    /\ stage[j] = "new"
    /\ Cardinality(Bought(ContentOf[f])) <= failures
    /\ source' = [source EXCEPT ![j] = f]
    /\ stage' = [stage EXCEPT ![j] = "bought"]
    /\ Fail \/ UNCHANGED failures
    /\ UNCHANGED <<shown, held>>

\* Anything else that fails.
OnlyFail == Fail /\ UNCHANGED <<source, stage, shown, held>>

Record(j) ==
    /\ stage[j] = "bought"
    /\ stage' = [stage EXCEPT ![j] = "recorded"]
    /\ UNCHANGED <<source, shown, held, failures>>

Drop(j) ==
    /\ stage[j] = "recorded"
    /\ stage' = [stage EXCEPT ![j] = "dropped"]
    /\ UNCHANGED <<source, shown, held, failures>>

Hold(j) ==
    /\ stage[j] = "recorded"
    /\ held' = held \cup {j}
    /\ UNCHANGED <<source, stage, shown, failures>>

\* The holder puts the record back, whether it was dropped meanwhile or not.
PutBack(j) ==
    /\ j \in held
    /\ stage' = [stage EXCEPT ![j] = "recorded"]
    /\ held' = held \ {j}
    /\ UNCHANGED <<source, shown, failures>>

Show(f, j) ==
    /\ stage[j] \in {"recorded", "dropped"}
    /\ ContentOf[source[j]] = ContentOf[f]
    /\ shown' = [shown EXCEPT ![f] = j]
    /\ UNCHANGED <<source, stage, held, failures>>

Hide(f) ==
    /\ shown' = [shown EXCEPT ![f] = NoJob]
    /\ UNCHANGED <<source, stage, held, failures>>

Next ==
    \/ OnlyFail
    \/ \E j \in Job : Record(j) \/ Drop(j) \/ Hold(j) \/ PutBack(j)
    \/ \E f \in File : Hide(f) \/ \E j \in Job : Buy(j, f) \/ Show(f, j)

Spec == Init /\ [][Next]_vars
=============================================================================
