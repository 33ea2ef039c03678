----------------------------- MODULE ReviewGate -----------------------------
(***************************************************************************)
(* What the connector promises a course about the Canvas Pages it makes,   *)
(* whatever its workers and handlers do in between: a Page appears as a    *)
(* draft, at the first free slug of its title, and a title whose slug the  *)
(* connector can tell gets one Page only; a Page is shown to students only *)
(* once an instructor has approved a document written to it.  Hiding and   *)
(* removing a Page withdraws no approval.                                  *)
(*                                                                         *)
(* JobLifecycle, with its records, copies of records, awaits and faults,   *)
(* implements this (JobLifecycle!ImplementsGate).                          *)
(***************************************************************************)
EXTENDS Naturals

CONSTANTS
    Title,      \* Page titles
    Copy,       \* slug suffixes of a title's Pages
    Guess,      \* the slug the connector takes a title to have
    Authored    \* titles an instructor already wrote a public Page for

Slug == Title \X Copy
Places(t) == {Guess[t]} \cup ({t} \X Copy)

VARIABLES
    shown,      \* each slug's Page: "absent", "draft" or "public"
    approved    \* slugs an instructor has approved a document for

vars == <<shown, approved>>

Init == /\ shown = [s \in Slug |-> IF s[1] \in Authored /\ s[2] = 1
                                   THEN "public" ELSE "absent"]
        /\ approved = Authored \X {1}

\* The bridge makes the Page of a converted document.
Draft(t, n) == /\ shown[<<t, n>>] = "absent"
               /\ \A m \in Copy : m < n => shown[<<t, m>>] # "absent"
               /\ Guess[t] = <<t, 1>> => n = 1
               /\ shown' = [shown EXCEPT ![<<t, n>>] = "draft"]
               /\ UNCHANGED approved

\* An instructor approves; the Page may have to wait, or fail, to be shown.
Approve(t) == /\ approved' = approved \cup Places(t)
              /\ UNCHANGED shown

\* An approved Page is shown; approving and showing may be one call.
Show(t, s) == /\ shown[s] # "absent" /\ s \in Places(t)
              /\ approved' = approved \cup Places(t)
              /\ shown' = [shown EXCEPT ![s] = "public"]

\* unpublish, and the rejection that deletes a Page.
Hide(s) == /\ shown[s] # "absent"
           /\ shown' = [shown EXCEPT ![s] = "draft"]
           /\ UNCHANGED approved

Remove(s) == /\ shown' = [shown EXCEPT ![s] = "absent"]
             /\ UNCHANGED approved

Next == \/ \E t \in Title, n \in Copy : Draft(t, n)
        \/ \E t \in Title : Approve(t) \/ \E s \in Slug : Show(t, s)
        \/ \E s \in Slug : Hide(s) \/ Remove(s)

Spec == Init /\ [][Next]_vars
=============================================================================
