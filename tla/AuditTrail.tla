----------------------------- MODULE AuditTrail -----------------------------
(***************************************************************************)
(* The two audit lists of the connector and everybody who rewrites them.   *)
(*                                                                         *)
(* Decisions and consents are appended with RPUSH.  Two processes replace  *)
(* a whole list: the retention sweep, which leaves out expired approvals   *)
(* (canvas/state.py), and the operator's erase_user, which replaces a      *)
(* user's name by a pseudonym in both lists (tools/erase_user.py).  Each   *)
(* reads the list with LRANGE and later replaces it in one MULTI/EXEC, so  *)
(* it works from a copy that appends and the other processes make stale.   *)
(* Nothing keeps two erasures from running at once.                        *)
(*                                                                         *)
(* An entry is known by its rank among all the entries ever appended.      *)
(***************************************************************************)
EXTENDS Naturals

CONSTANTS
    Event,      \* ranks of entries: bound on appends
    User,
    Consenting, \* users who agree and revoke: bound
    Erasable,   \* users who ask to be erased: bound
    Eraser,     \* processes running erase_user: bound
    MaxFaults,  \* bound on restarts
    NoEvent, NoUser

ASSUME NumbersAssumption == MaxFaults \in Nat
ASSUME BoundsAssumption == Consenting \subseteq User /\ Event \subseteq Nat
Log == {"approval", "consent"}
Said == {"decided", "agreed", "revoked"}
Entry == [log : Log, user : User, says : Said]

ASSUME NullAssumption == NoUser \notin User /\ NoEvent \notin Entry

VARIABLES
    event,      \* the entry appended under each rank, NoEvent before
    kept,       \* entries now in their lists
    hidden,     \* entries whose user is now a pseudonym
    old,        \* entries past the audit retention window
    consent,    \* users with a consent record
    pending,    \* consent handlers between the record and its audit entry
    sweeping,   \* the retention sweep has read the approval list
    sweepKept,  \* what it will keep,
    sweepHidden,\* with the names replaced as it read them
    erasing,    \* whether an erase_user is about to read or replace a list,
    target,     \* which list,
    subject,    \* and whom it erases
    eraseKept,  \* the copy of the list it has read,
    eraseHidden,\* with the names to be replaced
    faults,
    exposed,    \* history: entries appended under a rewriter's copy
    promised,   \* history: entries erase_user has dealt with
    reread,     \* history: those another rewriter held by name when it did
    cut         \* history: users whose consent handler died before its entry

vars == <<event, kept, hidden, old, consent, pending, sweeping, sweepKept,
          sweepHidden, erasing, target, subject, eraseKept, eraseHidden,
          faults, exposed, promised, reread, cut>>

lists == <<event, kept, hidden, old>>
consents == <<consent, pending, cut>>
sweep == <<sweeping, sweepKept, sweepHidden>>
eraser == <<erasing, target, subject, eraseKept, eraseHidden>>
erasure == <<promised, reread>>

TypeOK ==
    /\ event \in [Event -> Entry \cup {NoEvent}]
    /\ kept \subseteq Event /\ hidden \subseteq Event /\ old \subseteq Event
    /\ consent \subseteq User
    /\ pending \subseteq [user : User, says : {"agreed", "revoked"}]
    /\ sweeping \in BOOLEAN
    /\ sweepKept \subseteq Event /\ sweepHidden \subseteq Event
    /\ erasing \in [Eraser -> {"idle", "read", "write"}]
    /\ target \in [Eraser -> Log] /\ subject \in [Eraser -> User \cup {NoUser}]
    /\ eraseKept \in [Eraser -> SUBSET Event]
    /\ eraseHidden \in [Eraser -> SUBSET Event]
    /\ faults \in 0..MaxFaults
    /\ exposed \subseteq Event /\ promised \subseteq Event
    /\ reread \subseteq Event /\ cut \subseteq User

Init ==
    /\ event = [e \in Event |-> NoEvent]
    /\ kept = {} /\ hidden = {} /\ old = {}
    /\ consent = {} /\ pending = {}
    /\ sweeping = FALSE /\ sweepKept = {} /\ sweepHidden = {}
    /\ erasing = [x \in Eraser |-> "idle"]
    /\ target = [x \in Eraser |-> "approval"]
    /\ subject = [x \in Eraser |-> NoUser]
    /\ eraseKept = [x \in Eraser |-> {}] /\ eraseHidden = [x \in Eraser |-> {}]
    /\ faults = 0
    /\ exposed = {} /\ promised = {} /\ reread = {} /\ cut = {}

\* The entries ever appended to a list, and those of a user.
Of(l) == {e \in Event : event[e] # NoEvent /\ event[e].log = l}
By(u) == {e \in Event : event[e] # NoEvent /\ event[e].user = u}

\* Somebody holds a copy of the list that will replace it.
Copied(l) ==
    \/ l = "approval" /\ sweeping
    \/ \E x \in Eraser : erasing[x] = "write" /\ target[x] = l

(***************************************************************************)
(* Appending.                                                              *)
(***************************************************************************)

\* RPUSH of a new entry.
Push(e, l, u, s) ==
    /\ event[e] = NoEvent /\ \A d \in Event : d < e => event[d] # NoEvent
    /\ event' = [event EXCEPT ![e] = [log |-> l, user |-> u, says |-> s]]
    /\ kept' = kept \cup {e}
    /\ exposed' = IF Copied(l) THEN exposed \cup {e} ELSE exposed

\* append_approval_event.
Decide(e, u) ==
    /\ Push(e, "approval", u, "decided")
    /\ UNCHANGED <<hidden, old, consents, sweep, eraser, faults, erasure>>

\* Mutant: the consent is recorded without an audit entry.
AgreeUnlogged(u) ==
    /\ consent' = consent \cup {u}
    /\ UNCHANGED <<lists, pending, cut, sweep, eraser, faults, exposed, erasure>>

\* consent_submit, all three boxes ticked: put_consent sets the record first; its
\* audit entry is a second call.
Agree(u) ==
    /\ consent' = consent \cup {u}
    /\ pending' = pending \cup {[user |-> u, says |-> "agreed"]}
    /\ UNCHANGED <<lists, cut, sweep, eraser, faults, exposed, erasure>>

\* consent_revoke, by an administrator: the record is deleted first.
Revoke(u) ==
    /\ consent' = consent \ {u}
    /\ pending' = pending \cup {[user |-> u, says |-> "revoked"]}
    /\ UNCHANGED <<lists, cut, sweep, eraser, faults, exposed, erasure>>

LogConsent(e, p) ==
    /\ p \in pending
    /\ Push(e, "consent", p.user, p.says)
    /\ pending' = pending \ {p}
    /\ UNCHANGED <<hidden, old, consent, cut, sweep, eraser, faults, erasure>>

(***************************************************************************)
(* purge_old_canvas_records, its audit half.                               *)
(***************************************************************************)
GrowOld(e) ==
    /\ e \in Of("approval") \ old
    /\ old' = old \cup {e}
    /\ UNCHANGED <<event, kept, hidden, consents, sweep, eraser, faults,
                   exposed, erasure>>

\* Mutant: entries without a user's name are not kept.
SweepReadNamed ==
    /\ ~sweeping
    /\ Of("approval") \cap kept \cap old # {}
    /\ sweeping' = TRUE
    /\ sweepKept' = (Of("approval") \cap kept) \ (old \cup hidden)
    /\ sweepHidden' = hidden
    /\ UNCHANGED <<lists, consents, eraser, faults, exposed, erasure>>

\* Mutant: a single expired entry is left for a later sweep.
SweepReadSeveral ==
    /\ ~sweeping
    /\ \E d, e \in Of("approval") \cap kept \cap old : d # e
    /\ sweeping' = TRUE
    /\ sweepKept' = (Of("approval") \cap kept) \ old
    /\ sweepHidden' = hidden
    /\ UNCHANGED <<lists, consents, eraser, faults, exposed, erasure>>

\* LRANGE and the filter; without an expired entry nothing is rewritten.
SweepRead ==
    /\ ~sweeping
    /\ Of("approval") \cap kept \cap old # {}
    /\ sweeping' = TRUE
    /\ sweepKept' = (Of("approval") \cap kept) \ old
    /\ sweepHidden' = hidden
    /\ UNCHANGED <<lists, consents, eraser, faults, exposed, erasure>>

\* DEL and RPUSH in one transaction.
SweepWrite ==
    /\ sweeping
    /\ kept' = (kept \ Of("approval")) \cup sweepKept
    /\ hidden' = (hidden \ sweepKept) \cup (sweepKept \cap sweepHidden)
    /\ sweeping' = FALSE /\ sweepKept' = {} /\ sweepHidden' = {}
    /\ UNCHANGED <<event, old, consents, eraser, faults, exposed, erasure>>

(***************************************************************************)
(* erase_user --commit: the consent record, then each list in turn.        *)
(***************************************************************************)
EraseBegin(x, u) ==
    /\ erasing[x] = "idle" /\ u \in Erasable
    /\ consent' = consent \ {u}
    /\ erasing' = [erasing EXCEPT ![x] = "read"]
    /\ subject' = [subject EXCEPT ![x] = u]
    /\ UNCHANGED <<lists, pending, cut, sweep, target, eraseKept, eraseHidden,
                   faults, exposed, erasure>>

\* After the approval list comes the consent list, and then nothing.
NextList(x) ==
    IF target[x] = "approval"
    THEN /\ erasing' = [erasing EXCEPT ![x] = "read"]
         /\ target' = [target EXCEPT ![x] = "consent"]
         /\ UNCHANGED subject
    ELSE /\ erasing' = [erasing EXCEPT ![x] = "idle"]
         /\ target' = [target EXCEPT ![x] = "approval"]
         /\ subject' = [subject EXCEPT ![x] = NoUser]

\* LRANGE: the entries in the list, with the names of those in "named" to be
\* replaced.  A list in which there is nothing to replace is left alone.
EraseReading(x, named) ==
    /\ erasing[x] = "read"
    /\ IF named = {}
       THEN /\ NextList(x) /\ UNCHANGED <<eraseKept, eraseHidden>>
            /\ promised' = promised \cup
                             (Of(target[x]) \cap kept \cap By(subject[x]))
       ELSE /\ erasing' = [erasing EXCEPT ![x] = "write"]
            /\ eraseKept' = [eraseKept EXCEPT ![x] = Of(target[x]) \cap kept]
            /\ eraseHidden' = [eraseHidden EXCEPT ![x] = hidden \cup named]
            /\ UNCHANGED <<target, subject, promised>>
    /\ UNCHANGED <<lists, consents, sweep, faults, exposed, reread>>

\* Mutant: of the two fields that may name the user only user_id is looked
\* at, and a decision has its user in actor_user_id.
EraseReadUserId(x) ==
    EraseReading(x, (Of(target[x]) \cap Of("consent") \cap kept
                        \cap By(subject[x])) \ hidden)

EraseRead(x) ==
    EraseReading(x, (Of(target[x]) \cap kept \cap By(subject[x])) \ hidden)

\* What the sweep and the other erasures hold by name and may write back.
HeldByName(x) ==
    (sweepKept \ sweepHidden)
    \cup UNION {eraseKept[y] \ eraseHidden[y] : y \in Eraser \ {x}}

EraseWrite(x) ==
    /\ erasing[x] = "write"
    /\ kept' = (kept \ Of(target[x])) \cup eraseKept[x]
    /\ hidden' = (hidden \ eraseKept[x]) \cup (eraseKept[x] \cap eraseHidden[x])
    /\ promised' = promised \cup (eraseKept[x] \cap By(subject[x]))
    /\ reread' = reread \cup (HeldByName(x) \cap By(subject[x]))
    /\ NextList(x)
    /\ eraseKept' = [eraseKept EXCEPT ![x] = {}]
    /\ eraseHidden' = [eraseHidden EXCEPT ![x] = {}]
    /\ UNCHANGED <<event, old, consents, sweep, faults, exposed>>

\* The connector restarts: the sweep and the handlers are gone, the lists and
\* records stay.
Restart ==
    /\ faults < MaxFaults /\ faults' = faults + 1
    /\ sweeping' = FALSE /\ sweepKept' = {} /\ sweepHidden' = {}
    /\ pending' = {} /\ cut' = cut \cup {p.user : p \in pending}
    /\ UNCHANGED <<lists, consent, eraser, exposed, erasure>>

\* The operator's tool is a process of its own and may be stopped too.
EraseDies(x) ==
    /\ faults < MaxFaults /\ faults' = faults + 1
    /\ erasing[x] # "idle"
    /\ erasing' = [erasing EXCEPT ![x] = "idle"]
    /\ target' = [target EXCEPT ![x] = "approval"]
    /\ subject' = [subject EXCEPT ![x] = NoUser]
    /\ eraseKept' = [eraseKept EXCEPT ![x] = {}]
    /\ eraseHidden' = [eraseHidden EXCEPT ![x] = {}]
    /\ UNCHANGED <<lists, consents, sweep, exposed, erasure>>

Next ==
    \/ \E e \in Event : \/ \E u \in User : Decide(e, u)
                         \/ \E p \in pending : LogConsent(e, p)
                         \/ GrowOld(e)
    \/ \E u \in Consenting : Agree(u) \/ Revoke(u)
    \/ \E x \in Eraser : \/ \E u \in User : EraseBegin(x, u)
                          \/ EraseRead(x) \/ EraseWrite(x) \/ EraseDies(x)
    \/ SweepRead \/ SweepWrite
    \/ Restart

Spec == Init /\ [][Next]_vars

\* The watcher runs the sweep every so many ticks, and its calls return.
FairSpec == Spec /\ WF_vars(SweepRead) /\ WF_vars(SweepWrite)

-----------------------------------------------------------------------------
(* Safety. *)

\* An entry leaves the audit trail only when it expires or when it was
\* appended between a rewriter's LRANGE and its transaction: whatever else
\* the sweep, the erasures and restarts do together, nothing else is lost.
LossOnlyInWindow ==
    \A l \in Log : \A e \in Of(l) \ kept :
        e \in exposed \/ (l = "approval" /\ e \in old)

\* A name erase_user has replaced, or found replaced, stays replaced: only a
\* rewriter that had read it before, the sweep or another user's erasure, may
\* write it back.
ErasureHolds == promised \cap kept \subseteq hidden \cup reread

\* A consent in force has its entry in the trail, or is about to: only a
\* handler that died, or an erasure rewriting the list, can leave it without.
ConsentOnRecord ==
    \A u \in consent :
        \/ \E e \in By(u) \cap (kept \cup exposed) : event[e].says = "agreed"
        \/ [user |-> u, says |-> "agreed"] \in pending
        \/ u \in cut

(* The inductive invariant behind them. *)

\* A copy of a list lacks nothing that was in it, but what came in since.
CopyInv ==
    /\ sweeping => \A e \in Of("approval") \ sweepKept : e \in exposed \cup old
    /\ \A x \in Eraser : erasing[x] = "write" =>
          /\ eraseKept[x] \subseteq Of(target[x])
          /\ \A e \in Of(target[x]) \ eraseKept[x] :
                e \in exposed \/ (target[x] = "approval" /\ e \in old)
    /\ sweepKept \subseteq Of("approval")

\* Nor does it name anybody erased before it was read.
NameInv ==
    /\ sweeping => promised \cap sweepKept \subseteq sweepHidden \cup reread
    /\ \A x \in Eraser : erasing[x] = "write" =>
          /\ promised \cap eraseKept[x] \subseteq eraseHidden[x] \cup reread
          /\ eraseKept[x] \cap By(subject[x]) \subseteq eraseHidden[x]

\* Names are replaced by erasures only.
PseudonymInv ==
    /\ hidden \subseteq promised /\ sweepHidden \subseteq promised
    /\ \A x \in Eraser : erasing[x] = "write" =>
          eraseHidden[x] \subseteq promised \cup (eraseKept[x] \cap By(subject[x]))

\* Only entries ever appended are in the lists, and only approvals expire.
EntryInv ==
    /\ kept \cup promised \subseteq Of("approval") \cup Of("consent")
    /\ old \subseteq Of("approval")
    /\ \A e \in Of("approval") : event[e].says = "decided"

IInv == TypeOK /\ CopyInv /\ NameInv /\ PseudonymInv /\ EntryInv
            /\ LossOnlyInWindow /\ ErasureHolds /\ ConsentOnRecord

(* Liveness. *)

\* An expired entry does not outlive the sweeps: erasures that write a copy
\* of it back, and restarts in the middle, only delay its removal.
RetentionReached == \A e \in Event : e \in old ~> e \notin kept
=============================================================================
