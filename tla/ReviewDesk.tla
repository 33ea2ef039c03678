----------------------------- MODULE ReviewDesk -----------------------------
(***************************************************************************)
(* What the review screens keep beside a job's record: the course's        *)
(* pending set, the cached score, the instructor's edited HTML, and the    *)
(* privacy (PII) decision that Reflow Core waits for.                      *)
(*                                                                         *)
(* JobLifecycle takes put_job for its SET.  Here it is the three calls it  *)
(* is: SET of the record, DEL of the score, SADD or SREM of the pending    *)
(* set.  Handlers of api/canvas_panorama.py and api/canvas_review.py, the  *)
(* bridge and the retention sweep interleave at every await; none of them  *)
(* locks anything.                                                         *)
(*                                                                         *)
(* Bodies are abstract: only the edits are told apart, and of a score only *)
(* whether one is cached.                                                  *)
(***************************************************************************)
EXTENDS Naturals, FiniteSets

CONSTANTS
    Job,        \* Reflow job ids
    Request,    \* handler invocations that can be open at once
    Edit,       \* bodies an instructor may save
    Ops,        \* operations the open handlers may perform
    Expirable,  \* jobs that may pass the retention cutoff: bound on time
    Removable,  \* jobs whose Canvas file faculty may delete
    MaxFaults,  \* bound on failed calls and restarts
    NoJob,      \* "no job"
    NoBody      \* no edited HTML, or no body at hand

Decision == {"approved", "denied"}
\* Operations that write the record; those of the overlay are audited.
Audited == {"approve", "reject", "request_edits"}
Transitions == Audited \cup {"convert", "review_approve", "review_reject"}
\* Requests that only read.
Reading == {"score", "view", "preview"}
AllOps == Transitions \cup Decision \cup Reading \cup {"edit", "revert", "delete"}

ASSUME RequestAssumption == Request \cap {"bridge", "sweeper"} = {}
ASSUME OpsAssumption == Ops \subseteq AllOps
ASSUME BoundAssumption == MaxFaults \in Nat /\ Expirable \cup Removable \subseteq Job
ASSUME BodyAssumption == NoBody \notin Edit
ASSUME NullAssumption == NoJob \notin Job

VARIABLES
    rec,        \* status of each job's record, "absent" without a key
    pending,    \* the course's pending set
    score,      \* the score cache: the jobs that have one
    edited,     \* canvas:edited:{job_id}
    upstream,   \* Reflow Core's status of each job
    logged,     \* PII decisions in the approval audit list
    proc,       \* every process: where it is and what it holds
    faults,     \* faults so far
    decided,    \* history: the decision Reflow Core carried out
    approved,   \* history: jobs an instructor asked to publish
    served,     \* history: jobs sent to a reader without a preview
    basis,      \* history: the record's status a cached score was computed under
    torn,       \* history: put_jobs of this job overlapped or were cut
    raced,      \* history: a score was computed across a status change
    cut,        \* history: a fault fell between a decision and its audit entry
    left        \* history: jobs deleted, every DEL done, with nobody else at work

vars == <<rec, pending, score, edited, upstream, logged, proc, faults,
          decided, approved, served, basis, torn, raced, cut, left>>

store == <<rec, pending, score, edited>>
core == <<upstream, decided>>
history == <<approved, served, basis, torn, raced, cut, left>>

Status == {"processing", "awaiting_approval", "awaiting_review", "published",
           "rejected", "failed"}
Awaiting == {"awaiting_review", "awaiting_approval"}
Pollable == {"processing", "awaiting_review", "failed", "awaiting_approval"}
Upstream == {"working", "awaiting_approval", "resumed", "completed", "failed",
             "denied"}
Body == Edit \cup {NoBody}

At == {"idle", "file", "purge", "unqueue", "upstream", "put", "uncache", "index",
       "audit", "resolve", "render", "serve", "cache", "gate",
       "save", "revert", "forward", "token", "decide",
       "forget", "forget_edit", "forget_score",
       "unindex", "drop", "drop_edit"}
ProcState == [at : At, op : AllOps \cup {"none"}, job : Job \cup {NoJob},
              status : Status \cup {"absent"}, body : Body]
Proc == {"bridge", "sweeper"} \cup Request
Idle == [at |-> "idle", op |-> "none", job |-> NoJob, status |-> "absent",
         body |-> NoBody]

TypeOK ==
    /\ rec \in [Job -> Status \cup {"absent"}]
    /\ pending \subseteq Job
    /\ score \subseteq Job
    /\ edited \in [Job -> Body]
    /\ upstream \in [Job -> Upstream]
    /\ logged \in [Job -> SUBSET Decision]
    /\ proc \in [Proc -> ProcState]
    /\ faults \in 0..MaxFaults
    /\ decided \in [Job -> Decision \cup {"none"}]
    /\ approved \subseteq Job /\ served \subseteq Job
    /\ basis \in [Job -> Status \cup {"absent"}]
    /\ torn \subseteq Job /\ raced \subseteq Job
    /\ cut \subseteq Job /\ left \subseteq Job

\* The watcher has just submitted every document and stored its record.
Init ==
    /\ rec = [j \in Job |-> "processing"]
    /\ pending = {}
    /\ score = {}
    /\ edited = [j \in Job |-> NoBody]
    /\ upstream = [j \in Job |-> "working"]
    /\ logged = [j \in Job |-> {}]
    /\ proc = [p \in Proc |-> Idle]
    /\ faults = 0
    /\ decided = [j \in Job |-> "none"]
    /\ approved = {} /\ served = {}
    /\ basis = [j \in Job |-> "absent"]
    /\ torn = {} /\ raced = {} /\ cut = {} /\ left = {}

Start(p, where, o, j, s, b) ==
    proc' = [proc EXCEPT ![p] = [at |-> where, op |-> o, job |-> j,
                                 status |-> s, body |-> b]]
Goto(p, where) == proc' = [proc EXCEPT ![p].at = where]
Finish(p) == proc' = [proc EXCEPT ![p] = Idle]
Fault == faults < MaxFaults /\ faults' = faults + 1

\* DEL of j's cached score.
NoScore(j) == /\ score' = score \ {j}
              /\ basis' = [basis EXCEPT ![j] = "absent"]
              /\ raced' = raced \ {j}

\* p is between two of the calls that write j's record and its index.
Writing(p, j) == /\ proc[p].job = j
                 /\ proc[p].at \in {"uncache", "index", "drop", "unqueue"}

\* p knows j's record and may still write something of j.
Holds(p, j) == proc[p].job = j /\ proc[p].op \notin Reading

(***************************************************************************)
(* Reflow Core.  A document pauses for a privacy decision at most once.    *)
(***************************************************************************)
UpstreamStep(j) ==
    /\ \/ /\ upstream[j] = "working"
          /\ \E u \in {"awaiting_approval", "completed", "failed"} :
                upstream' = [upstream EXCEPT ![j] = u]
       \/ /\ upstream[j] = "resumed"
          /\ upstream' = [upstream EXCEPT ![j] = "completed"]
    /\ UNCHANGED <<store, logged, proc, faults, decided, history>>

(***************************************************************************)
(* put_job, call by call.                                                  *)
(***************************************************************************)

\* SET of the whole record.
PutRecord(p) ==
    LET j == proc[p].job
    IN  /\ proc[p].at = "put"
        /\ rec' = [rec EXCEPT ![j] = proc[p].status]
        /\ torn' = IF \E q \in Proc : Writing(q, j) THEN torn \cup {j}
                                                    ELSE torn \ {j}
        /\ Goto(p, "uncache")
        /\ UNCHANGED <<pending, score, edited, core, logged, faults, approved,
                       served, basis, raced, cut, left>>

\* Mutant: the score cache is left alone.
DropScoreNever(p) ==
    /\ proc[p].at = "uncache"
    /\ Goto(p, "index")
    /\ UNCHANGED <<store, core, logged, faults, history>>

\* DEL of the cached score; a failure is swallowed.
DropScore(p) ==
    LET j == proc[p].job
    IN  /\ proc[p].at = "uncache"
        /\ \/ NoScore(j) /\ UNCHANGED faults
           \/ /\ Fault
              /\ raced' = IF j \in score THEN raced \cup {j} ELSE raced
              /\ UNCHANGED <<score, basis>>
        /\ Goto(p, "index")
        /\ UNCHANGED <<rec, pending, edited, core, logged, approved, served,
                       torn, cut, left>>

\* What follows put_job: the handlers of the overlay append an audit event.
AfterPut(p) == IF proc[p].op \in Audited THEN Goto(p, "audit") ELSE Finish(p)

\* Mutant: only jobs awaiting review are indexed.
IndexReviewsOnly(p) ==
    LET j == proc[p].job
    IN  /\ proc[p].at = "index"
        /\ pending' = IF proc[p].status = "awaiting_review"
                      THEN pending \cup {j} ELSE pending \ {j}
        /\ AfterPut(p)
        /\ UNCHANGED <<rec, score, edited, core, logged, faults, history>>

\* SADD or SREM of the pending set, by the status just written.
Index(p) ==
    LET j == proc[p].job
    IN  /\ proc[p].at = "index"
        /\ pending' = IF proc[p].status \in Awaiting
                      THEN pending \cup {j} ELSE pending \ {j}
        /\ AfterPut(p)
        /\ UNCHANGED <<rec, score, edited, core, logged, faults, history>>

PutStep(p) == PutRecord(p) \/ DropScore(p) \/ Index(p)

(***************************************************************************)
(* The bridge's tick over one job, and the retention sweep.                *)
(***************************************************************************)
BridgeRead(j) ==
    /\ proc["bridge"].at = "idle"
    /\ rec[j] \in Pollable
    /\ Start("bridge", "file", "none", j, rec[j], NoBody)
    /\ UNCHANGED <<store, core, logged, faults, history>>

\* Canvas is asked for the file first.  A 404 purges the job; any other
\* refusal is passed over.
BridgeFile ==
    /\ proc["bridge"].at = "file"
    /\ \/ Goto("bridge", "upstream")
       \/ proc["bridge"].job \in Removable /\ Goto("bridge", "purge")
    /\ UNCHANGED <<store, core, logged, faults, history>>

\* purge_job: DEL of the record, then SREM.  Its other keys are CourseIntake's.
BridgePurge ==
    LET j == proc["bridge"].job
    IN  /\ \/ /\ proc["bridge"].at = "purge"
              /\ rec' = [rec EXCEPT ![j] = "absent"]
              /\ Goto("bridge", "unqueue")
              /\ UNCHANGED pending
           \/ /\ proc["bridge"].at = "unqueue"
              /\ pending' = pending \ {j}
              /\ Finish("bridge")
              /\ UNCHANGED rec
        /\ UNCHANGED <<score, edited, core, logged, faults, history>>

\* The status _drive_job writes, if any.  An awaiting_review job whose Page
\* is missing is driven again; pages themselves are in JobLifecycle.
BridgeDecide ==
    LET j == proc["bridge"].job
        was == proc["bridge"].status
        u == upstream[j]
        Write(s) == proc' = [proc EXCEPT !["bridge"].at = "put",
                                         !["bridge"].status = s]
    IN  /\ proc["bridge"].at = "upstream"
        /\ \/ u \in {"failed", "denied"} /\ was # "failed" /\ Write("failed")
           \/ u \in {"failed", "denied"} /\ was = "failed" /\ Finish("bridge")
           \/ u = "completed" /\ Write("awaiting_review")
           \/ u = "completed" /\ was = "awaiting_review" /\ Finish("bridge")
           \/ /\ u = "awaiting_approval" /\ was # "awaiting_approval"
              /\ Write("awaiting_approval")
           \/ /\ u = "awaiting_approval" /\ was = "awaiting_approval"
              /\ Finish("bridge")
           \/ u \in {"working", "resumed"} /\ Finish("bridge")
        /\ UNCHANGED <<store, core, logged, faults, history>>

\* purge_old_canvas_records on an expired job: SREM, DEL, clear_edited_html.
SweepRead(j) ==
    /\ proc["sweeper"].at = "idle"
    /\ j \in Expirable
    /\ rec[j] # "absent"
    /\ Start("sweeper", "unindex", "none", j, "absent", NoBody)
    /\ UNCHANGED <<store, core, logged, faults, history>>

SweepStep ==
    LET j == proc["sweeper"].job
    IN  /\ \/ /\ proc["sweeper"].at = "unindex"
              /\ pending' = pending \ {j}
              /\ Goto("sweeper", "drop")
              /\ UNCHANGED <<rec, edited>>
           \/ /\ proc["sweeper"].at = "drop"
              /\ rec' = [rec EXCEPT ![j] = "absent"]
              /\ Goto("sweeper", "drop_edit")
              /\ UNCHANGED <<pending, edited>>
           \/ /\ proc["sweeper"].at = "drop_edit"
              /\ edited' = [edited EXCEPT ![j] = NoBody]
              /\ Finish("sweeper")
              /\ UNCHANGED <<rec, pending>>
        /\ UNCHANGED <<score, core, logged, faults, history>>

(***************************************************************************)
(* Handlers.                                                               *)
(***************************************************************************)

\* Session, role, course, CSRF and origin are passed and the record is read;
\* r goes on to its first await.
Enter(r, o, j, where, s, b) ==
    /\ proc[r].at = "idle"
    /\ o \in Ops
    /\ rec[j] # "absent"
    /\ Start(r, where, o, j, s, b)
    /\ UNCHANGED <<store, core, logged, faults, served, basis, torn, raced,
                   cut, left>>

Admit(r, o, j, where, s, b) ==
    Enter(r, o, j, where, s, b) /\ UNCHANGED approved

\* A request to publish.
Publishing(r, o, j, where) ==
    /\ Enter(r, o, j, where, "published", NoBody)
    /\ approved' = approved \cup {j}

\* approve_job takes any job that has not failed.
Approve(r, j) == rec[j] # "failed" /\ Publishing(r, "approve", j, "resolve")

\* The review screen's approve: any status, no WCAG check, no audit event.
ReviewApprove(r, j) == Publishing(r, "review_approve", j, "put")

Reject(r, j) == Admit(r, "reject", j, "put", "rejected", NoBody)

\* The review screen's reject: no audit event.
ReviewReject(r, j) == Admit(r, "review_reject", j, "put", "rejected", NoBody)

\* request_edits; unpublish_job writes the same.
RequestEdits(r, j) == Admit(r, "request_edits", j, "put", "awaiting_review", NoBody)

\* convert_file on a document that has a job.
Convert(r, j) ==
    rec[j] # "processing" /\ Admit(r, "convert", j, "put", "processing", NoBody)

PutEdit(r, j) == \E b \in Edit : Admit(r, "edit", j, "save", "absent", b)

DeleteEdit(r, j) == Admit(r, "revert", j, "revert", "absent", NoBody)

PiiDecision(r, j) ==
    \E d \in Decision : Admit(r, d, j, "forward", "absent", NoBody)

DeleteJob(r, j) == Admit(r, "delete", j, "forget", "absent", NoBody)

\* Mutant: a version still under review is served.
AltFormatUnapproved(r, j) ==
    /\ rec[j] \in {"published", "awaiting_review"}
    /\ Admit(r, "view", j, "gate", "absent", NoBody)

\* A format is asked for; drafts answer 403.
AltFormat(r, j) ==
    rec[j] = "published" /\ Admit(r, "view", j, "gate", "absent", NoBody)

\* With ?preview=1 or an instructor's session the status is not looked at.
Preview(r, j) == Admit(r, "preview", j, "gate", "absent", NoBody)

\* The overlay asks for a score that is not cached; the record is not needed.
Score(r, j) ==
    /\ proc[r].at = "idle"
    /\ "score" \in Ops
    /\ j \notin score
    /\ Start(r, "resolve", "score", j, rec[j], NoBody)
    /\ UNCHANGED <<store, core, logged, faults, history>>

Open(r, j) ==
    \/ Approve(r, j) \/ ReviewApprove(r, j)
    \/ Reject(r, j) \/ ReviewReject(r, j)
    \/ RequestEdits(r, j) \/ Convert(r, j)
    \/ PutEdit(r, j) \/ DeleteEdit(r, j) \/ PiiDecision(r, j)
    \/ DeleteJob(r, j) \/ AltFormat(r, j) \/ Preview(r, j) \/ Score(r, j)

\* _maybe_pii_gate_response: a paused document answers with the privacy
\* form; when Reflow cannot be asked, rendering goes on.
PiiGate(r) ==
    LET j == proc[r].job
    IN  /\ proc[r].at = "gate"
        /\ \/ upstream[j] = "awaiting_approval" /\ Finish(r) /\ UNCHANGED faults
           \/ upstream[j] # "awaiting_approval" /\ Goto(r, "resolve") /\ UNCHANGED faults
           \/ Fault /\ Goto(r, "resolve")
        /\ UNCHANGED <<store, core, logged, history>>

\* Where _resolve_html's callers go with the body.  The WCAG gate and the
\* checklist let every approval through: require_wcag_gate is no field of
\* Settings, so approve_job's getattr yields its default, False.
AfterResolve(r) ==
    \/ proc[r].op = "approve" /\ Goto(r, "put")
    \/ proc[r].op = "score" /\ Goto(r, "cache")
    \/ proc[r].op \in {"view", "preview"} /\ Goto(r, "serve")

\* _resolve_html: an edit if there is one.
ResolveEdit(r) ==
    /\ proc[r].at = "resolve"
    /\ IF edited[proc[r].job] # NoBody THEN AfterResolve(r) ELSE Goto(r, "render")
    /\ UNCHANGED <<store, core, logged, faults, history>>

\* No body: the score is "unscanned", an approval goes on unchecked, a reader
\* gets the error.
Unresolved(r) ==
    \/ proc[r].op = "score" /\ Goto(r, "cache")
    \/ proc[r].op = "approve" /\ Goto(r, "put")
    \/ proc[r].op \in {"view", "preview"} /\ Finish(r)

\* _build_canonical_html: Reflow's markdown, once the job is completed.
ResolveCanonical(r) ==
    /\ proc[r].at = "render"
    /\ \/ /\ upstream[proc[r].job] = "completed"
          /\ AfterResolve(r)
          /\ UNCHANGED faults
       \/ /\ upstream[proc[r].job] # "completed"
          /\ Unresolved(r)
          /\ UNCHANGED faults
       \/ Fault /\ Unresolved(r)
    /\ UNCHANGED <<store, core, logged, history>>

Serve(r) ==
    /\ proc[r].at = "serve"
    /\ served' = IF proc[r].op = "view" THEN served \cup {proc[r].job} ELSE served
    /\ Finish(r)
    /\ UNCHANGED <<store, core, logged, faults, approved, basis, torn, raced,
                   cut, left>>

\* _build_score_payload: SET of the computed score, for a day.
CacheScore(r) ==
    LET j == proc[r].job
    IN  /\ proc[r].at = "cache"
        /\ score' = score \cup {j}
        /\ basis' = [basis EXCEPT ![j] = proc[r].status]
        /\ raced' = IF proc[r].status # rec[j] THEN raced \cup {j}
                                               ELSE raced \ {j}
        /\ Finish(r)
        /\ UNCHANGED <<rec, pending, edited, core, logged, faults, approved,
                       served, torn, cut, left>>

\* The cached score expires.
ExpireScore(j) ==
    /\ j \in score
    /\ NoScore(j)
    /\ UNCHANGED <<rec, pending, edited, core, logged, proc, faults, approved,
                   served, torn, cut, left>>

\* put_edit's and delete_edit's one write.
SaveEdit(r) ==
    /\ proc[r].at \in {"save", "revert"}
    /\ edited' = [edited EXCEPT ![proc[r].job] = proc[r].body]
    /\ Finish(r)
    /\ UNCHANGED <<rec, pending, score, core, logged, faults, history>>

(***************************************************************************)
(* The privacy decision (pii_decision, submit_pii_decision).               *)
(***************************************************************************)

\* Reflow Core carries out p's decision.
CarryOut(r) ==
    LET j == proc[r].job
        d == proc[r].op
    IN  /\ upstream' = [upstream EXCEPT ![j] =
                           IF d = "approved" THEN "resumed" ELSE "denied"]
        /\ decided' = [decided EXCEPT ![j] = d]

\* Mutant: a decision taken by job id is not audited.
ForwardUnlogged(r) ==
    LET j == proc[r].job
    IN  /\ proc[r].at = "forward"
        /\ \/ Goto(r, "token") /\ UNCHANGED core
           \/ upstream[j] = "awaiting_approval" /\ CarryOut(r) /\ Finish(r)
           \/ upstream[j] # "awaiting_approval" /\ Finish(r) /\ UNCHANGED core
        /\ UNCHANGED <<store, logged, faults, history>>

\* POST by job id.  A Core without the endpoint answers 404 or 405 and the
\* client asks for a token; a document no longer paused answers 409.
Forward(r) ==
    LET j == proc[r].job
    IN  /\ proc[r].at = "forward"
        /\ \/ Goto(r, "token") /\ UNCHANGED core
           \/ upstream[j] = "awaiting_approval" /\ CarryOut(r) /\ Goto(r, "audit")
           \/ upstream[j] # "awaiting_approval" /\ Finish(r) /\ UNCHANGED core
        /\ UNCHANGED <<store, logged, faults, history>>

\* The status carries a token while the document is paused; none is a 409.
FetchToken(r) ==
    /\ proc[r].at = "token"
    /\ IF upstream[proc[r].job] = "awaiting_approval" THEN Goto(r, "decide")
                                                       ELSE Finish(r)
    /\ UNCHANGED <<store, core, logged, faults, history>>

\* Mutant: a conflict is taken for success.
ForwardByTokenOnce(r) ==
    /\ proc[r].at = "decide"
    /\ IF upstream[proc[r].job] = "awaiting_approval" THEN CarryOut(r)
                                                       ELSE UNCHANGED core
    /\ Goto(r, "audit")
    /\ UNCHANGED <<store, logged, faults, history>>

\* POST by token: used or stale tokens answer 404 or 409.
ForwardByToken(r) ==
    /\ proc[r].at = "decide"
    /\ IF upstream[proc[r].job] = "awaiting_approval"
       THEN CarryOut(r) /\ Goto(r, "audit")
       ELSE Finish(r) /\ UNCHANGED core
    /\ UNCHANGED <<store, logged, faults, history>>

\* Core carries the decision out and its answer is lost: 502, no event.
ReplyLost(r) ==
    /\ proc[r].at \in {"forward", "decide"}
    /\ upstream[proc[r].job] = "awaiting_approval"
    /\ Fault
    /\ CarryOut(r)
    /\ cut' = cut \cup {proc[r].job}
    /\ Finish(r)
    /\ UNCHANGED <<store, logged, approved, served, basis, torn, raced, left>>

\* append_approval_event.
AppendEvent(r) ==
    /\ proc[r].at = "audit"
    /\ logged' = IF proc[r].op \in Decision
                 THEN [logged EXCEPT ![proc[r].job] = @ \cup {proc[r].op}]
                 ELSE logged
    /\ Finish(r)
    /\ UNCHANGED <<store, core, faults, history>>

(***************************************************************************)
(* delete_job_and_derivatives: the record, the edit, the score.            *)
(***************************************************************************)

\* Mutant: the edited HTML is not among the keys.
ForgetStepKeepingEdit(r) ==
    LET j == proc[r].job
    IN  /\ \/ /\ proc[r].at = "forget"
              /\ rec' = [rec EXCEPT ![j] = "absent"]
              /\ left' = IF \E p \in Proc \ {r} : Holds(p, j)
                         THEN left ELSE left \cup {j}
              /\ Goto(r, "forget_score")
              /\ UNCHANGED <<score, basis, raced, faults>>
           \/ /\ proc[r].at = "forget_score"
              /\ NoScore(j)
              /\ Goto(r, "audit")
              /\ UNCHANGED <<rec, left, faults>>
        /\ UNCHANGED <<pending, edited, core, logged, approved, served, torn, cut>>

\* A DEL that fails is logged and the next key is tried.
ForgetStep(r) ==
    LET j == proc[r].job
    IN  /\ \/ /\ proc[r].at = "forget"
              /\ Goto(r, "forget_edit")
              /\ UNCHANGED <<edited, score, basis, raced>>
              /\ \/ /\ rec' = [rec EXCEPT ![j] = "absent"]
                    /\ left' = IF \E p \in Proc \ {r} : Holds(p, j)
                               THEN left ELSE left \cup {j}
                    /\ UNCHANGED faults
                 \/ Fault /\ UNCHANGED <<rec, left>>
           \/ /\ proc[r].at = "forget_edit"
              /\ Goto(r, "forget_score")
              /\ UNCHANGED <<rec, score, basis, raced>>
              /\ \/ /\ edited' = [edited EXCEPT ![j] = NoBody]
                    /\ UNCHANGED <<left, faults>>
                 \/ Fault /\ left' = left \ {j} /\ UNCHANGED edited
           \/ /\ proc[r].at = "forget_score"
              /\ Goto(r, "audit")
              /\ UNCHANGED <<rec, edited, left>>
              /\ \/ NoScore(j) /\ UNCHANGED faults
                 \/ Fault /\ UNCHANGED <<score, basis, raced>>
        /\ UNCHANGED <<pending, core, logged, approved, served, torn, cut>>

HandlerStep(r) ==
    \/ PutStep(r)
    \/ PiiGate(r) \/ ResolveEdit(r) \/ ResolveCanonical(r)
    \/ Serve(r) \/ CacheScore(r) \/ SaveEdit(r)
    \/ Forward(r) \/ FetchToken(r) \/ ForwardByToken(r)
    \/ AppendEvent(r) \/ ForgetStep(r)

(***************************************************************************)
(* Faults.                                                                 *)
(***************************************************************************)

\* What is left behind by processes that stop where they are.
Drop(P) ==
    /\ torn' = torn \cup {j \in Job : \E p \in P : Writing(p, j)}
    /\ raced' = raced \cup {j \in score : \E p \in P :
                               proc[p].job = j /\ proc[p].at = "uncache"}
    /\ cut' = cut \cup {j \in Job : \E p \in P :
                           /\ proc[p].job = j /\ proc[p].at = "audit"
                           /\ proc[p].op \in Decision}
    /\ left' = left \ {j \in Job : \E p \in P :
                          proc[p].job = j /\ proc[p].at = "forget_edit"}

\* An await raises: p gives up.
Abort(p) ==
    /\ proc[p].at # "idle"
    /\ Fault
    /\ Drop({p})
    /\ Finish(p)
    /\ UNCHANGED <<store, core, logged, approved, served, basis>>

\* The connector is restarted.
Restart ==
    /\ \E p \in Proc : proc[p].at # "idle"
    /\ Fault
    /\ Drop(Proc)
    /\ proc' = [p \in Proc |-> Idle]
    /\ UNCHANGED <<store, core, logged, approved, served, basis>>

\* The bridge goes on with the job it holds.
BridgeWork == BridgeFile \/ BridgePurge \/ BridgeDecide \/ PutStep("bridge")

BridgeStep == (\E j \in Job : BridgeRead(j)) \/ BridgeWork

Next ==
    \/ BridgeStep
    \/ SweepStep
    \/ \E j \in Job : UpstreamStep(j) \/ SweepRead(j) \/ ExpireScore(j)
    \/ \E r \in Request :
          \/ HandlerStep(r) \/ ReplyLost(r)
          \/ \E j \in Job : Open(r, j)
    \/ \E p \in Proc : Abort(p)
    \/ Restart

Spec == Init /\ [][Next]_vars

\* Each tick of the bridge goes through every pollable job, and the event
\* loop resumes whatever awaits.
Fairness == /\ \A j \in Job : SF_vars(BridgeRead(j))
            /\ WF_vars(BridgeWork)
            /\ \A r \in Request : WF_vars(HandlerStep(r))
FairSpec == Spec /\ Fairness

-----------------------------------------------------------------------------
(***************************************************************************)
(* Properties.                                                             *)
(***************************************************************************)

\* The queue instructors work from lists a job exactly while its record asks
\* for a decision, unless two put_jobs of the job overlapped or one was cut
\* short.  A restart between a purge's DEL and its SREM leaves the id of a record
\* that is gone, which list_pending passes over and the next put_job of the job
\* puts right (put_job, purge_job, list_pending).
PendingAgrees ==
    \A j \in Job \ torn :
        rec[j] # "absent" /\ ~(\E p \in Proc : Writing(p, j)) =>
            (j \in pending <=> rec[j] \in Awaiting)

\* A cached score was computed under the status the record has now, unless a
\* score was cached across a change of status or a DEL failed: put_job's DEL
\* is what keeps a day-old cache from showing a state the job has left.
ScoreFollowsRecord ==
    \A j \in score \ raced :
        /\ rec[j] # "absent"
        /\ ~(\E p \in Proc : proc[p].job = j /\ proc[p].at = "uncache")
        => basis[j] = rec[j]

\* The audit trail names no privacy decision but the one Reflow carried out,
\* whichever of two instructors came first and by whichever endpoint.
AuditTellsTheDecision == \A j \in Job : logged[j] \subseteq {decided[j]}

\* A privacy decision Reflow carried out is in the audit trail or about to be,
\* unless a fault fell between the two (pii_decision).
DecisionRecorded ==
    \A j \in Job \ cut :
        decided[j] # "none" =>
            \/ decided[j] \in logged[j]
            \/ \E r \in Request : /\ proc[r].at = "audit" /\ proc[r].job = j
                                  /\ proc[r].op = decided[j]

\* A job deleted while nobody else worked on it stays deleted, and its edited
\* HTML with it (delete_job).
DeletionForgets ==
    \A j \in left :
        /\ rec[j] = "absent"
        /\ edited[j] # NoBody =>
              \E r \in Request : proc[r].at = "forget_edit" /\ proc[r].job = j

\* Without a preview no reader is sent anything of a job no instructor asked to
\* publish, by whichever endpoint, and whoever else writes the record while the
\* request is under way (alt_format's draft gate).
ServedWasApproved == served \subseteq approved

\* A document Reflow has paused for a privacy decision comes into the queue,
\* unless it is decided or closed first or its put_jobs were torn.
PiiWaitReachesQueue ==
    \A j \in Job :
        upstream[j] = "awaiting_approval" ~>
            \/ upstream[j] # "awaiting_approval"
            \/ rec[j] \in {"published", "rejected", "absent"}
            \/ rec[j] = "awaiting_approval" /\ j \in pending
            \/ j \in torn

-----------------------------------------------------------------------------
(***************************************************************************)
(* The inductive invariant.                                                *)
(***************************************************************************)

\* Handlers of o pass through the await w.
Passes(o, w) ==
    \/ o \in Transitions /\ w \in {"put", "uncache", "index"}
    \/ o \in {"approve"} \cup Reading /\ w \in {"resolve", "render"}
    \/ o = "score" /\ w = "cache"
    \/ o \in {"view", "preview"} /\ w \in {"gate", "serve"}
    \/ o = "edit" /\ w = "save"
    \/ o = "revert" /\ w = "revert"
    \/ o \in Decision /\ w \in {"forward", "token", "decide"}
    \/ o = "delete" /\ w \in {"forget", "forget_edit", "forget_score"}
    \/ o \in Audited \cup Decision \cup {"delete"} /\ w = "audit"

\* Who can be where, with what in hand.
Shape ==
    /\ \A p \in Proc : proc[p].at # "idle" => proc[p].job \in Job
    /\ proc["bridge"].at \in {"idle", "file", "purge", "unqueue", "upstream",
                              "put", "uncache", "index"}
    /\ proc["bridge"].op = "none"
    /\ proc["sweeper"].at \in {"idle", "unindex", "drop", "drop_edit"}
    /\ proc["sweeper"].op = "none"
    /\ \A r \in Request :
          /\ proc[r].at # "idle" => Passes(proc[r].op, proc[r].at)
          /\ proc[r].op = "approve" => proc[r].status = "published"
    /\ \A p \in Proc : proc[p].at \in {"put", "uncache", "index"} =>
                          proc[p].status \in Status

\* Of a job that is not torn one put_job at most is under way, and what it
\* is about to index is what the record says.
Writers ==
    \A j \in Job \ torn, p \in Proc :
        proc[p].job = j /\ proc[p].at \in {"uncache", "index"} =>
            /\ rec[j] \in {"absent", proc[p].status}
            /\ \A q \in Proc : proc[q].job = j /\ proc[q].at \in {"uncache", "index"}
                               => q = p

\* A decision is carried out once, and audited only by who took it.
Decisions ==
    /\ \A j \in Job : upstream[j] \in {"working", "awaiting_approval"} =>
                         decided[j] = "none"
    /\ \A r \in Request : proc[r].at = "audit" /\ proc[r].op \in Decision =>
                             decided[proc[r].job] = proc[r].op

\* Of a deleted job nothing is at work that could write it again.
Leavers ==
    \A j \in left, p \in Proc :
        Holds(p, j) => proc[p].at \in {"forget_edit", "forget_score", "audit"}

\* Who publishes or serves a job found it approved.
Approvals ==
    /\ \A j \in Job : rec[j] = "published" => j \in approved
    /\ \A p \in Proc : proc[p].op \in {"approve", "review_approve", "view"}
                       => proc[p].job \in approved
    /\ \A r \in Request : proc[r].status = "published" /\ proc[r].at # "idle"
                           => proc[r].op \in {"approve", "review_approve", "score"}
    /\ proc["bridge"].status # "published"

\* A purge between its two calls has left no record but what overlapped it.
Purged ==
    \A p \in Proc : proc[p].at = "unqueue" =>
        rec[proc[p].job] = "absent" \/ proc[p].job \in torn

IInv ==
    /\ TypeOK /\ Shape
    /\ Writers /\ Purged /\ PendingAgrees
    /\ ScoreFollowsRecord
    /\ Decisions /\ AuditTellsTheDecision /\ DecisionRecorded
    /\ Leavers /\ DeletionForgets
    /\ Approvals /\ ServedWasApproved

=============================================================================
