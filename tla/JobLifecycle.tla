---------------------------- MODULE JobLifecycle ----------------------------
(***************************************************************************)
(* The life of a converted document: the job record in Redis, the Canvas   *)
(* wiki Page built for it, and everybody who writes them.                  *)
(*                                                                         *)
(* All writers run on one asyncio loop and share Redis, so they interleave *)
(* at every await.  None of them locks the record: each reads it with      *)
(* get_job, awaits other calls, and writes the whole record back with      *)
(* put_job.  A writer is modelled as a process with a program counter, the *)
(* job it is working on and its private copy of the record; every await    *)
(* that reads or writes shared state is a step of its own.                 *)
(*                                                                         *)
(*   "bridge"   workers/reflow_bridge_worker.py, one job at a time         *)
(*   "sweeper"  sweep_stale_jobs in workers/canvas_watcher.py              *)
(*   Request    HTTP handlers of api/canvas_panorama.py, canvas_review.py  *)
(*                                                                         *)
(* Reflow Core (upstream) and Canvas (page, gone) are environment.  The    *)
(* record keeps the two fields the control flow reads: status and the page *)
(* reference.  put_job is its SET; the pending index and the score cache   *)
(* that put_job maintains after it are left out.                           *)
(***************************************************************************)
EXTENDS Naturals, FiniteSets

CONSTANTS
    Job,        \* Reflow job ids
    File,       \* Canvas file ids
    Title,      \* Page titles, _title_from_filename of the file's name
    FileOf,     \* the file each job converts
    TitleOf,    \* the title each file gets: two files may share one
    Guess,      \* _slugify: the slug the bridge takes a title to have
    Authored,   \* titles an instructor already wrote a public Page for
    Copy,       \* slug suffixes Canvas may use for a title: bound on pages
    Request,    \* handler invocations that can be open at once
    Ops,        \* operations the open handlers may perform
    Cutoffs,    \* age cutoffs that may pass: bound on time
    Removable,  \* files faculty may delete: bound on Canvas
    MaxFaults,  \* bound on failed calls, timeouts and restarts
    NoJob,      \* "no job"
    NoPage      \* canvas_page_url and canvas_page_id empty

Approvals == {"approve", "review_approve"}
Writes == Approvals \cup {"reject", "review_reject", "request_edits",
                          "unpublish", "convert"}
AllOps == Writes \cup {"delete"}

ASSUME FilesAssumption == /\ FileOf \in [Job -> File]
                          /\ TitleOf \in [File -> Title]
                          /\ Authored \subseteq Title
                          /\ Guess \in [Title -> Title \X Copy]
ASSUME CopyAssumption == Copy \subseteq Nat \ {0} /\ 1 \in Copy
ASSUME RequestAssumption == Request \cap {"bridge", "sweeper"} = {}
ASSUME OpsAssumption == Ops \subseteq AllOps
ASSUME BoundsAssumption == /\ Cutoffs \subseteq {"stale", "expired"}
                           /\ Removable \subseteq File
                           /\ MaxFaults \in Nat
ASSUME NullAssumption == NoJob \notin Job /\ NoPage \notin Title \X Copy

VARIABLES
    job,        \* the record of each job; status "absent" when there is no key
    filePage,   \* file-page:{file_id}, the slug remembered for a file
    page,       \* Canvas: is the page at this slug absent, a draft or public
    body,       \* Canvas: whose conversion the page's body is
    gone,       \* Canvas: files deleted by faculty
    upstream,   \* Reflow Core's status of each job; "none" before submission
    age,        \* time since created_at against the two cutoffs
    proc,       \* every writer: where it is and what it holds
    todo,       \* keys the bridge's current SCAN has still to visit
    faults,     \* faults so far
    approved,   \* history: jobs an instructor's approval was carried out for
    firm        \* history: decided jobs nobody had an older copy of

vars == <<job, filePage, page, body, gone, upstream, age, proc, todo, faults,
          approved, firm>>

Status == {"processing", "awaiting_approval", "awaiting_review", "published",
           "rejected", "failed", "page_failed"}
Decided == {"published", "rejected"}
\* Mutant: the bridge also drives published jobs.
PollableAlsoPublished == {"processing", "awaiting_review", "failed",
                          "page_failed", "awaiting_approval", "published"}
\* Mutant: failed jobs are not looked at again.
PollableNotFailed == {"processing", "awaiting_review", "page_failed",
                      "awaiting_approval"}
Pollable == {"processing", "awaiting_review", "failed", "page_failed",
             "awaiting_approval"}
Upstream == {"none", "working", "awaiting_approval", "completed", "failed",
             "denied"}

\* Canvas gives the n-th Page of title t the slug <<t, n>>.
Slug == Title \X Copy

\* Titles whose slug _slugify guesses right: ASCII letters and digits.  It drops
\* every other character, so that it misses the Page of another title, and may
\* name a Page that is not the title's at all ("page", when nothing is left).
Plain == {t \in Title : Guess[t] = <<t, 1>>}

\* The slugs a document of title t may be written to.
Places(t) == {Guess[t]} \cup ({t} \X Copy)
PlacesOf(j) == Places(TitleOf[FileOf[j]])
Record == [status : Status \cup {"absent"}, page : Slug \cup {NoPage}]
Absent == [status |-> "absent", page |-> NoPage]

Proc == {"bridge", "sweeper"} \cup Request
At == {"idle", "file", "purge", "forget", "status", "page", "create",
       "remember", "put", "canvas", "audit", "delete"}
ProcState == [at : At, op : AllOps \cup {"none"}, job : Job \cup {NoJob},
              rec : Record]
Idle == [at |-> "idle", op |-> "none", job |-> NoJob, rec |-> Absent]

TypeOK ==
    /\ job \in [Job -> Record]
    /\ filePage \in [File -> Slug \cup {NoPage}]
    /\ page \in [Slug -> {"absent", "draft", "public"}]
    /\ body \in [Slug -> Job \cup {NoJob}]
    /\ gone \subseteq File
    /\ upstream \in [Job -> Upstream]
    /\ age \in [Job -> {"young", "stale", "expired"}]
    /\ proc \in [Proc -> ProcState]
    /\ todo \subseteq Job
    /\ faults \in 0..MaxFaults
    /\ approved \subseteq Job
    /\ firm \subseteq Job

Init ==
    /\ job = [j \in Job |-> Absent]
    /\ filePage = [f \in File |-> NoPage]
    /\ page = [s \in Slug |-> IF s[1] \in Authored /\ s[2] = 1
                              THEN "public" ELSE "absent"]
    /\ body = [s \in Slug |-> NoJob]
    /\ gone = {}
    /\ upstream = [j \in Job |-> "none"]
    /\ age = [j \in Job |-> "young"]
    /\ proc = [p \in Proc |-> Idle]
    /\ todo = {}
    /\ faults = 0
    /\ approved = {}
    /\ firm = {}

canvasVars == <<filePage, page, body>>
envVars == <<gone, upstream, age>>
historyVars == <<approved, firm>>

(***************************************************************************)
(* Helpers on processes.                                                   *)
(***************************************************************************)
Start(p, where, o, j, rec) ==
    proc' = [proc EXCEPT ![p] = [at |-> where, op |-> o, job |-> j, rec |-> rec]]
Continue(p, where, rec) == Start(p, where, proc[p].op, proc[p].job, rec)
Goto(p, where) == Continue(p, where, proc[p].rec)
Finish(p) == proc' = [proc EXCEPT ![p] = Idle]

\* A copy of a record with its status, or its page, assigned.
WithStatus(rec, s) == [status |-> s, page |-> rec.page]
WithPage(rec, s) == [status |-> rec.status, page |-> s]

\* p has read the record of j and may still write or delete it.
Holds(p, j) ==
    /\ proc[p].job = j
    /\ \/ proc[p].at \in {"file", "purge", "status", "page", "create",
                          "remember", "put", "delete"}
       \/ /\ proc[p].at = "canvas"
          /\ proc[p].op \in {"review_approve", "review_reject"}

\* One more failed call, timeout or restart.
Fault == faults < MaxFaults /\ faults' = faults + 1

(***************************************************************************)
(* Environment: Reflow Core, time, Canvas.                                 *)
(***************************************************************************)

\* The watcher submits a file and stores its record (canvas_watcher._scan_course).
Submit(j) ==
    /\ upstream[j] = "none"
    /\ FileOf[j] \notin gone
    /\ upstream' = [upstream EXCEPT ![j] = "working"]
    /\ job' = [job EXCEPT ![j] = [status |-> "processing", page |-> NoPage]]
    /\ UNCHANGED <<canvasVars, gone, age, proc, todo, faults, historyVars>>

\* Reflow Core moves a document on; a failed one may be replayed by ops.
UpstreamStep(j) ==
    /\ \/ /\ upstream[j] = "working"
          /\ \E u \in {"awaiting_approval", "completed", "failed"} :
                upstream' = [upstream EXCEPT ![j] = u]
       \/ /\ upstream[j] = "awaiting_approval"
          /\ \E u \in {"working", "denied"} :
                upstream' = [upstream EXCEPT ![j] = u]
       \/ /\ upstream[j] = "failed"
          /\ upstream' = [upstream EXCEPT ![j] = "working"]
    /\ UNCHANGED <<job, canvasVars, gone, age, proc, todo, faults, historyVars>>

\* Time passes the stale cutoff and then the retention cutoff.
GrowOld(j) ==
    /\ upstream[j] # "none"
    /\ \/ /\ age[j] = "young" /\ "stale" \in Cutoffs
          /\ age' = [age EXCEPT ![j] = "stale"]
       \/ /\ age[j] = "stale" /\ "expired" \in Cutoffs
          /\ age' = [age EXCEPT ![j] = "expired"]
    /\ UNCHANGED <<job, canvasVars, gone, upstream, proc, todo, faults,
                   historyVars>>

\* A faculty member deletes the PDF in Canvas.
DeleteFile(f) ==
    /\ f \in Removable \ gone
    /\ gone' = gone \cup {f}
    /\ UNCHANGED <<job, canvasVars, upstream, age, proc, todo, faults,
                   historyVars>>

(***************************************************************************)
(* put_job: write the private copy back, whatever the key holds by now.    *)
(***************************************************************************)

\* Where a process goes after its put_job.
AfterPut(o, rec) ==
    IF o \in {"approve", "unpublish"} /\ rec.page # NoPage THEN "canvas"
    ELSE IF o \in {"approve", "unpublish", "reject", "request_edits"} THEN "audit"
    ELSE "idle"

Put(p) ==
    LET j == proc[p].job
        rec == proc[p].rec
        o == proc[p].op
        after == AfterPut(o, rec)
    IN  /\ proc[p].at = "put"
        /\ job' = [job EXCEPT ![j] = rec]
        /\ IF after = "idle" THEN Finish(p) ELSE Goto(p, after)
        /\ approved' = IF o \in Approvals THEN approved \cup {j} ELSE approved
        /\ firm' = IF p \notin Request THEN firm
                   ELSE IF rec.status \in Decided
                           /\ \A q \in Proc \ {p} : ~Holds(q, j)
                   THEN firm \cup {j} ELSE firm \ {j}
        /\ UNCHANGED <<canvasVars, envVars, todo, faults>>

(***************************************************************************)
(* The bridge: one tick scans the job keys, and drives each pollable job.  *)
(***************************************************************************)
TickBegin ==
    /\ proc["bridge"].at = "idle"
    /\ todo = {}
    /\ todo' = {j \in Job : job[j].status # "absent"}
    /\ todo' # {}
    /\ UNCHANGED <<job, canvasVars, envVars, proc, faults, historyVars>>

\* get_job, the _BRIDGE_POLLABLE filter, and the start of _drive_job.
DriveRead(j) ==
    /\ proc["bridge"].at = "idle"
    /\ j \in todo
    /\ todo' = todo \ {j}
    /\ IF job[j].status \in Pollable
       THEN Start("bridge", "file", "none", j, job[j])
       ELSE UNCHANGED proc
    /\ UNCHANGED <<job, canvasVars, envVars, faults, historyVars>>

\* get_file_metadata: only a 404 purges; any other answer goes on.
FileCheck ==
    LET f == FileOf[proc["bridge"].job]
    IN  /\ proc["bridge"].at = "file"
        /\ \/ f \in gone /\ Goto("bridge", "purge") /\ UNCHANGED faults
           \/ f \notin gone /\ Goto("bridge", "status") /\ UNCHANGED faults
           \/ f \in gone /\ Goto("bridge", "status") /\ Fault
        /\ UNCHANGED <<job, canvasVars, envVars, todo, historyVars>>

\* purge_job: DEL the record, then DEL the file-page mapping.
Purge ==
    /\ proc["bridge"].at = "purge"
    /\ job' = [job EXCEPT ![proc["bridge"].job] = Absent]
    /\ Goto("bridge", "forget")
    /\ UNCHANGED <<canvasVars, envVars, todo, faults, historyVars>>

ForgetPage ==
    /\ proc["bridge"].at = "forget"
    /\ filePage' = [filePage EXCEPT ![FileOf[proc["bridge"].job]] = NoPage]
    /\ Finish("bridge")
    /\ UNCHANGED <<job, page, body, envVars, todo, faults, historyVars>>

\* reflow.get_status, and what _drive_job decides from it and its old copy.
ReadStatus ==
    LET j == proc["bridge"].job
        rec == proc["bridge"].rec
        u == upstream[j]
    IN  /\ proc["bridge"].at = "status"
        /\ \/ /\ u \in {"failed", "denied"}
              /\ IF rec.status # "failed"
                 THEN Continue("bridge", "put", WithStatus(rec, "failed"))
                 ELSE Finish("bridge")
           \/ /\ u = "completed"
              /\ IF rec.status = "awaiting_review" /\ rec.page # NoPage
                 THEN Finish("bridge")
                 ELSE Goto("bridge", "page")
           \/ /\ u = "awaiting_approval"
              /\ IF rec.status # "awaiting_approval"
                 THEN Continue("bridge", "put", WithStatus(rec, "awaiting_approval"))
                 ELSE Finish("bridge")
           \/ /\ u = "working"
              /\ Finish("bridge")
        /\ UNCHANGED <<job, canvasVars, envVars, todo, faults, historyVars>>

\* The slug _drive_job tries first: the remembered page, or its guess.
PageRef(j) == IF filePage[FileOf[j]] # NoPage THEN filePage[FileOf[j]]
                                             ELSE Guess[TitleOf[FileOf[j]]]

\* Mutant: without a remembered page no slug is guessed.
WritePageRememberedOnly ==
    LET j == proc["bridge"].job
        s == filePage[FileOf[j]]
    IN  /\ proc["bridge"].at = "page"
        /\ IF s # NoPage /\ page[PageRef(j)] # "absent"
           THEN /\ body' = [body EXCEPT ![s] = j]
                /\ Continue("bridge", "remember", WithPage(proc["bridge"].rec, s))
           ELSE Goto("bridge", "create") /\ UNCHANGED body
        /\ UNCHANGED <<job, filePage, page, envVars, todo, faults, historyVars>>

\* update_page: the body changes, the publish state does not; 404 creates.
WritePage ==
    LET j == proc["bridge"].job
        s == PageRef(j)
    IN  /\ proc["bridge"].at = "page"
        /\ IF page[s] # "absent"
           THEN /\ body' = [body EXCEPT ![s] = j]
                /\ Continue("bridge", "remember", WithPage(proc["bridge"].rec, s))
           ELSE Goto("bridge", "create") /\ UNCHANGED body
        /\ UNCHANGED <<job, filePage, page, envVars, todo, faults, historyVars>>

\* Mutant: the page is created published.
CreatePagePublished ==
    LET j == proc["bridge"].job
    IN  /\ proc["bridge"].at = "create"
        /\ \E n \in Copy :
              LET s == <<TitleOf[FileOf[j]], n>>
              IN  /\ page[s] = "absent"
                  /\ \A m \in Copy :
                        m < n => page[<<TitleOf[FileOf[j]], m>>] # "absent"
                  /\ page' = [page EXCEPT ![s] = "public"]
                  /\ body' = [body EXCEPT ![s] = j]
                  /\ Continue("bridge", "remember",
                              WithPage(proc["bridge"].rec, s))
        /\ UNCHANGED <<job, filePage, envVars, todo, faults, historyVars>>

\* create_page, unpublished: Canvas picks the first free slug of the title.
CreatePage ==
    LET j == proc["bridge"].job
    IN  /\ proc["bridge"].at = "create"
        /\ \E n \in Copy :
              LET s == <<TitleOf[FileOf[j]], n>>
              IN  /\ page[s] = "absent"
                  /\ \A m \in Copy :
                        m < n => page[<<TitleOf[FileOf[j]], m>>] # "absent"
                  /\ page' = [page EXCEPT ![s] = "draft"]
                  /\ body' = [body EXCEPT ![s] = j]
                  /\ Continue("bridge", "remember",
                              WithPage(proc["bridge"].rec, s))
        /\ UNCHANGED <<job, filePage, envVars, todo, faults, historyVars>>

\* Canvas answers 401/403 to the page write: page_failed, page id cleared.
PageRefused ==
    /\ proc["bridge"].at \in {"page", "create"}
    /\ Fault
    /\ Continue("bridge", "put", [status |-> "page_failed", page |-> NoPage])
    /\ UNCHANGED <<job, canvasVars, envVars, todo, historyVars>>

\* put_file_page, then on to awaiting_review.
RememberPage ==
    LET rec == proc["bridge"].rec
    IN  /\ proc["bridge"].at = "remember"
        /\ filePage' = [filePage EXCEPT ![FileOf[proc["bridge"].job]] = rec.page]
        /\ Continue("bridge", "put", WithStatus(rec, "awaiting_review"))
        /\ UNCHANGED <<job, page, body, envVars, todo, faults, historyVars>>

BridgeStep ==
    \/ TickBegin
    \/ \E j \in Job : DriveRead(j)
    \/ FileCheck \/ Purge \/ ForgetPage
    \/ ReadStatus
    \/ WritePage \/ CreatePage \/ RememberPage
    \/ Put("bridge")

(***************************************************************************)
(* The watcher's sweeps, and the erase tool.                               *)
(***************************************************************************)

\* Mutant: the sweep does not look at the status.
SweepReadAnyStatus(j) ==
    /\ proc["sweeper"].at = "idle"
    /\ job[j].status # "absent"
    /\ age[j] # "young"
    /\ Start("sweeper", "put", "none", j, WithStatus(job[j], "failed"))
    /\ UNCHANGED <<job, canvasVars, envVars, todo, faults, historyVars>>

\* sweep_stale_jobs: a job still processing past the cutoff becomes failed.
SweepRead(j) ==
    /\ proc["sweeper"].at = "idle"
    /\ job[j].status = "processing"
    /\ age[j] # "young"
    /\ Start("sweeper", "put", "none", j, WithStatus(job[j], "failed"))
    /\ UNCHANGED <<job, canvasVars, envVars, todo, faults, historyVars>>

\* purge_old_canvas_records: drop the record of an expired job, any status.
RetentionDelete(j) ==
    /\ job[j].status # "absent"
    /\ age[j] = "expired"
    /\ job' = [job EXCEPT ![j] = Absent]
    /\ firm' = firm \ {j}
    /\ UNCHANGED <<canvasVars, envVars, proc, todo, faults, approved>>

(***************************************************************************)
(* The instructors' handlers.                                              *)
(***************************************************************************)

\* The status each handler writes.
NewStatus(o) ==
    IF o \in Approvals THEN "published"
    ELSE IF o \in {"reject", "review_reject"} THEN "rejected"
    ELSE IF o = "convert" THEN "processing"
    ELSE "awaiting_review"              \* request_edits, unpublish

\* What a handler refuses outright, on the record it has just read.
Refuses(o, rec) ==
    \/ rec.status = "absent"
    \/ o = "approve" /\ rec.status = "failed"
    \/ o = "convert" /\ rec.status = "processing"

\* The review-queue handlers call Canvas before put_job, the overlay's after.
FirstStep(o, rec) ==
    IF o = "delete" THEN "delete"
    ELSE IF o \in {"review_approve", "review_reject"} /\ rec.page # NoPage
    THEN "canvas" ELSE "put"

\* A handler reads the record (get_job, checks, rate limit, WCAG gate).
Open(r, o, j) ==
    /\ proc[r].at = "idle"
    /\ ~Refuses(o, job[j])
    /\ Start(r, FirstStep(o, job[j]), o, j, WithStatus(job[j], NewStatus(o)))
    /\ firm' = firm \ {j}
    /\ UNCHANGED <<job, canvasVars, envVars, todo, faults, approved>>

AfterCanvas(o) ==
    IF o \in {"review_approve", "review_reject"} THEN "put" ELSE "audit"

\* The effect of the handler's page call on the page the record names.
PageState(o) ==
    IF o \in Approvals THEN "public"
    ELSE IF o = "unpublish" THEN "draft"
    ELSE "absent"                       \* review_reject

\* publish_page, unpublish_page or delete_page; a missing page answers 404
\* and the handler logs it and goes on.
CanvasCall(r) ==
    LET s == proc[r].rec.page
        o == proc[r].op
    IN  /\ proc[r].at = "canvas"
        /\ page' = [page EXCEPT ![s] = IF @ = "absent" THEN @ ELSE PageState(o)]
        /\ approved' = IF o \in Approvals THEN approved \cup {proc[r].job}
                                         ELSE approved
        /\ Goto(r, AfterCanvas(o))
        /\ UNCHANGED <<job, filePage, body, envVars, todo, faults, firm>>

\* The same call fails and is swallowed: page writes here are best-effort.
CanvasCallFails(r) ==
    /\ proc[r].at = "canvas"
    /\ Fault
    /\ Goto(r, AfterCanvas(proc[r].op))
    /\ UNCHANGED <<job, canvasVars, envVars, todo, historyVars>>

\* delete_job_and_derivatives: DEL the record.
DeleteRecord(r) ==
    LET j == proc[r].job
    IN  /\ proc[r].at = "delete"
        /\ job' = [job EXCEPT ![j] = Absent]
        /\ firm' = firm \ {j}
        /\ Goto(r, "audit")
        /\ UNCHANGED <<canvasVars, envVars, todo, faults, approved>>

\* append_approval_event, the last thing the overlay's handlers do.
AppendEvent(r) ==
    /\ proc[r].at = "audit"
    /\ Finish(r)
    /\ UNCHANGED <<job, canvasVars, envVars, todo, faults, approved, firm>>

HandlerStep(r) ==
    \/ Put(r) \/ CanvasCall(r) \/ DeleteRecord(r) \/ AppendEvent(r)

(***************************************************************************)
(* Faults.                                                                 *)
(***************************************************************************)

\* An await raises or times out (wait_for around _drive_job): p gives up.
Abort(p) ==
    /\ proc[p].at # "idle"
    /\ Fault
    /\ Finish(p)
    /\ UNCHANGED <<job, canvasVars, envVars, todo, historyVars>>

\* The connector is restarted: every coroutine is lost, Redis is not.
Restart ==
    /\ \E p \in Proc : proc[p].at # "idle"
    /\ Fault
    /\ proc' = [p \in Proc |-> Idle]
    /\ todo' = {}
    /\ UNCHANGED <<job, canvasVars, envVars, historyVars>>

Next ==
    \/ BridgeStep
    \/ PageRefused
    \/ Put("sweeper")
    \/ \E j \in Job : \/ Submit(j) \/ UpstreamStep(j) \/ GrowOld(j)
                      \/ SweepRead(j) \/ RetentionDelete(j)
    \/ \E f \in File : DeleteFile(f)
    \/ \E r \in Request :
          \/ HandlerStep(r) \/ CanvasCallFails(r)
          \/ \E o \in Ops, j \in Job : Open(r, o, j)
    \/ \E p \in Proc : Abort(p)
    \/ Restart

Spec == Init /\ [][Next]_vars

\* asyncio resumes a ready coroutine, the bridge loop never ends, and SCAN
\* returns every key present throughout a pass: the bridge and every open
\* handler keep moving.  Nothing makes faculty, Reflow Core or a fault act.
Fairness == /\ WF_vars(BridgeStep)
            /\ \A r \in Request : WF_vars(HandlerStep(r))

FairSpec == Spec /\ Fairness

-----------------------------------------------------------------------------
(***************************************************************************)
(* Safety.                                                                 *)
(***************************************************************************)

\* A decision nobody held an older copy of when it was written stands until
\* a person acts on the job again: neither the bridge nor the stale sweep,
\* whatever Reflow and Canvas answer, moves a published or rejected job.
\* This is what _BRIDGE_POLLABLE and the sweep's filter are for.
FirmDecisionStands == \A j \in firm : job[j].status \in Decided

\* No Page becomes public in Canvas unless an instructor approved a document
\* that is written to that very Page: create_page drafts, update_page leaves the
\* publish state alone, and only the approve handlers publish.
PublicNeedsApproval ==
    \A s \in Slug :
        page[s] = "public" /\ ~(s[1] \in Authored /\ s[2] = 1) =>
            \E j \in approved : s \in PlacesOf(j)

\* Re-conversions, retries after a failed page write, timeouts, restarts and
\* rejections never leave two Pages with one title, as long as _slugify guesses
\* its slug: the "-2/-3" duplicates _drive_job's page lookup exists to prevent.
OnePagePerTitle ==
    \A t \in Plain, m, n \in Copy :
        page[<<t, m>>] # "absent" /\ page[<<t, n>>] # "absent" => m = n

\* The Pages that may be shown, for the abstract gate.
ApprovedPlaces ==
    (Authored \X {1}) \cup UNION {PlacesOf(j) : j \in approved}

Gate == INSTANCE ReviewGate WITH shown <- page, approved <- ApprovedPlaces

\* The workers and handlers, with their stale copies, retries and faults,
\* implement the gate students and instructors see: which Page a title gets,
\* and which Pages are shown.
ImplementsGate == Gate!Spec

(* The inductive invariant behind the three above, in parts. *)

\* What each kind of writer may hold while it is at each of its awaits.
ProcInv ==
    \A p \in Proc :
        /\ proc[p].at # "idle" => proc[p].job \in Job
        /\ p \in Request =>
              /\ proc[p].at \in {"idle", "put", "canvas", "audit", "delete"}
              /\ proc[p].at = "put" => proc[p].op \in Writes
        /\ p \notin Request => proc[p].op = "none" /\ proc[p].at # "canvas"
        /\ proc[p].at = "canvas" =>
              /\ proc[p].op \in Approvals \cup {"unpublish", "review_reject"}
              /\ proc[p].rec.page # NoPage

\* Only a submitted job has a record or somebody working on it.
SubmitInv ==
    \A j \in Job : upstream[j] = "none" =>
        job[j].status = "absent" /\ \A p \in Proc : proc[p].job # j

\* Nobody who could still write a job with a firm decision holds it.
FirmInv ==
    \A j \in firm : /\ job[j].status \in Decided
                    /\ \A p \in Proc : ~Holds(p, j)

\* The slugs a document of title t may be found at: a plain title has one.
Known(t) == {s \in Places(t) : t \in Plain => s = <<t, 1>>}

\* Every page reference, stored or in flight, is one of its title's; a plain
\* title uses no slug but its first, which the bridge creates when it is free.
RefInv ==
    /\ \A f \in File : filePage[f] \in {NoPage} \cup Known(TitleOf[f])
    /\ \A j \in Job : job[j].page \in {NoPage} \cup Known(TitleOf[FileOf[j]])
    /\ \A p \in Proc : proc[p].at # "idle" =>
            proc[p].rec.page \in {NoPage} \cup Known(TitleOf[FileOf[proc[p].job]])
    /\ \A s \in Slug : page[s] # "absent" /\ s[1] \in Plain => s[2] = 1
    /\ proc["bridge"].at = "create" => page[PageRef(proc["bridge"].job)] = "absent"

IInv == TypeOK /\ ProcInv /\ SubmitInv /\ FirmInv /\ RefInv
            /\ PublicNeedsApproval

(***************************************************************************)
(* Liveness.                                                               *)
(***************************************************************************)

\* What Reflow makes of a document reaches its record, unless a person has
\* decided or removed the job: a completed one reaches review with a Page, one
\* whose privacy was denied reads as failed.  Stale sweeps, refused page writes,
\* timeouts and restarts only delay it (_tick's "bidirectional reflection").
OutcomeReachesRecord ==
    \A j \in Job :
        /\ upstream[j] = "completed" ~>
            \/ job[j].status \in Decided \cup {"absent"}
            \/ job[j].status = "awaiting_review" /\ job[j].page # NoPage
        /\ upstream[j] = "denied" ~>
            job[j].status \in Decided \cup {"absent", "failed"}

=============================================================================
