------------------------- MODULE JobLifecycleProofs -------------------------
(***************************************************************************)
(* Proofs that JobLifecycle keeps its invariants for any number of jobs,   *)
(* files, titles, instructors and faults.                                  *)
(*                                                                         *)
(* Type correctness and the shape of the processes come first.  The two    *)
(* further parts of the inductive invariant, FirmInv and RefInv, are each  *)
(* proved action by action from them.                                      *)
(***************************************************************************)
EXTENDS JobLifecycle, TLAPS

-----------------------------------------------------------------------------
(* Helpers on records and processes. *)

\* Assigning a status or a page gives a record again.
LEMMA WithType ==
    ASSUME NEW rec \in Record
    PROVE  /\ \A s \in Status \cup {"absent"} : WithStatus(rec, s) \in Record
           /\ \A s \in Slug \cup {NoPage} : WithPage(rec, s) \in Record
BY DEF Record, WithStatus, WithPage

\* A process that starts or goes on keeps its type.
LEMMA StartType ==
    ASSUME proc \in [Proc -> ProcState], NEW p \in Proc,
           NEW w \in At, NEW o \in AllOps \cup {"none"},
           NEW j \in Job \cup {NoJob}, NEW rec \in Record,
           Start(p, w, o, j, rec)
    PROVE  proc' \in [Proc -> ProcState]
BY DEF Start, ProcState

\* The same for a step that keeps the operation and the job.
LEMMA ContinueType ==
    ASSUME proc \in [Proc -> ProcState], NEW p \in Proc,
           NEW w \in At, NEW rec \in Record, Continue(p, w, rec)
    PROVE  proc' \in [Proc -> ProcState]
<1>1. proc[p].op \in AllOps \cup {"none"} /\ proc[p].job \in Job \cup {NoJob}
  BY DEF ProcState
<1> QED
  BY <1>1, StartType DEF Continue

\* The same for a step that keeps the private copy too.
LEMMA GotoType ==
    ASSUME proc \in [Proc -> ProcState], NEW p \in Proc, NEW w \in At, Goto(p, w)
    PROVE  proc' \in [Proc -> ProcState]
<1>1. proc[p].rec \in Record
  BY DEF ProcState
<1> QED
  BY <1>1, ContinueType DEF Goto

\* The idle process is a process state.
LEMMA IdleType == Idle \in ProcState
BY DEF Idle, ProcState, At, Absent, Record

\* A process that ends its operation keeps its type.
LEMMA FinishType ==
    ASSUME proc \in [Proc -> ProcState], NEW p \in Proc, Finish(p)
    PROVE  proc' \in [Proc -> ProcState]
BY IdleType DEF Finish

\* The bridge and the sweeper are processes, and so is every request.
LEMMA Processes == "bridge" \in Proc /\ "sweeper" \in Proc /\ Request \subseteq Proc
BY DEF Proc

\* What the four helpers leave p with; no other process is touched.
LEMMA StartAt ==
    ASSUME proc \in [Proc -> ProcState], NEW p \in Proc,
           NEW w, NEW o, NEW j, NEW rec, Start(p, w, o, j, rec)
    PROVE  /\ proc'[p].at = w /\ proc'[p].op = o
           /\ proc'[p].job = j /\ proc'[p].rec = rec
           /\ \A q \in Proc : q # p => proc'[q] = proc[q]
BY DEF Start

\* The same facts for Continue.
LEMMA ContinueAt ==
    ASSUME proc \in [Proc -> ProcState], NEW p \in Proc,
           NEW w, NEW rec, Continue(p, w, rec)
    PROVE  /\ proc'[p].at = w /\ proc'[p].op = proc[p].op
           /\ proc'[p].job = proc[p].job /\ proc'[p].rec = rec
           /\ \A q \in Proc : q # p => proc'[q] = proc[q]
BY DEF Continue, Start

\* The same facts for Goto.
LEMMA GotoAt ==
    ASSUME proc \in [Proc -> ProcState], NEW p \in Proc, NEW w, Goto(p, w)
    PROVE  /\ proc'[p].at = w /\ proc'[p].op = proc[p].op
           /\ proc'[p].job = proc[p].job /\ proc'[p].rec = proc[p].rec
           /\ \A q \in Proc : q # p => proc'[q] = proc[q]
BY DEF Goto, Continue, Start

\* The same facts for Finish.
LEMMA FinishAt ==
    ASSUME proc \in [Proc -> ProcState], NEW p \in Proc, Finish(p)
    PROVE  /\ proc'[p].at = "idle" /\ proc'[p].op = "none"
           /\ proc'[p].job = NoJob /\ proc'[p].rec = Absent
           /\ \A q \in Proc : q # p => proc'[q] = proc[q]
BY DEF Finish, Idle

-----------------------------------------------------------------------------
(* Types. *)

\* Every action keeps the types.
LEMMA TypeStep == TypeOK /\ ProcInv /\ [Next]_vars => TypeOK'
<1> SUFFICES ASSUME TypeOK, ProcInv, [Next]_vars PROVE TypeOK'
  OBVIOUS
<1> USE Processes DEF TypeOK, canvasVars, envVars, historyVars
<1>a. \A p \in Proc : /\ proc[p].rec \in Record
                      /\ proc[p].at # "idle" => proc[p].job \in Job
  BY DEF ProcInv, ProcState
<1>b. Absent \in Record
  BY DEF Absent, Record
<1>1. CASE TickBegin
  BY <1>1 DEF TickBegin
<1>2. ASSUME NEW j \in Job, DriveRead(j) PROVE TypeOK'
  <2>1. proc' \in [Proc -> ProcState]
    BY <1>2, StartType DEF DriveRead, At
  <2> QED
    BY <2>1, <1>2, <1>a, <1>b DEF DriveRead
<1>3. CASE FileCheck
  <2>1. proc' \in [Proc -> ProcState]
    BY <1>3, GotoType DEF FileCheck, At
  <2> QED
    BY BoundsAssumption, <2>1, <1>3, <1>a, <1>b DEF FileCheck, Fault
<1>4. CASE Purge
  <2>1. proc' \in [Proc -> ProcState]
    BY <1>4, GotoType DEF Purge, At
  <2> QED
    BY <2>1, <1>4, <1>a, <1>b DEF Purge
<1>5. CASE ForgetPage
  <2>1. proc' \in [Proc -> ProcState]
    BY <1>5, FinishType DEF ForgetPage
  <2> QED
    BY FilesAssumption, <2>1, <1>5, <1>a, <1>b DEF ForgetPage
<1>6. CASE ReadStatus
  <2>1. proc' \in [Proc -> ProcState]
    BY <1>6, <1>a, ContinueType, GotoType, FinishType, WithType
       DEF ReadStatus, At, Status
  <2> QED
    BY <2>1, <1>6, <1>a, <1>b DEF ReadStatus
<1>7. CASE WritePage
  <2> DEFINE j == proc["bridge"].job
  <2>1. j \in Job /\ PageRef(j) \in Slug
    BY <1>7, <1>a, FilesAssumption DEF WritePage, PageRef, Slug
  <2>2. proc' \in [Proc -> ProcState]
    BY <1>7, <2>1, <1>a, ContinueType, GotoType, WithType DEF WritePage, At
  <2>3. body' \in [Slug -> Job \cup {NoJob}]
    BY <1>7, <2>1 DEF WritePage
  <2> QED
    BY <2>2, <2>3, <1>7 DEF WritePage
<1>8. CASE CreatePage
  <2> DEFINE j == proc["bridge"].job
  <2>1. j \in Job /\ \A n \in Copy : <<TitleOf[FileOf[j]], n>> \in Slug
    BY <1>8, <1>a, FilesAssumption DEF CreatePage, Slug
  <2>2. PICK s \in Slug : /\ page' = [page EXCEPT ![s] = "draft"]
                          /\ body' = [body EXCEPT ![s] = j]
                          /\ Continue("bridge", "remember",
                                      WithPage(proc["bridge"].rec, s))
    BY <1>8, <2>1 DEF CreatePage
  <2>3. proc' \in [Proc -> ProcState]
    BY <2>2, <1>a, ContinueType, WithType DEF At
  <2> QED
    BY <2>1, <2>2, <2>3, <1>8 DEF CreatePage
<1>9. CASE RememberPage
  <2>1. proc' \in [Proc -> ProcState]
    BY <1>9, <1>a, ContinueType, WithType DEF RememberPage, At, Status
  <2>2. proc["bridge"].rec.page \in Slug \cup {NoPage}
    BY <1>a DEF Record
  <2> QED
    BY FilesAssumption, <2>1, <2>2, <1>9, <1>a DEF RememberPage
<1>10. CASE PageRefused
  <2>1. [status |-> "page_failed", page |-> NoPage] \in Record
    BY DEF Record, Status
  <2>2. proc' \in [Proc -> ProcState]
    BY <1>10, <2>1, ContinueType DEF PageRefused, At
  <2> QED
    BY BoundsAssumption, <2>2, <1>10 DEF PageRefused, Fault
<1>11. ASSUME NEW p \in Proc, Put(p) PROVE TypeOK'
  <2>1. proc' \in [Proc -> ProcState]
    BY <1>11, GotoType, FinishType DEF Put, AfterPut, At
  <2>2. proc[p].job \in Job /\ proc[p].rec \in Record
    BY <1>11, <1>a DEF Put
  <2> QED
    BY <2>1, <2>2, <1>11 DEF Put
<1>12. ASSUME NEW j \in Job, Submit(j) PROVE TypeOK'
  <2>1. [status |-> "processing", page |-> NoPage] \in Record
    BY DEF Record, Status
  <2> QED
    BY <2>1, <1>12 DEF Submit, Upstream
<1>13. ASSUME NEW j \in Job, UpstreamStep(j) PROVE TypeOK'
  BY <1>13 DEF UpstreamStep, Upstream
<1>14. ASSUME NEW j \in Job, GrowOld(j) PROVE TypeOK'
  BY <1>14 DEF GrowOld
<1>15. ASSUME NEW j \in Job, SweepRead(j) PROVE TypeOK'
  <2>1. proc' \in [Proc -> ProcState]
    BY <1>15, StartType, WithType DEF SweepRead, At, Status
  <2> QED
    BY <2>1, <1>15, <1>a, <1>b DEF SweepRead
<1>16. ASSUME NEW j \in Job, RetentionDelete(j) PROVE TypeOK'
  BY <1>16, <1>b DEF RetentionDelete
<1>17. ASSUME NEW f \in File, DeleteFile(f) PROVE TypeOK'
  BY <1>17 DEF DeleteFile
<1>18. ASSUME NEW r \in Request, CanvasCall(r) PROVE TypeOK'
  <2>1. proc' \in [Proc -> ProcState]
    BY <1>18, GotoType DEF CanvasCall, AfterCanvas, At
  <2>2. proc[r].rec.page \in Slug /\ proc[r].job \in Job
    BY <1>18, <1>a DEF CanvasCall, ProcInv, Record
  <2>3. page' \in [Slug -> {"absent", "draft", "public"}]
    BY <1>18, <2>2 DEF CanvasCall, PageState
  <2> QED
    BY <2>1, <2>2, <2>3, <1>18 DEF CanvasCall
<1>19. ASSUME NEW r \in Request, CanvasCallFails(r) PROVE TypeOK'
  <2>1. proc' \in [Proc -> ProcState]
    BY <1>19, GotoType DEF CanvasCallFails, AfterCanvas, At
  <2> QED
    BY BoundsAssumption, <2>1, <1>19, <1>a, <1>b DEF CanvasCallFails, Fault
<1>20. ASSUME NEW r \in Request, DeleteRecord(r) PROVE TypeOK'
  <2>1. proc' \in [Proc -> ProcState]
    BY <1>20, GotoType DEF DeleteRecord, At
  <2> QED
    BY <2>1, <1>20, <1>a, <1>b DEF DeleteRecord
<1>21. ASSUME NEW r \in Request, AppendEvent(r) PROVE TypeOK'
  <2>1. proc' \in [Proc -> ProcState]
    BY <1>21, FinishType DEF AppendEvent
  <2> QED
    BY <2>1, <1>21, <1>a, <1>b DEF AppendEvent
<1>22. ASSUME NEW r \in Request, NEW o \in Ops, NEW j \in Job, Open(r, o,
     j) PROVE TypeOK'
  <2>1. NewStatus(o) \in Status /\ FirstStep(o, job[j]) \in At
    BY DEF NewStatus, FirstStep, Status, At
  <2>2. o \in AllOps
    BY OpsAssumption
  <2>3. proc' \in [Proc -> ProcState]
    BY <1>22, <2>1, <2>2, StartType, WithType DEF Open
  <2> QED
    BY <2>3, <1>22 DEF Open
<1>23. ASSUME NEW p \in Proc, Abort(p) PROVE TypeOK'
  <2>1. proc' \in [Proc -> ProcState]
    BY <1>23, FinishType DEF Abort
  <2> QED
    BY BoundsAssumption, <2>1, <1>23, <1>a, <1>b DEF Abort, Fault
<1>24. CASE Restart
  BY BoundsAssumption, <1>24, IdleType DEF Restart, Fault
<1>25. CASE UNCHANGED vars
  BY <1>25 DEF vars
<1>26. QED
  BY <1>1, <1>2, <1>3, <1>4, <1>5, <1>6, <1>7, <1>8, <1>9, <1>10, <1>11,
       <1>12, <1>13, <1>14, <1>15, <1>16, <1>17, <1>18, <1>19, <1>20,
       <1>21, <1>22, <1>23, <1>24, <1>25
     DEF Next, BridgeStep, HandlerStep, Proc

-----------------------------------------------------------------------------
(* Processes. *)

\* An action that leaves proc alone keeps ProcInv.
LEMMA ProcSame == ProcInv /\ UNCHANGED proc => ProcInv'
BY DEF ProcInv

\* Every action keeps the shape of the processes.
LEMMA ProcStep == TypeOK /\ ProcInv /\ [Next]_vars => ProcInv'
<1> SUFFICES ASSUME TypeOK, ProcInv, [Next]_vars PROVE ProcInv'
  OBVIOUS
<1> USE Processes, RequestAssumption
<1>a. proc \in [Proc -> ProcState]
  BY DEF TypeOK
<1>1. CASE TickBegin
  BY <1>1, ProcSame DEF TickBegin
<1>2. ASSUME NEW j \in Job, DriveRead(j) PROVE ProcInv'
  BY <1>2, <1>a, StartAt, ProcSame DEF ProcInv, DriveRead
<1>3. CASE FileCheck
  BY <1>3, <1>a, StartAt, ContinueAt, GotoAt, FinishAt DEF ProcInv, FileCheck
<1>4. CASE Purge
  BY <1>4, <1>a, StartAt, ContinueAt, GotoAt, FinishAt DEF ProcInv, Purge
<1>5. CASE ForgetPage
  BY <1>5, <1>a, StartAt, ContinueAt, GotoAt, FinishAt DEF ProcInv, ForgetPage
<1>6. CASE ReadStatus
  BY <1>6, <1>a, StartAt, ContinueAt, GotoAt, FinishAt DEF ProcInv, ReadStatus
<1>7. CASE WritePage
  BY <1>7, <1>a, StartAt, ContinueAt, GotoAt, FinishAt DEF ProcInv, WritePage
<1>8. CASE CreatePage
  BY <1>8, <1>a, StartAt, ContinueAt, GotoAt, FinishAt DEF ProcInv, CreatePage
<1>9. CASE RememberPage
  BY <1>9, <1>a, StartAt, ContinueAt, GotoAt, FinishAt DEF ProcInv, RememberPage
<1>10. CASE PageRefused
  BY <1>10, <1>a, StartAt, ContinueAt, GotoAt, FinishAt DEF ProcInv, PageRefused
<1>11. ASSUME NEW p \in Proc, Put(p) PROVE ProcInv'
  <2>1. \/ Finish(p)
        \/ /\ Goto(p, "canvas")
           /\ proc[p].op \in {"approve", "unpublish"} /\ proc[p].rec.page # NoPage
        \/ /\ Goto(p, "audit")
           /\ proc[p].op \in {"approve", "unpublish", "reject", "request_edits"}
    BY <1>11 DEF Put, AfterPut
  <2> QED
    BY <2>1, <1>11, <1>a, GotoAt, FinishAt DEF ProcInv, Put, Approvals
<1>12. ASSUME NEW j \in Job, Submit(j) PROVE ProcInv'
  BY <1>12, ProcSame DEF Submit
<1>13. ASSUME NEW j \in Job, UpstreamStep(j) PROVE ProcInv'
  BY <1>13, ProcSame DEF UpstreamStep
<1>14. ASSUME NEW j \in Job, GrowOld(j) PROVE ProcInv'
  BY <1>14, ProcSame DEF GrowOld
<1>15. ASSUME NEW j \in Job, SweepRead(j) PROVE ProcInv'
  BY <1>15, <1>a, StartAt, ContinueAt, GotoAt, FinishAt DEF ProcInv, SweepRead
<1>16. ASSUME NEW j \in Job, RetentionDelete(j) PROVE ProcInv'
  BY <1>16, ProcSame DEF RetentionDelete
<1>17. ASSUME NEW f \in File, DeleteFile(f) PROVE ProcInv'
  BY <1>17, ProcSame DEF DeleteFile
<1>18. ASSUME NEW r \in Request, CanvasCall(r) PROVE ProcInv'
  <2>1. Goto(r, AfterCanvas(proc[r].op)) /\ proc[r].at = "canvas"
    BY <1>18 DEF CanvasCall
  <2> QED
    BY <2>1, <1>a, GotoAt, Processes
       DEF ProcInv, AfterCanvas, Approvals, Writes
<1>19. ASSUME NEW r \in Request, CanvasCallFails(r) PROVE ProcInv'
  <2>1. Goto(r, AfterCanvas(proc[r].op)) /\ proc[r].at = "canvas"
    BY <1>19 DEF CanvasCallFails
  <2> QED
    BY <2>1, <1>a, GotoAt, Processes
       DEF ProcInv, AfterCanvas, Approvals, Writes
<1>20. ASSUME NEW r \in Request, DeleteRecord(r) PROVE ProcInv'
  BY <1>20, <1>a, StartAt, ContinueAt, GotoAt, FinishAt DEF ProcInv,
       DeleteRecord
<1>21. ASSUME NEW r \in Request, AppendEvent(r) PROVE ProcInv'
  BY <1>21, <1>a, StartAt, ContinueAt, GotoAt, FinishAt DEF ProcInv, AppendEvent
<1>22. ASSUME NEW r \in Request, NEW o \in Ops, NEW j \in Job, Open(r, o,
     j) PROVE ProcInv'
  <2>1. Start(r, FirstStep(o, job[j]), o, j, WithStatus(job[j], NewStatus(o)))
    BY <1>22 DEF Open
  <2>2. r \in Proc /\ r \notin {"bridge", "sweeper"}
    OBVIOUS
  <2>3. /\ FirstStep(o, job[j]) \in {"delete", "canvas", "put"}
        /\ FirstStep(o, job[j]) = "put" => o # "delete"
        /\ FirstStep(o, job[j]) = "canvas" =>
              o \in {"review_approve", "review_reject"} /\ job[j].page # NoPage
    BY DEF FirstStep
  <2>4. WithStatus(job[j], NewStatus(o)).page = job[j].page
    BY DEF WithStatus
  <2>5. o \in AllOps
    BY OpsAssumption
  <2> QED
    BY <2>1, <2>2, <2>3, <2>4, <2>5, <1>a, StartAt
       DEF ProcInv, Approvals, AllOps
<1>23. ASSUME NEW p \in Proc, Abort(p) PROVE ProcInv'
  BY <1>23, <1>a, StartAt, ContinueAt, GotoAt, FinishAt DEF ProcInv, Abort
<1>24. CASE Restart
  <2>1. \A p \in Proc : proc'[p] = Idle
    BY <1>24 DEF Restart
  <2> QED
    BY <2>1 DEF ProcInv, Idle
<1>25. CASE UNCHANGED vars
  BY <1>25, ProcSame DEF vars
<1>26. QED
  BY <1>1, <1>2, <1>3, <1>4, <1>5, <1>6, <1>7, <1>8, <1>9, <1>10, <1>11,
       <1>12, <1>13, <1>14, <1>15, <1>16, <1>17, <1>18, <1>19, <1>20,
       <1>21, <1>22, <1>23, <1>24, <1>25
     DEF Next, BridgeStep, HandlerStep, Proc

-----------------------------------------------------------------------------
(* Submission. *)

\* No action gives a record or a writer to a job that was never submitted.
LEMMA SubmitStep == TypeOK /\ ProcInv /\ SubmitInv /\ [Next]_vars => SubmitInv'
<1> SUFFICES ASSUME TypeOK, ProcInv, SubmitInv, [Next]_vars PROVE SubmitInv'
  OBVIOUS
<1> USE Processes, NullAssumption
<1>a. /\ proc \in [Proc -> ProcState] /\ job \in [Job -> Record]
      /\ upstream \in [Job -> Upstream]
  BY DEF TypeOK
<1>b. \A p \in Proc, j \in Job : proc[p].job = j => upstream[j] # "none"
  BY DEF SubmitInv
<1>1. CASE TickBegin
  BY <1>1, <1>a DEF SubmitInv, TickBegin, envVars, Absent
<1>2. ASSUME NEW j \in Job, DriveRead(j) PROVE SubmitInv'
  BY <1>2, <1>a, StartAt DEF SubmitInv, DriveRead, envVars, Pollable
<1>3. CASE FileCheck
  BY <1>3, <1>a, StartAt, ContinueAt, GotoAt, FinishAt DEF SubmitInv,
       FileCheck, envVars
<1>4. CASE Purge
  BY <1>4, <1>a, GotoAt DEF SubmitInv, Purge, envVars, Absent
<1>5. CASE ForgetPage
  BY <1>5, <1>a, StartAt, ContinueAt, GotoAt, FinishAt DEF SubmitInv,
       ForgetPage, envVars
<1>6. CASE ReadStatus
  BY <1>6, <1>a, StartAt, ContinueAt, GotoAt, FinishAt DEF SubmitInv,
       ReadStatus, envVars
<1>7. CASE WritePage
  BY <1>7, <1>a, StartAt, ContinueAt, GotoAt, FinishAt DEF SubmitInv,
       WritePage, envVars
<1>8. CASE CreatePage
  BY <1>8, <1>a, StartAt, ContinueAt, GotoAt, FinishAt DEF SubmitInv,
       CreatePage, envVars
<1>9. CASE RememberPage
  BY <1>9, <1>a, StartAt, ContinueAt, GotoAt, FinishAt DEF SubmitInv,
       RememberPage, envVars
<1>10. CASE PageRefused
  BY <1>10, <1>a, StartAt, ContinueAt, GotoAt, FinishAt DEF SubmitInv,
       PageRefused, envVars
<1>11. ASSUME NEW p \in Proc, Put(p) PROVE SubmitInv'
  BY <1>11, <1>a, <1>b, GotoAt, FinishAt DEF SubmitInv, Put, envVars, ProcInv
<1>12. ASSUME NEW j \in Job, Submit(j) PROVE SubmitInv'
  BY <1>12, <1>a DEF SubmitInv, Submit, envVars, Absent
<1>13. ASSUME NEW j \in Job, UpstreamStep(j) PROVE SubmitInv'
  BY <1>13, <1>a DEF SubmitInv, UpstreamStep, envVars, Absent
<1>14. ASSUME NEW j \in Job, GrowOld(j) PROVE SubmitInv'
  BY <1>14, <1>a DEF SubmitInv, GrowOld, envVars, Absent
<1>15. ASSUME NEW j \in Job, SweepRead(j) PROVE SubmitInv'
  BY <1>15, <1>a, StartAt, ContinueAt, GotoAt, FinishAt DEF SubmitInv,
       SweepRead, envVars
<1>16. ASSUME NEW j \in Job, RetentionDelete(j) PROVE SubmitInv'
  BY <1>16, <1>a DEF SubmitInv, RetentionDelete, envVars, Absent
<1>17. ASSUME NEW f \in File, DeleteFile(f) PROVE SubmitInv'
  BY <1>17, <1>a DEF SubmitInv, DeleteFile, envVars, Absent
<1>18. ASSUME NEW r \in Request, CanvasCall(r) PROVE SubmitInv'
  BY <1>18, <1>a, StartAt, ContinueAt, GotoAt, FinishAt DEF SubmitInv,
       CanvasCall, envVars
<1>19. ASSUME NEW r \in Request, CanvasCallFails(r) PROVE SubmitInv'
  BY <1>19, <1>a, StartAt, ContinueAt, GotoAt, FinishAt DEF SubmitInv,
       CanvasCallFails, envVars
<1>20. ASSUME NEW r \in Request, DeleteRecord(r) PROVE SubmitInv'
  BY <1>20, <1>a, GotoAt DEF SubmitInv, DeleteRecord, envVars, Absent
<1>21. ASSUME NEW r \in Request, AppendEvent(r) PROVE SubmitInv'
  BY <1>21, <1>a, StartAt, ContinueAt, GotoAt, FinishAt DEF SubmitInv,
       AppendEvent, envVars
<1>22. ASSUME NEW r \in Request, NEW o \in Ops, NEW j \in Job, Open(r, o,
     j) PROVE SubmitInv'
  BY <1>22, <1>a, StartAt DEF SubmitInv, Open, envVars, Refuses
<1>23. ASSUME NEW p \in Proc, Abort(p) PROVE SubmitInv'
  BY <1>23, <1>a, StartAt, ContinueAt, GotoAt, FinishAt DEF SubmitInv,
       Abort, envVars
<1>24. CASE Restart
  BY <1>24 DEF SubmitInv, Restart, envVars, Idle
<1>25. CASE UNCHANGED vars
  BY <1>25 DEF SubmitInv, vars
<1>26. QED
  BY <1>1, <1>2, <1>3, <1>4, <1>5, <1>6, <1>7, <1>8, <1>9, <1>10, <1>11,
       <1>12, <1>13, <1>14, <1>15, <1>16, <1>17, <1>18, <1>19, <1>20,
       <1>21, <1>22, <1>23, <1>24, <1>25
     DEF Next, BridgeStep, HandlerStep, Proc

-----------------------------------------------------------------------------
(* Decisions. *)

\* Who may write which job after a step of p.
LEMMA HoldsStart ==
    ASSUME proc \in [Proc -> ProcState], NEW p \in Proc,
           NEW w, NEW o, NEW k, NEW rec, Start(p, w, o, k, rec)
    PROVE  \A q \in Proc, j \in Job : j # k /\ Holds(q, j)' => Holds(q, j)
BY StartAt DEF Holds

\* A process that goes on can write no job it could not write before.
LEMMA HoldsGoto ==
    ASSUME proc \in [Proc -> ProcState], NEW p \in Proc,
           NEW w, NEW rec, Continue(p, w, rec),
           Holds(p, proc[p].job) \/ w \in {"idle", "forget", "audit"}
    PROVE  \A q \in Proc, j \in Job : Holds(q, j)' => Holds(q, j)
<1>1. \A q \in Proc : q # p => proc'[q] = proc[q]
  BY ContinueAt
<1>2. ASSUME NEW j \in Job, Holds(p, j)' PROVE Holds(p, j)
  BY <1>2, ContinueAt DEF Holds
<1> QED
  BY <1>1, <1>2 DEF Holds

\* Nor can one that ends its operation.
LEMMA HoldsFinish ==
    ASSUME proc \in [Proc -> ProcState], NEW p \in Proc, Finish(p)
    PROVE  \A q \in Proc, j \in Job : Holds(q, j)' => Holds(q, j)
BY FinishAt DEF Holds

\* FirmInv survives a step that gives no firm job to anybody.
LEMMA FirmKept ==
    ASSUME FirmInv, firm' \subseteq firm, firm \subseteq Job,
           \A j \in firm' : job'[j] = job[j],
           \A p \in Proc, j \in Job : j \in firm' /\ Holds(p, j)' => Holds(p, j)
    PROVE  FirmInv'
BY DEF FirmInv

\* No action but a person's moves a firm decision.
LEMMA FirmStep ==
    TypeOK /\ ProcInv /\ SubmitInv /\ FirmInv /\ [Next]_vars => FirmInv'
<1> SUFFICES ASSUME TypeOK, ProcInv, SubmitInv, FirmInv, [Next]_vars
             PROVE  FirmInv'
  OBVIOUS
<1> USE Processes, NullAssumption, RequestAssumption
<1>a. /\ proc \in [Proc -> ProcState] /\ job \in [Job -> Record]
      /\ firm \subseteq Job
  BY DEF TypeOK
<1>b. ASSUME NEW p \in Proc, p \notin Request PROVE proc[p].op = "none"
  BY <1>b DEF ProcInv
<1>1. CASE TickBegin
  BY <1>1 DEF FirmInv, Holds, TickBegin, canvasVars, envVars, historyVars
<1>2. ASSUME NEW j \in Job, DriveRead(j) PROVE FirmInv'
  <2>1. \A q \in Proc, k \in Job : k \in firm /\ Holds(q, k)' => Holds(q, k)
    BY <1>2, <1>a, HoldsStart DEF DriveRead, FirmInv, Decided, Pollable, Holds
  <2> QED
    BY <1>2, <2>1, <1>a, FirmKept DEF DriveRead, historyVars
<1>3. CASE FileCheck
  BY <1>3, <1>a, FirmKept, HoldsGoto DEF FirmInv, FileCheck, Goto, Holds,
       canvasVars, envVars, historyVars
<1>4. CASE Purge
  <2>1. Holds("bridge", proc["bridge"].job)
    BY <1>4 DEF Purge, Holds
  <2>2. \A q \in Proc, k \in Job : Holds(q, k)' => Holds(q, k)
    BY <1>4, <2>1, <1>a, HoldsGoto DEF Purge, Goto
  <2>3. proc["bridge"].job \notin firm
    BY <2>1 DEF FirmInv
  <2>4. \A k \in firm : job'[k] = job[k]
    BY <1>4, <2>3, <1>a DEF Purge
  <2> QED
    BY <1>4, <2>2, <2>4, <1>a, FirmKept DEF Purge, historyVars
<1>5. CASE ForgetPage
  BY <1>5, <1>a, FirmKept, HoldsFinish DEF ForgetPage, historyVars
<1>6. CASE ReadStatus
  <2>1. Holds("bridge", proc["bridge"].job)
    BY <1>6 DEF ReadStatus, Holds
  <2>2. \A q \in Proc, k \in Job : Holds(q, k)' => Holds(q, k)
    BY <1>6, <2>1, <1>a, HoldsGoto, HoldsFinish DEF ReadStatus, Goto
  <2> QED
    BY <1>6, <2>2, <1>a, FirmKept DEF ReadStatus, historyVars
<1>7. CASE WritePage
  BY <1>7, <1>a, FirmKept, HoldsGoto DEF FirmInv, WritePage, Goto, Holds,
       canvasVars, envVars, historyVars
<1>8. CASE CreatePage
  BY <1>8, <1>a, FirmKept, HoldsGoto DEF FirmInv, CreatePage, Goto,
       Holds, canvasVars, envVars, historyVars
<1>9. CASE RememberPage
  BY <1>9, <1>a, FirmKept, HoldsGoto DEF FirmInv, RememberPage, Goto,
       Holds, canvasVars, envVars, historyVars
<1>10. CASE PageRefused
  BY <1>10, <1>a, FirmKept, HoldsGoto DEF FirmInv, PageRefused, Goto,
       Holds, canvasVars, envVars, historyVars
<1>11. ASSUME NEW p \in Proc, Put(p) PROVE FirmInv'
  <2> DEFINE j == proc[p].job
              o == proc[p].op
              rec == proc[p].rec
  <2>1. Holds(p, j) /\ j \notin firm
    BY <1>11 DEF Put, Holds, FirmInv
  <2>2. \A q \in Proc, k \in Job : Holds(q, k)' => Holds(q, k)
    BY <1>11, <2>1, <1>a, HoldsGoto, HoldsFinish DEF Put, Goto
  <2>3. \A k \in Job : k # j => job'[k] = job[k]
    BY <1>11, <1>a DEF Put
  <2>4. CASE firm' \subseteq firm
    BY <2>4, <2>1, <2>2, <2>3, <1>a, FirmKept
  <2>5. CASE /\ firm' = firm \cup {j} /\ rec.status \in Decided
             /\ \A q \in Proc \ {p} : ~Holds(q, j)
    <3>1. PICK i \in Job : i = j
      BY <1>11 DEF Put, ProcInv
    <3>2. job'[i].status \in Decided
      BY <1>11, <2>5, <3>1, <1>a DEF Put
    <3>3. \/ proc'[p].at \in {"idle", "audit"}
          \/ proc'[p].at = "canvas" /\ proc'[p].op \in {"approve", "unpublish"}
      BY <1>11, <1>a, GotoAt, FinishAt DEF Put, AfterPut
    <3>4. \A q \in Proc : q # p => proc'[q] = proc[q]
      BY <1>11, <1>a, GotoAt, FinishAt DEF Put
    <3>5. \A q \in Proc : ~ Holds(q, i)'
      BY <2>5, <3>1, <3>3, <3>4 DEF Holds
    <3>6. ASSUME NEW k \in firm, k # i
          PROVE  job'[k].status \in Decided /\ \A q \in Proc : ~ Holds(q, k)'
      BY <3>6, <3>1, <2>2, <2>3, <1>a DEF FirmInv
    <3> QED
      BY <2>5, <3>1, <3>2, <3>5, <3>6 DEF FirmInv
  <2> QED
    BY <1>11, <2>4, <2>5 DEF Put
<1>12. ASSUME NEW j \in Job, Submit(j) PROVE FirmInv'
  BY <1>12, <1>a DEF FirmInv, Holds, Submit, Decided, SubmitInv,
       canvasVars, envVars, historyVars
<1>13. ASSUME NEW j \in Job, UpstreamStep(j) PROVE FirmInv'
  BY <1>13 DEF FirmInv, Holds, UpstreamStep, canvasVars, envVars, historyVars
<1>14. ASSUME NEW j \in Job, GrowOld(j) PROVE FirmInv'
  BY <1>14 DEF FirmInv, Holds, GrowOld, canvasVars, envVars, historyVars
<1>15. ASSUME NEW j \in Job, SweepRead(j) PROVE FirmInv'
  <2>1. j \notin firm
    BY <1>15 DEF SweepRead, FirmInv, Decided
  <2>2. \A q \in Proc, k \in Job : k \in firm /\ Holds(q, k)' => Holds(q, k)
    BY <1>15, <2>1, <1>a, HoldsStart DEF SweepRead
  <2> QED
    BY <1>15, <2>2, <1>a, FirmKept DEF SweepRead, historyVars
<1>16. ASSUME NEW j \in Job, RetentionDelete(j) PROVE FirmInv'
  BY <1>16, <1>a, FirmKept, HoldsGoto DEF FirmInv, RetentionDelete, Goto,
       Holds, canvasVars, envVars, historyVars
<1>17. ASSUME NEW f \in File, DeleteFile(f) PROVE FirmInv'
  BY <1>17 DEF FirmInv, Holds, DeleteFile, canvasVars, envVars, historyVars
<1>18. ASSUME NEW r \in Request, CanvasCall(r) PROVE FirmInv'
  <2>1. \A q \in Proc, k \in Job : Holds(q, k)' => Holds(q, k)
    BY <1>18, <1>a, HoldsGoto DEF CanvasCall, Goto, Holds, AfterCanvas
  <2> QED
    BY <1>18, <2>1, <1>a, FirmKept DEF CanvasCall
<1>19. ASSUME NEW r \in Request, CanvasCallFails(r) PROVE FirmInv'
  <2>1. \A q \in Proc, k \in Job : Holds(q, k)' => Holds(q, k)
    BY <1>19, <1>a, HoldsGoto DEF CanvasCallFails, Goto, Holds, AfterCanvas
  <2> QED
    BY <1>19, <2>1, <1>a, FirmKept DEF CanvasCallFails, historyVars
<1>20. ASSUME NEW r \in Request, DeleteRecord(r) PROVE FirmInv'
  BY <1>20, <1>a, FirmKept, HoldsGoto DEF FirmInv, DeleteRecord, Goto,
       Holds, canvasVars, envVars, historyVars
<1>21. ASSUME NEW r \in Request, AppendEvent(r) PROVE FirmInv'
  BY <1>21, <1>a, FirmKept, HoldsFinish DEF AppendEvent
<1>22. ASSUME NEW r \in Request, NEW o \in Ops, NEW j \in Job, Open(r, o,
     j) PROVE FirmInv'
  <2>1. \A q \in Proc, k \in Job : k \in firm' /\ Holds(q, k)' => Holds(q, k)
    BY <1>22, <1>a, HoldsStart DEF Open
  <2> QED
    BY <1>22, <2>1, <1>a, FirmKept DEF Open
<1>23. ASSUME NEW p \in Proc, Abort(p) PROVE FirmInv'
  BY <1>23, <1>a, FirmKept, HoldsFinish DEF Abort, historyVars
<1>24. CASE Restart
  <2>1. \A q \in Proc, k \in Job : ~ Holds(q, k)'
    BY <1>24 DEF Restart, Holds, Idle
  <2> QED
    BY <1>24, <2>1, <1>a, FirmKept DEF Restart, historyVars
<1>25. CASE UNCHANGED vars
  BY <1>25 DEF FirmInv, Holds, vars
<1>26. QED
  BY <1>1, <1>2, <1>3, <1>4, <1>5, <1>6, <1>7, <1>8, <1>9, <1>10, <1>11,
       <1>12, <1>13, <1>14, <1>15, <1>16, <1>17, <1>18, <1>19, <1>20,
       <1>21, <1>22, <1>23, <1>24, <1>25
     DEF Next, BridgeStep, HandlerStep, Proc

-----------------------------------------------------------------------------
(* Page references. *)

\* A title is looked for at the slug guessed for it, its Pages are known to it,
\* and a plain title is known at its first slug only.
LEMMA KnownPlaces ==
    ASSUME NEW t \in Title
    PROVE  /\ Places(t) \subseteq Slug /\ Known(t) \subseteq Places(t)
           /\ Guess[t] \in Known(t)
           /\ \A n \in Copy : (t \in Plain => n = 1) => <<t, n>> \in Known(t)
           /\ t \in Plain => <<t, 1>> = Guess[t] /\ Known(t) = {<<t, 1>>}
<1>1. Guess[t] \in Slug /\ {t} \X Copy \subseteq Slug
  BY FilesAssumption DEF Slug
<1>2. t \in Plain => Guess[t] = <<t, 1>>
  BY DEF Plain
<1> QED
  BY <1>1, <1>2 DEF Known, Places

\* RefInv survives a step that leaves Canvas and the file-page keys alone.
LEMMA RefKept ==
    ASSUME RefInv, UNCHANGED <<filePage, page>>,
           \A j \in Job : job'[j] = job[j] \/ job'[j].page \in {NoPage} \cup Known(TitleOf[FileOf[j]]),
           \A p \in Proc :
              \/ proc'[p] = proc[p] \/ proc'[p].at = "idle"
              \/ proc'[p].rec.page \in {NoPage} \cup Known(TitleOf[FileOf[proc'[p].job]]),
           proc'["bridge"].at = "create" => proc'["bridge"] = proc["bridge"]
    PROVE  RefInv'
BY DEF RefInv, PageRef

\* Every action keeps page references on the title's own slug.
LEMMA RefStep == TypeOK /\ ProcInv /\ RefInv /\ [Next]_vars => RefInv'
<1> SUFFICES ASSUME TypeOK, ProcInv, RefInv, [Next]_vars PROVE RefInv'
  OBVIOUS
<1> USE Processes, RequestAssumption
<1>a. /\ proc \in [Proc -> ProcState] /\ job \in [Job -> Record]
      /\ filePage \in [File -> Slug \cup {NoPage}]
      /\ page \in [Slug -> {"absent", "draft", "public"}]
  BY DEF TypeOK
<1>b. \A j \in Job : FileOf[j] \in File /\ TitleOf[FileOf[j]] \in Title
  BY FilesAssumption
<1>c. \A p \in Proc : proc[p].at # "idle" => proc[p].job \in Job
  BY DEF ProcInv
<1>1. CASE TickBegin
  BY <1>1, <1>a DEF RefInv, TickBegin, canvasVars, envVars, historyVars
<1>2. ASSUME NEW j \in Job, DriveRead(j) PROVE RefInv'
  BY <1>2, <1>a, <1>b, <1>c, StartAt, ContinueAt, GotoAt, FinishAt DEF
       RefInv, DriveRead, canvasVars
<1>3. CASE FileCheck
  BY <1>3, <1>a, <1>b, <1>c, StartAt, ContinueAt, GotoAt, FinishAt DEF
       RefInv, FileCheck, canvasVars
<1>4. CASE Purge
  <2>1. \A k \in Job : job'[k] = job[k] \/ job'[k].page = NoPage
    BY <1>4, <1>a DEF Purge, Absent
  <2>2. /\ proc'["bridge"].job = proc["bridge"].job
        /\ proc'["bridge"].rec = proc["bridge"].rec
        /\ proc'["bridge"].at = "forget"
        /\ \A q \in Proc : q # "bridge" => proc'[q] = proc[q]
    BY <1>4, <1>a, GotoAt DEF Purge
  <2>3. proc["bridge"].rec.page \in {NoPage} \cup Known(TitleOf[FileOf[proc["bridge"].job]])
    BY <1>4 DEF Purge, RefInv
  <2> QED
    BY <1>4, <2>1, <2>2, <2>3, RefKept DEF Purge, canvasVars
<1>5. CASE ForgetPage
  BY <1>5, <1>a, <1>b, <1>c, StartAt, ContinueAt, GotoAt, FinishAt DEF
       RefInv, ForgetPage, canvasVars
<1>6. CASE ReadStatus
  <2>1. proc["bridge"].rec.page \in {NoPage} \cup Known(TitleOf[FileOf[proc["bridge"].job]])
    BY <1>6 DEF ReadStatus, RefInv
  <2>2. /\ proc'["bridge"].at \in {"idle", "put", "page"}
        /\ \/ proc'["bridge"].at = "idle"
           \/ /\ proc'["bridge"].job = proc["bridge"].job
              /\ proc'["bridge"].rec.page = proc["bridge"].rec.page
        /\ \A q \in Proc : q # "bridge" => proc'[q] = proc[q]
    BY <1>6, <1>a, ContinueAt, GotoAt, FinishAt DEF ReadStatus, WithStatus
  <2> QED
    BY <1>6, <2>1, <2>2, RefKept DEF ReadStatus, canvasVars
<1>7. CASE WritePage
  <2> DEFINE j == proc["bridge"].job
  <2>1. j \in Job /\ proc["bridge"].rec.page \in {NoPage} \cup Known(TitleOf[FileOf[j]])
    BY <1>7, <1>c DEF WritePage, RefInv
  <2>2. PageRef(j) \in Known(TitleOf[FileOf[j]])
    BY <2>1, <1>b, FilesAssumption, KnownPlaces DEF PageRef, RefInv
  <2>3. /\ proc'["bridge"].job = j
        /\ proc'["bridge"].rec.page \in {NoPage} \cup Known(TitleOf[FileOf[j]])
        /\ proc'["bridge"].at = "create" => page[PageRef(j)] = "absent"
        /\ \A q \in Proc : q # "bridge" => proc'[q] = proc[q]
    BY <1>7, <2>1, <2>2, <1>a, ContinueAt, GotoAt DEF WritePage, WithPage
  <2> QED
    BY <1>7, <2>1, <2>3 DEF WritePage, RefInv, PageRef
<1>8. CASE CreatePage
  <2> DEFINE j == proc["bridge"].job
             t == TitleOf[FileOf[j]]
  <2>1. j \in Job /\ t \in Title /\ page[PageRef(j)] = "absent"
    BY <1>8, <1>b, <1>c DEF CreatePage, RefInv
  <2>2. PICK n \in Copy :
          /\ \A m \in Copy : m < n => page[<<t, m>>] # "absent"
          /\ page' = [page EXCEPT ![<<t, n>>] = "draft"]
          /\ Continue("bridge", "remember", WithPage(proc["bridge"].rec, <<t, n>>))
    BY <1>8 DEF CreatePage
  <2>3. t \in Plain => n = 1
    <3>1. t \in Plain => PageRef(j) = <<t, 1>>
      BY <2>1, KnownPlaces, FilesAssumption DEF PageRef, RefInv
    <3> QED
      BY <2>1, <2>2, <3>1, CopyAssumption
  <2>4. <<t, n>> \in Known(t) /\ <<t, n>> \in Slug
    BY <2>1, <2>3, KnownPlaces DEF Slug
  <2>5. /\ proc'["bridge"].at = "remember" /\ proc'["bridge"].job = j
        /\ proc'["bridge"].rec.page = <<t, n>>
        /\ \A q \in Proc : q # "bridge" => proc'[q] = proc[q]
    BY <2>2, <1>a, ContinueAt DEF WithPage
  <2>6. \A s \in Slug : page'[s] # "absent" /\ s[1] \in Plain => s[2] = 1
    BY <2>2, <2>3, <2>4, <1>a DEF RefInv
  <2> QED
    BY <1>8, <2>4, <2>5, <2>6 DEF CreatePage, RefInv
<1>9. CASE RememberPage
  <2> DEFINE j == proc["bridge"].job
  <2>1. j \in Job /\ proc["bridge"].rec.page \in {NoPage} \cup Known(TitleOf[FileOf[j]])
    BY <1>9, <1>c DEF RememberPage, RefInv
  <2>2. /\ proc'["bridge"].at = "put" /\ proc'["bridge"].job = j
        /\ proc'["bridge"].rec.page = proc["bridge"].rec.page
        /\ \A q \in Proc : q # "bridge" => proc'[q] = proc[q]
    BY <1>9, <1>a, ContinueAt DEF RememberPage, WithStatus
  <2>3. \A f \in File : filePage'[f] \in {NoPage} \cup Known(TitleOf[f])
    BY <1>9, <2>1, <1>a, <1>b DEF RememberPage, RefInv
  <2> QED
    BY <1>9, <2>1, <2>2, <2>3 DEF RememberPage, RefInv
<1>10. CASE PageRefused
  BY <1>10, <1>a, <1>b, <1>c, StartAt, ContinueAt, GotoAt, FinishAt DEF
       RefInv, PageRefused, canvasVars
<1>11. ASSUME NEW p \in Proc, Put(p) PROVE RefInv'
  <2> DEFINE j == proc[p].job
  <2>1. proc[p].rec.page \in {NoPage} \cup Known(TitleOf[FileOf[j]])
    BY <1>11 DEF Put, RefInv
  <2>2. /\ proc'[p].at \in {"idle", "canvas", "audit"}
        /\ \/ proc'[p].at = "idle"
           \/ proc'[p].job = j /\ proc'[p].rec = proc[p].rec
        /\ \A q \in Proc : q # p => proc'[q] = proc[q]
    BY <1>11, <1>a, GotoAt, FinishAt DEF Put, AfterPut
  <2>3. \A k \in Job : job'[k] = job[k] \/ job'[k].page \in {NoPage} \cup Known(TitleOf[FileOf[k]])
    BY <1>11, <2>1, <1>a DEF Put
  <2> QED
    BY <1>11, <2>1, <2>2, <2>3, RefKept DEF Put, canvasVars
<1>12. ASSUME NEW j \in Job, Submit(j) PROVE RefInv'
  BY <1>12, <1>a, <1>b, <1>c, StartAt, ContinueAt, GotoAt, FinishAt DEF
       RefInv, PageRef, Submit, canvasVars
<1>13. ASSUME NEW j \in Job, UpstreamStep(j) PROVE RefInv'
  BY <1>13, <1>a DEF RefInv, PageRef, UpstreamStep, canvasVars, envVars, historyVars
<1>14. ASSUME NEW j \in Job, GrowOld(j) PROVE RefInv'
  BY <1>14, <1>a DEF RefInv, PageRef, GrowOld, canvasVars, envVars, historyVars
<1>15. ASSUME NEW j \in Job, SweepRead(j) PROVE RefInv'
  <2>1. /\ proc'["sweeper"].job = j /\ proc'["sweeper"].rec.page = job[j].page
        /\ \A q \in Proc : q # "sweeper" => proc'[q] = proc[q]
    BY <1>15, <1>a, StartAt DEF SweepRead, WithStatus
  <2>2. job[j].page \in {NoPage} \cup Known(TitleOf[FileOf[j]])
    BY DEF RefInv
  <2> QED
    BY <1>15, <2>1, <2>2, RefKept DEF SweepRead, canvasVars
<1>16. ASSUME NEW j \in Job, RetentionDelete(j) PROVE RefInv'
  <2>1. \A k \in Job : job'[k] = job[k] \/ job'[k].page = NoPage
    BY <1>16, <1>a DEF RetentionDelete, Absent
  <2> QED
    BY <1>16, <2>1, RefKept DEF RetentionDelete, canvasVars
<1>17. ASSUME NEW f \in File, DeleteFile(f) PROVE RefInv'
  BY <1>17, <1>a DEF RefInv, PageRef, DeleteFile, canvasVars, envVars, historyVars
<1>18. ASSUME NEW r \in Request, CanvasCall(r) PROVE RefInv'
  BY <1>18, <1>a, <1>b, <1>c, StartAt, ContinueAt, GotoAt, FinishAt DEF
       RefInv, PageRef, CanvasCall, canvasVars
<1>19. ASSUME NEW r \in Request, CanvasCallFails(r) PROVE RefInv'
  BY <1>19, <1>a, <1>b, <1>c, StartAt, ContinueAt, GotoAt, FinishAt DEF
       RefInv, PageRef, CanvasCallFails, canvasVars
<1>20. ASSUME NEW r \in Request, DeleteRecord(r) PROVE RefInv'
  <2>1. \A k \in Job : job'[k] = job[k] \/ job'[k].page = NoPage
    BY <1>20, <1>a DEF DeleteRecord, Absent
  <2>2. /\ proc'[r].job = proc[r].job /\ proc'[r].rec = proc[r].rec
        /\ \A q \in Proc : q # r => proc'[q] = proc[q]
    BY <1>20, <1>a, GotoAt DEF DeleteRecord
  <2>3. proc[r].rec.page \in {NoPage} \cup Known(TitleOf[FileOf[proc[r].job]])
    BY <1>20 DEF DeleteRecord, RefInv
  <2> QED
    BY <1>20, <2>1, <2>2, <2>3, RefKept DEF DeleteRecord, canvasVars
<1>21. ASSUME NEW r \in Request, AppendEvent(r) PROVE RefInv'
  BY <1>21, <1>a, <1>b, <1>c, StartAt, ContinueAt, GotoAt, FinishAt DEF
       RefInv, PageRef, AppendEvent, canvasVars
<1>22. ASSUME NEW r \in Request, NEW o \in Ops, NEW j \in Job, Open(r, o,
     j) PROVE RefInv'
  <2>1. /\ proc'[r].job = j /\ proc'[r].rec.page = job[j].page
        /\ \A q \in Proc : q # r => proc'[q] = proc[q]
    BY <1>22, <1>a, StartAt DEF Open, WithStatus
  <2>2. job[j].page \in {NoPage} \cup Known(TitleOf[FileOf[j]])
    BY DEF RefInv
  <2> QED
    BY <1>22, <2>1, <2>2, RefKept DEF Open, canvasVars
<1>23. ASSUME NEW p \in Proc, Abort(p) PROVE RefInv'
  BY <1>23, <1>a, <1>b, <1>c, StartAt, ContinueAt, GotoAt, FinishAt DEF
       RefInv, PageRef, Abort, canvasVars
<1>24. CASE Restart
  BY <1>24, RefKept DEF Restart, Idle, canvasVars
<1>25. CASE UNCHANGED vars
  BY <1>25 DEF RefInv, PageRef, vars
<1>26. QED
  BY <1>1, <1>2, <1>3, <1>4, <1>5, <1>6, <1>7, <1>8, <1>9, <1>10, <1>11,
       <1>12, <1>13, <1>14, <1>15, <1>16, <1>17, <1>18, <1>19, <1>20,
       <1>21, <1>22, <1>23, <1>24, <1>25
     DEF Next, BridgeStep, HandlerStep, Proc

-----------------------------------------------------------------------------
(* What is public. *)

\* A step makes a Page public only by carrying out an approval of a document
\* that is written to it.
LEMMA PublicStep ==
    TypeOK /\ ProcInv /\ RefInv /\ PublicNeedsApproval /\ [Next]_vars
        => PublicNeedsApproval'
<1> SUFFICES ASSUME TypeOK, ProcInv, RefInv, PublicNeedsApproval, [Next]_vars
             PROVE  PublicNeedsApproval'
  OBVIOUS
<1>a. /\ page \in [Slug -> {"absent", "draft", "public"}]
      /\ approved \subseteq Job
  BY DEF TypeOK
<1>1. approved \subseteq approved'
  BY DEF Next, BridgeStep, HandlerStep, TickBegin, DriveRead, FileCheck, Purge,
         ForgetPage, ReadStatus, WritePage, CreatePage, RememberPage,
         PageRefused, Put, Submit, UpstreamStep, GrowOld, SweepRead,
         RetentionDelete, DeleteFile, CanvasCall, CanvasCallFails, DeleteRecord,
         AppendEvent, Open, Abort, Restart, historyVars, vars
<1>2. \/ page' = page \/ CreatePage
      \/ \E r \in Request : CanvasCall(r)
  BY DEF Next, BridgeStep, HandlerStep, TickBegin, DriveRead, FileCheck, Purge,
         ForgetPage, ReadStatus, WritePage, RememberPage,
         PageRefused, Put, Submit, UpstreamStep, GrowOld, SweepRead,
         RetentionDelete, DeleteFile, CanvasCallFails, DeleteRecord,
         AppendEvent, Open, Abort, Restart, canvasVars, vars
<1>3. CASE page' = page
  BY <1>1, <1>3 DEF PublicNeedsApproval
<1>4. CASE CreatePage
  <2>1. \A s \in Slug : page'[s] = "public" => page[s] = "public"
    BY <1>4, <1>a DEF CreatePage
  <2> QED
    BY <1>1, <2>1 DEF PublicNeedsApproval
<1>5. ASSUME NEW r \in Request, CanvasCall(r) PROVE PublicNeedsApproval'
  <2> DEFINE j == proc[r].job
             s == proc[r].rec.page
  <2>1. j \in Job /\ s \in Known(TitleOf[FileOf[j]])
    BY <1>5, Processes DEF CanvasCall, ProcInv, RefInv
  <2>2. s \in PlacesOf(j)
    BY <2>1, FilesAssumption, KnownPlaces DEF PlacesOf
  <2>3. \A t \in Slug : page'[t] = "public" =>
            page[t] = "public" \/ (t = s /\ proc[r].op \in Approvals)
    BY <1>5, <1>a DEF CanvasCall, PageState
  <2>4. proc[r].op \in Approvals => j \in approved'
    BY <1>5 DEF CanvasCall
  <2> QED
    BY <1>1, <2>1, <2>2, <2>3, <2>4 DEF PublicNeedsApproval
<1> QED
  BY <1>2, <1>3, <1>4, <1>5

-----------------------------------------------------------------------------
(* The theorems. *)

\* The invariant holds initially.
LEMMA InitIInv == Init => IInv
<1> SUFFICES ASSUME Init PROVE IInv
  OBVIOUS
<1> USE DEF Init
<1>1. TypeOK
  BY BoundsAssumption, IdleType DEF TypeOK, Absent, Record, Upstream
<1>2. ProcInv /\ SubmitInv /\ FirmInv
  BY NullAssumption DEF ProcInv, SubmitInv, FirmInv, Idle, Absent
<1>3. RefInv
  BY Processes DEF RefInv, Idle, Absent
<1>4. PublicNeedsApproval
  BY DEF PublicNeedsApproval
<1> QED
  BY <1>1, <1>2, <1>3, <1>4 DEF IInv

\* Every step keeps the invariant.
LEMMA NextIInv == IInv /\ [Next]_vars => IInv'
BY TypeStep, ProcStep, SubmitStep, FirmStep, RefStep, PublicStep DEF IInv

\* The conjunction the other theorems follow from.
THEOREM Inductive == Spec => []IInv
BY InitIInv, NextIInv, PTL DEF Spec

\* Every record, page, process and history variable keeps its type.
THEOREM TypeCorrect == Spec => []TypeOK
<1>1. IInv => TypeOK
  BY DEF IInv
<1> QED
  BY <1>1, Inductive, PTL

\* A decision written while nobody held an older copy of the job is never
\* moved by the bridge or the stale sweep, for any number of jobs,
\* instructors, faults and restarts.
THEOREM FirmDecisionHolds == Spec => []FirmDecisionStands
<1>1. IInv => FirmDecisionStands
  BY DEF IInv, FirmInv, FirmDecisionStands
<1> QED
  BY <1>1, Inductive, PTL

\* No Page the connector made is public unless a document written to it was
\* approved.
THEOREM PublicWasApproved == Spec => []PublicNeedsApproval
<1>1. IInv => PublicNeedsApproval
  BY DEF IInv
<1> QED
  BY <1>1, Inductive, PTL

\* No title whose slug _slugify guesses right ever has two Pages, however many
\* files and jobs share it; other titles are not spoken of.
THEOREM NoDuplicatePages == Spec => []OnePagePerTitle
<1>1. IInv => OnePagePerTitle
  <2> SUFFICES ASSUME IInv, NEW t \in Plain, NEW m \in Copy, NEW n \in Copy,
                      page[<<t, m>>] # "absent", page[<<t, n>>] # "absent"
               PROVE  m = n
    BY DEF OnePagePerTitle
  <2>1. <<t, m>> \in Slug /\ <<t, n>> \in Slug
    BY DEF Slug, Plain
  <2> QED
    BY <2>1 DEF IInv, RefInv
<1> QED
  BY <1>1, Inductive, PTL
-----------------------------------------------------------------------------
(* The abstract gate. *)

\* What the gate's approvals gain from an approval: the places of its document.
LEMMA PlacesGrow ==
    ASSUME NEW j \in Job, approved' = approved \cup {j}
    PROVE  /\ ApprovedPlaces' = ApprovedPlaces \cup PlacesOf(j)
           /\ \A s \in PlacesOf(j) : s \in ApprovedPlaces'
BY DEF ApprovedPlaces, PlacesOf, Places

\* The gate's places are the lifecycle's.
LEMMA SamePlaces ==
    ASSUME NEW j \in Job
    PROVE  /\ TitleOf[FileOf[j]] \in Title
           /\ PlacesOf(j) = Gate!Places(TitleOf[FileOf[j]])
BY FilesAssumption DEF PlacesOf, Places, Gate!Places

\* The initial states are the gate's.
LEMMA GateInit == Init => Gate!Init
BY DEF Init, Gate!Init, ApprovedPlaces, Slug, Gate!Slug

\* A Page is created as a draft at the first free slug of its title, and of a
\* plain title only where there is none.
LEMMA GateDrafts ==
    ASSUME TypeOK, ProcInv, RefInv, CreatePage
    PROVE  \E t \in Title, n \in Copy : Gate!Draft(t, n)
<1> DEFINE j == proc["bridge"].job
           t == TitleOf[FileOf[j]]
<1>1. j \in Job /\ t \in Title /\ page[PageRef(j)] = "absent"
  BY Processes, FilesAssumption DEF CreatePage, ProcInv, RefInv
<1>2. PICK n \in Copy :
          /\ page[<<t, n>>] = "absent"
          /\ \A m \in Copy : m < n => page[<<t, m>>] # "absent"
          /\ page' = [page EXCEPT ![<<t, n>>] = "draft"]
  BY DEF CreatePage
<1>3. Guess[t] = <<t, 1>> => n = 1
  <2>1. ASSUME Guess[t] = << t, 1 >> PROVE t \in Plain
    BY <2>1, <1>1 DEF Plain
  <2>2. t \in Plain => PageRef(j) = <<t, 1>>
    BY <1>1, KnownPlaces, FilesAssumption DEF PageRef, RefInv
  <2> QED
    BY <1>1, <1>2, <2>1, <2>2, CopyAssumption
<1>4. UNCHANGED ApprovedPlaces
  BY DEF CreatePage, ApprovedPlaces, PlacesOf, Places, historyVars
<1> QED
  BY <1>1, <1>2, <1>3, <1>4 DEF Gate!Draft

\* A handler's page call shows, hides or removes the Page its record names, or
\* finds none; an approving one puts its document's places among the approved.
LEMMA GateCalls ==
    ASSUME TypeOK, ProcInv, RefInv, NEW r \in Request, CanvasCall(r)
    PROVE  [Gate!Next]_Gate!vars
<1> DEFINE j == proc[r].job
           o == proc[r].op
           t == TitleOf[FileOf[j]]
           s == proc[r].rec.page
<1>1. /\ j \in Job /\ t \in Title /\ s \in Known(t)
      /\ o \in Approvals \cup {"unpublish", "review_reject"}
  BY Processes, FilesAssumption DEF CanvasCall, ProcInv, RefInv
<1>2. s \in Slug /\ s \in Gate!Places(t) /\ Gate!Slug = Slug
  BY <1>1, KnownPlaces DEF Gate!Slug, Slug, Gate!Places, Places
<1>3. page' = [page EXCEPT ![s] = IF @ = "absent" THEN @ ELSE PageState(o)]
  BY DEF CanvasCall
<1>4. page \in [Slug -> {"absent", "draft", "public"}]
  BY DEF TypeOK
<1>5. o \in Approvals => ApprovedPlaces' = ApprovedPlaces \cup Gate!Places(t)
  BY <1>1, PlacesGrow, SamePlaces DEF CanvasCall
<1>6. o \notin Approvals => ApprovedPlaces' = ApprovedPlaces
  BY DEF CanvasCall, ApprovedPlaces, PlacesOf, Places
<1>7. CASE page[s] = "absent"
  <2>1. page' = page
    BY <1>2, <1>3, <1>4, <1>7
  <2>2. CASE o \in Approvals
    BY <1>1, <1>5, <2>1, <2>2 DEF Gate!Approve, Gate!Next
  <2>3. CASE o \notin Approvals
    BY <1>6, <2>1, <2>3 DEF Gate!vars
  <2> QED
    BY <2>2, <2>3
<1>8. CASE page[s] # "absent"
  <2>1. page' = [page EXCEPT ![s] = PageState(o)]
    BY <1>2, <1>3, <1>4, <1>8
  <2>2. CASE o \in Approvals
    <3>1. Gate!Show(t, s)
      BY <1>2, <1>5, <1>8, <2>1, <2>2 DEF Gate!Show, PageState
    <3> QED
      BY <1>1, <1>2, <3>1 DEF Gate!Next
  <2>3. CASE o = "unpublish"
    <3>1. Gate!Hide(s)
      BY <1>6, <1>8, <2>1, <2>3 DEF Gate!Hide, PageState, Approvals
    <3> QED
      BY <1>2, <3>1 DEF Gate!Next
  <2>4. CASE o = "review_reject"
    <3>1. Gate!Remove(s)
      BY <1>6, <2>1, <2>4 DEF Gate!Remove, PageState, Approvals
    <3> QED
      BY <1>2, <3>1 DEF Gate!Next
  <2> QED
    BY <1>1, <2>2, <2>3, <2>4
<1> QED
  BY <1>7, <1>8

\* Every other step leaves the Pages alone and approves at most one document.
LEMMA GateOthers ==
    ASSUME TypeOK, ProcInv, page' = page, [Next]_vars
    PROVE  [Gate!Next]_Gate!vars
<1>1. approved \subseteq Job
  BY DEF TypeOK
<1>2. \/ approved' = approved
      \/ \E j \in Job : approved' = approved \cup {j}
  <2>1. ASSUME NEW p \in Proc, Put(p)
        PROVE  \/ approved' = approved
               \/ \E j \in Job : approved' = approved \cup {j}
    <3>1. proc[p].job \in Job
      BY <2>1 DEF Put, ProcInv
    <3> QED
      BY <2>1, <3>1 DEF Put
  <2>2. ASSUME NEW r \in Request, CanvasCall(r)
        PROVE  \/ approved' = approved
               \/ \E j \in Job : approved' = approved \cup {j}
    <3>1. proc[r].job \in Job
      BY <2>2, Processes DEF CanvasCall, ProcInv
    <3> QED
      BY <2>2, <3>1 DEF CanvasCall
  <2> QED
    BY <2>1, <2>2, Processes
    DEF Next, BridgeStep, HandlerStep, TickBegin, DriveRead, FileCheck, Purge,
         ForgetPage, ReadStatus, WritePage, CreatePage, RememberPage,
         PageRefused, Submit, UpstreamStep, GrowOld, SweepRead,
         RetentionDelete, DeleteFile, CanvasCallFails, DeleteRecord,
         AppendEvent, Open, Abort, Restart, historyVars, vars
<1>3. CASE approved' = approved
  BY <1>3 DEF Gate!vars, ApprovedPlaces, PlacesOf, Places
<1>4. ASSUME NEW j \in Job, approved' = approved \cup {j}
      PROVE  [Gate!Next]_Gate!vars
  <2>1. /\ TitleOf[FileOf[j]] \in Title
        /\ ApprovedPlaces' = ApprovedPlaces \cup Gate!Places(TitleOf[FileOf[j]])
    BY <1>4, PlacesGrow, SamePlaces
  <2> QED
    BY <2>1 DEF Gate!Next, Gate!Approve
<1> QED
  BY <1>2, <1>3, <1>4

\* Every step of the lifecycle is a step of the gate, or none.
LEMMA GateStep == IInv /\ [Next]_vars => [Gate!Next]_Gate!vars
<1> SUFFICES ASSUME IInv, [Next]_vars PROVE [Gate!Next]_Gate!vars
  OBVIOUS
<1>1. TypeOK /\ ProcInv /\ RefInv
  BY DEF IInv
<1>2. \/ page' = page \/ CreatePage
      \/ \E r \in Request : CanvasCall(r)
  BY DEF Next, BridgeStep, HandlerStep, TickBegin, DriveRead, FileCheck, Purge,
         ForgetPage, ReadStatus, WritePage, RememberPage,
         PageRefused, Put, Submit, UpstreamStep, GrowOld, SweepRead,
         RetentionDelete, DeleteFile, CanvasCallFails, DeleteRecord,
         AppendEvent, Open, Abort, Restart, canvasVars, vars
<1>3. CASE page' = page
  BY <1>1, <1>3, GateOthers
<1>4. CASE CreatePage
  BY <1>1, <1>4, GateDrafts DEF Gate!Next
<1>5. ASSUME NEW r \in Request, CanvasCall(r) PROVE [Gate!Next]_Gate!vars
  BY <1>1, <1>5, GateCalls
<1> QED
  BY <1>2, <1>3, <1>4, <1>5

\* For any number of documents, titles, instructors, faults and restarts, the
\* lifecycle implements the gate: a Page is drafted at its title's first free
\* slug, a plain title gets one, and it is shown only once approved.
THEOREM Refinement == Spec => ImplementsGate
<1>1. Spec => Gate!Init /\ [][Gate!Next]_Gate!vars
  BY GateInit, GateStep, Inductive, PTL DEF Spec
<1> QED
  BY <1>1 DEF ImplementsGate, Gate!Spec
=============================================================================
