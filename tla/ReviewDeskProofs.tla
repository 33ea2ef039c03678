------------------------- MODULE ReviewDeskProofs -------------------------
(***************************************************************************)
(* Proofs that what the review screens keep beside a record agrees with    *)
(* it, for any jobs, handlers, edits and faults.                           *)
(***************************************************************************)
EXTENDS ReviewDesk, TLAPS

\* Only p moves: it comes to stand at w, doing what it did.
Moved(p, w) == /\ proc' \in [Proc -> ProcState]
               /\ proc'[p].at = w
               /\ proc'[p].op = proc[p].op /\ proc'[p].job = proc[p].job
               /\ \A q \in Proc : q # p => proc'[q] = proc[q]

\* Only p moves: it is done.
Done(p) == /\ proc' \in [Proc -> ProcState]
           /\ proc'[p] = Idle
           /\ \A q \in Proc : q # p => proc'[q] = proc[q]

\* The processes there are.
LEMMA Procs ==
    "bridge" \in Proc /\ "sweeper" \in Proc /\ \A r \in Request : r \in Proc
BY DEF Proc

\* What each way of moving a process does.
LEMMA Moves ==
    ASSUME TypeOK, NEW p \in Proc
    PROVE  /\ \A w \in At : Goto(p, w) =>
                 /\ Moved(p, w)
                 /\ proc'[p].status = proc[p].status /\ proc'[p].body = proc[p].body
           /\ Finish(p) => Done(p)
<1>1. proc \in [Proc -> ProcState] /\ proc[p] \in ProcState
  BY DEF TypeOK
<1>2. Idle \in ProcState
  BY DEF Idle, ProcState, At, Body
<1>3. ASSUME NEW w \in At, Goto(p, w)
      PROVE  /\ Moved(p, w)
             /\ proc'[p].status = proc[p].status /\ proc'[p].body = proc[p].body
  BY <1>1, <1>3 DEF Goto, Moved, ProcState
<1>4. Finish(p) => Done(p)
  BY <1>1, <1>2 DEF Finish, Done
<1> QED
  BY <1>3, <1>4

\* What starting a process does.
LEMMA Started ==
    ASSUME TypeOK, NEW p \in Proc, NEW w \in At, NEW o \in AllOps \cup {"none"},
           NEW j \in Job, NEW s \in Status \cup {"absent"}, NEW b \in Body,
           Start(p, w, o, j, s, b)
    PROVE  /\ proc' \in [Proc -> ProcState]
           /\ proc'[p] = [at |-> w, op |-> o, job |-> j, status |-> s, body |-> b]
           /\ \A q \in Proc : q # p => proc'[q] = proc[q]
BY DEF TypeOK, Start, ProcState

\* What opening a handler does.
Opened(r, j, o, w, s, b) ==
    /\ proc[r].at = "idle" /\ Passes(o, w)
    /\ Start(r, w, o, j, s, b)
    /\ o # "score" => rec[j] # "absent"
    /\ o = "score" => s = rec[j]
    /\ o = "view" => rec[j] = "published"
    /\ w \in {"resolve", "put", "save", "revert", "forward", "forget", "gate"}
    /\ w = "put" => s \in Status
    /\ w \in {"save", "revert"} => b \in Edit \cup {NoBody}
    /\ s = "published" => o \in {"approve", "review_approve", "score"}
    /\ o = "approve" => s = "published"
    /\ approved \subseteq approved' /\ approved' \subseteq approved \cup {j}
    /\ o \in {"approve", "review_approve"} => j \in approved'
    /\ UNCHANGED <<store, core, logged, faults, served, basis, torn, raced,
                   cut, left>>

LEMMA Opening ==
    ASSUME TypeOK, NEW r \in Request, NEW j \in Job, Open(r, j)
    PROVE  \E o \in AllOps, w \in At, s \in Status \cup {"absent"}, b \in Body :
              Opened(r, j, o, w, s, b)
<1> USE DEF Opened, Passes, Enter, Admit, Publishing, history, AllOps, Transitions, Audited, Reading, Decision, At, Status, Body
<1>1. CASE Approve(r, j)
  <2>1. Opened(r, j, "approve", "resolve", "published", NoBody)
    BY <1>1 DEF Approve
  <2> QED
    BY <2>1
<1>2. CASE Reject(r, j)
  <2>1. Opened(r, j, "reject", "put", "rejected", NoBody)
    BY <1>2 DEF Reject
  <2> QED
    BY <2>1
<1>3. CASE RequestEdits(r, j)
  <2>1. Opened(r, j, "request_edits", "put", "awaiting_review", NoBody)
    BY <1>3 DEF RequestEdits
  <2> QED
    BY <2>1
<1>4. CASE Convert(r, j)
  <2>1. Opened(r, j, "convert", "put", "processing", NoBody)
    BY <1>4 DEF Convert
  <2> QED
    BY <2>1
<1>5. CASE PutEdit(r, j)
  <2>1. PICK b \in Edit : Admit(r, "edit", j, "save", "absent", b)
    BY <1>5 DEF PutEdit
  <2>2. Opened(r, j, "edit", "save", "absent", b)
    BY <2>1
  <2> QED
    BY <2>2
<1>6. CASE DeleteEdit(r, j)
  <2>1. Opened(r, j, "revert", "revert", "absent", NoBody)
    BY <1>6 DEF DeleteEdit
  <2> QED
    BY <2>1
<1>7. CASE PiiDecision(r, j)
  <2>1. PICK d \in Decision : Admit(r, d, j, "forward", "absent", NoBody)
    BY <1>7 DEF PiiDecision
  <2>2. Opened(r, j, d, "forward", "absent", NoBody)
    BY <2>1
  <2> QED
    BY <2>2
<1>8. CASE DeleteJob(r, j)
  <2>1. Opened(r, j, "delete", "forget", "absent", NoBody)
    BY <1>8 DEF DeleteJob
  <2> QED
    BY <2>1
<1>9. CASE AltFormat(r, j)
  <2>1. Opened(r, j, "view", "gate", "absent", NoBody)
    BY <1>9 DEF AltFormat
  <2> QED
    BY <2>1
<1>10. CASE Score(r, j)
  <2>1. rec[j] \in Status \cup {"absent"}
    BY DEF TypeOK
  <2>2. Opened(r, j, "score", "resolve", rec[j], NoBody)
    BY <1>10 DEF Score
  <2> QED
    BY <2>1, <2>2
<1>11. CASE ReviewApprove(r, j)
  <2>1. Opened(r, j, "review_approve", "put", "published", NoBody)
    BY <1>11 DEF ReviewApprove
  <2> QED
    BY <2>1
<1>12. CASE ReviewReject(r, j)
  <2>1. Opened(r, j, "review_reject", "put", "rejected", NoBody)
    BY <1>12 DEF ReviewReject
  <2> QED
    BY <2>1
<1>13. CASE Preview(r, j)
  <2>1. Opened(r, j, "preview", "gate", "absent", NoBody)
    BY <1>13 DEF Preview
  <2> QED
    BY <2>1
<1> QED
  BY <1>1, <1>2, <1>3, <1>4, <1>5, <1>6, <1>7, <1>8, <1>9, <1>10, <1>11, <1>12,
     <1>13 DEF Open


\* p keeps the status and the body it has in hand.
Keeps(p) == proc'[p].status = proc[p].status /\ proc'[p].body = proc[p].body

\* Where a body leads, and where none does.
LEMMA ResolveMoves ==
    ASSUME TypeOK, NEW r \in Request
    PROVE  /\ AfterResolve(r) =>
                 /\ proc'[r].status = proc[r].status
                 /\ \/ proc[r].op = "approve" /\ Moved(r, "put")
                    \/ proc[r].op = "score" /\ Moved(r, "cache")
                    \/ proc[r].op \in {"view", "preview"} /\ Moved(r, "serve")
           /\ Unresolved(r) =>
                 \/ /\ proc[r].op = "approve" /\ Moved(r, "put")
                    /\ proc'[r].status = proc[r].status
                 \/ proc[r].op = "score" /\ Moved(r, "cache")
                    /\ proc'[r].status = proc[r].status
                 \/ Done(r)
<1>1. {"put", "cache", "serve"} \subseteq At
  BY DEF At
<1>2. r \in Proc
  BY Procs
<1>3. ASSUME AfterResolve(r)
      PROVE  /\ proc'[r].status = proc[r].status
             /\ \/ proc[r].op = "approve" /\ Moved(r, "put")
                \/ proc[r].op = "score" /\ Moved(r, "cache")
                \/ proc[r].op \in {"view", "preview"} /\ Moved(r, "serve")
  BY <1>1, <1>2, <1>3, Moves DEF AfterResolve
<1>4. ASSUME Unresolved(r)
      PROVE  \/ /\ proc[r].op = "approve" /\ Moved(r, "put")
                /\ proc'[r].status = proc[r].status
             \/ proc[r].op = "score" /\ Moved(r, "cache")
                /\ proc'[r].status = proc[r].status
             \/ Done(r)
  BY <1>1, <1>2, <1>4, Moves DEF Unresolved
<1> QED
  BY <1>3, <1>4

\* How each action moves the process that takes it.
LEMMA Movement ==
    ASSUME TypeOK, Shape
    PROVE  /\ \A p \in Proc :
                 /\ PutRecord(p) => Moved(p, "uncache") /\ Keeps(p)
                 /\ DropScore(p) => Moved(p, "index") /\ Keeps(p)
                 /\ Index(p) => \/ /\ proc[p].op \in Audited
                                   /\ Moved(p, "audit") /\ Keeps(p)
                                \/ Done(p)
                 /\ Abort(p) => Done(p)
           /\ BridgeFile => /\ Moved("bridge", "upstream") \/ Moved("bridge", "purge")
                            /\ Keeps("bridge")
           /\ BridgePurge =>
                 \/ /\ proc["bridge"].at = "purge"
                    /\ Moved("bridge", "unqueue") /\ Keeps("bridge")
                 \/ proc["bridge"].at = "unqueue" /\ Done("bridge")
           /\ BridgeDecide =>
                 \/ Done("bridge")
                 \/ /\ Moved("bridge", "put")
                    /\ proc'["bridge"].status \in {"failed", "awaiting_review",
                                                   "awaiting_approval"}
           /\ SweepStep =>
                 \/ proc["sweeper"].at = "unindex" /\ Moved("sweeper", "drop")
                 \/ proc["sweeper"].at = "drop" /\ Moved("sweeper", "drop_edit")
                 \/ proc["sweeper"].at = "drop_edit" /\ Done("sweeper")
           /\ \A r \in Request :
                 /\ PiiGate(r) => Done(r) \/ (Moved(r, "resolve") /\ Keeps(r))
                 /\ ResolveEdit(r) =>
                       \/ /\ proc'[r].status = proc[r].status
                          /\ \/ proc[r].op = "approve" /\ Moved(r, "put")
                             \/ proc[r].op = "score" /\ Moved(r, "cache")
                             \/ proc[r].op \in {"view", "preview"} /\ Moved(r, "serve")
                       \/ Moved(r, "render") /\ Keeps(r)
                 /\ ResolveCanonical(r) =>
                       \/ /\ proc'[r].status = proc[r].status
                          /\ \/ proc[r].op = "approve" /\ Moved(r, "put")
                             \/ proc[r].op = "score" /\ Moved(r, "cache")
                             \/ proc[r].op \in {"view", "preview"} /\ Moved(r, "serve")
                       \/ Done(r)
                 /\ Serve(r) \/ CacheScore(r) \/ SaveEdit(r) \/ AppendEvent(r)
                    \/ ReplyLost(r) => Done(r)
                 /\ Forward(r) => \/ Moved(r, "token") /\ Keeps(r)
                                  \/ Moved(r, "audit") /\ Keeps(r)
                                  \/ Done(r)
                 /\ FetchToken(r) => Done(r) \/ (Moved(r, "decide") /\ Keeps(r))
                 /\ ForwardByToken(r) => Done(r) \/ (Moved(r, "audit") /\ Keeps(r))
                 /\ ForgetStep(r) =>
                       \/ /\ proc[r].at = "forget"
                          /\ Moved(r, "forget_edit") /\ Keeps(r)
                       \/ /\ proc[r].at = "forget_edit"
                          /\ Moved(r, "forget_score") /\ Keeps(r)
                       \/ /\ proc[r].at = "forget_score"
                          /\ Moved(r, "audit") /\ Keeps(r)
<1> USE Procs DEF Keeps
<1>1. {"upstream", "purge", "unqueue", "uncache", "index", "audit", "put", "drop", "drop_edit", "resolve",
       "render", "token", "decide", "forget_edit", "forget_score"} \subseteq At
  BY DEF At
<1>2. ASSUME NEW p \in Proc
      PROVE  /\ PutRecord(p) => Moved(p, "uncache") /\ Keeps(p)
             /\ DropScore(p) => Moved(p, "index") /\ Keeps(p)
             /\ Index(p) => \/ /\ proc[p].op \in Audited
                               /\ Moved(p, "audit") /\ Keeps(p)
                            \/ Done(p)
             /\ Abort(p) => Done(p)
  BY <1>1, Moves DEF PutRecord, DropScore, Index, AfterPut, Abort
<1>3. BridgeDecide =>
         \/ Done("bridge")
         \/ /\ Moved("bridge", "put")
            /\ proc'["bridge"].status \in {"failed", "awaiting_review",
                                           "awaiting_approval"}
  <2> DEFINE W(s) == proc' = [proc EXCEPT !["bridge"].at = "put",
                                          !["bridge"].status = s]
  <2>1. ASSUME NEW s \in Status, W(s)
        PROVE  Moved("bridge", "put") /\ proc'["bridge"].status = s
    <3>1. proc["bridge"] \in ProcState /\ proc \in [Proc -> ProcState]
      BY DEF TypeOK
    <3>2. "put" \in At /\ s \in Status \cup {"absent"}
      BY <1>1, <2>1
    <3> QED
      BY <2>1, <3>1, <3>2 DEF Moved, ProcState
  <2>2. BridgeDecide => \/ Finish("bridge")
                        \/ \E s \in {"failed", "awaiting_review", "awaiting_approval"} : W(s)
    BY DEF BridgeDecide
  <2>3. {"failed", "awaiting_review", "awaiting_approval"} \subseteq Status
    BY DEF Status
  <2> HIDE DEF W
  <2> QED
    BY <2>1, <2>2, <2>3, Moves
<1>4. SweepStep =>
         \/ proc["sweeper"].at = "unindex" /\ Moved("sweeper", "drop")
         \/ proc["sweeper"].at = "drop" /\ Moved("sweeper", "drop_edit")
         \/ proc["sweeper"].at = "drop_edit" /\ Done("sweeper")
  BY <1>1, Moves DEF SweepStep
<1>5. ASSUME NEW r \in Request
      PROVE  /\ PiiGate(r) => Done(r) \/ (Moved(r, "resolve") /\ Keeps(r))
             /\ Serve(r) \/ CacheScore(r) \/ SaveEdit(r) \/ AppendEvent(r)
                \/ ReplyLost(r) => Done(r)
  <2>1. r \in Proc /\ {"resolve", "put"} \subseteq At
    BY <1>1
  <2>2. Finish(r) => Done(r)
    BY <2>1, Moves
  <2>3. Goto(r, "resolve") => Moved(r, "resolve") /\ Keeps(r)
    BY <2>1, Moves
  <2>5. PiiGate(r) => Finish(r) \/ Goto(r, "resolve")
    BY DEF PiiGate
  <2>7. Serve(r) \/ CacheScore(r) \/ SaveEdit(r) \/ AppendEvent(r)
        \/ ReplyLost(r) => Finish(r)
    BY DEF Serve, CacheScore, SaveEdit, AppendEvent, ReplyLost
  <2> QED
    BY <2>5, <2>7, <2>2, <2>3
<1>6. ASSUME NEW r \in Request
      PROVE  /\ Forward(r) => \/ Moved(r, "token") /\ Keeps(r)
                              \/ Moved(r, "audit") /\ Keeps(r)
                              \/ Done(r)
             /\ FetchToken(r) => Done(r) \/ (Moved(r, "decide") /\ Keeps(r))
             /\ ForwardByToken(r) => Done(r) \/ (Moved(r, "audit") /\ Keeps(r))
  <2>1. r \in Proc /\ {"token", "audit", "decide"} \subseteq At
    BY <1>1
  <2>2. Finish(r) => Done(r)
    BY <2>1, Moves
  <2>3. Goto(r, "token") => Moved(r, "token") /\ Keeps(r)
    BY <2>1, Moves
  <2>4. Goto(r, "audit") => Moved(r, "audit") /\ Keeps(r)
    BY <2>1, Moves
  <2>5. Goto(r, "decide") => Moved(r, "decide") /\ Keeps(r)
    BY <2>1, Moves
  <2>6. Forward(r) => Goto(r, "token") \/ Goto(r, "audit") \/ Finish(r)
    BY DEF Forward
  <2>7. FetchToken(r) => Finish(r) \/ Goto(r, "decide")
    BY DEF FetchToken
  <2>8. ForwardByToken(r) => Finish(r) \/ Goto(r, "audit")
    BY DEF ForwardByToken
  <2> QED
    BY <2>6, <2>7, <2>8, <2>2, <2>3, <2>4, <2>5
<1>7. ASSUME NEW r \in Request, ForgetStep(r)
      PROVE  \/ /\ proc[r].at = "forget"
                /\ Moved(r, "forget_edit") /\ Keeps(r)
             \/ /\ proc[r].at = "forget_edit"
                /\ Moved(r, "forget_score") /\ Keeps(r)
             \/ /\ proc[r].at = "forget_score"
                /\ Moved(r, "audit") /\ Keeps(r)
  BY <1>1, <1>7, Moves DEF ForgetStep
<1>8. ASSUME NEW r \in Request, ResolveEdit(r)
      PROVE  \/ /\ proc'[r].status = proc[r].status
                /\ \/ proc[r].op = "approve" /\ Moved(r, "put")
                   \/ proc[r].op = "score" /\ Moved(r, "cache")
                   \/ proc[r].op \in {"view", "preview"} /\ Moved(r, "serve")
             \/ Moved(r, "render") /\ Keeps(r)
  BY <1>1, <1>8, Moves, ResolveMoves DEF ResolveEdit
<1>9. ASSUME NEW r \in Request, ResolveCanonical(r)
      PROVE  \/ /\ proc'[r].status = proc[r].status
                /\ \/ proc[r].op = "approve" /\ Moved(r, "put")
                   \/ proc[r].op = "score" /\ Moved(r, "cache")
                   \/ proc[r].op \in {"view", "preview"} /\ Moved(r, "serve")
             \/ Done(r)
  BY <1>9, ResolveMoves DEF ResolveCanonical
<1>10. BridgeFile => /\ Moved("bridge", "upstream") \/ Moved("bridge", "purge")
                     /\ Keeps("bridge")
  BY <1>1, Moves DEF BridgeFile
<1>11. BridgePurge =>
          \/ /\ proc["bridge"].at = "purge"
             /\ Moved("bridge", "unqueue") /\ Keeps("bridge")
          \/ proc["bridge"].at = "unqueue" /\ Done("bridge")
  BY <1>1, Moves DEF BridgePurge
<1> QED
  BY <1>2, <1>3, <1>4, <1>5, <1>6, <1>7, <1>8, <1>9, <1>10, <1>11

\* What each process holds, by its types.
LEMMA Held ==
    ASSUME TypeOK, Shape, NEW p \in Proc
    PROVE  /\ proc[p].at \in At /\ proc[p].op \in AllOps \cup {"none"}
           /\ proc[p].status \in Status \cup {"absent"}
           /\ proc[p].body \in Body
           /\ proc[p].at # "idle" => proc[p].job \in Job
BY DEF TypeOK, ProcState, Shape

\* The restarted processes.
LEMMA Restarted ==
    ASSUME TypeOK, Restart
    PROVE  proc' = [p \in Proc |-> Idle] /\ proc' \in [Proc -> ProcState]
<1>1. Idle \in ProcState
  BY DEF Idle, ProcState, At, Body
<1> QED
  BY <1>1 DEF Restart

\* Every action keeps the processes well typed.
LEMMA ProcStep ==
    ASSUME TypeOK, Shape, [Next]_vars
    PROVE  proc' \in [Proc -> ProcState]
<1>0. proc \in [Proc -> ProcState]
  BY DEF TypeOK
<1>1. ASSUME NEW p \in Proc, PutRecord(p)
     PROVE  proc' \in [Proc -> ProcState]
  BY <1>1, Procs, Movement
     DEF Moved, Done
<1>2. ASSUME NEW p \in Proc, DropScore(p)
     PROVE  proc' \in [Proc -> ProcState]
  BY <1>2, Procs, Movement
     DEF Moved, Done
<1>3. ASSUME NEW p \in Proc, Index(p)
     PROVE  proc' \in [Proc -> ProcState]
  BY <1>3, Procs, Movement
     DEF Moved, Done
<1>4. ASSUME NEW j \in Job, BridgeRead(j)
     PROVE  proc' \in [Proc -> ProcState]
  <2>1. rec[j] \in Status /\ "file" \in At /\ NoBody \in Body
    BY <1>4 DEF BridgeRead, Pollable, Status, At, Body
  <2> QED
    BY <1>4, <2>1, Procs, Started DEF BridgeRead
<1>5. ASSUME BridgeDecide
     PROVE  proc' \in [Proc -> ProcState]
  BY <1>5, Procs, Movement
     DEF Moved, Done
<1>6. ASSUME NEW j \in Job, SweepRead(j)
     PROVE  proc' \in [Proc -> ProcState]
  <2>1. "unindex" \in At /\ NoBody \in Body
    BY DEF At, Body
  <2> QED
    BY <1>6, <2>1, Procs, Started DEF SweepRead
<1>7. ASSUME SweepStep
     PROVE  proc' \in [Proc -> ProcState]
  BY <1>7, Procs, Movement
     DEF Moved, Done
<1>8. ASSUME NEW j \in Job, UpstreamStep(j)
     PROVE  proc' \in [Proc -> ProcState]
  BY <1>0, <1>8 DEF UpstreamStep
<1>9. ASSUME NEW j \in Job, ExpireScore(j)
     PROVE  proc' \in [Proc -> ProcState]
  BY <1>0, <1>9 DEF ExpireScore
<1>10. ASSUME NEW r \in Request, NEW j \in Job, Open(r, j)
      PROVE  proc' \in [Proc -> ProcState]
  <2>1. PICK o \in AllOps, w \in At, s \in Status \cup {"absent"}, b \in Body :
           Opened(r, j, o, w, s, b)
    BY <1>10, Opening
  <2> QED
    BY <2>1, Procs, Started DEF Opened
<1>11. ASSUME NEW r \in Request, PiiGate(r)
      PROVE  proc' \in [Proc -> ProcState]
  BY <1>11, Procs, Movement
     DEF Moved, Done
<1>12. ASSUME NEW r \in Request, ResolveEdit(r)
      PROVE  proc' \in [Proc -> ProcState]
  BY <1>12, Procs, Movement
     DEF Moved, Done
<1>13. ASSUME NEW r \in Request, ResolveCanonical(r)
      PROVE  proc' \in [Proc -> ProcState]
  BY <1>13, Procs, Movement
     DEF Moved, Done
<1>14. ASSUME BridgeFile
     PROVE  proc' \in [Proc -> ProcState]
  BY <1>14, Procs, Movement
     DEF Moved, Done
<1>15. ASSUME NEW r \in Request, Serve(r)
      PROVE  proc' \in [Proc -> ProcState]
  BY <1>15, Procs, Movement
     DEF Moved, Done
<1>16. ASSUME NEW r \in Request, CacheScore(r)
      PROVE  proc' \in [Proc -> ProcState]
  BY <1>16, Procs, Movement
     DEF Moved, Done
<1>17. ASSUME NEW r \in Request, SaveEdit(r)
      PROVE  proc' \in [Proc -> ProcState]
  BY <1>17, Procs, Movement
     DEF Moved, Done
<1>18. ASSUME NEW r \in Request, Forward(r)
      PROVE  proc' \in [Proc -> ProcState]
  BY <1>18, Procs, Movement
     DEF Moved, Done
<1>19. ASSUME NEW r \in Request, FetchToken(r)
      PROVE  proc' \in [Proc -> ProcState]
  BY <1>19, Procs, Movement
     DEF Moved, Done
<1>20. ASSUME NEW r \in Request, ForwardByToken(r)
      PROVE  proc' \in [Proc -> ProcState]
  BY <1>20, Procs, Movement
     DEF Moved, Done
<1>21. ASSUME NEW r \in Request, ReplyLost(r)
      PROVE  proc' \in [Proc -> ProcState]
  BY <1>21, Procs, Movement
     DEF Moved, Done
<1>22. ASSUME NEW r \in Request, AppendEvent(r)
      PROVE  proc' \in [Proc -> ProcState]
  BY <1>22, Procs, Movement
     DEF Moved, Done
<1>23. ASSUME NEW r \in Request, ForgetStep(r)
      PROVE  proc' \in [Proc -> ProcState]
  BY <1>23, Procs, Movement
     DEF Moved, Done
<1>24. ASSUME NEW p \in Proc, Abort(p)
      PROVE  proc' \in [Proc -> ProcState]
  BY <1>24, Procs, Movement
     DEF Moved, Done
<1>25. ASSUME Restart
      PROVE  proc' \in [Proc -> ProcState]
  BY <1>25, Restarted
<1>26. ASSUME UNCHANGED vars
      PROVE  proc' \in [Proc -> ProcState]
  BY <1>0, <1>26 DEF vars
<1>27. ASSUME BridgePurge
     PROVE  proc' \in [Proc -> ProcState]
  BY <1>27, Procs, Movement
     DEF Moved, Done
<1> QED
  BY <1>1, <1>2, <1>3, <1>4, <1>5, <1>6, <1>7, <1>8, <1>9, <1>10, <1>11,
     <1>12, <1>13, <1>14, <1>15, <1>16, <1>17, <1>18, <1>19, <1>20, <1>21,
     <1>22, <1>23, <1>24, <1>25, <1>26, <1>27, Procs
     DEF Next, BridgeStep, BridgeWork, PutStep, HandlerStep

\* Every action keeps the types.
LEMMA TypeStep ==
    ASSUME TypeOK, Shape, [Next]_vars
    PROVE  TypeOK'
<1>0. proc' \in [Proc -> ProcState]
  BY ProcStep
<1> USE DEF store, core, history
<1>1. ASSUME NEW p \in Proc, PutRecord(p)
     PROVE  TypeOK'
  BY <1>1, <1>0, Procs, Held
     DEF PutRecord, TypeOK, Shape
<1>2. ASSUME NEW p \in Proc, DropScore(p)
     PROVE  TypeOK'
  BY <1>2, <1>0, Procs, Held, BoundAssumption
     DEF DropScore, TypeOK, NoScore, Fault, Body
<1>3. ASSUME NEW p \in Proc, Index(p)
     PROVE  TypeOK'
  BY <1>3, <1>0, Procs, Held
     DEF Index, TypeOK
<1>4. ASSUME NEW j \in Job, BridgeRead(j)
     PROVE  TypeOK'
  BY <1>4, <1>0, Procs, Held
     DEF BridgeRead, TypeOK
<1>5. ASSUME BridgeDecide
     PROVE  TypeOK'
  BY <1>5, <1>0, Procs, Held
     DEF BridgeDecide, TypeOK
<1>6. ASSUME NEW j \in Job, SweepRead(j)
     PROVE  TypeOK'
  BY <1>6, <1>0, Procs, Held
     DEF SweepRead, TypeOK
<1>7. ASSUME SweepStep
     PROVE  TypeOK'
  BY <1>7, <1>0, Procs, Held
     DEF SweepStep, TypeOK, Body
<1>8. ASSUME NEW j \in Job, UpstreamStep(j)
     PROVE  TypeOK'
  BY <1>8, <1>0, Procs, Held
     DEF UpstreamStep, TypeOK, Upstream
<1>9. ASSUME NEW j \in Job, ExpireScore(j)
     PROVE  TypeOK'
  BY <1>9, <1>0, Procs, Held
     DEF ExpireScore, TypeOK, NoScore, Body
<1>10. ASSUME NEW r \in Request, NEW j \in Job, Open(r, j)
      PROVE  TypeOK'
  BY <1>10, <1>0, Procs, Held, Opening
     DEF TypeOK, Opened
<1>11. ASSUME NEW r \in Request, PiiGate(r)
      PROVE  TypeOK'
  BY <1>11, <1>0, Procs, Held, BoundAssumption
     DEF PiiGate, TypeOK, Fault
<1>12. ASSUME NEW r \in Request, ResolveEdit(r)
      PROVE  TypeOK'
  BY <1>12, <1>0, Procs, Held
     DEF ResolveEdit, TypeOK
<1>13. ASSUME NEW r \in Request, ResolveCanonical(r)
      PROVE  TypeOK'
  BY <1>13, <1>0, Procs, Held, BoundAssumption
     DEF ResolveCanonical, TypeOK, Fault
<1>14. ASSUME BridgeFile
     PROVE  TypeOK'
  BY <1>14, <1>0, Procs, Held
     DEF BridgeFile, TypeOK
<1>15. ASSUME NEW r \in Request, Serve(r)
      PROVE  TypeOK'
  BY <1>15, <1>0, Procs, Held
     DEF Serve, TypeOK
<1>16. ASSUME NEW r \in Request, CacheScore(r)
      PROVE  TypeOK'
  BY <1>16, <1>0, Procs, Held
     DEF CacheScore, TypeOK, Shape, Body
<1>17. ASSUME NEW r \in Request, SaveEdit(r)
      PROVE  TypeOK'
  BY <1>17, <1>0, Procs, Held
     DEF SaveEdit, TypeOK, Shape
<1>18. ASSUME NEW r \in Request, Forward(r)
      PROVE  TypeOK'
  BY <1>18, <1>0, Procs, Held
     DEF Forward, TypeOK, CarryOut, Upstream, Shape, Passes
<1>19. ASSUME NEW r \in Request, FetchToken(r)
      PROVE  TypeOK'
  BY <1>19, <1>0, Procs, Held
     DEF FetchToken, TypeOK
<1>20. ASSUME NEW r \in Request, ForwardByToken(r)
      PROVE  TypeOK'
  BY <1>20, <1>0, Procs, Held
     DEF ForwardByToken, TypeOK, CarryOut, Upstream, Shape, Passes
<1>21. ASSUME NEW r \in Request, ReplyLost(r)
      PROVE  TypeOK'
  BY <1>21, <1>0, Procs, Held, BoundAssumption
     DEF ReplyLost, TypeOK, CarryOut, Upstream, Shape, Passes, Fault
<1>22. ASSUME NEW r \in Request, AppendEvent(r)
      PROVE  TypeOK'
  BY <1>22, <1>0, Procs, Held
     DEF AppendEvent, TypeOK
<1>23. ASSUME NEW r \in Request, ForgetStep(r)
      PROVE  TypeOK'
  BY <1>23, <1>0, Procs, Held, BoundAssumption
     DEF ForgetStep, TypeOK, NoScore, Fault, Body
<1>24. ASSUME NEW p \in Proc, Abort(p)
      PROVE  TypeOK'
  BY <1>24, <1>0, Procs, Held, BoundAssumption
     DEF Abort, TypeOK, Drop, Fault
<1>25. ASSUME Restart
      PROVE  TypeOK'
  BY <1>25, <1>0, Procs, Held, BoundAssumption
     DEF Restart, TypeOK, Drop, Fault
<1>26. ASSUME UNCHANGED vars
      PROVE  TypeOK'
  BY <1>26, <1>0, Procs, Held
     DEF TypeOK, vars
<1>27. ASSUME BridgePurge
     PROVE  TypeOK'
  BY <1>27, <1>0, Procs, Held
     DEF BridgePurge, TypeOK
<1> QED
  BY <1>1, <1>2, <1>3, <1>4, <1>5, <1>6, <1>7, <1>8, <1>9, <1>10, <1>11,
     <1>12, <1>13, <1>14, <1>15, <1>16, <1>17, <1>18, <1>19, <1>20, <1>21,
     <1>22, <1>23, <1>24, <1>25, <1>26, <1>27, Procs
     DEF Next, BridgeStep, BridgeWork, PutStep, HandlerStep

\* A process that is done is where it can be.
LEMMA DoneShape ==
    ASSUME Shape, NEW p \in Proc, Done(p)
    PROVE  Shape'
BY Procs, RequestAssumption DEF Shape, Done, Idle

\* Every action keeps processes where they can be.
LEMMA ShapeStep ==
    ASSUME TypeOK, Shape, [Next]_vars
    PROVE  Shape'
<1>0. proc' \in [Proc -> ProcState]
  BY ProcStep
<1>00. \A r \in Request : r # "bridge" /\ r # "sweeper"
  BY RequestAssumption
<1>1. ASSUME NEW p \in Proc, PutRecord(p)
     PROVE  Shape'
  <2>1. Moved(p, "uncache") /\ Keeps(p)
    BY <1>1, Movement
  <2>2. proc[p].at = "put"
    BY <1>1 DEF PutRecord
  <2> QED
    BY <1>0, <1>00, <2>1, <2>2, Procs DEF Shape, Moved, Keeps, Passes
<1>2. ASSUME NEW p \in Proc, DropScore(p)
     PROVE  Shape'
  BY <1>2, <1>0, <1>00, Procs, Held, Movement
     DEF DropScore, Shape, Moved, Done, Keeps, Idle, Passes, Transitions, Audited, Reading,
        Decision
<1>3. ASSUME NEW p \in Proc, Index(p)
     PROVE  Shape'
  <2>1. CASE Done(p)
    BY <2>1, Procs, DoneShape
  <2>2. CASE Moved(p, "audit") /\ Keeps(p) /\ proc[p].op \in Audited
    BY <1>3, <1>0, <1>00, <2>2, Procs, Held
       DEF Index, Shape, Moved, Keeps, Passes, Transitions, Audited, Reading, Decision
  <2> QED
    BY <1>3, <2>1, <2>2, Procs, Movement
<1>4. ASSUME NEW j \in Job, BridgeRead(j)
     PROVE  Shape'
  <2>1. rec[j] \in Status /\ "file" \in At /\ NoBody \in Body
    BY <1>4 DEF BridgeRead, Pollable, Status, At, Body
  <2>2. /\ proc'["bridge"] = [at |-> "file", op |-> "none", job |-> j,
                              status |-> rec[j], body |-> NoBody]
        /\ \A q \in Proc : q # "bridge" => proc'[q] = proc[q]
    BY <1>4, <2>1, Procs, Started DEF BridgeRead
  <2> QED
    BY <1>00, <2>2, Procs DEF Shape
<1>5. ASSUME BridgeDecide
     PROVE  Shape'
  BY <1>5, <1>0, <1>00, Procs, Held, Movement
     DEF BridgeDecide, Shape, Moved, Done, Keeps, Idle, Passes, Transitions, Audited, Reading,
        Decision, Status
<1>6. ASSUME NEW j \in Job, SweepRead(j)
     PROVE  Shape'
  <2>1. "unindex" \in At /\ NoBody \in Body
    BY DEF At, Body
  <2>2. /\ proc'["sweeper"] = [at |-> "unindex", op |-> "none", job |-> j,
                               status |-> "absent", body |-> NoBody]
        /\ \A q \in Proc : q # "sweeper" => proc'[q] = proc[q]
    BY <1>6, <2>1, Procs, Started DEF SweepRead
  <2> QED
    BY <1>00, <2>2, Procs DEF Shape
<1>7. ASSUME SweepStep
     PROVE  Shape'
  BY <1>7, <1>0, <1>00, Procs, Held, Movement
     DEF SweepStep, Shape, Moved, Done, Keeps, Idle, Passes, Transitions, Audited, Reading,
        Decision
<1>8. ASSUME NEW j \in Job, UpstreamStep(j)
     PROVE  Shape'
  BY <1>8 DEF UpstreamStep, Shape
<1>9. ASSUME NEW j \in Job, ExpireScore(j)
     PROVE  Shape'
  BY <1>9 DEF ExpireScore, Shape
<1>10. ASSUME NEW r \in Request, NEW j \in Job, Open(r, j)
      PROVE  Shape'
  <2>1. PICK o \in AllOps, w \in At, s \in Status \cup {"absent"}, b \in Body :
           Opened(r, j, o, w, s, b)
    BY <1>10, Opening
  <2>2. /\ proc'[r] = [at |-> w, op |-> o, job |-> j, status |-> s, body |-> b]
        /\ \A q \in Proc : q # r => proc'[q] = proc[q]
    BY <2>1, Procs, Started DEF Opened
  <2> QED
    BY <1>00, <2>1, <2>2, Procs DEF Shape, Opened
<1>11. ASSUME NEW r \in Request, PiiGate(r)
      PROVE  Shape'
  <2>1. /\ proc[r].at = "gate" /\ proc[r].job \in Job
        /\ proc[r].op \in {"view", "preview"}
    BY <1>11, Procs DEF PiiGate, Shape, Passes, Transitions, Audited, Decision, Reading
  <2>2. CASE Done(r)
    BY <2>2, Procs, DoneShape
  <2>3. CASE Moved(r, "resolve") /\ Keeps(r)
    BY <1>00, <2>1, <2>3, Procs DEF Shape, Moved, Keeps, Passes, Reading
  <2> QED
    BY <1>11, <2>2, <2>3, Movement
<1>12. ASSUME NEW r \in Request, ResolveEdit(r)
      PROVE  Shape'
  <2>1. /\ proc[r].at \in {"resolve", "render"} /\ proc[r].job \in Job
        /\ Passes(proc[r].op, proc[r].at)
        /\ proc[r].op = "approve" => proc[r].status = "published"
    BY <1>12, Procs DEF ResolveEdit, Shape
  <2>2. CASE Done(r)
    BY <2>2, Procs, DoneShape
  <2>3. CASE Moved(r, "render") /\ Keeps(r)
    BY <1>0, <1>00, <2>1, <2>3, Procs
       DEF Shape, Moved, Keeps, Passes, Transitions, Audited, Reading, Decision
  <2>4. CASE /\ proc'[r].status = proc[r].status
             /\ \/ proc[r].op = "approve" /\ Moved(r, "put")
                \/ proc[r].op = "score" /\ Moved(r, "cache")
                \/ proc[r].op \in {"view", "preview"} /\ Moved(r, "serve")
    <3>1. "published" \in Status
      BY DEF Status
    <3> QED
      BY <1>0, <1>00, <2>1, <2>4, <3>1, Procs
         DEF Shape, Moved, Passes, Transitions, Audited, Reading, Decision
  <2> QED
    BY <1>12, <2>2, <2>3, <2>4, Movement
<1>13. ASSUME NEW r \in Request, ResolveCanonical(r)
      PROVE  Shape'
  <2>1. /\ proc[r].at \in {"resolve", "render"} /\ proc[r].job \in Job
        /\ Passes(proc[r].op, proc[r].at)
        /\ proc[r].op = "approve" => proc[r].status = "published"
    BY <1>13, Procs DEF ResolveCanonical, Shape
  <2>2. CASE Done(r)
    BY <2>2, Procs, DoneShape
  <2>3. CASE Moved(r, "render") /\ Keeps(r)
    BY <1>0, <1>00, <2>1, <2>3, Procs
       DEF Shape, Moved, Keeps, Passes, Transitions, Audited, Reading, Decision
  <2>4. CASE /\ proc'[r].status = proc[r].status
             /\ \/ proc[r].op = "approve" /\ Moved(r, "put")
                \/ proc[r].op = "score" /\ Moved(r, "cache")
                \/ proc[r].op \in {"view", "preview"} /\ Moved(r, "serve")
    <3>1. "published" \in Status
      BY DEF Status
    <3> QED
      BY <1>0, <1>00, <2>1, <2>4, <3>1, Procs
         DEF Shape, Moved, Passes, Transitions, Audited, Reading, Decision
  <2> QED
    BY <1>13, <2>2, <2>3, <2>4, Movement
<1>14. ASSUME BridgeFile
     PROVE  Shape'
  <2>1. /\ Moved("bridge", "upstream") \/ Moved("bridge", "purge")
        /\ Keeps("bridge") /\ proc["bridge"].at = "file"
    BY <1>14, Movement DEF BridgeFile
  <2> QED
    BY <1>00, <2>1, Procs DEF Shape, Moved, Keeps
<1>15. ASSUME NEW r \in Request, Serve(r)
      PROVE  Shape'
  BY <1>15, Procs, Movement, DoneShape
<1>16. ASSUME NEW r \in Request, CacheScore(r)
      PROVE  Shape'
  BY <1>16, Procs, Movement, DoneShape
<1>17. ASSUME NEW r \in Request, SaveEdit(r)
      PROVE  Shape'
  BY <1>17, Procs, Movement, DoneShape
<1>18. ASSUME NEW r \in Request, Forward(r)
      PROVE  Shape'
  BY <1>18, <1>0, <1>00, Procs, Held, Movement
     DEF Forward, Shape, Moved, Done, Keeps, Idle, Passes, Transitions, Audited, Reading,
        Decision
<1>19. ASSUME NEW r \in Request, FetchToken(r)
      PROVE  Shape'
  BY <1>19, <1>0, <1>00, Procs, Held, Movement
     DEF FetchToken, Shape, Moved, Done, Keeps, Idle, Passes, Transitions, Audited, Reading,
        Decision
<1>20. ASSUME NEW r \in Request, ForwardByToken(r)
      PROVE  Shape'
  BY <1>20, <1>0, <1>00, Procs, Held, Movement
     DEF ForwardByToken, Shape, Moved, Done, Keeps, Idle, Passes, Transitions, Audited, Reading,
        Decision
<1>21. ASSUME NEW r \in Request, ReplyLost(r)
      PROVE  Shape'
  BY <1>21, <1>0, <1>00, Procs, Held, Movement
     DEF ReplyLost, Shape, Moved, Done, Keeps, Idle, Passes, Transitions, Audited, Reading,
        Decision
<1>22. ASSUME NEW r \in Request, AppendEvent(r)
      PROVE  Shape'
  BY <1>22, <1>0, <1>00, Procs, Held, Movement
     DEF AppendEvent, Shape, Moved, Done, Keeps, Idle, Passes, Transitions, Audited, Reading,
        Decision
<1>23. ASSUME NEW r \in Request, ForgetStep(r)
      PROVE  Shape'
  BY <1>23, <1>0, <1>00, Procs, Held, Movement
     DEF ForgetStep, Shape, Moved, Done, Keeps, Idle, Passes, Transitions, Audited, Reading,
        Decision
<1>24. ASSUME NEW p \in Proc, Abort(p)
      PROVE  Shape'
  BY <1>24, Procs, Movement, DoneShape
<1>25. ASSUME Restart
      PROVE  Shape'
  BY <1>25, Restarted, Procs DEF Shape, Idle
<1>26. ASSUME UNCHANGED vars
      PROVE  Shape'
  BY <1>26 DEF vars, Shape
<1>27. ASSUME BridgePurge
     PROVE  Shape'
  BY <1>27, <1>0, <1>00, Procs, Held, Movement
     DEF BridgePurge, Shape, Moved, Done, Keeps, Idle, Passes, Transitions, Audited, Reading,
        Decision, Status
<1> QED
  BY <1>1, <1>2, <1>3, <1>4, <1>5, <1>6, <1>7, <1>8, <1>9, <1>10, <1>11,
     <1>12, <1>13, <1>14, <1>15, <1>16, <1>17, <1>18, <1>19, <1>20, <1>21,
     <1>22, <1>23, <1>24, <1>25, <1>26, <1>27, Procs
     DEF Next, BridgeStep, BridgeWork, PutStep, HandlerStep

\* Where a process is between the calls of a put_job or a purge.
InPut == {"uncache", "index"}
InWrite == {"uncache", "index", "drop", "unqueue"}

\* The queue, as an invariant of its own.
Queue == Writers /\ Purged /\ PendingAgrees

\* A step that leaves the queue, the records and put_jobs alone.
LEMMA QueueQuiet ==
    ASSUME Queue, NEW p \in Proc, \A q \in Proc : q # p => proc'[q] = proc[q],
           proc[p].at \notin InWrite, proc'[p].at \notin InWrite,
           rec' = rec, pending' = pending, torn' = torn
    PROVE  Queue'
BY DEF Queue, Writers, Purged, PendingAgrees, Writing, InWrite

\* Every action keeps the queue in agreement with the records.
LEMMA QueueStep ==
    ASSUME TypeOK, Shape, Queue, [Next]_vars
    PROVE  Queue'
<1> USE DEF store, core, history
<1>1. ASSUME NEW p \in Proc, PutRecord(p)
     PROVE  Queue'
  <2>1. Moved(p, "uncache") /\ Keeps(p)
    BY <1>1, Movement
  <2>2. proc[p].at = "put" /\ proc[p].job \in Job /\ proc[p].status \in Status
    BY <1>1 DEF PutRecord, Shape
  <2>3. /\ rec' = [rec EXCEPT ![proc[p].job] = proc[p].status]
        /\ torn' = IF \E q \in Proc : Writing(q, proc[p].job)
                   THEN torn \cup {proc[p].job} ELSE torn \ {proc[p].job}
        /\ pending' = pending
    BY <1>1 DEF PutRecord
  <2>4. rec \in [Job -> Status \cup {"absent"}]
    BY DEF TypeOK
  <2>5. Writers'
    BY <2>1, <2>2, <2>3, <2>4 DEF Queue, Writers, Writing, Moved, Keeps
  <2>6. PendingAgrees'
    BY <2>1, <2>2, <2>3, <2>4 DEF Queue, PendingAgrees, Writing, Moved
  <2>7. ASSUME NEW q \in Proc, proc'[q].at = "unqueue"
        PROVE  rec'[proc'[q].job] = "absent" \/ proc'[q].job \in torn'
    <3>1. /\ proc'[q] = proc[q] /\ proc[q].at = "unqueue"
          /\ rec[proc[q].job] = "absent" \/ proc[q].job \in torn
      BY <2>1, <2>7 DEF Moved, Queue, Purged
    <3>2. CASE proc[q].job = proc[p].job
      BY <2>3, <3>1, <3>2 DEF Writing
    <3>3. CASE proc[q].job # proc[p].job
      BY <2>2, <2>3, <2>4, <3>1, <3>3
    <3> QED
      BY <3>2, <3>3
  <2> QED
    BY <2>5, <2>6, <2>7 DEF Queue, Purged
<1>2. ASSUME NEW p \in Proc, DropScore(p)
     PROVE  Queue'
  <2>1. Moved(p, "index") /\ Keeps(p)
    BY <1>2, Movement
  <2>2. proc[p].at = "uncache" /\ rec' = rec /\ pending' = pending /\ torn' = torn
    BY <1>2 DEF DropScore
  <2> QED
    BY <2>1, <2>2 DEF Queue, Writers, Purged, PendingAgrees, Writing, Moved, Keeps
<1>3. ASSUME NEW p \in Proc, Index(p)
     PROVE  Queue'
  <2>1. /\ proc'[p].at \notin InWrite
        /\ \A q \in Proc : q # p => proc'[q] = proc[q]
    BY <1>3, Movement DEF Moved, Done, Idle, InWrite
  <2>2. /\ proc[p].at = "index" /\ proc[p].job \in Job /\ rec' = rec /\ torn' = torn
        /\ pending' = IF proc[p].status \in Awaiting
                      THEN pending \cup {proc[p].job} ELSE pending \ {proc[p].job}
    BY <1>3 DEF Index, Shape
  <2>3. Writers'
    BY <2>1, <2>2 DEF Queue, Writers, InWrite
  <2>4. ASSUME NEW k \in Job \ torn, rec[k] # "absent",
               ~(\E q \in Proc : Writing(q, k)')
        PROVE  k \in pending' <=> rec[k] \in Awaiting
    <3>1. CASE k = proc[p].job
      BY <2>2, <2>4, <3>1 DEF Queue, Writers
    <3>2. CASE k # proc[p].job
      <4>1. ~(\E q \in Proc : Writing(q, k))
        BY <2>1, <2>4, <3>2 DEF Writing
      <4> QED
        BY <2>2, <2>4, <3>2, <4>1 DEF Queue, PendingAgrees
    <3> QED
      BY <3>1, <3>2
  <2>5. Purged'
    BY <2>1, <2>2 DEF Queue, Purged, InWrite
  <2> QED
    BY <2>2, <2>3, <2>4, <2>5 DEF Queue, PendingAgrees
<1>4. ASSUME NEW j \in Job, BridgeRead(j)
     PROVE  Queue'
  <2>1. rec[j] \in Status /\ "file" \in At /\ NoBody \in Body
    BY <1>4 DEF BridgeRead, Pollable, Status, At, Body
  <2>2. /\ proc'["bridge"] = [at |-> "file", op |-> "none", job |-> j,
                              status |-> rec[j], body |-> NoBody]
        /\ \A q \in Proc : q # "bridge" => proc'[q] = proc[q]
    BY <1>4, <2>1, Procs, Started DEF BridgeRead
  <2> QED
    BY <1>4, <2>2, Procs, QueueQuiet DEF BridgeRead, InWrite
<1>5. ASSUME BridgeDecide
     PROVE  Queue'
  <2>1. proc["bridge"].at \notin InWrite /\ rec' = rec /\ pending' = pending /\ torn' = torn
    BY <1>5 DEF BridgeDecide, InWrite
  <2>2. proc'["bridge"].at \notin InWrite /\ \A q \in Proc : q # "bridge" => proc'[q] = proc[q]
    BY <1>5, Movement DEF Moved, Done, Idle, InWrite
  <2> QED
    BY <2>1, <2>2, Procs, QueueQuiet
<1>6. ASSUME NEW j \in Job, SweepRead(j)
     PROVE  Queue'
  <2>1. "unindex" \in At /\ NoBody \in Body
    BY DEF At, Body
  <2>2. /\ proc'["sweeper"] = [at |-> "unindex", op |-> "none", job |-> j,
                               status |-> "absent", body |-> NoBody]
        /\ \A q \in Proc : q # "sweeper" => proc'[q] = proc[q]
    BY <1>6, <2>1, Procs, Started DEF SweepRead
  <2> QED
    BY <1>6, <2>2, Procs, QueueQuiet DEF SweepRead, InWrite
<1>7. ASSUME SweepStep
     PROVE  Queue'
  <2> DEFINE k == proc["sweeper"].job
  <2>1. torn' = torn /\ \A q \in Proc : q # "sweeper" => proc'[q] = proc[q]
    BY <1>7, Movement DEF SweepStep, Moved, Done
  <2>2. CASE proc["sweeper"].at = "unindex"
    <3>0. k \in Job
      BY <2>2, Procs DEF Shape
    <3>1. rec' = rec /\ pending' = pending \ {k}
      BY <1>7, <2>2 DEF SweepStep
    <3>2. proc'["sweeper"].at = "drop" /\ proc'["sweeper"].job = k
      BY <1>7, <2>2, Movement DEF Moved, Done, Idle
    <3> QED
      BY <2>1, <2>2, <3>0, <3>1, <3>2, Procs
         DEF Queue, Writers, Purged, PendingAgrees, Writing
  <2>3. CASE proc["sweeper"].at = "drop"
    <3>0. k \in Job
      BY <2>3, Procs DEF Shape
    <3>1. rec' = [rec EXCEPT ![k] = "absent"] /\ pending' = pending
      BY <1>7, <2>3 DEF SweepStep
    <3>2. proc'["sweeper"].at = "drop_edit"
      BY <1>7, <2>3, Movement DEF Moved, Done, Idle
    <3>3. rec \in [Job -> Status \cup {"absent"}]
      BY DEF TypeOK
    <3> QED
      BY <2>1, <2>3, <3>0, <3>1, <3>2, <3>3, Procs
         DEF Queue, Writers, Purged, PendingAgrees, Writing
  <2>4. CASE proc["sweeper"].at = "drop_edit"
    <3>1. rec' = rec /\ pending' = pending
      BY <1>7, <2>4 DEF SweepStep
    <3>2. proc'["sweeper"].at = "idle"
      BY <1>7, <2>4, Movement DEF Moved, Done, Idle
    <3> QED
      BY <2>1, <2>4, <3>1, <3>2, Procs, QueueQuiet DEF InWrite
  <2> QED
    BY <1>7, <2>2, <2>3, <2>4 DEF SweepStep
<1>8. ASSUME NEW j \in Job, UpstreamStep(j)
     PROVE  Queue'
  BY <1>8 DEF UpstreamStep, Queue, Writers, Purged, PendingAgrees, Writing
<1>9. ASSUME NEW j \in Job, ExpireScore(j)
     PROVE  Queue'
  BY <1>9 DEF ExpireScore, Queue, Writers, Purged, PendingAgrees, Writing
<1>10. ASSUME NEW r \in Request, NEW j \in Job, Open(r, j)
      PROVE  Queue'
  <2>1. PICK o \in AllOps, w \in At, s \in Status \cup {"absent"}, b \in Body :
           Opened(r, j, o, w, s, b)
    BY <1>10, Opening
  <2>2. /\ proc'[r] = [at |-> w, op |-> o, job |-> j, status |-> s, body |-> b]
        /\ \A q \in Proc : q # r => proc'[q] = proc[q]
    BY <2>1, Procs, Started DEF Opened
  <2> QED
    BY <2>1, <2>2, Procs, QueueQuiet DEF Opened, InWrite
<1>11. ASSUME NEW r \in Request, PiiGate(r)
      PROVE  Queue'
  <2>1. proc[r].at \notin InWrite /\ rec' = rec /\ pending' = pending /\ torn' = torn
    BY <1>11 DEF PiiGate, InWrite
  <2>2. proc'[r].at \notin InWrite /\ \A q \in Proc : q # r => proc'[q] = proc[q]
    BY <1>11, Movement DEF Moved, Done, Idle, InWrite
  <2> QED
    BY <2>1, <2>2, Procs, QueueQuiet
<1>12. ASSUME NEW r \in Request, ResolveEdit(r)
      PROVE  Queue'
  <2>1. proc[r].at \notin InWrite /\ rec' = rec /\ pending' = pending /\ torn' = torn
    BY <1>12 DEF ResolveEdit, InWrite
  <2>2. proc'[r].at \notin InWrite /\ \A q \in Proc : q # r => proc'[q] = proc[q]
    BY <1>12, Movement DEF Moved, Done, Idle, InWrite
  <2> QED
    BY <2>1, <2>2, Procs, QueueQuiet
<1>13. ASSUME NEW r \in Request, ResolveCanonical(r)
      PROVE  Queue'
  <2>1. proc[r].at \notin InWrite /\ rec' = rec /\ pending' = pending /\ torn' = torn
    BY <1>13 DEF ResolveCanonical, InWrite
  <2>2. proc'[r].at \notin InWrite /\ \A q \in Proc : q # r => proc'[q] = proc[q]
    BY <1>13, Movement DEF Moved, Done, Idle, InWrite
  <2> QED
    BY <2>1, <2>2, Procs, QueueQuiet
<1>14. ASSUME BridgeFile
     PROVE  Queue'
  <2>1. proc["bridge"].at \notin InWrite /\ rec' = rec /\ pending' = pending /\ torn' = torn
    BY <1>14 DEF BridgeFile, InWrite
  <2>2. proc'["bridge"].at \notin InWrite /\ \A q \in Proc : q # "bridge" => proc'[q] = proc[q]
    BY <1>14, Movement DEF Moved, Done, Idle, InWrite
  <2> QED
    BY <2>1, <2>2, Procs, QueueQuiet
<1>15. ASSUME NEW r \in Request, Serve(r)
      PROVE  Queue'
  <2>1. proc[r].at \notin InWrite /\ rec' = rec /\ pending' = pending /\ torn' = torn
    BY <1>15 DEF Serve, InWrite
  <2>2. proc'[r].at \notin InWrite /\ \A q \in Proc : q # r => proc'[q] = proc[q]
    BY <1>15, Movement DEF Moved, Done, Idle, InWrite
  <2> QED
    BY <2>1, <2>2, Procs, QueueQuiet
<1>16. ASSUME NEW r \in Request, CacheScore(r)
      PROVE  Queue'
  <2>1. proc[r].at \notin InWrite /\ rec' = rec /\ pending' = pending /\ torn' = torn
    BY <1>16 DEF CacheScore, InWrite
  <2>2. proc'[r].at \notin InWrite /\ \A q \in Proc : q # r => proc'[q] = proc[q]
    BY <1>16, Movement DEF Moved, Done, Idle, InWrite
  <2> QED
    BY <2>1, <2>2, Procs, QueueQuiet
<1>17. ASSUME NEW r \in Request, SaveEdit(r)
      PROVE  Queue'
  <2>1. proc[r].at \notin InWrite /\ rec' = rec /\ pending' = pending /\ torn' = torn
    BY <1>17 DEF SaveEdit, InWrite
  <2>2. proc'[r].at \notin InWrite /\ \A q \in Proc : q # r => proc'[q] = proc[q]
    BY <1>17, Movement DEF Moved, Done, Idle, InWrite
  <2> QED
    BY <2>1, <2>2, Procs, QueueQuiet
<1>18. ASSUME NEW r \in Request, Forward(r)
      PROVE  Queue'
  <2>1. proc[r].at \notin InWrite /\ rec' = rec /\ pending' = pending /\ torn' = torn
    BY <1>18 DEF Forward, InWrite, CarryOut
  <2>2. proc'[r].at \notin InWrite /\ \A q \in Proc : q # r => proc'[q] = proc[q]
    BY <1>18, Movement DEF Moved, Done, Idle, InWrite
  <2> QED
    BY <2>1, <2>2, Procs, QueueQuiet
<1>19. ASSUME NEW r \in Request, FetchToken(r)
      PROVE  Queue'
  <2>1. proc[r].at \notin InWrite /\ rec' = rec /\ pending' = pending /\ torn' = torn
    BY <1>19 DEF FetchToken, InWrite
  <2>2. proc'[r].at \notin InWrite /\ \A q \in Proc : q # r => proc'[q] = proc[q]
    BY <1>19, Movement DEF Moved, Done, Idle, InWrite
  <2> QED
    BY <2>1, <2>2, Procs, QueueQuiet
<1>20. ASSUME NEW r \in Request, ForwardByToken(r)
      PROVE  Queue'
  <2>1. proc[r].at \notin InWrite /\ rec' = rec /\ pending' = pending /\ torn' = torn
    BY <1>20 DEF ForwardByToken, InWrite, CarryOut
  <2>2. proc'[r].at \notin InWrite /\ \A q \in Proc : q # r => proc'[q] = proc[q]
    BY <1>20, Movement DEF Moved, Done, Idle, InWrite
  <2> QED
    BY <2>1, <2>2, Procs, QueueQuiet
<1>21. ASSUME NEW r \in Request, ReplyLost(r)
      PROVE  Queue'
  <2>1. proc[r].at \notin InWrite /\ rec' = rec /\ pending' = pending /\ torn' = torn
    BY <1>21 DEF ReplyLost, InWrite, CarryOut
  <2>2. proc'[r].at \notin InWrite /\ \A q \in Proc : q # r => proc'[q] = proc[q]
    BY <1>21, Movement DEF Moved, Done, Idle, InWrite
  <2> QED
    BY <2>1, <2>2, Procs, QueueQuiet
<1>22. ASSUME NEW r \in Request, AppendEvent(r)
      PROVE  Queue'
  <2>1. proc[r].at \notin InWrite /\ rec' = rec /\ pending' = pending /\ torn' = torn
    BY <1>22 DEF AppendEvent, InWrite
  <2>2. proc'[r].at \notin InWrite /\ \A q \in Proc : q # r => proc'[q] = proc[q]
    BY <1>22, Movement DEF Moved, Done, Idle, InWrite
  <2> QED
    BY <2>1, <2>2, Procs, QueueQuiet
<1>23. ASSUME NEW r \in Request, ForgetStep(r)
      PROVE  Queue'
  <2>1. /\ proc[r].at \notin InWrite /\ proc'[r].at \notin InWrite
        /\ \A q \in Proc : q # r => proc'[q] = proc[q]
    BY <1>23, Movement DEF Moved, InWrite
  <2>2. pending' = pending /\ torn' = torn
    BY <1>23 DEF ForgetStep
  <2>3. rec' = rec \/ rec' = [rec EXCEPT ![proc[r].job] = "absent"]
    BY <1>23 DEF ForgetStep
  <2>4. \A j \in Job : rec'[j] \in {rec[j], "absent"}
    BY <2>3 DEF TypeOK
  <2>5. Writers'
    BY <2>1, <2>2, <2>4 DEF Queue, Writers, InWrite
  <2>6. PendingAgrees'
    BY <2>1, <2>2, <2>4, Procs DEF Queue, PendingAgrees, Writing, InWrite
  <2>7. ASSUME NEW q \in Proc, proc'[q].at = "unqueue"
        PROVE  rec'[proc'[q].job] = "absent" \/ proc'[q].job \in torn'
    <3>1. proc'[q] = proc[q] /\ proc[q].job \in Job
      BY <2>1, <2>7, Procs DEF InWrite, Shape
    <3> QED
      BY <2>2, <2>4, <2>7, <3>1 DEF Queue, Purged
  <2> QED
    BY <2>5, <2>6, <2>7 DEF Queue, Purged
<1>24. ASSUME NEW p \in Proc, Abort(p)
      PROVE  Queue'
  <2>1. Done(p) /\ rec' = rec /\ pending' = pending
    BY <1>24, Movement DEF Abort
  <2>2. torn' = torn \cup {j \in Job : \E q \in {p} : Writing(q, j)}
    BY <1>24 DEF Abort, Drop
  <2> QED
    BY <2>1, <2>2 DEF Queue, Writers, Purged, PendingAgrees, Writing, Done, Idle
<1>25. ASSUME Restart
      PROVE  Queue'
  <2>1. rec' = rec /\ pending' = pending
    BY <1>25 DEF Restart
  <2>2. torn' = torn \cup {j \in Job : \E q \in Proc : Writing(q, j)}
    BY <1>25 DEF Restart, Drop
  <2>3. \A q \in Proc : proc'[q].at = "idle"
    BY <1>25, Restarted DEF Idle
  <2> QED
    BY <2>1, <2>2, <2>3 DEF Queue, Writers, Purged, PendingAgrees, Writing
<1>26. ASSUME UNCHANGED vars
      PROVE  Queue'
  BY <1>26 DEF vars, Queue, Writers, Purged, PendingAgrees, Writing
<1>27. ASSUME BridgePurge
     PROVE  Queue'
  <2> DEFINE k == proc["bridge"].job
  <2>1. torn' = torn /\ \A q \in Proc : q # "bridge" => proc'[q] = proc[q]
    BY <1>27, Movement DEF BridgePurge, Moved, Done
  <2>2. CASE proc["bridge"].at = "purge"
    <3>0. k \in Job
      BY <2>2, Procs DEF Shape
    <3>1. rec' = [rec EXCEPT ![k] = "absent"] /\ pending' = pending
      BY <1>27, <2>2 DEF BridgePurge
    <3>2. proc'["bridge"].at = "unqueue" /\ proc'["bridge"].job = k
      BY <1>27, <2>2, Movement DEF Moved, Done, Idle
    <3>3. rec \in [Job -> Status \cup {"absent"}]
      BY DEF TypeOK
    <3> QED
      BY <2>1, <2>2, <3>0, <3>1, <3>2, <3>3, Procs
         DEF Queue, Writers, Purged, PendingAgrees, Writing
  <2>3. CASE proc["bridge"].at = "unqueue"
    <3>0. k \in Job /\ (rec[k] = "absent" \/ k \in torn)
      BY <2>3, Procs DEF Shape, Queue, Purged
    <3>1. rec' = rec /\ pending' = pending \ {k}
      BY <1>27, <2>3 DEF BridgePurge
    <3>2. proc'["bridge"].at = "idle"
      BY <1>27, <2>3, Movement DEF Moved, Done, Idle
    <3> QED
      BY <2>1, <2>3, <3>0, <3>1, <3>2, Procs
         DEF Queue, Writers, Purged, PendingAgrees, Writing
  <2> QED
    BY <1>27, <2>2, <2>3 DEF BridgePurge
<1> QED
  BY <1>1, <1>2, <1>3, <1>4, <1>5, <1>6, <1>7, <1>8, <1>9, <1>10, <1>11,
     <1>12, <1>13, <1>14, <1>15, <1>16, <1>17, <1>18, <1>19, <1>20, <1>21,
     <1>22, <1>23, <1>24, <1>25, <1>26, <1>27, Procs
     DEF Next, BridgeStep, BridgeWork, PutStep, HandlerStep

\* A step that leaves scores and records alone and stops no DEL.
LEMMA ScoreQuiet ==
    ASSUME ScoreFollowsRecord, NEW p \in Proc,
           \A q \in Proc : q # p => proc'[q] = proc[q], proc[p].at # "uncache",
           rec' = rec, score' = score, basis' = basis, raced' = raced
    PROVE  ScoreFollowsRecord'
BY DEF ScoreFollowsRecord

\* Every action keeps cached scores with the status they were computed under.
LEMMA ScoreStep ==
    ASSUME TypeOK, Shape, ScoreFollowsRecord, [Next]_vars
    PROVE  ScoreFollowsRecord'
<1> USE DEF store, core, history
<1>1. ASSUME NEW p \in Proc, PutRecord(p)
     PROVE  ScoreFollowsRecord'
  <2>1. Moved(p, "uncache") /\ proc[p].at = "put"
    BY <1>1, Movement DEF PutRecord
  <2>2. /\ proc[p].job \in Job /\ rec' = [rec EXCEPT ![proc[p].job] = proc[p].status]
        /\ score' = score /\ basis' = basis /\ raced' = raced
    BY <1>1 DEF PutRecord, Shape
  <2>3. rec \in [Job -> Status \cup {"absent"}]
    BY DEF TypeOK
  <2> QED
    BY <2>1, <2>2, <2>3 DEF ScoreFollowsRecord, Moved
<1>2. ASSUME NEW p \in Proc, DropScore(p)
     PROVE  ScoreFollowsRecord'
  <2>1. Moved(p, "index") /\ rec' = rec /\ proc[p].job \in Job
    BY <1>2, Movement DEF DropScore, Shape
  <2>2. CASE NoScore(proc[p].job)
    BY <2>1, <2>2 DEF ScoreFollowsRecord, Moved, NoScore, TypeOK
  <2>3. CASE /\ UNCHANGED <<score, basis>>
             /\ raced' = IF proc[p].job \in score
                         THEN raced \cup {proc[p].job} ELSE raced
    BY <2>1, <2>3 DEF ScoreFollowsRecord, Moved
  <2> QED
    BY <1>2, <2>2, <2>3 DEF DropScore
<1>3. ASSUME NEW p \in Proc, Index(p)
     PROVE  ScoreFollowsRecord'
  <2>1. /\ proc[p].at # "uncache" /\ rec' = rec
        /\ score' = score /\ basis' = basis /\ raced' = raced
    BY <1>3 DEF Index
  <2>2. \A q \in Proc : q # p => proc'[q] = proc[q]
    BY <1>3, Movement DEF Moved, Done
  <2> QED
    BY <2>1, <2>2, Procs, ScoreQuiet
<1>4. ASSUME NEW j \in Job, BridgeRead(j)
     PROVE  ScoreFollowsRecord'
  <2>1. rec[j] \in Status /\ "file" \in At /\ NoBody \in Body
    BY <1>4 DEF BridgeRead, Pollable, Status, At, Body
  <2>2. /\ proc'["bridge"] = [at |-> "file", op |-> "none", job |-> j,
                              status |-> rec[j], body |-> NoBody]
        /\ \A q \in Proc : q # "bridge" => proc'[q] = proc[q]
    BY <1>4, <2>1, Procs, Started DEF BridgeRead
  <2> QED
    BY <1>4, <2>2, Procs, ScoreQuiet DEF BridgeRead
<1>5. ASSUME BridgeDecide
     PROVE  ScoreFollowsRecord'
  <2>1. /\ proc["bridge"].at # "uncache" /\ rec' = rec
        /\ score' = score /\ basis' = basis /\ raced' = raced
    BY <1>5 DEF BridgeDecide
  <2>2. \A q \in Proc : q # "bridge" => proc'[q] = proc[q]
    BY <1>5, Movement DEF Moved, Done
  <2> QED
    BY <2>1, <2>2, Procs, ScoreQuiet
<1>6. ASSUME NEW j \in Job, SweepRead(j)
     PROVE  ScoreFollowsRecord'
  <2>1. "unindex" \in At /\ NoBody \in Body
    BY DEF At, Body
  <2>2. /\ proc'["sweeper"] = [at |-> "unindex", op |-> "none", job |-> j,
                              status |-> "absent", body |-> NoBody]
        /\ \A q \in Proc : q # "sweeper" => proc'[q] = proc[q]
    BY <1>6, <2>1, Procs, Started DEF SweepRead
  <2> QED
    BY <1>6, <2>2, Procs, ScoreQuiet DEF SweepRead
<1>7. ASSUME SweepStep
     PROVE  ScoreFollowsRecord'
  <2>1. /\ proc["sweeper"].at \in {"unindex", "drop", "drop_edit"}
        /\ score' = score /\ basis' = basis /\ raced' = raced
        /\ rec' = rec \/ rec' = [rec EXCEPT ![proc["sweeper"].job] = "absent"]
    BY <1>7 DEF SweepStep
  <2>2. \A q \in Proc : q # "sweeper" => proc'[q] = proc[q]
    BY <1>7, Movement DEF Moved, Done
  <2>3. rec \in [Job -> Status \cup {"absent"}] /\ score \subseteq Job
    BY DEF TypeOK
  <2> QED
    BY <2>1, <2>2, <2>3 DEF ScoreFollowsRecord
<1>8. ASSUME NEW j \in Job, UpstreamStep(j)
     PROVE  ScoreFollowsRecord'
  BY <1>8 DEF UpstreamStep, ScoreFollowsRecord
<1>9. ASSUME NEW j \in Job, ExpireScore(j)
     PROVE  ScoreFollowsRecord'
  BY <1>9 DEF ExpireScore, NoScore, ScoreFollowsRecord, TypeOK
<1>10. ASSUME NEW r \in Request, NEW j \in Job, Open(r, j)
      PROVE  ScoreFollowsRecord'
  <2>1. PICK o \in AllOps, w \in At, s \in Status \cup {"absent"}, b \in Body :
           Opened(r, j, o, w, s, b)
    BY <1>10, Opening
  <2>2. /\ proc'[r] = [at |-> w, op |-> o, job |-> j, status |-> s, body |-> b]
        /\ \A q \in Proc : q # r => proc'[q] = proc[q]
    BY <2>1, Procs, Started DEF Opened
  <2> QED
    BY <2>1, <2>2, Procs, ScoreQuiet DEF Opened
<1>11. ASSUME NEW r \in Request, PiiGate(r)
      PROVE  ScoreFollowsRecord'
  <2>1. /\ proc[r].at # "uncache" /\ rec' = rec
        /\ score' = score /\ basis' = basis /\ raced' = raced
    BY <1>11 DEF PiiGate
  <2>2. \A q \in Proc : q # r => proc'[q] = proc[q]
    BY <1>11, Movement DEF Moved, Done
  <2> QED
    BY <2>1, <2>2, Procs, ScoreQuiet
<1>12. ASSUME NEW r \in Request, ResolveEdit(r)
      PROVE  ScoreFollowsRecord'
  <2>1. /\ proc[r].at # "uncache" /\ rec' = rec
        /\ score' = score /\ basis' = basis /\ raced' = raced
    BY <1>12 DEF ResolveEdit
  <2>2. \A q \in Proc : q # r => proc'[q] = proc[q]
    BY <1>12, Movement DEF Moved, Done
  <2> QED
    BY <2>1, <2>2, Procs, ScoreQuiet
<1>13. ASSUME NEW r \in Request, ResolveCanonical(r)
      PROVE  ScoreFollowsRecord'
  <2>1. /\ proc[r].at # "uncache" /\ rec' = rec
        /\ score' = score /\ basis' = basis /\ raced' = raced
    BY <1>13 DEF ResolveCanonical
  <2>2. \A q \in Proc : q # r => proc'[q] = proc[q]
    BY <1>13, Movement DEF Moved, Done
  <2> QED
    BY <2>1, <2>2, Procs, ScoreQuiet
<1>14. ASSUME BridgeFile
     PROVE  ScoreFollowsRecord'
  <2>1. /\ proc["bridge"].at # "uncache" /\ rec' = rec
        /\ score' = score /\ basis' = basis /\ raced' = raced
    BY <1>14 DEF BridgeFile
  <2>2. \A q \in Proc : q # "bridge" => proc'[q] = proc[q]
    BY <1>14, Movement DEF Moved, Done
  <2> QED
    BY <2>1, <2>2, Procs, ScoreQuiet
<1>15. ASSUME NEW r \in Request, Serve(r)
      PROVE  ScoreFollowsRecord'
  <2>1. /\ proc[r].at # "uncache" /\ rec' = rec
        /\ score' = score /\ basis' = basis /\ raced' = raced
    BY <1>15 DEF Serve
  <2>2. \A q \in Proc : q # r => proc'[q] = proc[q]
    BY <1>15, Movement DEF Moved, Done
  <2> QED
    BY <2>1, <2>2, Procs, ScoreQuiet
<1>16. ASSUME NEW r \in Request, CacheScore(r)
      PROVE  ScoreFollowsRecord'
  <2>1. Done(r) /\ proc[r].at = "cache" /\ rec' = rec
    BY <1>16, Movement DEF CacheScore
  <2>2. proc[r].job \in Job
    BY <2>1, Procs DEF Shape
  <2>3. /\ score' = score \cup {proc[r].job}
        /\ basis' = [basis EXCEPT ![proc[r].job] = proc[r].status]
        /\ raced' = IF proc[r].status # rec[proc[r].job]
                    THEN raced \cup {proc[r].job} ELSE raced \ {proc[r].job}
    BY <1>16 DEF CacheScore
  <2> QED
    BY <2>1, <2>2, <2>3 DEF ScoreFollowsRecord, Done, TypeOK
<1>17. ASSUME NEW r \in Request, SaveEdit(r)
      PROVE  ScoreFollowsRecord'
  <2>1. /\ proc[r].at # "uncache" /\ rec' = rec
        /\ score' = score /\ basis' = basis /\ raced' = raced
    BY <1>17 DEF SaveEdit
  <2>2. \A q \in Proc : q # r => proc'[q] = proc[q]
    BY <1>17, Movement DEF Moved, Done
  <2> QED
    BY <2>1, <2>2, Procs, ScoreQuiet
<1>18. ASSUME NEW r \in Request, Forward(r)
      PROVE  ScoreFollowsRecord'
  <2>1. /\ proc[r].at # "uncache" /\ rec' = rec
        /\ score' = score /\ basis' = basis /\ raced' = raced
    BY <1>18 DEF Forward, CarryOut
  <2>2. \A q \in Proc : q # r => proc'[q] = proc[q]
    BY <1>18, Movement DEF Moved, Done
  <2> QED
    BY <2>1, <2>2, Procs, ScoreQuiet
<1>19. ASSUME NEW r \in Request, FetchToken(r)
      PROVE  ScoreFollowsRecord'
  <2>1. /\ proc[r].at # "uncache" /\ rec' = rec
        /\ score' = score /\ basis' = basis /\ raced' = raced
    BY <1>19 DEF FetchToken
  <2>2. \A q \in Proc : q # r => proc'[q] = proc[q]
    BY <1>19, Movement DEF Moved, Done
  <2> QED
    BY <2>1, <2>2, Procs, ScoreQuiet
<1>20. ASSUME NEW r \in Request, ForwardByToken(r)
      PROVE  ScoreFollowsRecord'
  <2>1. /\ proc[r].at # "uncache" /\ rec' = rec
        /\ score' = score /\ basis' = basis /\ raced' = raced
    BY <1>20 DEF ForwardByToken, CarryOut
  <2>2. \A q \in Proc : q # r => proc'[q] = proc[q]
    BY <1>20, Movement DEF Moved, Done
  <2> QED
    BY <2>1, <2>2, Procs, ScoreQuiet
<1>21. ASSUME NEW r \in Request, ReplyLost(r)
      PROVE  ScoreFollowsRecord'
  <2>1. /\ proc[r].at # "uncache" /\ rec' = rec
        /\ score' = score /\ basis' = basis /\ raced' = raced
    BY <1>21 DEF ReplyLost, CarryOut
  <2>2. \A q \in Proc : q # r => proc'[q] = proc[q]
    BY <1>21, Movement DEF Moved, Done
  <2> QED
    BY <2>1, <2>2, Procs, ScoreQuiet
<1>22. ASSUME NEW r \in Request, AppendEvent(r)
      PROVE  ScoreFollowsRecord'
  <2>1. /\ proc[r].at # "uncache" /\ rec' = rec
        /\ score' = score /\ basis' = basis /\ raced' = raced
    BY <1>22 DEF AppendEvent
  <2>2. \A q \in Proc : q # r => proc'[q] = proc[q]
    BY <1>22, Movement DEF Moved, Done
  <2> QED
    BY <2>1, <2>2, Procs, ScoreQuiet
<1>23. ASSUME NEW r \in Request, ForgetStep(r)
      PROVE  ScoreFollowsRecord'
  <2>1. /\ proc[r].at \in {"forget", "forget_edit", "forget_score"}
        /\ \A q \in Proc : q # r => proc'[q] = proc[q]
    BY <1>23, Movement DEF Moved
  <2>2. proc[r].job \in Job
    BY <2>1, Procs DEF Shape
  <2>3. \/ /\ UNCHANGED <<score, basis, raced>>
           /\ rec' = rec \/ rec' = [rec EXCEPT ![proc[r].job] = "absent"]
        \/ NoScore(proc[r].job) /\ rec' = rec
    BY <1>23 DEF ForgetStep
  <2> QED
    BY <2>1, <2>2, <2>3 DEF ScoreFollowsRecord, NoScore, TypeOK
<1>24. ASSUME NEW p \in Proc, Abort(p)
      PROVE  ScoreFollowsRecord'
  <2>1. rec' = rec /\ score' = score /\ basis' = basis
    BY <1>24 DEF Abort
  <2>2. raced' = raced \cup {j \in score : \E q \in {p} :
                               proc[q].job = j /\ proc[q].at = "uncache"}
    BY <1>24 DEF Abort, Drop
  <2>3. \A q \in Proc \ {p} : proc'[q] = proc[q]
    BY <1>24, Movement DEF Done
  <2> QED
    BY <2>1, <2>2, <2>3 DEF ScoreFollowsRecord
<1>25. ASSUME Restart
      PROVE  ScoreFollowsRecord'
  <2>1. rec' = rec /\ score' = score /\ basis' = basis
    BY <1>25 DEF Restart
  <2>2. raced' = raced \cup {j \in score : \E q \in Proc :
                               proc[q].job = j /\ proc[q].at = "uncache"}
    BY <1>25 DEF Restart, Drop
  <2>3. \A q \in Proc \ Proc : proc'[q] = proc[q]
    BY <1>25, Restarted DEF Done
  <2> QED
    BY <2>1, <2>2, <2>3 DEF ScoreFollowsRecord
<1>26. ASSUME UNCHANGED vars
      PROVE  ScoreFollowsRecord'
  BY <1>26 DEF vars, ScoreFollowsRecord
<1>27. ASSUME BridgePurge
     PROVE  ScoreFollowsRecord'
  <2>1. /\ proc["bridge"].at \in {"purge", "unqueue"}
        /\ score' = score /\ basis' = basis /\ raced' = raced
        /\ rec' = rec \/ rec' = [rec EXCEPT ![proc["bridge"].job] = "absent"]
    BY <1>27 DEF BridgePurge
  <2>2. \A q \in Proc : q # "bridge" => proc'[q] = proc[q]
    BY <1>27, Movement DEF Moved, Done
  <2>3. rec \in [Job -> Status \cup {"absent"}] /\ score \subseteq Job
    BY DEF TypeOK
  <2> QED
    BY <2>1, <2>2, <2>3 DEF ScoreFollowsRecord
<1> QED
  BY <1>1, <1>2, <1>3, <1>4, <1>5, <1>6, <1>7, <1>8, <1>9, <1>10, <1>11,
     <1>12, <1>13, <1>14, <1>15, <1>16, <1>17, <1>18, <1>19, <1>20, <1>21,
     <1>22, <1>23, <1>24, <1>25, <1>26, <1>27, Procs
     DEF Next, BridgeStep, BridgeWork, PutStep, HandlerStep

\* The privacy decision, as an invariant of its own.
Privacy == Decisions /\ AuditTellsTheDecision /\ DecisionRecorded

\* r is about to audit a decision.
Auditing(r) == proc[r].at = "audit" /\ proc[r].op \in Decision

\* A step that leaves decisions and audits alone.
LEMMA PrivacyQuiet ==
    ASSUME Privacy, NEW p \in Proc, \A q \in Proc : q # p => proc'[q] = proc[q],
           ~Auditing(p), ~Auditing(p)', upstream' = upstream, decided' = decided,
           logged' = logged, cut' = cut, TypeOK
    PROVE  Privacy'
<1>1. \A j \in Job : decided[j] \in Decision \cup {"none"}
  BY DEF TypeOK
<1> QED
  BY <1>1, Procs
     DEF Privacy, Decisions, AuditTellsTheDecision, DecisionRecorded, Auditing

\* A decision is carried out on a document that had none.
LEMMA CarriedOut ==
    ASSUME TypeOK, Privacy, NEW r \in Request, proc[r].job \in Job,
           proc[r].op \in Decision, CarryOut(r),
           upstream[proc[r].job] = "awaiting_approval"
    PROVE  /\ upstream' \in [Job -> Upstream]
           /\ decided' = [decided EXCEPT ![proc[r].job] = proc[r].op]
           /\ upstream'[proc[r].job] \in {"resumed", "denied"}
           /\ \A j \in Job : j # proc[r].job => upstream'[j] = upstream[j]
           /\ decided[proc[r].job] = "none" /\ logged[proc[r].job] = {}
           /\ \A q \in Request : proc[q].job = proc[r].job => ~Auditing(q)
<1>1. upstream' \in [Job -> Upstream]
  BY DEF CarryOut, TypeOK, Upstream
<1>2. decided[proc[r].job] = "none"
  BY DEF Privacy, Decisions
<1>3. logged[proc[r].job] \subseteq Decision
  BY DEF TypeOK
<1>4. "none" \notin Decision
  BY DEF Decision
<1>5. logged[proc[r].job] = {}
  BY <1>2, <1>3, <1>4 DEF Privacy, AuditTellsTheDecision
<1>6. \A q \in Request : proc[q].job = proc[r].job => ~Auditing(q)
  BY <1>2, <1>4 DEF Privacy, Decisions, Auditing
<1> QED
  BY <1>1, <1>2, <1>5, <1>6 DEF CarryOut, TypeOK

\* Carrying a decision out and going to audit it, or being cut off, keeps
\* the trail true.
LEMMA CarriedStep ==
    ASSUME TypeOK, Privacy, NEW r \in Request, proc[r].job \in Job,
           proc[r].op \in Decision, CarryOut(r),
           upstream[proc[r].job] = "awaiting_approval",
           \A q \in Proc : q # r => proc'[q] = proc[q],
           logged' = logged,
           \/ Moved(r, "audit") /\ cut' = cut
           \/ Done(r) /\ cut' = cut \cup {proc[r].job}
    PROVE  Privacy'
<1> DEFINE k == proc[r].job
<1>1. /\ decided' = [decided EXCEPT ![k] = proc[r].op]
      /\ upstream'[k] \in {"resumed", "denied"}
      /\ \A j \in Job : j # k => upstream'[j] = upstream[j]
      /\ decided[k] = "none" /\ logged[k] = {}
      /\ \A q \in Request : proc[q].job = k => ~Auditing(q)
  BY CarriedOut
<1>2. decided'[k] = proc[r].op /\ \A j \in Job : j # k => decided'[j] = decided[j]
  BY <1>1 DEF TypeOK
<1>3. Decisions'
  <2>1. ASSUME NEW j \in Job, upstream'[j] \in {"working", "awaiting_approval"}
        PROVE  decided'[j] = "none"
    BY <1>1, <1>2, <2>1 DEF Privacy, Decisions
  <2>2. ASSUME NEW q \in Request, Auditing(q)'
        PROVE  decided'[proc'[q].job] = proc'[q].op
    <3>1. CASE q = r
      BY <1>2, <2>2, <3>1 DEF Auditing, Moved, Done, Idle
    <3>2. CASE q # r
      <4>1. proc'[q] = proc[q] /\ Auditing(q)
        BY <2>2, <3>2, Procs DEF Auditing
      <4>2. proc[q].job # k /\ decided[proc[q].job] = proc[q].op
        BY <1>1, <4>1 DEF Privacy, Decisions, Auditing
      <4> QED
        BY <1>1, <4>1, <4>2
    <3> QED
      BY <3>1, <3>2
  <2> QED
    BY <2>1, <2>2 DEF Decisions, Auditing
<1>4. AuditTellsTheDecision'
  BY <1>1, <1>2 DEF Privacy, AuditTellsTheDecision
<1>5. DecisionRecorded'
  <2>1. ASSUME NEW j \in Job \ cut', decided'[j] # "none"
        PROVE  \/ decided'[j] \in logged[j]
               \/ \E q \in Request : /\ proc'[q].at = "audit" /\ proc'[q].job = j
                                     /\ proc'[q].op = decided'[j]
    <3>1. CASE j = k
      BY <1>2, <2>1, <3>1 DEF Moved
    <3>2. CASE j # k
      <4>1. decided'[j] = decided[j] /\ j \notin cut
        BY <1>2, <2>1, <3>2
      <4>2. \/ decided[j] \in logged[j]
            \/ \E q \in Request : /\ proc[q].at = "audit" /\ proc[q].job = j
                                  /\ proc[q].op = decided[j]
        BY <2>1, <4>1 DEF Privacy, DecisionRecorded
      <4> QED
        BY <3>2, <4>1, <4>2, Procs
    <3> QED
      BY <3>1, <3>2
  <2> QED
    BY <2>1 DEF DecisionRecorded
<1> QED
  BY <1>3, <1>4, <1>5 DEF Privacy

\* Every action keeps the audit trail and Reflow's decisions together.
LEMMA PrivacyStep ==
    ASSUME TypeOK, Shape, Privacy, [Next]_vars
    PROVE  Privacy'
<1> USE DEF store, core, history
<1>1. ASSUME NEW p \in Proc, PutRecord(p)
     PROVE  Privacy'
  <2>1. /\ ~Auditing(p) /\ upstream' = upstream /\ decided' = decided
        /\ logged' = logged /\ cut' = cut
    BY <1>1 DEF PutRecord, Auditing
  <2>2. ~Auditing(p)' /\ \A q \in Proc : q # p => proc'[q] = proc[q]
    BY <1>1, Movement, Procs, RequestAssumption
       DEF Moved, Done, Idle, Auditing, Shape, Passes, Transitions, Audited, Reading, Decision
  <2> QED
    BY <2>1, <2>2, Procs, PrivacyQuiet
<1>2. ASSUME NEW p \in Proc, DropScore(p)
     PROVE  Privacy'
  <2>1. /\ ~Auditing(p) /\ upstream' = upstream /\ decided' = decided
        /\ logged' = logged /\ cut' = cut
    BY <1>2 DEF DropScore, Auditing
  <2>2. ~Auditing(p)' /\ \A q \in Proc : q # p => proc'[q] = proc[q]
    BY <1>2, Movement, Procs, RequestAssumption
       DEF Moved, Done, Idle, Auditing, Shape, Passes, Transitions, Audited, Reading, Decision
  <2> QED
    BY <2>1, <2>2, Procs, PrivacyQuiet
<1>3. ASSUME NEW p \in Proc, Index(p)
     PROVE  Privacy'
  <2>1. /\ ~Auditing(p) /\ upstream' = upstream /\ decided' = decided
        /\ logged' = logged /\ cut' = cut
    BY <1>3 DEF Index, Auditing
  <2>2. ~Auditing(p)' /\ \A q \in Proc : q # p => proc'[q] = proc[q]
    BY <1>3, Movement, Procs, RequestAssumption
       DEF Moved, Done, Idle, Auditing, Shape, Passes, Transitions, Audited, Reading, Decision
  <2> QED
    BY <2>1, <2>2, Procs, PrivacyQuiet
<1>4. ASSUME NEW j \in Job, BridgeRead(j)
     PROVE  Privacy'
  <2>1. rec[j] \in Status /\ "file" \in At /\ NoBody \in Body
    BY <1>4 DEF BridgeRead, Pollable, Status, At, Body
  <2>2. /\ proc'["bridge"] = [at |-> "file", op |-> "none", job |-> j,
                              status |-> rec[j], body |-> NoBody]
        /\ \A q \in Proc : q # "bridge" => proc'[q] = proc[q]
    BY <1>4, <2>1, Procs, Started DEF BridgeRead
  <2> QED
    BY <1>4, <2>2, Procs, PrivacyQuiet DEF BridgeRead, Auditing
<1>5. ASSUME BridgeDecide
     PROVE  Privacy'
  <2>1. /\ ~Auditing("bridge") /\ upstream' = upstream /\ decided' = decided
        /\ logged' = logged /\ cut' = cut
    BY <1>5 DEF BridgeDecide, Auditing
  <2>2. ~Auditing("bridge")' /\ \A q \in Proc : q # "bridge" => proc'[q] = proc[q]
    BY <1>5, Movement, Procs, RequestAssumption
       DEF Moved, Done, Idle, Auditing, Shape, Passes, Transitions, Audited, Reading, Decision
  <2> QED
    BY <2>1, <2>2, Procs, PrivacyQuiet
<1>6. ASSUME NEW j \in Job, SweepRead(j)
     PROVE  Privacy'
  <2>1. "unindex" \in At /\ NoBody \in Body
    BY DEF At, Body
  <2>2. /\ proc'["sweeper"] = [at |-> "unindex", op |-> "none", job |-> j,
                              status |-> "absent", body |-> NoBody]
        /\ \A q \in Proc : q # "sweeper" => proc'[q] = proc[q]
    BY <1>6, <2>1, Procs, Started DEF SweepRead
  <2> QED
    BY <1>6, <2>2, Procs, PrivacyQuiet DEF SweepRead, Auditing
<1>7. ASSUME SweepStep
     PROVE  Privacy'
  <2>1. /\ ~Auditing("sweeper") /\ upstream' = upstream /\ decided' = decided
        /\ logged' = logged /\ cut' = cut
    BY <1>7 DEF SweepStep, Auditing
  <2>2. ~Auditing("sweeper")' /\ \A q \in Proc : q # "sweeper" => proc'[q] = proc[q]
    BY <1>7, Movement, Procs, RequestAssumption
       DEF Moved, Done, Idle, Auditing, Shape, Passes, Transitions, Audited, Reading, Decision
  <2> QED
    BY <2>1, <2>2, Procs, PrivacyQuiet
<1>8. ASSUME NEW j \in Job, UpstreamStep(j)
     PROVE  Privacy'
  <2>1. upstream[j] = "working" \/ upstream[j] = "resumed"
    BY <1>8 DEF UpstreamStep
  <2>2. \E u \in {"awaiting_approval", "completed", "failed"} :
           /\ upstream' = [upstream EXCEPT ![j] = u]
           /\ upstream[j] = "resumed" => u = "completed"
    BY <1>8 DEF UpstreamStep
  <2>3. UNCHANGED <<proc, decided, logged, cut>>
    BY <1>8 DEF UpstreamStep
  <2> QED
    BY <2>1, <2>2, <2>3 DEF Privacy, Decisions, AuditTellsTheDecision, DecisionRecorded, TypeOK
<1>9. ASSUME NEW j \in Job, ExpireScore(j)
     PROVE  Privacy'
  BY <1>9 DEF ExpireScore, Privacy, Decisions, AuditTellsTheDecision, DecisionRecorded
<1>10. ASSUME NEW r \in Request, NEW j \in Job, Open(r, j)
      PROVE  Privacy'
  <2>1. PICK o \in AllOps, w \in At, s \in Status \cup {"absent"}, b \in Body :
           Opened(r, j, o, w, s, b)
    BY <1>10, Opening
  <2>2. /\ proc'[r] = [at |-> w, op |-> o, job |-> j, status |-> s, body |-> b]
        /\ \A q \in Proc : q # r => proc'[q] = proc[q]
    BY <2>1, Procs, Started DEF Opened
  <2> QED
    BY <2>1, <2>2, Procs, PrivacyQuiet DEF Opened, Auditing
<1>11. ASSUME NEW r \in Request, PiiGate(r)
      PROVE  Privacy'
  <2>1. /\ ~Auditing(r) /\ upstream' = upstream /\ decided' = decided
        /\ logged' = logged /\ cut' = cut
    BY <1>11 DEF PiiGate, Auditing
  <2>2. ~Auditing(r)' /\ \A q \in Proc : q # r => proc'[q] = proc[q]
    BY <1>11, Movement, Procs, RequestAssumption
       DEF Moved, Done, Idle, Auditing, Shape, Passes, Transitions, Audited, Reading, Decision
  <2> QED
    BY <2>1, <2>2, Procs, PrivacyQuiet
<1>12. ASSUME NEW r \in Request, ResolveEdit(r)
      PROVE  Privacy'
  <2>1. /\ ~Auditing(r) /\ upstream' = upstream /\ decided' = decided
        /\ logged' = logged /\ cut' = cut
    BY <1>12 DEF ResolveEdit, Auditing
  <2>2. ~Auditing(r)' /\ \A q \in Proc : q # r => proc'[q] = proc[q]
    BY <1>12, Movement, Procs, RequestAssumption
       DEF Moved, Done, Idle, Auditing, Shape, Passes, Transitions, Audited, Reading, Decision
  <2> QED
    BY <2>1, <2>2, Procs, PrivacyQuiet
<1>13. ASSUME NEW r \in Request, ResolveCanonical(r)
      PROVE  Privacy'
  <2>1. /\ ~Auditing(r) /\ upstream' = upstream /\ decided' = decided
        /\ logged' = logged /\ cut' = cut
    BY <1>13 DEF ResolveCanonical, Auditing
  <2>2. ~Auditing(r)' /\ \A q \in Proc : q # r => proc'[q] = proc[q]
    BY <1>13, Movement, Procs, RequestAssumption
       DEF Moved, Done, Idle, Auditing, Shape, Passes, Transitions, Audited, Reading, Decision
  <2> QED
    BY <2>1, <2>2, Procs, PrivacyQuiet
<1>14. ASSUME BridgeFile
     PROVE  Privacy'
  <2>1. /\ ~Auditing("bridge") /\ upstream' = upstream /\ decided' = decided
        /\ logged' = logged /\ cut' = cut
    BY <1>14 DEF BridgeFile, Auditing
  <2>2. ~Auditing("bridge")' /\ \A q \in Proc : q # "bridge" => proc'[q] = proc[q]
    BY <1>14, Movement, Procs, RequestAssumption
       DEF Moved, Done, Idle, Auditing, Shape, Passes, Transitions, Audited, Reading, Decision
  <2> QED
    BY <2>1, <2>2, Procs, PrivacyQuiet
<1>15. ASSUME NEW r \in Request, Serve(r)
      PROVE  Privacy'
  <2>1. /\ ~Auditing(r) /\ upstream' = upstream /\ decided' = decided
        /\ logged' = logged /\ cut' = cut
    BY <1>15 DEF Serve, Auditing
  <2>2. ~Auditing(r)' /\ \A q \in Proc : q # r => proc'[q] = proc[q]
    BY <1>15, Movement, Procs, RequestAssumption
       DEF Moved, Done, Idle, Auditing, Shape, Passes, Transitions, Audited, Reading, Decision
  <2> QED
    BY <2>1, <2>2, Procs, PrivacyQuiet
<1>16. ASSUME NEW r \in Request, CacheScore(r)
      PROVE  Privacy'
  <2>1. /\ ~Auditing(r) /\ upstream' = upstream /\ decided' = decided
        /\ logged' = logged /\ cut' = cut
    BY <1>16 DEF CacheScore, Auditing
  <2>2. ~Auditing(r)' /\ \A q \in Proc : q # r => proc'[q] = proc[q]
    BY <1>16, Movement, Procs, RequestAssumption
       DEF Moved, Done, Idle, Auditing, Shape, Passes, Transitions, Audited, Reading, Decision
  <2> QED
    BY <2>1, <2>2, Procs, PrivacyQuiet
<1>17. ASSUME NEW r \in Request, SaveEdit(r)
      PROVE  Privacy'
  <2>1. /\ ~Auditing(r) /\ upstream' = upstream /\ decided' = decided
        /\ logged' = logged /\ cut' = cut
    BY <1>17 DEF SaveEdit, Auditing
  <2>2. ~Auditing(r)' /\ \A q \in Proc : q # r => proc'[q] = proc[q]
    BY <1>17, Movement, Procs, RequestAssumption
       DEF Moved, Done, Idle, Auditing, Shape, Passes, Transitions, Audited, Reading, Decision
  <2> QED
    BY <2>1, <2>2, Procs, PrivacyQuiet
<1>18. ASSUME NEW r \in Request, Forward(r)
      PROVE  Privacy'
  <2>1. /\ proc[r].at = "forward" /\ proc[r].job \in Job
        /\ proc[r].op \in Decision /\ ~Auditing(r)
    BY <1>18, Procs DEF Forward, Shape, Passes, Auditing, Transitions, Audited, Reading, Decision
  <2>2. \A q \in Proc : q # r => proc'[q] = proc[q]
    BY <1>18, Movement DEF Moved, Done
  <2>3. logged' = logged /\ cut' = cut
    BY <1>18 DEF Forward
  <2>4. CASE /\ upstream[proc[r].job] = "awaiting_approval"
             /\ CarryOut(r) /\ Goto(r, "audit")
    <3>1. Moved(r, "audit")
      BY <2>4, Procs, Moves DEF At
    <3> QED
      BY <2>1, <2>2, <2>3, <2>4, <3>1, CarriedStep
  <2>5. CASE /\ UNCHANGED core
             /\ (Goto(r, "token") \/ Finish(r))
    <3>1. ~Auditing(r)'
      BY <2>5, Procs, Moves DEF At, Moved, Done, Idle, Auditing
    <3> QED
      BY <2>1, <2>2, <2>3, <2>5, <3>1, Procs, PrivacyQuiet
  <2> QED
    BY <1>18, <2>4, <2>5 DEF Forward
<1>19. ASSUME NEW r \in Request, FetchToken(r)
      PROVE  Privacy'
  <2>1. /\ ~Auditing(r) /\ upstream' = upstream /\ decided' = decided
        /\ logged' = logged /\ cut' = cut
    BY <1>19 DEF FetchToken, Auditing
  <2>2. ~Auditing(r)' /\ \A q \in Proc : q # r => proc'[q] = proc[q]
    BY <1>19, Movement, Procs, RequestAssumption
       DEF Moved, Done, Idle, Auditing, Shape, Passes, Transitions, Audited, Reading, Decision
  <2> QED
    BY <2>1, <2>2, Procs, PrivacyQuiet
<1>20. ASSUME NEW r \in Request, ForwardByToken(r)
      PROVE  Privacy'
  <2>1. /\ proc[r].at = "decide" /\ proc[r].job \in Job
        /\ proc[r].op \in Decision /\ ~Auditing(r)
    BY <1>20, Procs DEF ForwardByToken, Shape, Passes, Auditing, Transitions, Audited, Reading, Decision
  <2>2. \A q \in Proc : q # r => proc'[q] = proc[q]
    BY <1>20, Movement DEF Moved, Done
  <2>3. logged' = logged /\ cut' = cut
    BY <1>20 DEF ForwardByToken
  <2>4. CASE /\ upstream[proc[r].job] = "awaiting_approval"
             /\ CarryOut(r) /\ Goto(r, "audit")
    <3>1. Moved(r, "audit")
      BY <2>4, Procs, Moves DEF At
    <3> QED
      BY <2>1, <2>2, <2>3, <2>4, <3>1, CarriedStep
  <2>5. CASE /\ UNCHANGED core
             /\ Finish(r)
    <3>1. ~Auditing(r)'
      BY <2>5, Procs, Moves DEF At, Moved, Done, Idle, Auditing
    <3> QED
      BY <2>1, <2>2, <2>3, <2>5, <3>1, Procs, PrivacyQuiet
  <2> QED
    BY <1>20, <2>4, <2>5 DEF ForwardByToken
<1>21. ASSUME NEW r \in Request, ReplyLost(r)
      PROVE  Privacy'
  <2>1. /\ proc[r].at \in {"forward", "decide"} /\ proc[r].job \in Job
        /\ proc[r].op \in Decision
    BY <1>21, Procs DEF ReplyLost, Shape, Passes, Transitions, Audited, Reading, Decision
  <2>2. Done(r) /\ logged' = logged /\ cut' = cut \cup {proc[r].job}
    BY <1>21, Movement DEF ReplyLost
  <2>3. CarryOut(r) /\ upstream[proc[r].job] = "awaiting_approval"
    BY <1>21 DEF ReplyLost
  <2> QED
    BY <2>1, <2>2, <2>3, CarriedStep DEF Done
<1>22. ASSUME NEW r \in Request, AppendEvent(r)
      PROVE  Privacy'
  <2>1. /\ Done(r) /\ proc[r].at = "audit"
        /\ UNCHANGED <<upstream, decided, cut>>
    BY <1>22, Movement DEF AppendEvent
  <2>2. proc[r].job \in Job
    BY <2>1, Procs DEF Shape
  <2>3. logged' = IF proc[r].op \in Decision
                  THEN [logged EXCEPT ![proc[r].job] = @ \cup {proc[r].op}]
                  ELSE logged
    BY <1>22 DEF AppendEvent
  <2> QED
    BY <2>1, <2>2, <2>3, Procs
       DEF Privacy, Decisions, AuditTellsTheDecision, DecisionRecorded, Done, Idle, TypeOK
<1>23. ASSUME NEW r \in Request, ForgetStep(r)
      PROVE  Privacy'
  <2>1. /\ ~Auditing(r) /\ upstream' = upstream /\ decided' = decided
        /\ logged' = logged /\ cut' = cut
    BY <1>23 DEF ForgetStep, Auditing
  <2>2. ~Auditing(r)' /\ \A q \in Proc : q # r => proc'[q] = proc[q]
    BY <1>23, Movement, Procs, RequestAssumption
       DEF Moved, Done, Idle, Auditing, Shape, Passes, Transitions, Audited, Reading, Decision
  <2> QED
    BY <2>1, <2>2, Procs, PrivacyQuiet
<1>24. ASSUME NEW p \in Proc, Abort(p)
      PROVE  Privacy'
  <2>1. UNCHANGED <<upstream, decided, logged>>
    BY <1>24 DEF Abort
  <2>2. cut' = cut \cup {j \in Job : \E q \in {p} :
                           /\ proc[q].job = j /\ proc[q].at = "audit"
                           /\ proc[q].op \in Decision}
    BY <1>24 DEF Abort, Drop
  <2>3. /\ \A q \in Proc \ {p} : proc'[q] = proc[q]
        /\ \A q \in {p} : proc'[q] = Idle
    BY <1>24, Movement DEF Done
  <2>4. \A j \in Job : decided[j] \in Decision \cup {"none"}
    BY DEF TypeOK
  <2> QED
    BY <2>1, <2>2, <2>3, <2>4, Procs
       DEF Privacy, Decisions, AuditTellsTheDecision, DecisionRecorded, Idle
<1>25. ASSUME Restart
      PROVE  Privacy'
  <2>1. UNCHANGED <<upstream, decided, logged>>
    BY <1>25 DEF Restart
  <2>2. cut' = cut \cup {j \in Job : \E q \in Proc :
                           /\ proc[q].job = j /\ proc[q].at = "audit"
                           /\ proc[q].op \in Decision}
    BY <1>25 DEF Restart, Drop
  <2>3. /\ \A q \in Proc \ Proc : proc'[q] = proc[q]
        /\ \A q \in Proc : proc'[q] = Idle
    BY <1>25, Restarted DEF Done
  <2>4. \A j \in Job : decided[j] \in Decision \cup {"none"}
    BY DEF TypeOK
  <2> QED
    BY <2>1, <2>2, <2>3, <2>4, Procs
       DEF Privacy, Decisions, AuditTellsTheDecision, DecisionRecorded, Idle
<1>26. ASSUME UNCHANGED vars
      PROVE  Privacy'
  BY <1>26 DEF vars, Privacy, Decisions, AuditTellsTheDecision, DecisionRecorded
<1>27. ASSUME BridgePurge
     PROVE  Privacy'
  <2>1. /\ ~Auditing("bridge") /\ upstream' = upstream /\ decided' = decided
        /\ logged' = logged /\ cut' = cut
    BY <1>27 DEF BridgePurge, Auditing
  <2>2. ~Auditing("bridge")' /\ \A q \in Proc : q # "bridge" => proc'[q] = proc[q]
    BY <1>27, Movement, Procs, RequestAssumption
       DEF Moved, Done, Idle, Auditing, Shape, Passes, Transitions, Audited, Reading, Decision
  <2> QED
    BY <2>1, <2>2, Procs, PrivacyQuiet
<1> QED
  BY <1>1, <1>2, <1>3, <1>4, <1>5, <1>6, <1>7, <1>8, <1>9, <1>10, <1>11,
     <1>12, <1>13, <1>14, <1>15, <1>16, <1>17, <1>18, <1>19, <1>20, <1>21,
     <1>22, <1>23, <1>24, <1>25, <1>26, <1>27, Procs
     DEF Next, BridgeStep, BridgeWork, PutStep, HandlerStep

\* Deletion, as an invariant of its own.
Erasure == Leavers /\ DeletionForgets

\* Where the handler of a deletion can be once the record is gone.
Erasing == {"forget_edit", "forget_score", "audit"}

\* Who may still write of a job is not at work on one that has been deleted.
LEMMA NotLeft ==
    ASSUME Erasure, NEW p \in Proc, proc[p].at \notin Erasing,
           proc[p].op \notin Reading
    PROVE  proc[p].job \notin left
BY DEF Erasure, Leavers, Holds, Erasing

\* A step of a process that is not erasing and leaves records and edits alone.
LEMMA ErasureQuiet ==
    ASSUME TypeOK, Erasure, NEW p \in Proc,
           \A q \in Proc : q # p => proc'[q] = proc[q],
           proc[p].at # "forget_edit",
           \/ proc'[p] = Idle
           \/ proc'[p].op \in Reading
           \/ proc'[p].job \notin left,
           left' = left, edited' = edited,
           \A j \in left : rec'[j] = rec[j]
    PROVE  Erasure'
<1>1. left \subseteq Job
  BY DEF TypeOK
<1>2. Leavers'
  BY <1>1, NullAssumption DEF Erasure, Leavers, Holds, Idle
<1>3. DeletionForgets'
  BY <1>1, Procs DEF Erasure, DeletionForgets
<1> QED
  BY <1>2, <1>3 DEF Erasure

\* Every action keeps deleted jobs deleted.
LEMMA ErasureStep ==
    ASSUME TypeOK, Shape, Erasure, [Next]_vars
    PROVE  Erasure'
<1> USE DEF store, core, history
<1>0. \A j \in left : rec[j] = "absent" /\ j \in Job
  BY DEF Erasure, DeletionForgets, TypeOK
<1>1. ASSUME NEW p \in Proc, PutRecord(p)
     PROVE  Erasure'
  <2>1. /\ Moved(p, "uncache") /\ proc[p].at = "put"
        /\ left' = left /\ edited' = edited
        /\ rec' = [rec EXCEPT ![proc[p].job] = proc[p].status]
    BY <1>1, Movement DEF PutRecord
  <2>2. proc[p].op \notin Reading
    BY <2>1, Procs DEF Shape, Passes, Transitions, Audited, Reading, Decision, Proc
  <2>3. proc[p].job \notin left
    BY <2>1, <2>2, NotLeft DEF Erasing
  <2> QED
    BY <1>0, <2>1, <2>3, ErasureQuiet DEF Moved, TypeOK
<1>2. ASSUME NEW p \in Proc, DropScore(p)
     PROVE  Erasure'
  <2>1. /\ proc[p].at \notin Erasing \cup {"idle"} /\ rec' = rec
        /\ left' = left /\ edited' = edited
    BY <1>2 DEF DropScore, Erasing
  <2>2. /\ \A q \in Proc : q # p => proc'[q] = proc[q]
        /\ \/ proc'[p] = Idle
           \/ proc'[p].op = proc[p].op /\ proc'[p].job = proc[p].job
    BY <1>2, Movement DEF Moved, Done
  <2> QED
    BY <2>1, <2>2, Procs, NotLeft, ErasureQuiet DEF Erasing
<1>3. ASSUME NEW p \in Proc, Index(p)
     PROVE  Erasure'
  <2>1. /\ proc[p].at \notin Erasing \cup {"idle"} /\ rec' = rec
        /\ left' = left /\ edited' = edited
    BY <1>3 DEF Index, Erasing
  <2>2. /\ \A q \in Proc : q # p => proc'[q] = proc[q]
        /\ \/ proc'[p] = Idle
           \/ proc'[p].op = proc[p].op /\ proc'[p].job = proc[p].job
    BY <1>3, Movement DEF Moved, Done
  <2> QED
    BY <2>1, <2>2, Procs, NotLeft, ErasureQuiet DEF Erasing
<1>4. ASSUME NEW j \in Job, BridgeRead(j)
     PROVE  Erasure'
  <2>1. rec[j] \in Status /\ "file" \in At /\ NoBody \in Body
    BY <1>4 DEF BridgeRead, Pollable, Status, At, Body
  <2>2. /\ proc'["bridge"] = [at |-> "file", op |-> "none", job |-> j,
                              status |-> rec[j], body |-> NoBody]
        /\ \A q \in Proc : q # "bridge" => proc'[q] = proc[q]
    BY <1>4, <2>1, Procs, Started DEF BridgeRead
  <2>3. j \notin left
    BY <1>0, <1>4 DEF BridgeRead, Pollable
  <2> QED
    BY <1>4, <2>2, <2>3, Procs, ErasureQuiet DEF BridgeRead
<1>5. ASSUME BridgeDecide
     PROVE  Erasure'
  <2>1. /\ proc["bridge"].at \notin Erasing \cup {"idle"} /\ rec' = rec
        /\ left' = left /\ edited' = edited
    BY <1>5 DEF BridgeDecide, Erasing
  <2>2. /\ \A q \in Proc : q # "bridge" => proc'[q] = proc[q]
        /\ \/ proc'["bridge"] = Idle
           \/ proc'["bridge"].op = proc["bridge"].op /\ proc'["bridge"].job = proc["bridge"].job
    BY <1>5, Movement DEF Moved, Done
  <2> QED
    BY <2>1, <2>2, Procs, NotLeft, ErasureQuiet DEF Erasing
<1>6. ASSUME NEW j \in Job, SweepRead(j)
     PROVE  Erasure'
  <2>1. "unindex" \in At /\ NoBody \in Body
    BY DEF At, Body
  <2>2. /\ proc'["sweeper"] = [at |-> "unindex", op |-> "none", job |-> j,
                              status |-> "absent", body |-> NoBody]
        /\ \A q \in Proc : q # "sweeper" => proc'[q] = proc[q]
    BY <1>6, <2>1, Procs, Started DEF SweepRead
  <2>3. j \notin left
    BY <1>0, <1>6 DEF SweepRead
  <2> QED
    BY <1>6, <2>2, <2>3, Procs, ErasureQuiet DEF SweepRead
<1>7. ASSUME SweepStep
     PROVE  Erasure'
  <2>1. /\ proc["sweeper"].at \in {"unindex", "drop", "drop_edit"} /\ left' = left
        /\ \/ rec' = rec
           \/ rec' = [rec EXCEPT ![proc["sweeper"].job] = "absent"]
        /\ \/ edited' = edited
           \/ edited' = [edited EXCEPT ![proc["sweeper"].job] = NoBody]
    BY <1>7 DEF SweepStep
  <2>2. proc["sweeper"].op = "none" /\ proc["sweeper"].job \in Job
    BY <2>1, Procs DEF Shape
  <2>3. proc["sweeper"].job \notin left
    BY <2>1, <2>2, Procs, NotLeft DEF Erasing, Reading
  <2>4. /\ \A q \in Proc : q # "sweeper" => proc'[q] = proc[q]
        /\ \/ proc'["sweeper"] = Idle
           \/ proc'["sweeper"].job = proc["sweeper"].job
    BY <1>7, Movement DEF Moved, Done
  <2>5. \A j \in left : rec'[j] = rec[j] /\ edited'[j] = edited[j]
    BY <1>0, <2>1, <2>2, <2>3 DEF TypeOK
  <2>6. Leavers'
    BY <1>0, <2>1, <2>3, <2>4, NullAssumption DEF Erasure, Leavers, Holds, Idle
  <2>7. DeletionForgets'
    BY <1>0, <2>1, <2>4, <2>5, Procs, RequestAssumption
       DEF Erasure, DeletionForgets
  <2> QED
    BY <2>6, <2>7 DEF Erasure
<1>8. ASSUME NEW j \in Job, UpstreamStep(j)
     PROVE  Erasure'
  BY <1>8 DEF UpstreamStep, Erasure, Leavers, DeletionForgets, Holds
<1>9. ASSUME NEW j \in Job, ExpireScore(j)
     PROVE  Erasure'
  BY <1>9 DEF ExpireScore, Erasure, Leavers, DeletionForgets, Holds
<1>10. ASSUME NEW r \in Request, NEW j \in Job, Open(r, j)
      PROVE  Erasure'
  <2>1. PICK o \in AllOps, w \in At, s \in Status \cup {"absent"}, b \in Body :
           Opened(r, j, o, w, s, b)
    BY <1>10, Opening
  <2>2. /\ proc'[r] = [at |-> w, op |-> o, job |-> j, status |-> s, body |-> b]
        /\ \A q \in Proc : q # r => proc'[q] = proc[q]
    BY <2>1, Procs, Started DEF Opened
  <2>3. j \notin left \/ o \in Reading
    BY <1>0, <2>1 DEF Opened, Reading
  <2> QED
    BY <2>1, <2>2, <2>3, Procs, ErasureQuiet DEF Opened
<1>11. ASSUME NEW r \in Request, PiiGate(r)
      PROVE  Erasure'
  <2>1. /\ proc[r].at \notin Erasing \cup {"idle"} /\ rec' = rec
        /\ left' = left /\ edited' = edited
    BY <1>11 DEF PiiGate, Erasing
  <2>2. /\ \A q \in Proc : q # r => proc'[q] = proc[q]
        /\ \/ proc'[r] = Idle
           \/ proc'[r].op = proc[r].op /\ proc'[r].job = proc[r].job
    BY <1>11, Movement DEF Moved, Done
  <2> QED
    BY <2>1, <2>2, Procs, NotLeft, ErasureQuiet DEF Erasing
<1>12. ASSUME NEW r \in Request, ResolveEdit(r)
      PROVE  Erasure'
  <2>1. /\ proc[r].at \notin Erasing \cup {"idle"} /\ rec' = rec
        /\ left' = left /\ edited' = edited
    BY <1>12 DEF ResolveEdit, Erasing
  <2>2. /\ \A q \in Proc : q # r => proc'[q] = proc[q]
        /\ \/ proc'[r] = Idle
           \/ proc'[r].op = proc[r].op /\ proc'[r].job = proc[r].job
    BY <1>12, Movement DEF Moved, Done
  <2> QED
    BY <2>1, <2>2, Procs, NotLeft, ErasureQuiet DEF Erasing
<1>13. ASSUME NEW r \in Request, ResolveCanonical(r)
      PROVE  Erasure'
  <2>1. /\ proc[r].at \notin Erasing \cup {"idle"} /\ rec' = rec
        /\ left' = left /\ edited' = edited
    BY <1>13 DEF ResolveCanonical, Erasing
  <2>2. /\ \A q \in Proc : q # r => proc'[q] = proc[q]
        /\ \/ proc'[r] = Idle
           \/ proc'[r].op = proc[r].op /\ proc'[r].job = proc[r].job
    BY <1>13, Movement DEF Moved, Done
  <2> QED
    BY <2>1, <2>2, Procs, NotLeft, ErasureQuiet DEF Erasing
<1>14. ASSUME BridgeFile
     PROVE  Erasure'
  <2>1. /\ proc["bridge"].at \notin Erasing \cup {"idle"} /\ rec' = rec
        /\ left' = left /\ edited' = edited
    BY <1>14 DEF BridgeFile, Erasing
  <2>2. /\ \A q \in Proc : q # "bridge" => proc'[q] = proc[q]
        /\ \/ proc'["bridge"] = Idle
           \/ proc'["bridge"].op = proc["bridge"].op /\ proc'["bridge"].job = proc["bridge"].job
    BY <1>14, Movement DEF Moved, Done
  <2> QED
    BY <2>1, <2>2, Procs, NotLeft, ErasureQuiet DEF Erasing
<1>15. ASSUME NEW r \in Request, Serve(r)
      PROVE  Erasure'
  <2>1. /\ proc[r].at \notin Erasing \cup {"idle"} /\ rec' = rec
        /\ left' = left /\ edited' = edited
    BY <1>15 DEF Serve, Erasing
  <2>2. /\ \A q \in Proc : q # r => proc'[q] = proc[q]
        /\ \/ proc'[r] = Idle
           \/ proc'[r].op = proc[r].op /\ proc'[r].job = proc[r].job
    BY <1>15, Movement DEF Moved, Done
  <2> QED
    BY <2>1, <2>2, Procs, NotLeft, ErasureQuiet DEF Erasing
<1>16. ASSUME NEW r \in Request, CacheScore(r)
      PROVE  Erasure'
  <2>1. /\ proc[r].at \notin Erasing \cup {"idle"} /\ rec' = rec
        /\ left' = left /\ edited' = edited
    BY <1>16 DEF CacheScore, Erasing
  <2>2. /\ \A q \in Proc : q # r => proc'[q] = proc[q]
        /\ \/ proc'[r] = Idle
           \/ proc'[r].op = proc[r].op /\ proc'[r].job = proc[r].job
    BY <1>16, Movement DEF Moved, Done
  <2> QED
    BY <2>1, <2>2, Procs, NotLeft, ErasureQuiet DEF Erasing
<1>17. ASSUME NEW r \in Request, SaveEdit(r)
      PROVE  Erasure'
  <2>1. /\ Done(r) /\ proc[r].at \in {"save", "revert"} /\ left' = left /\ rec' = rec
        /\ edited' = [edited EXCEPT ![proc[r].job] = proc[r].body]
    BY <1>17, Movement DEF SaveEdit
  <2>2. proc[r].op \notin Reading /\ proc[r].job \in Job
    BY <2>1, Procs DEF Shape, Passes, Transitions, Audited, Reading, Decision
  <2>3. proc[r].job \notin left
    BY <2>1, <2>2, Procs, NotLeft DEF Erasing
  <2>4. \A j \in left : edited'[j] = edited[j]
    BY <1>0, <2>1, <2>2, <2>3 DEF TypeOK
  <2>5. Leavers'
    BY <1>0, <2>1, NullAssumption DEF Erasure, Leavers, Holds, Idle, Done
  <2>6. DeletionForgets'
    BY <2>1, <2>4, Procs DEF Erasure, DeletionForgets, Done
  <2> QED
    BY <2>5, <2>6 DEF Erasure
<1>18. ASSUME NEW r \in Request, Forward(r)
      PROVE  Erasure'
  <2>1. /\ proc[r].at \notin Erasing \cup {"idle"} /\ rec' = rec
        /\ left' = left /\ edited' = edited
    BY <1>18 DEF Forward, Erasing, CarryOut
  <2>2. /\ \A q \in Proc : q # r => proc'[q] = proc[q]
        /\ \/ proc'[r] = Idle
           \/ proc'[r].op = proc[r].op /\ proc'[r].job = proc[r].job
    BY <1>18, Movement DEF Moved, Done
  <2> QED
    BY <2>1, <2>2, Procs, NotLeft, ErasureQuiet DEF Erasing
<1>19. ASSUME NEW r \in Request, FetchToken(r)
      PROVE  Erasure'
  <2>1. /\ proc[r].at \notin Erasing \cup {"idle"} /\ rec' = rec
        /\ left' = left /\ edited' = edited
    BY <1>19 DEF FetchToken, Erasing
  <2>2. /\ \A q \in Proc : q # r => proc'[q] = proc[q]
        /\ \/ proc'[r] = Idle
           \/ proc'[r].op = proc[r].op /\ proc'[r].job = proc[r].job
    BY <1>19, Movement DEF Moved, Done
  <2> QED
    BY <2>1, <2>2, Procs, NotLeft, ErasureQuiet DEF Erasing
<1>20. ASSUME NEW r \in Request, ForwardByToken(r)
      PROVE  Erasure'
  <2>1. /\ proc[r].at \notin Erasing \cup {"idle"} /\ rec' = rec
        /\ left' = left /\ edited' = edited
    BY <1>20 DEF ForwardByToken, Erasing, CarryOut
  <2>2. /\ \A q \in Proc : q # r => proc'[q] = proc[q]
        /\ \/ proc'[r] = Idle
           \/ proc'[r].op = proc[r].op /\ proc'[r].job = proc[r].job
    BY <1>20, Movement DEF Moved, Done
  <2> QED
    BY <2>1, <2>2, Procs, NotLeft, ErasureQuiet DEF Erasing
<1>21. ASSUME NEW r \in Request, ReplyLost(r)
      PROVE  Erasure'
  <2>1. /\ proc[r].at \notin Erasing \cup {"idle"} /\ rec' = rec
        /\ left' = left /\ edited' = edited
    BY <1>21 DEF ReplyLost, Erasing, CarryOut
  <2>2. /\ \A q \in Proc : q # r => proc'[q] = proc[q]
        /\ \/ proc'[r] = Idle
           \/ proc'[r].op = proc[r].op /\ proc'[r].job = proc[r].job
    BY <1>21, Movement DEF Moved, Done
  <2> QED
    BY <2>1, <2>2, Procs, NotLeft, ErasureQuiet DEF Erasing
<1>22. ASSUME NEW r \in Request, AppendEvent(r)
      PROVE  Erasure'
  <2>1. /\ proc[r].at = "audit" /\ rec' = rec /\ left' = left /\ edited' = edited
    BY <1>22 DEF AppendEvent
  <2>2. Done(r)
    BY <1>22, Movement
  <2> QED
    BY <2>1, <2>2, Procs, ErasureQuiet DEF Done
<1>23. ASSUME NEW r \in Request, ForgetStep(r)
      PROVE  Erasure'
  <2> DEFINE k == proc[r].job
  <2>1. \A q \in Proc : q # r => proc'[q] = proc[q]
    BY <1>23, Movement DEF Moved
  <2>2. proc'[r].at \in Erasing /\ proc'[r].job = k
    BY <1>23, Movement DEF Moved, Erasing
  <2>3. /\ proc[r].at \in {"forget", "forget_edit", "forget_score"}
        /\ k \in Job /\ proc[r].op = "delete"
    BY <1>23, Procs DEF ForgetStep, Shape, Passes, Transitions, Audited, Reading, Decision
  <2>4. CASE proc[r].at = "forget"
    <3>1. /\ edited' = edited /\ proc'[r].at = "forget_edit"
      BY <1>23, <2>4, Movement DEF ForgetStep, Moved
    <3>2. \/ rec' = rec /\ left' = left
          \/ /\ rec' = [rec EXCEPT ![k] = "absent"]
             /\ left' = IF \E p \in Proc \ {r} : Holds(p, k)
                        THEN left ELSE left \cup {k}
      BY <1>23, <2>4 DEF ForgetStep
    <3>3. Leavers'
      BY <2>1, <2>2, <3>2, Procs DEF Erasure, Leavers, Holds, Erasing
    <3>4. \A j \in left' : rec'[j] = "absent"
      BY <1>0, <2>3, <3>2 DEF TypeOK
    <3>5. DeletionForgets'
      BY <2>1, <2>2, <2>4, <3>1, <3>2, <3>4, Procs DEF Erasure, DeletionForgets
    <3> QED
      BY <3>3, <3>5 DEF Erasure
  <2>5. CASE proc[r].at = "forget_edit"
    <3>1. rec' = rec /\ left' \subseteq left
      BY <1>23, <2>5 DEF ForgetStep
    <3>2. \/ edited' = [edited EXCEPT ![k] = NoBody] /\ left' = left
          \/ edited' = edited /\ k \notin left'
      BY <1>23, <2>5 DEF ForgetStep
    <3>3. Leavers'
      BY <2>1, <2>2, <3>1 DEF Erasure, Leavers, Holds, Erasing
    <3>4. DeletionForgets'
      BY <1>0, <2>1, <2>3, <3>1, <3>2, Procs
         DEF Erasure, DeletionForgets, TypeOK
    <3> QED
      BY <3>3, <3>4 DEF Erasure
  <2>6. CASE proc[r].at = "forget_score"
    <3>1. rec' = rec /\ left' = left /\ edited' = edited
      BY <1>23, <2>6 DEF ForgetStep
    <3>2. Leavers'
      BY <2>1, <2>2, <3>1 DEF Erasure, Leavers, Holds, Erasing
    <3>3. DeletionForgets'
      BY <2>1, <2>6, <3>1, Procs DEF Erasure, DeletionForgets
    <3> QED
      BY <3>2, <3>3 DEF Erasure
  <2> QED
    BY <2>3, <2>4, <2>5, <2>6
<1>24. ASSUME NEW p \in Proc, Abort(p)
      PROVE  Erasure'
  <2>1. rec' = rec /\ edited' = edited
    BY <1>24 DEF Abort
  <2>2. left' = left \ {j \in Job : \E q \in {p} :
                            proc[q].job = j /\ proc[q].at = "forget_edit"}
    BY <1>24 DEF Abort, Drop
  <2>3. /\ \A q \in Proc \ {p} : proc'[q] = proc[q]
        /\ \A q \in {p} : proc'[q] = Idle
    BY <1>24, Movement DEF Done
  <2>4. Leavers'
    BY <1>0, <2>2, <2>3, NullAssumption DEF Erasure, Leavers, Holds, Idle
  <2>5. DeletionForgets'
    BY <1>0, <2>1, <2>2, <2>3, Procs DEF Erasure, DeletionForgets
  <2> QED
    BY <2>4, <2>5 DEF Erasure
<1>25. ASSUME Restart
      PROVE  Erasure'
  <2>1. rec' = rec /\ edited' = edited
    BY <1>25 DEF Restart
  <2>2. left' = left \ {j \in Job : \E q \in Proc :
                            proc[q].job = j /\ proc[q].at = "forget_edit"}
    BY <1>25 DEF Restart, Drop
  <2>3. /\ \A q \in Proc \ Proc : proc'[q] = proc[q]
        /\ \A q \in Proc : proc'[q] = Idle
    BY <1>25, Restarted DEF Done
  <2>4. Leavers'
    BY <1>0, <2>2, <2>3, NullAssumption DEF Erasure, Leavers, Holds, Idle
  <2>5. DeletionForgets'
    BY <1>0, <2>1, <2>2, <2>3, Procs DEF Erasure, DeletionForgets
  <2> QED
    BY <2>4, <2>5 DEF Erasure
<1>26. ASSUME UNCHANGED vars
      PROVE  Erasure'
  BY <1>26 DEF vars, Erasure, Leavers, DeletionForgets, Holds
<1>27. ASSUME BridgePurge
     PROVE  Erasure'
  <2>1. /\ proc["bridge"].at \notin Erasing \cup {"idle"}
        /\ rec' = rec \/ rec' = [rec EXCEPT ![proc["bridge"].job] = "absent"]
        /\ left' = left /\ edited' = edited
    BY <1>27 DEF BridgePurge, Erasing
  <2>2. /\ \A q \in Proc : q # "bridge" => proc'[q] = proc[q]
        /\ \/ proc'["bridge"] = Idle
           \/ proc'["bridge"].op = proc["bridge"].op /\ proc'["bridge"].job = proc["bridge"].job
    BY <1>27, Movement DEF Moved, Done
  <2>3. proc["bridge"].job \notin left
    BY <2>1, Procs, NotLeft DEF Shape, Reading
  <2>4. \A j \in left : rec'[j] = rec[j]
    BY <1>0, <2>1, <2>3 DEF TypeOK
  <2> QED
    BY <2>1, <2>2, <2>3, <2>4, Procs, ErasureQuiet DEF Erasing
<1> QED
  BY <1>1, <1>2, <1>3, <1>4, <1>5, <1>6, <1>7, <1>8, <1>9, <1>10, <1>11,
     <1>12, <1>13, <1>14, <1>15, <1>16, <1>17, <1>18, <1>19, <1>20, <1>21,
     <1>22, <1>23, <1>24, <1>25, <1>26, <1>27, Procs
     DEF Next, BridgeStep, BridgeWork, PutStep, HandlerStep

\* Who asked to publish what, as an invariant of its own.
Approval == Approvals /\ ServedWasApproved

\* A step of p that asks for nothing, publishes nothing and serves nothing.
LEMMA ApprovalQuiet ==
    ASSUME Approval, NEW p \in Proc,
           \A q \in Proc : q # p => proc'[q] = proc[q],
           approved' = approved, served' = served,
           \A j \in Job : rec'[j] \in {rec[j], "absent"},
           \/ proc'[p] = Idle
           \/ /\ proc'[p].op = proc[p].op /\ proc'[p].job = proc[p].job
              /\ proc'[p].status = proc[p].status /\ proc[p].at # "idle"
    PROVE  Approval'
<1>1. "absent" # "published" /\ "none" \notin {"approve", "review_approve", "view"}
  OBVIOUS
<1>2. Approvals'
  BY <1>1, Procs DEF Approval, Approvals, Idle
<1>3. ServedWasApproved'
  BY DEF Approval, ServedWasApproved
<1> QED
  BY <1>2, <1>3 DEF Approval

\* Every action keeps publishing and serving behind a request to publish.
LEMMA ApprovalStep ==
    ASSUME TypeOK, Shape, Approval, [Next]_vars
    PROVE  Approval'
<1> USE DEF store, core, history
<1>0. rec \in [Job -> Status \cup {"absent"}] /\ served \subseteq Job
  BY DEF TypeOK
<1>1. ASSUME NEW p \in Proc, PutRecord(p)
     PROVE  Approval'
  <2>1. Moved(p, "uncache") /\ Keeps(p)
    BY <1>1, Movement
  <2>2. proc[p].at = "put" /\ proc[p].job \in Job
    BY <1>1 DEF PutRecord, Shape
  <2>3. /\ rec' = [rec EXCEPT ![proc[p].job] = proc[p].status]
        /\ approved' = approved /\ served' = served
    BY <1>1 DEF PutRecord
  <2>4. proc[p].status = "published" => proc[p].job \in approved
    <3>1. CASE p = "bridge"
      BY <3>1 DEF Approval, Approvals
    <3>2. CASE p = "sweeper"
      BY <2>2, <3>2 DEF Shape
    <3>3. CASE p \in Request
      BY <2>2, <3>3 DEF Shape, Passes, Transitions, Audited, Decision, Reading,
                        Approval, Approvals
    <3> QED
      BY <3>1, <3>2, <3>3 DEF Proc
  <2>5. Approvals'
    BY <1>0, <2>1, <2>2, <2>3, <2>4, Procs DEF Approval, Approvals, Moved, Keeps
  <2> QED
    BY <2>3, <2>5 DEF Approval, ServedWasApproved
<1>2. ASSUME NEW p \in Proc, DropScore(p)
     PROVE  Approval'
  <2>1. /\ proc[p].at # "idle" /\ approved' = approved /\ served' = served
        /\ rec' = rec
    BY <1>0, <1>2 DEF DropScore
  <2>2. \/ Done(p)
        \/ \E w \in At : Moved(p, w) /\ proc'[p].status = proc[p].status
    BY <1>2, Movement DEF Keeps, At
  <2>3. \A q \in Proc : q # p => proc'[q] = proc[q]
    BY <2>2 DEF Moved, Done
  <2>4. \/ proc'[p] = Idle
        \/ /\ proc'[p].op = proc[p].op /\ proc'[p].job = proc[p].job
           /\ proc'[p].status = proc[p].status
    BY <2>2 DEF Moved, Done
  <2> QED
    BY <2>1, <2>3, <2>4, Procs, ApprovalQuiet
<1>3. ASSUME NEW p \in Proc, Index(p)
     PROVE  Approval'
  <2>1. /\ proc[p].at # "idle" /\ approved' = approved /\ served' = served
        /\ rec' = rec
    BY <1>0, <1>3 DEF Index
  <2>2. \/ Done(p)
        \/ \E w \in At : Moved(p, w) /\ proc'[p].status = proc[p].status
    BY <1>3, Movement DEF Keeps, At
  <2>3. \A q \in Proc : q # p => proc'[q] = proc[q]
    BY <2>2 DEF Moved, Done
  <2>4. \/ proc'[p] = Idle
        \/ /\ proc'[p].op = proc[p].op /\ proc'[p].job = proc[p].job
           /\ proc'[p].status = proc[p].status
    BY <2>2 DEF Moved, Done
  <2> QED
    BY <2>1, <2>3, <2>4, Procs, ApprovalQuiet
<1>4. ASSUME NEW j \in Job, BridgeRead(j)
     PROVE  Approval'
  <2>1. rec[j] \in Status /\ "file" \in At /\ NoBody \in Body
    BY <1>4 DEF BridgeRead, Pollable, Status, At, Body
  <2>2. /\ proc'["bridge"] = [at |-> "file", op |-> "none", job |-> j,
                              status |-> rec[j], body |-> NoBody]
        /\ \A q \in Proc : q # "bridge" => proc'[q] = proc[q]
    BY <1>4, <2>1, Procs, Started DEF BridgeRead
  <2>3. rec' = rec /\ approved' = approved /\ served' = served /\ rec[j] # "published"
    BY <1>4 DEF BridgeRead, Pollable
  <2>4. Approvals'
    BY <2>2, <2>3, Procs, RequestAssumption DEF Approval, Approvals
  <2> QED
    BY <2>3, <2>4 DEF Approval, ServedWasApproved
<1>5. ASSUME BridgeDecide
     PROVE  Approval'
  <2>1. rec' = rec /\ approved' = approved /\ served' = served
    BY <1>5 DEF BridgeDecide
  <2>2. /\ \A q \in Proc : q # "bridge" => proc'[q] = proc[q]
        /\ proc'["bridge"].op = "none" /\ proc'["bridge"].status # "published"
    BY <1>5, Movement DEF Moved, Done, Idle, Shape
  <2>3. Approvals'
    BY <2>1, <2>2, Procs, RequestAssumption DEF Approval, Approvals
  <2> QED
    BY <2>1, <2>3 DEF Approval, ServedWasApproved
<1>6. ASSUME NEW j \in Job, SweepRead(j)
     PROVE  Approval'
  <2>1. "unindex" \in At /\ NoBody \in Body
    BY DEF At, Body
  <2>2. /\ proc'["sweeper"] = [at |-> "unindex", op |-> "none", job |-> j,
                              status |-> "absent", body |-> NoBody]
        /\ \A q \in Proc : q # "sweeper" => proc'[q] = proc[q]
    BY <1>6, <2>1, Procs, Started DEF SweepRead
  <2>3. rec' = rec /\ approved' = approved /\ served' = served
    BY <1>6 DEF SweepRead
  <2>4. Approvals'
    BY <2>2, <2>3, Procs, RequestAssumption DEF Approval, Approvals
  <2> QED
    BY <2>3, <2>4 DEF Approval, ServedWasApproved
<1>7. ASSUME SweepStep
     PROVE  Approval'
  <2>1. /\ approved' = approved /\ served' = served
        /\ \A j \in Job : rec'[j] \in {rec[j], "absent"}
    BY <1>0, <1>7 DEF SweepStep
  <2>2. /\ \A q \in Proc : q # "sweeper" => proc'[q] = proc[q]
    BY <1>7, Movement DEF Moved, Done, Idle
  <2>3. proc'["sweeper"].op = "none"
    BY <1>7, Movement DEF Moved, Done, Idle, Shape
  <2>4. Approvals'
    BY <2>1, <2>2, <2>3, Procs, RequestAssumption DEF Approval, Approvals
  <2> QED
    BY <2>1, <2>4 DEF Approval, ServedWasApproved
<1>8. ASSUME NEW j \in Job, UpstreamStep(j)
     PROVE  Approval'
  BY <1>8 DEF UpstreamStep, Approval, Approvals, ServedWasApproved
<1>9. ASSUME NEW j \in Job, ExpireScore(j)
     PROVE  Approval'
  BY <1>9 DEF ExpireScore, Approval, Approvals, ServedWasApproved
<1>10. ASSUME NEW r \in Request, NEW j \in Job, Open(r, j)
      PROVE  Approval'
  <2>1. PICK o \in AllOps, w \in At, s \in Status \cup {"absent"}, b \in Body :
           Opened(r, j, o, w, s, b)
    BY <1>10, Opening
  <2>2. /\ proc'[r] = [at |-> w, op |-> o, job |-> j, status |-> s, body |-> b]
        /\ \A q \in Proc : q # r => proc'[q] = proc[q]
    BY <2>1, Procs, Started DEF Opened
  <2>3. /\ rec' = rec /\ served' = served /\ approved \subseteq approved'
        /\ o \in {"approve", "review_approve"} => j \in approved'
    BY <2>1 DEF Opened
  <2>4. o = "view" => j \in approved
    BY <2>1 DEF Opened, Approval, Approvals
  <2>5. Approvals'
    BY <2>1, <2>2, <2>3, <2>4, Procs, RequestAssumption
       DEF Opened, Approval, Approvals
  <2> QED
    BY <2>3, <2>5 DEF Approval, ServedWasApproved
<1>11. ASSUME NEW r \in Request, PiiGate(r)
      PROVE  Approval'
  <2>1. /\ proc[r].at # "idle" /\ approved' = approved /\ served' = served
        /\ rec' = rec
    BY <1>0, <1>11 DEF PiiGate
  <2>2. \/ Done(r)
        \/ \E w \in At : Moved(r, w) /\ proc'[r].status = proc[r].status
    BY <1>11, Movement DEF Keeps, At
  <2>3. \A q \in Proc : q # r => proc'[q] = proc[q]
    BY <2>2 DEF Moved, Done
  <2>4. \/ proc'[r] = Idle
        \/ /\ proc'[r].op = proc[r].op /\ proc'[r].job = proc[r].job
           /\ proc'[r].status = proc[r].status
    BY <2>2 DEF Moved, Done
  <2> QED
    BY <2>1, <2>3, <2>4, Procs, ApprovalQuiet
<1>12. ASSUME NEW r \in Request, ResolveEdit(r)
      PROVE  Approval'
  <2>1. /\ proc[r].at # "idle" /\ approved' = approved /\ served' = served
        /\ rec' = rec
    BY <1>0, <1>12 DEF ResolveEdit
  <2>2. \/ Done(r)
        \/ \E w \in At : Moved(r, w) /\ proc'[r].status = proc[r].status
    BY <1>12, Movement DEF Keeps, At
  <2>3. \A q \in Proc : q # r => proc'[q] = proc[q]
    BY <2>2 DEF Moved, Done
  <2>4. \/ proc'[r] = Idle
        \/ /\ proc'[r].op = proc[r].op /\ proc'[r].job = proc[r].job
           /\ proc'[r].status = proc[r].status
    BY <2>2 DEF Moved, Done
  <2> QED
    BY <2>1, <2>3, <2>4, Procs, ApprovalQuiet
<1>13. ASSUME NEW r \in Request, ResolveCanonical(r)
      PROVE  Approval'
  <2>1. /\ proc[r].at # "idle" /\ approved' = approved /\ served' = served
        /\ rec' = rec
    BY <1>0, <1>13 DEF ResolveCanonical
  <2>2. \/ Done(r)
        \/ \E w \in At : Moved(r, w) /\ proc'[r].status = proc[r].status
    BY <1>13, Movement DEF Keeps, At
  <2>3. \A q \in Proc : q # r => proc'[q] = proc[q]
    BY <2>2 DEF Moved, Done
  <2>4. \/ proc'[r] = Idle
        \/ /\ proc'[r].op = proc[r].op /\ proc'[r].job = proc[r].job
           /\ proc'[r].status = proc[r].status
    BY <2>2 DEF Moved, Done
  <2> QED
    BY <2>1, <2>3, <2>4, Procs, ApprovalQuiet
<1>14. ASSUME BridgeFile
     PROVE  Approval'
  <2>1. /\ proc["bridge"].at # "idle" /\ approved' = approved /\ served' = served
        /\ \A j \in Job : rec'[j] \in {rec[j], "absent"}
    BY <1>0, <1>14 DEF BridgeFile
  <2>2. /\ \A q \in Proc : q # "bridge" => proc'[q] = proc[q]
        /\ \/ proc'["bridge"] = Idle
           \/ /\ proc'["bridge"].op = proc["bridge"].op
              /\ proc'["bridge"].job = proc["bridge"].job
              /\ proc'["bridge"].status = proc["bridge"].status
    BY <1>14, Movement DEF Moved, Done, Keeps
  <2> QED
    BY <2>1, <2>2, Procs, ApprovalQuiet
<1>15. ASSUME NEW r \in Request, Serve(r)
      PROVE  Approval'
  <2>1. Done(r) /\ proc[r].at = "serve"
    BY <1>15, Movement DEF Serve
  <2>2. /\ rec' = rec /\ approved' = approved
        /\ \/ served' = served
           \/ served' = served \cup {proc[r].job} /\ proc[r].op = "view"
    BY <1>15 DEF Serve
  <2>3. served' \subseteq approved
    BY <2>2, Procs DEF Approval, Approvals, ServedWasApproved
  <2>4. Approvals'
    BY <2>1, <2>2, Procs DEF Approval, Approvals, Done, Idle
  <2> QED
    BY <2>2, <2>3, <2>4 DEF Approval, ServedWasApproved
<1>16. ASSUME NEW r \in Request, CacheScore(r)
      PROVE  Approval'
  <2>1. /\ proc[r].at # "idle" /\ approved' = approved /\ served' = served
        /\ rec' = rec
    BY <1>0, <1>16 DEF CacheScore
  <2>2. \/ Done(r)
        \/ \E w \in At : Moved(r, w) /\ proc'[r].status = proc[r].status
    BY <1>16, Movement DEF Keeps, At
  <2>3. \A q \in Proc : q # r => proc'[q] = proc[q]
    BY <2>2 DEF Moved, Done
  <2>4. \/ proc'[r] = Idle
        \/ /\ proc'[r].op = proc[r].op /\ proc'[r].job = proc[r].job
           /\ proc'[r].status = proc[r].status
    BY <2>2 DEF Moved, Done
  <2> QED
    BY <2>1, <2>3, <2>4, Procs, ApprovalQuiet
<1>17. ASSUME NEW r \in Request, SaveEdit(r)
      PROVE  Approval'
  <2>1. /\ proc[r].at # "idle" /\ approved' = approved /\ served' = served
        /\ rec' = rec
    BY <1>0, <1>17 DEF SaveEdit
  <2>2. \/ Done(r)
        \/ \E w \in At : Moved(r, w) /\ proc'[r].status = proc[r].status
    BY <1>17, Movement DEF Keeps, At
  <2>3. \A q \in Proc : q # r => proc'[q] = proc[q]
    BY <2>2 DEF Moved, Done
  <2>4. \/ proc'[r] = Idle
        \/ /\ proc'[r].op = proc[r].op /\ proc'[r].job = proc[r].job
           /\ proc'[r].status = proc[r].status
    BY <2>2 DEF Moved, Done
  <2> QED
    BY <2>1, <2>3, <2>4, Procs, ApprovalQuiet
<1>18. ASSUME NEW r \in Request, Forward(r)
      PROVE  Approval'
  <2>1. /\ proc[r].at # "idle" /\ approved' = approved /\ served' = served
        /\ rec' = rec
    BY <1>0, <1>18 DEF Forward, CarryOut
  <2>2. \/ Done(r)
        \/ \E w \in At : Moved(r, w) /\ proc'[r].status = proc[r].status
    BY <1>18, Movement DEF Keeps, At
  <2>3. \A q \in Proc : q # r => proc'[q] = proc[q]
    BY <2>2 DEF Moved, Done
  <2>4. \/ proc'[r] = Idle
        \/ /\ proc'[r].op = proc[r].op /\ proc'[r].job = proc[r].job
           /\ proc'[r].status = proc[r].status
    BY <2>2 DEF Moved, Done
  <2> QED
    BY <2>1, <2>3, <2>4, Procs, ApprovalQuiet
<1>19. ASSUME NEW r \in Request, FetchToken(r)
      PROVE  Approval'
  <2>1. /\ proc[r].at # "idle" /\ approved' = approved /\ served' = served
        /\ rec' = rec
    BY <1>0, <1>19 DEF FetchToken
  <2>2. \/ Done(r)
        \/ \E w \in At : Moved(r, w) /\ proc'[r].status = proc[r].status
    BY <1>19, Movement DEF Keeps, At
  <2>3. \A q \in Proc : q # r => proc'[q] = proc[q]
    BY <2>2 DEF Moved, Done
  <2>4. \/ proc'[r] = Idle
        \/ /\ proc'[r].op = proc[r].op /\ proc'[r].job = proc[r].job
           /\ proc'[r].status = proc[r].status
    BY <2>2 DEF Moved, Done
  <2> QED
    BY <2>1, <2>3, <2>4, Procs, ApprovalQuiet
<1>20. ASSUME NEW r \in Request, ForwardByToken(r)
      PROVE  Approval'
  <2>1. /\ proc[r].at # "idle" /\ approved' = approved /\ served' = served
        /\ rec' = rec
    BY <1>0, <1>20 DEF ForwardByToken, CarryOut
  <2>2. \/ Done(r)
        \/ \E w \in At : Moved(r, w) /\ proc'[r].status = proc[r].status
    BY <1>20, Movement DEF Keeps, At
  <2>3. \A q \in Proc : q # r => proc'[q] = proc[q]
    BY <2>2 DEF Moved, Done
  <2>4. \/ proc'[r] = Idle
        \/ /\ proc'[r].op = proc[r].op /\ proc'[r].job = proc[r].job
           /\ proc'[r].status = proc[r].status
    BY <2>2 DEF Moved, Done
  <2> QED
    BY <2>1, <2>3, <2>4, Procs, ApprovalQuiet
<1>21. ASSUME NEW r \in Request, ReplyLost(r)
      PROVE  Approval'
  <2>1. /\ proc[r].at # "idle" /\ approved' = approved /\ served' = served
        /\ rec' = rec
    BY <1>0, <1>21 DEF ReplyLost, CarryOut
  <2>2. \/ Done(r)
        \/ \E w \in At : Moved(r, w) /\ proc'[r].status = proc[r].status
    BY <1>21, Movement DEF Keeps, At
  <2>3. \A q \in Proc : q # r => proc'[q] = proc[q]
    BY <2>2 DEF Moved, Done
  <2>4. \/ proc'[r] = Idle
        \/ /\ proc'[r].op = proc[r].op /\ proc'[r].job = proc[r].job
           /\ proc'[r].status = proc[r].status
    BY <2>2 DEF Moved, Done
  <2> QED
    BY <2>1, <2>3, <2>4, Procs, ApprovalQuiet
<1>22. ASSUME NEW r \in Request, AppendEvent(r)
      PROVE  Approval'
  <2>1. /\ proc[r].at # "idle" /\ approved' = approved /\ served' = served
        /\ rec' = rec
    BY <1>0, <1>22 DEF AppendEvent
  <2>2. \/ Done(r)
        \/ \E w \in At : Moved(r, w) /\ proc'[r].status = proc[r].status
    BY <1>22, Movement DEF Keeps, At
  <2>3. \A q \in Proc : q # r => proc'[q] = proc[q]
    BY <2>2 DEF Moved, Done
  <2>4. \/ proc'[r] = Idle
        \/ /\ proc'[r].op = proc[r].op /\ proc'[r].job = proc[r].job
           /\ proc'[r].status = proc[r].status
    BY <2>2 DEF Moved, Done
  <2> QED
    BY <2>1, <2>3, <2>4, Procs, ApprovalQuiet
<1>23. ASSUME NEW r \in Request, ForgetStep(r)
      PROVE  Approval'
  <2>1. /\ proc[r].at # "idle" /\ approved' = approved /\ served' = served
        /\ \A j \in Job : rec'[j] \in {rec[j], "absent"}
    BY <1>0, <1>23 DEF ForgetStep
  <2>2. \/ Done(r)
        \/ \E w \in At : Moved(r, w) /\ proc'[r].status = proc[r].status
    BY <1>23, Movement DEF Keeps, At
  <2>3. \A q \in Proc : q # r => proc'[q] = proc[q]
    BY <2>2 DEF Moved, Done
  <2>4. \/ proc'[r] = Idle
        \/ /\ proc'[r].op = proc[r].op /\ proc'[r].job = proc[r].job
           /\ proc'[r].status = proc[r].status
    BY <2>2 DEF Moved, Done
  <2> QED
    BY <2>1, <2>3, <2>4, Procs, ApprovalQuiet
<1>24. ASSUME NEW p \in Proc, Abort(p)
      PROVE  Approval'
  <2>1. Done(p) /\ rec' = rec /\ approved' = approved /\ served' = served
    BY <1>24, Movement DEF Abort
  <2>2. proc'[p] = Idle /\ \A q \in Proc : q # p => proc'[q] = proc[q]
    BY <2>1 DEF Done
  <2> QED
    BY <2>1, <2>2, ApprovalQuiet
<1>25. ASSUME Restart
      PROVE  Approval'
  <2>1. rec' = rec /\ approved' = approved /\ served' = served
    BY <1>25 DEF Restart
  <2>2. \A q \in Proc : proc'[q] = Idle
    BY <1>25, Restarted
  <2> QED
    BY <2>1, <2>2, Procs DEF Approval, Approvals, ServedWasApproved, Idle
<1>26. ASSUME UNCHANGED vars
      PROVE  Approval'
  BY <1>26 DEF vars, Approval, Approvals, ServedWasApproved
<1>27. ASSUME BridgePurge
     PROVE  Approval'
  <2>1. /\ proc["bridge"].at # "idle" /\ approved' = approved /\ served' = served
        /\ \A j \in Job : rec'[j] \in {rec[j], "absent"}
    BY <1>0, <1>27 DEF BridgePurge
  <2>2. /\ \A q \in Proc : q # "bridge" => proc'[q] = proc[q]
        /\ \/ proc'["bridge"] = Idle
           \/ /\ proc'["bridge"].op = proc["bridge"].op
              /\ proc'["bridge"].job = proc["bridge"].job
              /\ proc'["bridge"].status = proc["bridge"].status
    BY <1>27, Movement DEF Moved, Done, Keeps
  <2> QED
    BY <2>1, <2>2, Procs, ApprovalQuiet
<1> QED
  BY <1>1, <1>2, <1>3, <1>4, <1>5, <1>6, <1>7, <1>8, <1>9, <1>10, <1>11,
     <1>12, <1>13, <1>14, <1>15, <1>16, <1>17, <1>18, <1>19, <1>20, <1>21,
     <1>22, <1>23, <1>24, <1>25, <1>26, <1>27, Procs
     DEF Next, BridgeStep, BridgeWork, PutStep, HandlerStep

\* What holds at the start.
LEMMA InitInv == ASSUME Init PROVE IInv
<1>1. Idle \in ProcState
  BY DEF Idle, ProcState, At, Body
<1>2. TypeOK
  BY <1>1, BoundAssumption DEF Init, TypeOK, Status, Body, Upstream
<1>3. Shape /\ Writers /\ Purged /\ Decisions /\ Leavers /\ Approvals
  BY Procs DEF Init, Shape, Writers, Purged, Decisions, Leavers, Approvals, Idle
<1>4. PendingAgrees /\ ScoreFollowsRecord
  BY DEF Init, PendingAgrees, ScoreFollowsRecord, Awaiting
<1>5. AuditTellsTheDecision /\ DecisionRecorded /\ DeletionForgets /\ ServedWasApproved
  BY DEF Init, AuditTellsTheDecision, DecisionRecorded, DeletionForgets, ServedWasApproved
<1> QED
  BY <1>2, <1>3, <1>4, <1>5 DEF IInv

\* Every step keeps the invariant.
LEMMA NextInv == ASSUME IInv, [Next]_vars PROVE IInv'
BY TypeStep, ShapeStep, QueueStep, ScoreStep, PrivacyStep, ErasureStep, ApprovalStep
   DEF IInv, Queue, Privacy, Erasure, Approval

\* The inductive invariant of the review desk: where every process can be and
\* what it holds, and each store beside the record in agreement with it.
THEOREM Inductive == Spec => []IInv
BY InitInv, NextInv, PTL DEF Spec

\* The queue lists a job exactly while its record asks for a decision, unless
\* put_jobs of it overlapped or were cut.
THEOREM QueueAgrees == Spec => []PendingAgrees
<1>1. IInv => PendingAgrees
  BY DEF IInv
<1> QED
  BY <1>1, Inductive, PTL

\* A cached score was computed under the record's present status, unless it
\* was cached across a change or a DEL failed.
THEOREM ScoresAreCurrent == Spec => []ScoreFollowsRecord
<1>1. IInv => ScoreFollowsRecord
  BY DEF IInv
<1> QED
  BY <1>1, Inductive, PTL

\* The audit trail names only the privacy decision Reflow carried out.
THEOREM AuditIsTrue == Spec => []AuditTellsTheDecision
<1>1. IInv => AuditTellsTheDecision
  BY DEF IInv
<1> QED
  BY <1>1, Inductive, PTL

\* A decision Reflow carried out is audited, unless a fault fell in between.
THEOREM AuditIsComplete == Spec => []DecisionRecorded
<1>1. IInv => DecisionRecorded
  BY DEF IInv
<1> QED
  BY <1>1, Inductive, PTL

\* A job deleted while nobody else worked on it stays deleted with its edits.
THEOREM DeletionStands == Spec => []DeletionForgets
<1>1. IInv => DeletionForgets
  BY DEF IInv
<1> QED
  BY <1>1, Inductive, PTL

\* Without a preview no reader is sent a job no instructor asked to publish.
THEOREM NothingUnapproved == Spec => []ServedWasApproved
<1>1. IInv => ServedWasApproved
  BY DEF IInv
<1> QED
  BY <1>1, Inductive, PTL

=============================================================================
