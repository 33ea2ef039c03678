---------------------------- MODULE CourseIntake ----------------------------
(***************************************************************************)
(* How a PDF in a Canvas course becomes a Reflow job, exactly once.        *)
(*                                                                         *)
(* _scan_course (workers/canvas_watcher.py) walks the course's files one   *)
(* at a time: skip what is in the processed set, charge the monthly spend  *)
(* counter, download, look the bytes up in the content-hash index, and     *)
(* either alias the file to the job that already converted those bytes or  *)
(* submit it, store the record, mark it, index it and alias its copies.    *)
(* Each Redis or HTTP call is a step; between any two of them the bridge   *)
(* may be purging a deleted file's job, retention may drop a record, some  *)
(* holder of an older copy may write it back, an instructor may ask for a  *)
(* conversion, and the process may die.                                    *)
(*                                                                         *)
(* One course is modelled: every key here carries the course id.           *)
(***************************************************************************)
EXTENDS Naturals, FiniteSets

CONSTANTS
    File,       \* Canvas file ids, never reused by Canvas
    Content,    \* file contents, told apart by their SHA-256
    Job,        \* Reflow job ids
    ContentOf,  \* the bytes of each file
    Dropped,    \* files that live in the course's drop folder
    Removable,  \* files faculty may delete: bound on Canvas
    Cap,        \* documents per month the cap pays for, 0 for no cap
    Drops,      \* jobs retention or an instructor may delete: bound
    Rewritten,  \* jobs whose record others update in place: bound
    MaxFaults,  \* bound on failed calls and crashes
    NoFile, NoJob

ASSUME ContentAssumption == ContentOf \in [File -> Content]
ASSUME SetsAssumption == /\ Dropped \subseteq File
                         /\ Removable \subseteq File
                         /\ Drops \subseteq Job
                         /\ Rewritten \subseteq Job
ASSUME NumbersAssumption == Cap \in Nat /\ MaxFaults \in Nat
ASSUME NullAssumption == NoFile \notin File /\ NoJob \notin Job

VARIABLES
    present,    \* files in the course
    gone,       \* files deleted from it
    optin,      \* the course's opt-in key
    processed,  \* canvas:course:*:processed
    hash,       \* content-hash index
    alias,      \* file-alias keys
    record,     \* the file of each stored job record, NoFile without one
    origin,     \* Reflow: the file each job was submitted for
    spend,      \* this month's counter, in documents
    at,         \* where the watcher is
    todo,       \* files its current scan has still to look at
    file,       \* the file it is looking at
    hit,        \* the job it has in hand for that file
    copies,     \* copies of that file still to alias
    rolled,     \* the month ended since the watcher charged the counter
    clearing,   \* convert requests about to clear a processed marker
    purging,    \* the bridge's purge_job: where it is
    purged,     \* and the job it is purging
    writing,    \* jobs of whose record somebody holds a copy to write back
    faults,
    granted,    \* history: reservations granted this month
    refused,    \* history: files refused by the cap
    lost        \* history: jobs whose record was dropped

vars == <<present, gone, optin, processed, hash, alias, record, origin, spend,
          at, todo, file, hit, copies, rolled, clearing, purging, purged,
          writing, faults, granted, refused, lost>>

canvas == <<present, gone>>
budget == <<spend, rolled, granted>>
index == <<hash, alias>>
watcher == <<at, todo, file, hit, copies>>
others == <<clearing, purging, purged, writing>>

At == {"idle", "reserve", "refund", "refuse", "download", "submit", "store",
       "mark", "remember", "alias", "aliased", "copies", "copied"}

TypeOK ==
    /\ present \subseteq File /\ gone \subseteq File /\ optin \in BOOLEAN
    /\ processed \subseteq File
    /\ hash \in [Content -> Job \cup {NoJob}]
    /\ alias \in [File -> Job \cup {NoJob}]
    /\ record \in [Job -> File \cup {NoFile}]
    /\ origin \in [Job -> File \cup {NoFile}]
    /\ spend \in Nat /\ granted \in Nat
    /\ at \in At /\ todo \subseteq File /\ copies \subseteq File
    /\ file \in File \cup {NoFile} /\ hit \in Job \cup {NoJob}
    /\ rolled \in BOOLEAN
    /\ clearing \subseteq File
    /\ purging \in {"idle", "processed", "alias"} /\ purged \in Job \cup {NoJob}
    /\ writing \subseteq Rewritten
    /\ faults \in 0..MaxFaults
    /\ refused \subseteq File /\ lost \subseteq Job

Init ==
    /\ present = {} /\ gone = {} /\ optin = FALSE
    /\ processed = {}
    /\ hash = [c \in Content |-> NoJob]
    /\ alias = [f \in File |-> NoJob]
    /\ record = [j \in Job |-> NoFile]
    /\ origin = [j \in Job |-> NoFile]
    /\ spend = 0 /\ granted = 0 /\ rolled = FALSE
    /\ at = "idle" /\ todo = {} /\ file = NoFile /\ hit = NoJob /\ copies = {}
    /\ clearing = {} /\ purging = "idle" /\ purged = NoJob /\ writing = {}
    /\ faults = 0 /\ refused = {} /\ lost = {}

Fault == faults < MaxFaults /\ faults' = faults + 1

(***************************************************************************)
(* Canvas, faculty and the calendar.                                       *)
(***************************************************************************)
Upload(f) ==
    /\ f \notin present \cup gone
    /\ present' = present \cup {f}
    /\ UNCHANGED <<gone, optin, processed, index, record, origin, budget,
                   watcher, others, faults, refused, lost>>

DeleteFile(f) ==
    /\ f \in present \cap Removable
    /\ present' = present \ {f}
    /\ gone' = gone \cup {f}
    /\ UNCHANGED <<optin, processed, index, record, origin, budget, watcher,
                   others, faults, refused, lost>>

\* set_course_enabled, from the review page's switch.
SetOptin ==
    /\ optin' = ~optin
    /\ UNCHANGED <<canvas, processed, index, record, origin, budget, watcher,
                   others, faults, refused, lost>>

\* The spend key names the month, so a new month starts from nothing.
NewMonth ==
    /\ Cap > 0 /\ spend > 0
    /\ spend' = 0 /\ granted' = 0 /\ rolled' = TRUE
    /\ UNCHANGED <<canvas, optin, processed, index, record, origin, watcher,
                   others, faults, refused, lost>>

(***************************************************************************)
(* The watcher's scan of the course.                                       *)
(***************************************************************************)

\* Files in the drop folder always; the rest only in an opted-in course.
Discoverable == {f \in present : f \in Dropped \/ optin}

\* A listing that fails is logged and leaves its files out of this scan.
Discover ==
    /\ at = "idle" /\ todo = {}
    /\ Discoverable # {}
    /\ \/ todo' = Discoverable /\ UNCHANGED faults
       \/ todo' \in SUBSET Discoverable /\ Fault
    /\ UNCHANGED <<canvas, optin, processed, index, record, origin, budget,
                   at, file, hit, copies, others, refused, lost>>

\* already_processed.
Check(f) ==
    /\ at = "idle" /\ f \in todo
    /\ todo' = todo \ {f}
    /\ IF f \in processed
       THEN UNCHANGED <<at, file>>
       ELSE at' = "reserve" /\ file' = f
    /\ UNCHANGED <<canvas, optin, processed, index, record, origin, budget,
                   hit, copies, others, faults, refused, lost>>

\* Without a cap nobody compares the counter, and it is not kept here.
Charge(n) == IF Cap > 0 THEN n + 1 ELSE n

\* Mutant: the total before the charge is compared with the cap.
ReserveComparesOldTotal ==
    /\ at = "reserve"
    /\ spend' = Charge(spend)
    /\ rolled' = FALSE
    /\ IF Cap > 0 /\ spend > Cap
       THEN at' = "refund" /\ UNCHANGED granted
       ELSE at' = "download" /\ granted' = Charge(granted)
    /\ UNCHANGED <<canvas, optin, processed, index, record, origin, todo, file,
                   hit, copies, others, faults, refused, lost>>

\* reserve_submission: INCRBY, then compare the new total with the cap.
Reserve ==
    /\ at = "reserve"
    /\ spend' = Charge(spend)
    /\ rolled' = FALSE
    /\ IF Cap > 0 /\ spend + 1 > Cap
       THEN at' = "refund" /\ UNCHANGED granted
       ELSE at' = "download" /\ granted' = Charge(granted)
    /\ UNCHANGED <<canvas, optin, processed, index, record, origin, todo, file,
                   hit, copies, others, faults, refused, lost>>

\* Mutant: the refund names the month anew.
RefundThisMonth ==
    /\ at = "refund"
    /\ spend' = spend - 1
    /\ at' = "refuse"
    /\ UNCHANGED <<canvas, optin, processed, index, record, origin, rolled,
                   granted, todo, file, hit, copies, others, faults, refused,
                   lost>>

\* DECRBY on the key it charged, which may be last month's by now.
Refund ==
    /\ at = "refund"
    /\ spend' = IF rolled THEN spend ELSE spend - 1
    /\ at' = "refuse"
    /\ UNCHANGED <<canvas, optin, processed, index, record, origin, rolled,
                   granted, todo, file, hit, copies, others, faults, refused,
                   lost>>

\* Mutant: a refused file is not marked.
RefuseUnmarked ==
    /\ at = "refuse"
    /\ refused' = refused \cup {file}
    /\ at' = "idle" /\ file' = NoFile
    /\ UNCHANGED <<canvas, optin, processed, index, record, origin, budget,
                   todo, hit, copies, others, faults, lost>>

\* A refused file is marked, so that the scan does not retry it every tick.
Refuse ==
    /\ at = "refuse"
    /\ processed' = processed \cup {file}
    /\ refused' = refused \cup {file}
    /\ at' = "idle" /\ file' = NoFile
    /\ UNCHANGED <<canvas, optin, index, record, origin, budget, todo, hit,
                   copies, others, faults, lost>>

\* download_file and get_job_for_hash.  A file deleted meanwhile, like any
\* failed download, is skipped; what was charged for it stays charged.
Download ==
    /\ at = "download"
    /\ \/ /\ file \in present
          /\ hit' = hash[ContentOf[file]]
          /\ at' = IF hash[ContentOf[file]] # NoJob THEN "alias" ELSE "submit"
          /\ UNCHANGED <<file, faults>>
       \/ /\ file \notin present /\ UNCHANGED faults
          /\ at' = "idle" /\ file' = NoFile /\ UNCHANGED hit
       \/ /\ Fault
          /\ at' = "idle" /\ file' = NoFile /\ UNCHANGED hit
    /\ UNCHANGED <<canvas, optin, processed, index, record, origin, budget,
                   todo, copies, others, refused, lost>>

\* Known bytes: put_file_alias, then mark_processed.
Alias ==
    /\ at = "alias"
    /\ alias' = [alias EXCEPT ![file] = hit]
    /\ at' = "aliased"
    /\ UNCHANGED <<canvas, optin, processed, hash, record, origin, budget,
                   todo, file, hit, copies, others, faults, refused, lost>>

MarkAliased ==
    /\ at = "aliased"
    /\ processed' = processed \cup {file}
    /\ at' = "idle" /\ file' = NoFile /\ hit' = NoJob
    /\ UNCHANGED <<canvas, optin, index, record, origin, budget, todo, copies,
                   others, faults, refused, lost>>

\* Mutant: the index learns of a job before its record is stored.
SubmitRemembering(j) ==
    /\ at = "submit"
    /\ origin[j] = NoFile
    /\ origin' = [origin EXCEPT ![j] = file]
    /\ hash' = [hash EXCEPT ![ContentOf[file]] = j]
    /\ hit' = j
    /\ at' = "store"
    /\ UNCHANGED <<canvas, optin, processed, alias, record, budget, todo, file,
                   copies, others, faults, refused, lost>>

\* reflow.submit_document (the VeraPDF audit beside it keeps no state here).
Submit(j) ==
    /\ at = "submit"
    /\ origin[j] = NoFile
    /\ origin' = [origin EXCEPT ![j] = file]
    /\ hit' = j
    /\ at' = "store"
    /\ UNCHANGED <<canvas, optin, processed, index, record, budget, todo, file,
                   copies, others, faults, refused, lost>>

\* Mutant: a file whose submission failed is marked, not to be retried.
SubmitFailsMarking ==
    /\ at = "submit" /\ Fault
    /\ \/ UNCHANGED origin
       \/ \E j \in Job : /\ origin[j] = NoFile
                         /\ origin' = [origin EXCEPT ![j] = file]
    /\ processed' = processed \cup {file}
    /\ at' = "idle" /\ file' = NoFile
    /\ UNCHANGED <<canvas, optin, index, record, budget, todo, hit, copies,
                   others, refused, lost>>

\* The call raises: Reflow may or may not have taken the document.
SubmitFails ==
    /\ at = "submit" /\ Fault
    /\ \/ UNCHANGED origin
       \/ \E j \in Job : /\ origin[j] = NoFile
                         /\ origin' = [origin EXCEPT ![j] = file]
    /\ at' = "idle" /\ file' = NoFile
    /\ UNCHANGED <<canvas, optin, processed, index, record, budget, todo, hit,
                   copies, others, refused, lost>>

\* put_job, mark_processed, put_job_for_hash: three calls, in this order.
Store ==
    /\ at = "store"
    /\ record' = [record EXCEPT ![hit] = file]
    /\ at' = "mark"
    /\ UNCHANGED <<canvas, optin, processed, index, origin, budget, todo, file,
                   hit, copies, others, faults, refused, lost>>

Mark ==
    /\ at = "mark"
    /\ processed' = processed \cup {file}
    /\ at' = "remember"
    /\ UNCHANGED <<canvas, optin, index, record, origin, budget, todo, file,
                   hit, copies, others, faults, refused, lost>>

\* Mutant: every course file counts as a copy, whatever its bytes.
CopiesOfAnyContent(f) == present \ {f}
\* _find_sibling_file_ids: files of the course with the same bytes.
CopiesOf(f) == {g \in present \ {f} : ContentOf[g] = ContentOf[f]}

\* Mutant: the content hash is not remembered.
RememberNothing ==
    /\ at = "remember"
    /\ copies' = CopiesOf(file)
    /\ at' = "copies"
    /\ UNCHANGED <<canvas, optin, processed, index, record, origin, budget,
                   todo, file, hit, others, faults, refused, lost>>

\* put_job_for_hash, then the lookup; a copy it fails to read is left out.
Remember ==
    /\ at = "remember"
    /\ hash' = [hash EXCEPT ![ContentOf[file]] = hit]
    /\ \/ copies' = CopiesOf(file) /\ UNCHANGED faults
       \/ copies' \in SUBSET CopiesOf(file) /\ Fault
    /\ at' = "copies"
    /\ UNCHANGED <<canvas, optin, processed, alias, record, origin, budget,
                   todo, file, hit, others, refused, lost>>

\* Every copy is aliased and marked in turn.
AliasCopy(f) ==
    /\ at = "copies" /\ f \in copies
    /\ alias' = [alias EXCEPT ![f] = hit]
    /\ copies' = copies \ {f}
    /\ file' = f
    /\ at' = "copied"
    /\ UNCHANGED <<canvas, optin, processed, hash, record, origin, budget,
                   todo, hit, others, faults, refused, lost>>

MarkCopy ==
    /\ at = "copied"
    /\ processed' = processed \cup {file}
    /\ at' = "copies"
    /\ UNCHANGED <<canvas, optin, index, record, origin, budget, todo, file,
                   hit, copies, others, faults, refused, lost>>

\* What goes wrong with the copies is logged, and the scan goes on.
FileDone ==
    /\ \/ at = "copies" /\ copies = {} /\ UNCHANGED faults
       \/ at \in {"copies", "copied"} /\ Fault
    /\ at' = "idle" /\ file' = NoFile /\ hit' = NoJob /\ copies' = {}
    /\ UNCHANGED <<canvas, optin, processed, index, record, origin, budget,
                   todo, others, refused, lost>>

ScanStep ==
    \/ Discover \/ \E f \in File : Check(f)
    \/ Reserve \/ Refund \/ Refuse
    \/ Download \/ Alias \/ MarkAliased
    \/ \E j \in Job : Submit(j)
    \/ Store \/ Mark \/ Remember
    \/ \E f \in File : AliasCopy(f)
    \/ MarkCopy \/ FileDone

\* An exception ends the scan, a crash ends the process: the watcher starts
\* its next scan from Redis alone.
ScanAborts ==
    /\ at # "idle" /\ Fault
    /\ at' = "idle" /\ todo' = {} /\ copies' = {} /\ file' = NoFile /\ hit' = NoJob
    /\ UNCHANGED <<canvas, optin, processed, index, record, origin, budget,
                   others, refused, lost>>

(***************************************************************************)
(* Everybody else who writes these keys.                                   *)
(***************************************************************************)

\* The bridge finds a job's file gone (404): purge_job, one DEL at a time.
PurgeRecord(j) ==
    /\ purging = "idle"
    /\ record[j] \in gone
    /\ record' = [record EXCEPT ![j] = NoFile]
    /\ purging' = "processed" /\ purged' = j
    /\ lost' = lost \cup {j}
    /\ UNCHANGED <<canvas, optin, processed, index, origin, budget, watcher,
                   clearing, writing, faults, refused>>

PurgeProcessed ==
    /\ purging = "processed"
    /\ processed' = processed \ {origin[purged]}
    /\ purging' = "alias"
    /\ UNCHANGED <<canvas, optin, index, record, origin, budget, watcher,
                   clearing, purged, writing, faults, refused, lost>>

PurgeAlias ==
    /\ purging = "alias"
    /\ alias' = [alias EXCEPT ![origin[purged]] = NoJob]
    /\ purging' = "idle" /\ purged' = NoJob
    /\ UNCHANGED <<canvas, optin, processed, hash, record, origin, budget,
                   watcher, clearing, writing, faults, refused, lost>>

\* The bridge's 180 s timeout, or a crash, between two of the DELs.
PurgeAborts ==
    /\ purging # "idle" /\ Fault
    /\ purging' = "idle" /\ purged' = NoJob
    /\ UNCHANGED <<canvas, optin, processed, index, record, origin, budget,
                   watcher, clearing, writing, refused, lost>>

\* purge_old_canvas_records, or an instructor's delete_job.
DropRecord(j) ==
    /\ j \in Drops /\ record[j] # NoFile
    /\ record' = [record EXCEPT ![j] = NoFile]
    /\ lost' = lost \cup {j}
    /\ UNCHANGED <<canvas, optin, processed, index, origin, budget, watcher,
                   others, faults, refused>>

\* The bridge's poll, the stale sweep and the handlers get_job a record and
\* later put_job what they made of it.
LateRead(j) ==
    /\ j \in Rewritten \ writing /\ record[j] # NoFile
    /\ writing' = writing \cup {j}
    /\ UNCHANGED <<canvas, optin, processed, index, record, origin, budget,
                   watcher, clearing, purging, purged, faults, refused, lost>>

\* put_job is a blind SET: a record dropped meanwhile is there again.
LatePut(j) ==
    /\ j \in writing
    /\ record' = [record EXCEPT ![j] = origin[j]]
    /\ writing' = writing \ {j}
    /\ UNCHANGED <<canvas, optin, processed, index, origin, budget, watcher,
                   clearing, purging, purged, faults, refused, lost>>

\* _lookup_job_for_file: the alias first, then a record of the file's own.
Serves(j, f) == alias[f] = j \/ (alias[f] = NoJob /\ origin[j] = f)

\* convert_file: a file without a stored job loses its processed marker.
ConvertLookup(f) ==
    /\ f \in present \ clearing
    /\ \A j \in Job : Serves(j, f) => record[j] = NoFile
    /\ clearing' = clearing \cup {f}
    /\ UNCHANGED <<canvas, optin, processed, index, record, origin, budget,
                   watcher, purging, purged, writing, faults, refused, lost>>

ClearProcessed(f) ==
    /\ f \in clearing
    /\ processed' = processed \ {f}
    /\ clearing' = clearing \ {f}
    /\ UNCHANGED <<canvas, optin, index, record, origin, budget, watcher,
                   purging, purged, writing, faults, refused, lost>>

Next ==
    \/ ScanStep \/ SubmitFails \/ ScanAborts
    \/ SetOptin \/ NewMonth
    \/ \E f \in File : \/ Upload(f) \/ DeleteFile(f)
                       \/ ConvertLookup(f) \/ ClearProcessed(f)
    \/ \E j \in Job : PurgeRecord(j) \/ DropRecord(j) \/ LateRead(j) \/ LatePut(j)
    \/ PurgeProcessed \/ PurgeAlias \/ PurgeAborts

Spec == Init /\ [][Next]_vars

\* The watcher's loop never ends and its calls return or raise; nothing makes
\* faculty, the bridge or a fault act.
FairSpec == Spec /\ WF_vars(ScanStep)

-----------------------------------------------------------------------------
(* Safety. *)

Submissions(c) == {j \in Job : origin[j] # NoFile /\ ContentOf[origin[j]] = c}

\* The same bytes are paid for once: a content is submitted to Reflow at most
\* once more than something failed, however many copies of it are dropped,
\* deleted, re-uploaded or asked for, and whatever else runs in between.
PaidOncePerContent ==
    \A c \in Content : Cardinality(Submissions(c)) <= 1 + faults

\* The cap is a hard monthly budget: never are more documents let through in
\* a month than it pays for, whether scans crash between charge and refund or
\* the month turns under them (spend_cap's "hard monthly budget").
CapHolds == Cap > 0 => granted <= Cap

\* A job's record was stored, whether or not it has been dropped since.
Stored(j) == record[j] # NoFile \/ j \in lost

\* A present file is marked processed only when it was refused or some job's
\* record was stored for its bytes, in every interleaving and at every crash:
\* the marker never hides a file nobody converted.
ProcessedIsServed ==
    \A f \in present \cap processed :
        f \in refused \/ \E j \in Job : Serves(j, f) /\ Stored(j)

\* The accessible version shown on a file is that of its very bytes.
AliasSameContent ==
    \A f \in File : alias[f] # NoJob =>
        /\ origin[alias[f]] # NoFile
        /\ ContentOf[origin[alias[f]]] = ContentOf[f]

\* How far a job has come.
Stage(j) ==
    IF origin[j] = NoFile THEN "new"
    ELSE IF record[j] # NoFile THEN "recorded"
    ELSE IF j \in lost THEN "dropped" ELSE "bought"

Promise == INSTANCE Conversions WITH
               source <- origin, stage <- [j \in Job |-> Stage(j)],
               shown <- alias, held <- writing,
               failures <- faults, MaxFailures <- MaxFaults

\* The scan, with its markers, index and aliases written one call at a time
\* and cut anywhere, implements the conversions a course is promised: what is
\* bought, recorded and shown, for which bytes, and who brings a dropped
\* record back.
ImplementsConversions == Promise!Spec

(* The inductive invariant behind them, in parts. *)

\* The counter covers what was let through, and a charge about to be refunded.
BudgetInv ==
    /\ granted <= spend
    /\ at = "refund" /\ ~rolled => granted + 1 <= spend
    /\ CapHolds

\* What the watcher has in hand at each of its calls.
HandInv ==
    /\ at \notin {"idle", "copies"} => file \in File
    /\ at \in {"store", "mark", "remember"} => hit \in Job /\ origin[hit] = file
    /\ at \in {"alias", "aliased"} =>
          /\ hit \in Job /\ origin[hit] \in File
          /\ ContentOf[origin[hit]] = ContentOf[file]
    /\ at \in {"copies", "copied"} =>
          /\ hit \in Job /\ origin[hit] \in File
          /\ \A f \in copies : ContentOf[origin[hit]] = ContentOf[f]
    /\ at \notin {"copies", "copied"} => copies = {}

\* The watcher knows only files that were once uploaded.
SeenInv ==
    /\ present \cap gone = {}
    /\ processed \cup todo \cup copies \subseteq present \cup gone
    /\ file \in present \cup gone \cup {NoFile}

\* Records, the hash index and the purge agree with what was submitted.
IndexInv ==
    /\ \A j \in Job : record[j] # NoFile => record[j] = origin[j]
    /\ \A c \in Content : hash[c] # NoJob =>
          /\ origin[hash[c]] \in File /\ ContentOf[origin[hash[c]]] = c
    /\ purging # "idle" => purged \in Job /\ origin[purged] \in gone

\* Whatever points at a job points at one that was stored.
StoredInv ==
    /\ \A c \in Content : hash[c] # NoJob => Stored(hash[c])
    /\ \A f \in File : alias[f] # NoJob => Stored(alias[f])
    /\ at \in {"mark", "remember", "alias", "aliased", "copies", "copied"} =>
          Stored(hit)
    /\ at \in {"aliased", "copied"} => alias[file] # NoJob \/ file \in gone
    /\ \A j \in writing : Stored(j)

\* The scan makes a job's record once: the one in hand has none, and had none.
FreshInv ==
    /\ \A j \in lost : origin[j] # NoFile
    /\ at = "store" => ~Stored(hit)

\* A content the index does not know was submitted once for each failure, and
\* once more while its job is on the way into the index; only then is it known.
PaidInv ==
    /\ at = "submit" => hash[ContentOf[file]] = NoJob
    /\ \A c \in Content :
          /\ IsFiniteSet(Submissions(c))
          /\ Cardinality(Submissions(c)) <= 1 + faults
          /\ hash[c] = NoJob /\ ~(at \in {"store", "mark", "remember"} /\ ContentOf[file] = c)
                => Cardinality(Submissions(c)) <= faults

IInv == TypeOK /\ BudgetInv /\ HandInv /\ SeenInv /\ IndexInv
            /\ AliasSameContent /\ StoredInv /\ FreshInv
            /\ ProcessedIsServed /\ PaidInv

(* Liveness. *)

\* Every file the scan may see is dealt with: converted, aliased or refused,
\* unless it leaves the scan's sight, in spite of failed calls and crashes.
EveryFileHandled ==
    \A f \in File :
        f \in Discoverable ~> f \in processed \/ f \notin Discoverable

=============================================================================
