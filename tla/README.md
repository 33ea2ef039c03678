# A TLA+ verification of reflow-canvas-lti

reflow-canvas-lti is a connector between the Canvas LMS and Reflow Core, a
service that converts PDFs into accessible documents. It watches Canvas courses
for PDFs, submits them to Reflow, builds a Canvas wiki Page of each result, and
lets instructors review, approve, reject and withdraw it. Instructors reach it by
an LTI launch and authorize it to call Canvas for them.

This directory holds TLA+ models of the connector's control flow, the TLC
configurations that check them on small instances, and TLAPS proofs of their main
theorems for every value of the constants. `PROJECT.json` maps each definition to
the lines it models, and lists runs, mutants, findings, hazards and theorems.

To check something: `tlc -config <run>.cfg <MC module>.tla` for a run,
`tlapm <module>Proofs.tla` for a proof.

## 1. The system

The connector is one Python process. `main.py` starts FastAPI and, when LTI is
enabled, two asyncio tasks: the *watcher* (`workers/canvas_watcher.py`) and the
*bridge* (`workers/reflow_bridge_worker.py`). Everything shared is in Redis.
Handlers, watcher and bridge run on one event loop, so they interleave at every
`await`, and only there; no key is locked. On shutdown the tasks get ten seconds
and are then cancelled, wherever they are.

| Part | State it keeps | Operations | Talks to |
|---|---|---|---|
| Job record and Page lifecycle (`canvas/state.py`, bridge, `api/canvas_panorama.py`, `api/canvas_review.py`) | `canvas:job:*`, the pending set, `file-page:*`, edited HTML, score cache | bridge tick; approve, reject, request-edits, unpublish, convert, delete, edit; stale sweep; retention; purge | Canvas pages, Reflow status |
| Watcher (`workers/canvas_watcher.py`) | `processed` sets, content-hash index, file aliases | scan of a course; stale sweep; retention sweep | Canvas files, Reflow submission, spend cap |
| Spend cap (`canvas/spend_cap.py`) | a counter per course and month | reserve, refund | watcher |
| Audit lists (`canvas/state.py`, `tools/erase_user.py`) | two Redis lists | append; retention rewrite; pseudonymising rewrite | review handlers, consent handlers |
| Consent and opt-in (`api/canvas_consent.py`, `canvas/state.py`) | consent records, opt-in keys | accept, revoke, enable, disable | launch, watcher |
| LTI launch (`lti/`) | platform records, course-to-platform and owner keys, login states, sessions | login, launch, revoke | Canvas' signed launches |
| User OAuth (`canvas/user_oauth.py`, `api/canvas_oauth.py`) | OAuth states, one token per user and platform | authorize, callback, load, refresh, drop | Canvas' token endpoint |
| Service tokens (`canvas/oauth.py`) | a token cache per scope set | mint, invalidate | Canvas' token endpoint |
| Canvas client (`canvas/client.py`) | none | requests, one retry on 401 | everything that calls Canvas |
| Reflow client (`canvas/reflow_client.py`) | none | submit, status, PII decision | Reflow Core |
| Rate limit, retries (`utils/`) | a counter per window | admit; back off | handlers, download |
| Rendering, scoring (`canvas/*.py`) | none (score cache above) | Markdown to HTML, formats, braille, WCAG checks | review handlers |
| Overlay (`web/canvas_review/`) | none the server depends on | calls the handlers | browser |

What is hard in it, and hardly reached by its tests:

* **Read, await, write back.** Every writer of a job record reads it, awaits
  Canvas or Reflow for seconds or minutes, and writes the whole record. The same
  shape recurs in the audit lists (LRANGE, later DEL and RPUSH), the platform
  record (read, merge, SET) and the user token (load, refresh, SET or DEL).
* **Several keys for one fact.** A converted file is a job record, a marker, a
  hash-index entry, aliases, a page reference and a counter, written one call
  after another, by a task that may be cancelled in between.
* **Shared names.** Pages are found by a slug guessed from the title and jobs by
  content hash, so two files can meet in one Page or one job, and a file can miss its
  own Page.
* **Best-effort calls.** Many failures are logged and passed over: publishing,
  the registry writes of a launch, the audit of siblings.
* **Time.** Stale and retention cutoffs, month turns, token and session expiry.

What makes each part correct is stated with its module in section 3.

## 2. Plan

| | Module | What | Proofs |
|---|---|---|---|
| 1 | `JobLifecycle` | record and Page, every writer | `JobLifecycleProofs` |
| 2 | `ReviewGate` | abstract: one Page per plain title, drafted first, shown once approved; `JobLifecycle` implements it | the same |
| 3 | `CourseIntake`, `Conversions` | from a file to one job: scan, cap, hash index, aliases; abstract: what is bought, recorded and shown for which bytes, implemented by `CourseIntake` | `CourseIntakeProofs` |
| 4 | `AuditTrail` | appends against two rewriters | `AuditTrailProofs` |
| 5 | `CanvasAccess` | launch, revocation, consent, token refresh, erasure | `CanvasAccessProofs` |
| 6 | `ReviewDesk` | what is kept beside a record: queue, score cache, edits, the privacy decision | `ReviewDeskProofs` |
| 7 | `ServiceCalls` | rate limiter, the shared service token, retries | `ServiceCallsProofs` |
| 8 | `Words`, `Html`, `BrailleLayout`, `BrailleBlocks`, `Accessibility`, `Formats` | one document in all its shapes, and its score | `FormatsProofs`, `Folding` |

Each `MC...` module instantiates the module of its name for TLC. There are a dozen
runs, one per question.

What could follow: an abstract list with expiry, which the audit lists implement
outside the rewriters' windows; an abstract review desk, whose queue and score are
functions of the record; and figures, which the bridge uploads one by one before it
writes a Page.

## 3. The modules

Every `await` that reads or writes shared state is a step of its own; what runs
between two awaits is one step. Writers are processes with a program counter and a
private copy of what they read. Canvas, Reflow, Redis expiry and the calendar are
environment actions; restarts drop every process's private state and keep Redis.
Variables marked *history* are read by no action that models code.

### JobLifecycle

State: `job` (status and page reference of each record, "absent" without a key),
`filePage`, Canvas' `page` and `body` by slug, `gone` files, Reflow's `upstream`
status, `age` against the two cutoffs, and `proc` for the bridge, the sweeper and
each open handler. History: `approved`, `firm`.

| Actions | Code |
|---|---|
| `Submit` | `_scan_course`, the store of a new record |
| `TickBegin`, `DriveRead`, `FileCheck`, `ReadStatus`, `WritePage`, `CreatePage`, `PageRefused`, `RememberPage`, `Purge`, `ForgetPage` | `_tick`, `_drive_job`, `purge_job` |
| `Put`, `AfterPut` | `put_job`, and where each writer goes from there |
| `SweepRead` | `sweep_stale_jobs` |
| `Open`, `CanvasCall`, `CanvasCallFails`, `AppendEvent`, `DeleteRecord` | the handlers of `canvas_panorama.py` and `canvas_review.py` |
| `RetentionDelete` | `purge_old_canvas_records` |
| `Abort`, `Restart` | a failed call or timeout; the process dies |

Correct means: a decision stands (`FirmDecisionStands`), nothing is public without
an approval (`PublicNeedsApproval`), one Page per title whose slug the connector
can tell (`OnePagePerTitle`), and a completed document gets to review and a denial to
the record (`OutcomeReachesRecord`). All of what students see follows from
`ReviewGate`, where each slug is "absent", "draft" or "public", and some are approved:
`ImplementsGate` is its `Spec` under `shown = page` and the slugs at which the
documents approved may be found (`ApprovedPlaces`).

Where a document may be found is the point of `Guess`. The bridge looks for a Page
under `_slugify(title)`, which keeps ASCII letters and digits only and falls back to
"page", while Canvas makes the slug of a new Page itself. A title is *plain* when the
guess is what Canvas makes of it. Of any other title the connector misses the Page it
made, and makes another one, or finds and overwrites the Page of another title, which
may be public. `Guess` is any function from titles to slugs, so the theorems hold for
every such mistake; `Places` are the slugs a title can come to, `{Guess[t]}` and those
Canvas gives it.

A decision is *firm* when no writer held an older copy of the record at the moment
it was written. For others the property is false: see section 6.

Abstractions: `put_job` is its SET (`ReviewDesk` has the rest of it); a slug is a
title and the number Canvas puts behind it when it is taken; a page update is taken to
keep the slug; a title stands for the file names that give it; the answer
404 to a page update means that no such Page exists, as the code assumes; the
retention sweep runs inside the watcher's task, but its deletion is an action that
may come at any time, which also covers `erase_user`'s.

### CourseIntake

State: the course's files (`present`, `gone`), `optin`, `processed`, `hash`,
`alias`, `record`, `origin` (what Reflow was given), the month's `spend`, the
watcher's place and hand (`at`, `todo`, `file`, `hit`, `copies`), the bridge's
purge and convert requests in flight, and the records somebody else has read and will
write back (`writing`). History: `granted`, `refused`, `lost`.

`ScanStep` is `_scan_course`, a disjunct per call: `Discover`, `Check`,
`Reserve`, `Refund`, `Refuse`, `Download`, `Alias`, `MarkAliased`, `Submit`,
`SubmitFails`, `Store`, `Mark`, `Remember`, `CopiesOf`, `AliasCopy`, `MarkCopy`,
`FileDone`. Against it run `PurgeRecord`, `PurgeProcessed`, `PurgeAlias`
(`purge_job`), `DropRecord` (retention, `delete_job`), `ConvertLookup` and
`ClearProcessed` (`convert_file`), `LateRead` and `LatePut` (the bridge's poll, the
stale sweep and the handlers, which `get_job` a record and later `put_job` it, a blind
SET), `NewMonth`, `SetOptin`, faculty's `Upload` and `DeleteFile`, and `ScanAborts`.

Correct means: bytes are paid for once but for failures (`PaidOncePerContent`),
the cap is never exceeded (`CapHolds`), an alias shows a file its own bytes
(`AliasSameContent`), the marker hides no file nobody converted
(`ProcessedIsServed`), and every file is handled (`EveryFileHandled`).

What a course is promised of its conversions is `Conversions`: a job is bought for
one file, and for bytes bought before only after a failure; its record is made once,
and a dropped one comes back only from somebody who had read it while it was there
(`held`); a file is shown only a conversion of its own bytes whose record was made.
`ImplementsConversions` is its `Spec` under `source` = `origin`, `shown` = `alias`,
`held` = `writing`, `failures` = `faults` and, for each job, a stage read off the
submissions, the records and the watcher's hand (`Stage`): `Submit` buys, `Store`
records, `DropRecord` and `PurgeRecord` drop, `LateRead` holds and `LatePut` puts back,
the alias calls show and hide, and every other call leaves the promise alone.

Abstractions: the spend counter counts documents, every one at the same estimate,
as `_estimate_cents` has it; contents stand for their SHA-256; what the Canvas
listings return is the set of discoverable files; the widening of a lookup by
file name is left out.

### AuditTrail

State: `event` (what was appended under each identity), `kept`, `hidden`
(pseudonymised), `old`; consent records and handlers between record and entry;
the copies the retention sweep and each run of `erase_user` hold, for nothing keeps
two of these from overlapping. History: `exposed`
(appended while a rewriter held a copy), `promised`, `reread`, `cut`.

Actions: `Decide`, `Agree`, `Revoke`, `LogConsent`, `SweepRead`, `SweepWrite`,
`EraseBegin`, `EraseRead`, `EraseWrite`, `GrowOld`, `Restart`.

Correct means: an entry is lost only by expiry or in a rewriter's window
(`LossOnlyInWindow`), an erased name stays erased but for a rewriter that had read it
(`ErasureHolds`), a consent in force is on record (`ConsentOnRecord`), and an
expired entry goes (`RetentionReached`). A rewriter, the sweep or another user's
erasure, that had read a name before it was replaced may write it back; only such a
one may. The first two say exactly how far the
code's promise reaches; without their exceptions they are false.

### CanvasAccess

State: the platform's record (`registered`, `revoked`), `seen`, `session`, OAuth
states (`asked`), authorization codes, the stored `token` of each user, the
course's `owner`; Canvas' grants (`issued`, `honoured`); each worker's place, user,
token and one flag (what a launch knows of the revocation; whether a call is on its
forced retry). History: `barred`, `safe`, `forgotten`.

| Actions | Code |
|---|---|
| `Launch`, `LaunchRead`, `LaunchWrite`, `LaunchSeen`, `RegistryFails`, `LaunchGate` | `launch`, `put_platform`, `mark_course_seen` |
| `Authorize`, `Callback`, `Forget`, `Exchange`, `Keep`, `Claim` | `authorize`, `callback`, `take_oauth_state`, `exchange_code`, `claim_course_owner_if_unset` |
| `Call`, `Load`, `Refresh`, `RefreshFails`, `StoreToken`, `DropToken`, `Send` | `_user_token_headers`, `refresh_user_token`, `put_user_token`, `drop_user_token`, `_request_with_401_retry` |
| `MarkRevoked`, `ClearRevoked`, `EraseToken`, `EraseSession` | operators, `erase_user` |
| `Withdraw`, `Expire`, `Lapse`, `Abort` | Canvas, clocks, failures |

Correct means: a revocation no launch overlapped stands (`RevocationStands`) and
admits nobody (`RevokedAdmitsNobody`); an authorization survives any number of
concurrent refreshes (`AuthorizationKept`); an erased user nobody was working for
stays erased (`ErasureStands`).

Abstractions: one platform and one course; a user's sessions are one, so an OAuth
state made in an earlier session is accepted in a later one, which allows more
than the code; signature, nonce and CSRF checks are passed; Canvas answers a
refresh of a grant it honours with a new access token and no refresh token. Canvas
may answer 401 to any request, so a live token can be forced to refresh.

### ReviewDesk

State: `rec` (a record's status), the course's `pending` set, `score` (the jobs
with a cached score; its number is left to `Formats`), `edited`, Reflow's `upstream`
status, `logged` (privacy decisions in the audit list), and `proc` for the bridge,
the retention sweep and each open handler. History: `decided`, `approved`, `served`,
`basis`, `torn`, `raced`, `cut`, `left`.

| Actions | Code |
|---|---|
| `PutRecord`, `DropScore`, `Index` | `put_job`: SET, DEL of the score, SADD or SREM |
| `BridgeRead`, `BridgeFile`, `BridgePurge`, `BridgeDecide` | `_tick`, `_drive_job`, `purge_job` |
| `Approve`, `ReviewApprove`; `Reject`, `ReviewReject`, `RequestEdits`, `Convert` | `approve_job` with the body it resolves for its WCAG check, `canvas_review.approve` without one; the other transitions |
| `PutEdit`, `DeleteEdit`, `SaveEdit` | `put_edit`, `delete_edit` |
| `Score`, `ResolveEdit`, `ResolveCanonical`, `Unresolved`, `CacheScore` | `score_by_job`, `_resolve_html`, `_build_canonical_html`, `_build_score_payload` |
| `AltFormat`, `Preview`, `PiiGate`, `Serve` | `alt_format` for a reader, and with `?preview=1` or a session |
| `PiiDecision`, `Forward`, `FetchToken`, `ForwardByToken`, `ReplyLost`, `AppendEvent` | `pii_decision`, `submit_pii_decision` |
| `DeleteJob`, `ForgetStep`; `SweepRead`, `SweepStep` | `delete_job_and_derivatives`; `purge_old_canvas_records` |

Correct means: the queue lists a job exactly while its record asks for a decision
(`PendingAgrees`) and a paused document comes into it (`PiiWaitReachesQueue`); a
cached score belongs to the status the record has now (`ScoreFollowsRecord`); the
audit trail names the privacy decision Reflow carried out, whoever of two instructors
was first (`AuditTellsTheDecision`), and misses none (`DecisionRecorded`); a deletion
stays (`DeletionForgets`); and without a preview nobody is sent anything of a job no
instructor asked to publish (`ServedWasApproved`). The sets `torn`, `raced`, `cut` and
`left` say exactly where the code promises less: put_jobs that overlapped or were cut
short, a score cached across a change of status, a fault between a decision and its
entry, and deletions with somebody else at work.

Abstractions: bodies are "canonical" or one of the edits; the Canvas Page belongs to
`JobLifecycle`. The WCAG check of `approve_job` resolves a body but refuses nobody: the
setting that would let it, `require_wcag_gate`, is no field of `Settings` (section 6).
What the gate would hold against a body is in `Accessibility`.

### ServiceCalls

State: the actor's `count` in each window and whether it has an expiry
(`expiring`), the `cache` of the service token, `withdrawn` tokens, the platform's
`revoked` flag, and per caller one `task`. History: `passed`, `turned`, `wasted`.

| Actions | Code |
|---|---|
| `Post`, `CountPost`, `ExpireCount`, `Verdict` | `enforce_rate_limit`: INCR, EXPIRE by the first, the answer |
| `Start`, `ReadPlatform`; `TakeOtherToken`, `OtherAnswered` | `review_pdf_proxy`, `_canvas_client_for_job`: on the service token; on a user's or the environment's |
| `Load`, `Mint`, `Store`, `ExpireCached` | `get_service_token`, `_exchange_assertion`, `_store_cached`, `_load_cached` |
| `Answered`, `Unauthorized`, `DropCached`, `GiveUp` | `_get_paged`, `_request_with_401_retry`, `invalidate`, `_raise_for_status` |
| `RedisFails`, `HttpFails`, `Begin` | `retry_with_backoff`, `is_retryable_error` |
| `Restart`, `MarkRevoked`, `ClearRevoked`; `Lapse`, `Tick`, `Withdraw` | the process, the operator; Redis, time, Canvas |

Correct means: a window lets through its limit, no more, and turns nobody away
before but for a first POST that died (`QuotaIsExact`); a task gives up only when
Canvas refused a token minted for that very call (`RefusedOnlyFresh`); and the
service token of a platform that stays revoked is in the end neither minted nor sent,
though clients hold its old record and the cache a token (`RevocationReached`). The
property is of the service token only: a task that found a user's or the
environment's token goes on with it, as nothing on its way reads `revoked_at`.

Abstractions: one actor, bucket, platform and scope set, each with keys of its own
in Redis; tokens are the fewest names that can be told apart, a name nobody holds
being given to the next one; a backoff's pause is the time between two steps.
Redis is taken to answer within the five seconds by which a counter outlives its
window.

### Formats and its family

One document in all its shapes. `Html` has a page as the tags and texts a parser
reports, and what the renderer does to it; `Words` counts cells; `BrailleBlocks` is
the parser that gathers blocks, in both of its versions; `BrailleLayout` wraps and
paginates them; `Accessibility` is the WCAG checks, rule by rule, the score, its
colour and the approval gate; `Formats` has the text read aloud and the properties.
Its behaviours are a document's: Reflow converts it (`Init`), the instructor adds
parts (`Add`) and repairs defects (`Repair`). Apart from the page there is the `dial`:
a request computes the score of the page as it is (`ComputeScore`), caches it a few
awaits later (`CacheScore`), and it is shown until a day has passed or `put_job` drops
it (`DropScore`), whatever is saved meanwhile. A repair replaces a part by one that
differs in what an instructor mends (`Mended`): a description, header cells and their
scope, the name of a link or button, a heading 1 made a heading 2.

The constants are as free as the code makes them: a part is any sequence of the
events a parser reports (`DocumentsAssumption`), a text any words without blanks in
them (`TextsAssumption`), braille any words of cells (`NotesAssumption`), a line has
more than two cells and a page has a line (`PageAssumption`). The code has 40 cells
and 25 lines, and indents by two.

Correct means: braille says every word once and in order (`ReadsInOrder`) and every
image in its place (`ImagesAnnounced`), no cell is lost in wrapping and paging
(`NoCellLost`) and no block takes more lines than it must (`WrapIsShortest`, against
all divisions of its words); the calls to the voice are short enough and say the
whole text (`NarrationIsWhole`); while the dial shows the darkest green, and nothing was
added since its score was computed, only an unconfirmed item of the checklist can stop
the approval, however many repairs ago that was (`DarkGreenIsPublishable`); and the
computed score goes down for no repair and up for no addition (`ScoreFollowsEdits`).
That the dial itself may be a day behind the page is what the code does (section 6).

Abstractions: liblouis is a function from texts to words of cells; a text is a name
for its letters; in the run, a part is one of nineteen small pieces of markup.

## 4. The runs

| Run | Instance | Distinct states | Shows |
|---|---|---|---|
| `lifecycle_two_instructors` | 1 job whose title is guessed to be that of an authored Page, 2 handlers with all 8 operations, both cutoffs | 10.1 M | `FirmDecisionStands`, `IInv` |
| `lifecycle_shared_title` | 2 jobs of 2 files with one title, 1 handler that approves and rejects, a deletable file, 1 fault | 3.5 M | `OnePagePerTitle`, `PublicNeedsApproval`, `ImplementsGate` |
| `lifecycle_progress` | 1 job, 1 handler with all 8 operations, stale cutoff, a deletable file, 1 fault | 371 k | `OutcomeReachesRecord` |
| `intake_copies` | 2 copies of one content, 2 jobs, both droppable and rewritten, 1 fault | 693 k | `PaidOncePerContent`, `ImplementsConversions` |
| `intake_progress` | 2 files of 2 contents, cap of 1, 3 jobs, 1 of them rewritten, 1 fault | 628 k | `IInv`, `CapHolds`, `ProcessedIsServed`, `EveryFileHandled` |
| `audit_rewrites` | 2 entries, 2 users to erase, 2 erasures at once, 1 restart | 2.0 M | `IInv`, `LossOnlyInWindow`, `ErasureHolds`, `ConsentOnRecord`, `RetentionReached` |
| `access_authorize` | 1 user, 2 workers, 2 grants, 1 fault | 3.7 M | `IInv`, `AuthorizationKept`, `ErasureStands`, `RevokedAdmitsNobody` |
| `desk_store` | 1 expirable job of a removable file, 2 handlers with 5 operations, 1 edit, 1 fault | 3.9 M | `IInv`, `PendingAgrees`, `ScoreFollowsRecord`, `DeletionForgets` |
| `desk_privacy` | 1 job, 2 handlers with 9 operations, 1 fault | 2.0 M | `AuditTellsTheDecision`, `DecisionRecorded`, `ServedWasApproved`, `PiiWaitReachesQueue` |
| `service_calls` | 2 POSTs, one of a task with 1 call, and a viewer with 2 calls of 2 attempts; limit 1, 2 windows, 2 POSTs per window, 1 fault | 762 k | `QuotaIsExact`, `RefusedOnlyFresh`, `RevocationReached` |
| `formats` | documents of up to 3 of 19 parts, 2 of them converted; 6 cells, 3 lines, 12 letters | 482 k | the seven properties of `Formats` |

One more run, `braille_line_overflow`, states what a test of the repository says and
the code does not do (section 6).

**Bounds.** Races here are between two writers of one record, so one job with two
handlers beside bridge and sweeper, or two workers on one user, contains every
pair; a third writer adds interleavings of pairs. Two files are what sharing a
title or a content takes; a third copy would repeat the second. One fault is
enough to cut any multi-call operation at any point, and the retry that follows
runs whole. Two grants are a consent and a renewed consent. Two POSTs against a
limit of one are the last let through and the first turned away, two windows the
boundary between them, and three callers at one token the one whose retry deletes
what another has just stored while a third still uses it. Two erasures, of one user or
of two, are what it takes for one to write back what the other replaced. Six cells
divide, wrap, indent and cut off words of one to eight cells in every way the code
distinguishes, and three parts are a part between two others. The theorems hold
without any of these bounds.

**Symmetry** is used on the handler slots and on job ids, in runs without liveness
only, where nothing orders or names them.

**Fairness.** `lifecycle_progress`: the bridge loop and each open handler are
weakly fair, because asyncio resumes whoever is ready, HTTP calls have timeouts,
and `_tick` visits every key. `desk_privacy`: likewise for each open handler and for
what the bridge does with the job it holds (`BridgeWork`), and its reading of a job is
strongly fair, for `_tick` comes to each pollable record in turn though in between it
is busy with others. `intake_progress`: the scan's next step is weakly
fair, the watcher's loop being endless. `audit_rewrites`: so are the two steps of
the sweep, which the watcher starts every so many ticks. `service_calls`: a task
that has begun goes on (`Work`), every wait of it being on Redis or on a call with a
timeout; nobody is made to begin one. Nobody makes faculty, Reflow, Canvas, time or
a fault act; faults are bounded, so that they may delay but not prevent. The scan
and the bridge are allowed no step that the code does not take, so an unpolled
status or a marked file stays as it is.

**Deadlock** is checked in `access_authorize` and `service_calls`. The other systems
may stop: when faculty, Reflow and time do nothing more, no step is left.

## 5. The proofs

Each `<Module>Proofs` proves that an inductive invariant `IInv` holds in every
reachable state and derives the module's safety properties from it:

* `JobLifecycleProofs`: `TypeCorrect`, `FirmDecisionHolds`, `PublicWasApproved`,
  `NoDuplicatePages`, `Refinement`, `Inductive`
* `CourseIntakeProofs`: `TypeCorrect`, `CapIsHard`, `AliasesAreCopies`,
  `MarkersAreHonest`, `BytesPaidOnce`, `PromiseIsKept`, `Inductive`
* `AuditTrailProofs`: `LossIsBounded`, `NamesStayErased`, `ConsentsAreLogged`,
  `Inductive`
* `CanvasAccessProofs`: `RevocationIsKept`, `NobodyAdmitted`,
  `AuthorizationIsKept`, `ErasureIsKept`, `Inductive`
* `ReviewDeskProofs`: `QueueAgrees`, `ScoresAreCurrent`, `AuditIsTrue`,
  `AuditIsComplete`, `DeletionStands`, `NothingUnapproved`, `Inductive`
* `ServiceCallsProofs`: `QuotaHolds`, `OnlyFreshRefused`, `Inductive`

`FormatsProofs` proves what holds of every document: `GreenIsPublishable`,
`NarrationSaysAll`, `BrailleSaysAll`, `ImagesAreAnnounced`, `NoCellIsLost`,
`WrappingIsShortest`, `EditsMoveTheScore`.

The strengthenings say what the in-flight copies hold:

* *JobLifecycle.* `FirmInv`: nobody who could still write a firmly decided job
  holds it, the reason why the decision stands. `RefInv`: every page reference,
  stored or held, is a place of its own title (`Known`), of a plain title the first
  slug, and the bridge creates a Page only where there is none; so plain titles never
  get a second one. `ProcInv` and `SubmitInv` say
  what each writer can be doing, and that unsubmitted jobs have no record. From the
  same invariant every step is a step of `ReviewGate` or leaves it alone
  (`Refinement`): `CreatePage` drafts, approvals approve, page calls show, hide or
  remove.
* *CourseIntake.* `BudgetInv`: the counter covers what was let through, and a charge
  awaiting refund on top of it unless the month turned. `HandInv`: the job in hand was
  submitted for the very bytes of the file in hand. `IndexInv`, `StoredInv`: the index
  and the aliases name only jobs that were stored, and only those are held by who may
  write them back. `SeenInv`: marked files were uploaded. `PaidInv`: of bytes the
  index does not know there are as many submissions as failures at most, and one more
  while their job is on the way into the index, so that to submit again something must
  have failed; the steps count finite sets of jobs. `FreshInv`: the job about to be
  stored has no record yet. From these each call is a step of `Conversions` or leaves
  it alone (`PromiseIsKept`).
* *AuditTrail.* `CopyInv`: a rewriter's copy lacks only what was appended or has
  expired since. `NameInv`: it names nobody erased before it was read, and the copy
  about to be written for an erasure has its subject's names replaced.
  `PseudonymInv`: only erasures replace names. What a second erasure holds when the
  first one writes is what `reread` is about.
* *CanvasAccess.* `BarredInv`: while the bar stands no launch under way carries
  "not revoked". `SafeInv`: every token of a safe user, stored or about to be
  stored, is one Canvas will renew, and nobody is about to drop it. `HeldInv`:
  workers hold tokens of their own user. `ForgottenInv`: only callbacks that will
  be refused work for a forgotten user.
* *ReviewDesk.* `Shape`: who can be where. `Writers`: of a job that is not torn one
  put_job at most is under way, with the status the record has. `Decisions`: a
  decision is carried out once, and audited by who took it. `Leavers`: nobody is at
  work on a deleted job who could write it. `Purged`: between a purge's DEL and its
  SREM the record is gone, unless a put_job overlapped. `Approvals`: a published
  record, and whoever is publishing or serving one, goes back to a request to publish.
* *ServiceCalls.* `WindowInv`: of a counted window the POSTs let through, and one
  owed if the first is waiting or died, are the counter or the limit. `OneWaits`: of
  a window one POST at most is between INCR and EXPIRE, so nobody else is owed.
  `FreshInv`: the second request of a call carries a token minted since the first.

The assumptions are those named in the modules: null values differ from real ones,
the sets of the instance are subsets of what they should be, bounds are naturals.
Each step of the argument has one case per action. `TypeCorrect` and
`AliasesAreCopies` are of parts of the `IInv` the runs check; `RevocationIsKept` is
proved only.

The documents of `Formats` need no invariant but their type. What they need is
induction over pages, words and blocks, for the code is one fold after another. The
library's induction theorems take an operator, which the provers cannot instantiate,
so `Folding` proves them once as facts about sets (`BoundedInduction`, `SeqInduction`;
`PairsInduction` beside them): a set of sequences that holds the empty one, and with
each sequence its extensions, holds them all. Its fold is that of the community
modules with the operator as a constant, and `FormatsProofs` instantiates it once for
each fold of the model. The arguments are these.

* *`BrailleSaysAll`, `ImagesAreAnnounced`.* The two builders are run side by side
  over the page (`BothOK`): after every event they hold the same images and the same
  depth of silenced tags, which is positive exactly where such a tag is open (`Deep`,
  `Hushed`); their blocks have told the texts and images read so far, but for the
  images in hand, which are told when the figure closes.
* *`NoCellIsLost`.* Breaking a word, filling lines, indenting and cutting pages each
  preserve the cells, in order; page numbers are the only lines added, and the end of
  an over-long label of a print page the only cells left out (`Kept`).
* *`WrappingIsShortest`.* Filling greedily stays ahead of any division: after as many
  lines it has set at least as many pieces (`Filled`, `Ahead`).
* *`NarrationSaysAll`.* What the calls made so far and the one being filled say is
  the sentences so far, and none is empty or too long (`CallsOK`).
* *`GreenIsPublishable`.* Any error takes twelve points off, so a page of ninety or
  more has none, and the gate stops at errors, or at the checklist. As long as nothing
  is added the present score is no lower than the one of the dial (`DialInv`), for a
  repair moves no score down.
* *`EditsMoveTheScore`.* What a report takes off is a sum over elements. Two pages
  that differ by a repair are compared element by element (`Mends`), headings by
  their levels (`Alike`), which a repair leaves or lowers from one to two; a part
  more only adds to the sum.

Left to TLC are the liveness properties, which are beyond the prover
(`OutcomeReachesRecord`, `EveryFileHandled`, `RetentionReached`,
`PiiWaitReachesQueue`, `RevocationReached`), and the run that refutes. That a
definition computes what its Python original computes is a matter of reading.

## 6. Where code and documentation differ

| Run | What |
|---|---|
| `braille_line_overflow` | `_break_long_token` looks for a break point one cell past the width and keeps the mark on the line, so a divided address makes a line one cell too long; `test_braille_layout.py` asserts that none ever is. `WrapIsShortest` says that this is the only way |

Seen while modelling, and not given a run of their own; a property named here is
false without the exception it makes.

*Records and Pages*

* The bridge writes awaiting_review over a decision taken while it awaited Canvas,
  though the comment on `_BRIDGE_POLLABLE` says those statuses are never touched
  (`FirmDecisionStands` makes the exception). It also writes back a job deleted,
  purged or expired meanwhile; `delete_job` calls the deletion irreversible
  (`DeletionForgets`).
* A Page is looked for under `_slugify(title)`, which keeps ASCII only and falls back
  to "page". A title Canvas makes another slug of gets a second Page when its first is
  not remembered, and one that comes out as another title's slug overwrites that
  title's Page, published or not. `OnePagePerTitle` is therefore about plain titles, and
  `PublicNeedsApproval` about the slugs a title may come to; an instructor's own public
  Page is among what may be overwritten (`Authored`).
* After a refused publish the job is `published`, which the bridge does not poll;
  the handler's warning promises a retry.
* A rejection deletes the Page; a bridge that had read the job before makes a new
  draft, and an approval that found no Page in between (its 404 is passed over) ends
  `published` with it. That an approved Page is in the end public is false without a
  fault, then, and no property of the project.
* A second file with the same title replaces a public Page's body before review;
  `_drive_job` says students cannot see it early. `PublicNeedsApproval` therefore
  speaks of places, not of bodies.
* `approve_job` checks one body and publishes whatever the Page shows by then. An
  edit of a published job is visible to students at once.
* The WCAG gate is never enforced: `approve_job` reads `require_wcag_gate`, which is no
  field of `Settings` and `extra="ignore"` keeps out, so it is always off
  (`canvas_panorama.py:1507-1552`), though README (61, 218), OPERATIONS (28),
  `.env.example` (128) and `docs/DEPLOY.md` (92) tell to set `REQUIRE_WCAG_GATE`. The
  review queue's approve (`canvas_review.py:438`) has no gate at all. `ReviewDesk`
  therefore promises an approval only, never a check; `Accessibility` has the gate as it
  would decide.
* `alt_format` says that students never see drafts, but `?preview=1` serves them to
  whoever asks, beside an instructor's session (`Preview`); `ServedWasApproved` is of
  the other requests.
* The review queue's approve and reject append no audit event, the overlay's do. The
  bridge's "nothing to do" test looks at the stored page id only.

*Queue, score, edits*

* A restart between SET and SADD leaves a job that awaits a decision out of the
  queue for good, as the bridge sees no change of status any more.
* `delete_job` deletes the record first: what a crash or a failed DEL leaves behind
  cannot be deleted any more, as the next call answers 404. The id stays in the
  pending set, and so does that of a job whose purge dies between DEL and SREM;
  `list_pending` passes both over (`PendingAgrees` speaks of records that exist).
  `purge_job` leaves edited HTML and score.
* `put_edit` and `delete_edit` leave the cached score, though edits are to move the
  number: for a day the dial may show the darkest green over a page the gate would
  refuse. `DarkGreenIsPublishable` is therefore of pages nothing was added to, and
  `ScoreFollowsEdits` of the computed score. A transient failure of Reflow caches
  "unscanned" for a day.
* A privacy decision whose reply is lost is carried out and answered 502, with no
  audit entry.
* `_RANK` of the review list and `_STATUS_PRIORITY` of the file lookup disagree on
  awaiting_approval, so the two may show different jobs for one file.

*Intake and retention*

* The content-hash index outlives retention, so a re-upload is aliased to the
  dropped job; the docstring promises regeneration.
* `purge_job` leaves the hash index and the copies' aliases in place, though it is
  to forget "every trace"; siblings are aliased in a course that has not opted in.
* The retention sweep's copy of the audit list is read before its transaction; the
  comment says it loses no event (`LossOnlyInWindow`). The consent list, "never
  updated", is rewritten by `erase_user`, and of two that overlap the later one writes
  back the names the earlier one has replaced (`ErasureHolds` makes the exception),
  though the tool calls an erasure final.
* A record retention, a purge or `delete_job` has dropped is written back by whoever
  had read it before: `put_job` is a blind SET. `Conversions` allows exactly that.

*Access*

* Background tasks of a revoked platform go on with a user's or the environment's
  token, which `_canvas_client_for_job` prefers or falls back to and which no one
  compares with `revoked_at`; `RevocationReached` is of the service token.
* `put_platform` can lift a revocation stored between its read and its write, which
  its comment rules out; and a launch whose registry read fails passes the gate.
  `barred` leaves both cases out of the properties.
* `drop_user_token` is for permanent failures, but the client calls it on a network
  error too, and it deletes whatever token is stored by then.
* `clear_course_owner`, "called when their OAuth token is revoked", is called
  nowhere, so an owner who lost authorization stays.
* `take_state` and `take_oauth_state` are single-use only if nobody reads between
  their GET and their DELETE.
* A handler in flight writes back the token or session `erase_user` has deleted;
  `forgotten` leaves it out. The course's owner key is not erased at all.

*Calls*

* `retry_with_backoff` never retries a 429, 502 or 503 of Canvas or Reflow, nor a
  transport error of httpx: `is_retryable_error` knows neither class. The comment in
  `client.py` and the docstrings of `download_file` and `get_status` say it does.
* A 401 on an old service token deletes the newer one another task has stored; the
  cost is one more minting.
* After a restart between INCR and EXPIRE the window's counter never expires. Later
  windows have keys of their own.

*Formats*

* The checks for a language and for missing headings can never find anything, as
  `html_full_document` supplies both; a heading 1 of the page's own is always one
  too many. Lowering one heading may move a skip elsewhere, so headings are no part
  of `ScoreFollowsEdits` but for the superfluous first one.
* The plain text, and with it the voice, drops descriptions of images, and keeps
  what script and style elements contain. The `markdown` format is Reflow's, not the
  edited page.
* An image outside a figure is announced at the next figure's end, or the
  document's. The label of a print page is cut off where the line ends. Text behind a
  page mark in a heading or list item becomes a paragraph.
* The score taken from Reflow's own result is 80 at most without images.

*Dead code*

* `POST /approve/_bulk` is declared after `/approve/{job_id}`, which takes it;
  `reconcile_actual_cost` is called nowhere.

## 7. Not modelled

* Parsing of markdown, mathematics, chemistry, sanitizing, the extraction of figures
  from PDFs, translation of braille by liblouis, the ePub, PDF and translation
  formats: sequential text processing and libraries.
* The upload of figures before a Page is written, the signals kept in a record and
  the veraPDF audit: they are computed, stored and shown, and decide nothing.
* The login redirect and its state, several platforms in one registry, CSRF tokens
  and the origin check: the launches and handlers modelled are those that passed.
* JWT validation, key handling, encryption of secrets: library cryptography.
* Which of several jobs speaks for a file by name and recency, beyond its alias and
  its own jobs; listings and the CSV export only read.
* Enumeration of tenants and courses, uploads, notifications, the overlay's user
  interface, logging, configuration and one-shot scripts.
