---------------------------- MODULE ServiceCalls ----------------------------
(***************************************************************************)
(* How a task calls Canvas, above all with the connector's service token.  *)
(*                                                                         *)
(* An instructor's POST passes the rate limiter first                      *)
(* (utils/rate_limit.py).  Then the task, like a viewer's download or a    *)
(* tick of the bridge, reads the platform's record once and builds a       *)
(* client on it: with the token of the job's uploader or of the course's   *)
(* owner if one is stored, and with the environment's if the platform is   *)
(* not known.  Otherwise it makes its calls one by one with the service    *)
(* token: each takes the one all tasks share in Redis or mints one         *)
(* (canvas/oauth.py), drops it and mints another when Canvas answers 401   *)
(* (canvas/client.py), and is begun again after a Redis error where it is  *)
(* wrapped so (utils/retry_helpers.py).                                    *)
(*                                                                         *)
(* One platform and one scope set are modelled, and one actor's counters   *)
(* of one bucket; the keys of the code carry their names.  Each await on   *)
(* Redis or HTTP is a step of a task.                                      *)
(***************************************************************************)
EXTENDS Naturals, FiniteSets

CONSTANTS
    Caller,     \* handlers and background tasks that can be open at once
    Limited,    \* those that are POSTs of the actor
    Calls,      \* of each caller: the calls of its task, none where a job has
                \* no Page, several where a listing has pages
    Attempts,   \* of each caller: the attempts retry_with_backoff gives a call
    Limit,      \* requests let through in a window
    MaxWindow,  \* bound: windows
    MaxPosts,   \* bound: POSTs in a window
    MaxFaults,  \* bound: failed calls and restarts
    NoToken

ASSUME CallerAssumption ==
    /\ Limited \subseteq Caller
    /\ Calls \in [Caller -> Nat]
    /\ Attempts \in [Caller -> Nat \ {0}]
ASSUME LimitAssumption == Limit \in Nat \ {0}
ASSUME BoundAssumption == MaxWindow \in Nat /\ MaxPosts \in Nat /\ MaxFaults \in Nat

\* Enough names for the cached token, one of each task and a new one; a name
\* nobody holds any more is given to the next token.
Token == 1..(Cardinality(Caller) + 1)
ASSUME TokenAssumption == NoToken \notin Nat

Window == 0..MaxWindow

VARIABLES
    clock,      \* the window it is now
    count,      \* of each window: the actor's counter in Redis
    expiring,   \* windows whose counter has an expiry
    cache,      \* the service token in Redis
    withdrawn,  \* Canvas: tokens it accepts no more
    revoked,    \* revoked_at of the platform's record
    task,       \* of each caller: where its task is and what it holds
    faults,
    passed,     \* history: POSTs let through in each window
    turned,     \* history: windows in which a POST was answered 429
    wasted      \* history: windows whose first POST never came to its answer

limiter == <<clock, count, expiring>>
tokens == <<cache, withdrawn>>
history == <<passed, turned, wasted>>
vars == <<limiter, tokens, revoked, task, faults, history>>

Entering == {"count", "expire"}
Calling == {"load", "mint", "store", "drop", "request"}
Task == [at : {"idle", "read", "elsewise"} \cup Entering \cup Calling,
         window : Window,
         left : Nat,                    \* calls not yet answered
         try : Nat,                     \* the attempt at this call
         token : Token \cup {NoToken},  \* the token to store or to send
         again : BOOLEAN,               \* Canvas refused the first request
         fresh : BOOLEAN,               \* the token was minted since then
         barred : BOOLEAN]              \* revoked_at, as the client knows it
Idle == [at |-> "idle", window |-> 0, left |-> 0, try |-> 0, token |-> NoToken,
         again |-> FALSE, fresh |-> FALSE, barred |-> FALSE]

TypeOK ==
    /\ clock \in Window /\ count \in [Window -> Nat] /\ expiring \subseteq Window
    /\ cache \in Token \cup {NoToken} /\ withdrawn \subseteq Token
    /\ revoked \in BOOLEAN
    /\ task \in [Caller -> Task]
    /\ faults \in 0..MaxFaults
    /\ passed \in [Window -> Nat] /\ turned \subseteq Window /\ wasted \subseteq Window

Init ==
    /\ clock = 0 /\ count = [w \in Window |-> 0] /\ expiring = {}
    /\ cache = NoToken /\ withdrawn = {}
    /\ revoked = FALSE
    /\ task = [c \in Caller |-> Idle]
    /\ faults = 0
    /\ passed = [w \in Window |-> 0] /\ turned = {} /\ wasted = {}

Set(c, t) == task' = [task EXCEPT ![c] = t]
Finish(c) == Set(c, Idle)
Fault == faults < MaxFaults /\ faults' = faults + 1
InUse == ({cache} \cup {task[c].token : c \in Caller}) \ {NoToken}

\* The first step of a call, in its t-th attempt: the whole of it, with its
\* token, is begun anew.
Begin(c, left, t) ==
    Set(c, [task[c] EXCEPT !.at = "load", !.left = left, !.try = t,
                           !.token = NoToken, !.again = FALSE, !.fresh = FALSE])

(***************************************************************************)
(* The rate limiter.                                                       *)
(***************************************************************************)

\* A POST of the actor; the window is the one in which it asks for the time.
Post(c) ==
    /\ c \in Limited /\ task[c].at = "idle"
    /\ count[clock] + Cardinality({d \in Caller : task[d].at = "count"}) < MaxPosts
    /\ Set(c, [Idle EXCEPT !.at = "count", !.window = clock])
    /\ UNCHANGED <<limiter, tokens, revoked, faults, history>>

\* The limiter's answer to a POST that counted as the n-th.
Verdict(c, w, n) ==
    IF n <= Limit
    THEN /\ Set(c, IF Calls[c] = 0 THEN Idle ELSE [Idle EXCEPT !.at = "read"])
         /\ passed' = [passed EXCEPT ![w] = @ + 1]
         /\ UNCHANGED turned
    ELSE /\ Finish(c)
         /\ turned' = turned \cup {w}
         /\ UNCHANGED passed

\* Mutant: the counter is read with GET and the POST let through when it is
\* below the limit, INCR and EXPIRE coming after.
CountPostReadFirst(c) ==
    LET w == task[c].window
    IN  /\ task[c].at = "count"
        /\ IF count[w] < Limit
           THEN Set(c, [task[c] EXCEPT !.at = "expire"]) /\ UNCHANGED <<passed, turned, count>>
           ELSE Verdict(c, w, count[w] + 1) /\ count' = [count EXCEPT ![w] = @ + 1]
        /\ UNCHANGED <<clock, expiring, tokens, revoked, faults, wasted>>

\* INCR; only the first of a window goes on to EXPIRE.
CountPost(c) ==
    LET w == task[c].window
    IN  /\ task[c].at = "count"
        /\ count' = [count EXCEPT ![w] = @ + 1]
        /\ IF count[w] = 0
           THEN Set(c, [task[c] EXCEPT !.at = "expire"]) /\ UNCHANGED <<passed, turned>>
           ELSE Verdict(c, w, count[w] + 1)
        /\ UNCHANGED <<clock, expiring, tokens, revoked, faults, wasted>>

\* EXPIRE, and the answer.
ExpireCount(c) ==
    LET w == task[c].window
    IN  /\ task[c].at = "expire"
        /\ expiring' = expiring \cup {w}
        /\ Verdict(c, w, 1)
        /\ UNCHANGED <<clock, count, tokens, revoked, faults, wasted>>

\* Redis drops a counter five seconds after its window at the soonest.  By then
\* no POST of the window is still on its way to the counter: the slack of the
\* code is taken to be longer than Redis takes to answer.
Lapse(w) ==
    /\ w \in expiring /\ w < clock
    /\ \A c \in Caller : task[c].at \in Entering => task[c].window # w
    /\ count' = [count EXCEPT ![w] = 0]
    /\ expiring' = expiring \ {w}
    /\ UNCHANGED <<clock, tokens, revoked, task, faults, history>>

Tick ==
    /\ clock < MaxWindow
    /\ clock' = clock + 1
    /\ UNCHANGED <<count, expiring, tokens, revoked, task, faults, history>>

(***************************************************************************)
(* A task and its calls.                                                   *)
(***************************************************************************)

\* review_pdf_proxy: a viewer wants the source PDF.  A tick of the bridge begins
\* likewise.
Start(c) ==
    /\ c \notin Limited /\ task[c].at = "idle" /\ Calls[c] > 0
    /\ Set(c, [Idle EXCEPT !.at = "read"])
    /\ UNCHANGED <<limiter, tokens, revoked, faults, history>>

\* get_platform, and no other token is at hand: the client is on the service
\* token and keeps the record for all its calls.
ReadPlatform(c) ==
    /\ task[c].at = "read"
    /\ Set(c, [task[c] EXCEPT !.at = "load", !.left = Calls[c], !.try = 1,
                              !.barred = revoked])
    /\ UNCHANGED <<limiter, tokens, revoked, faults, history>>

\* The client the task gets is not on the service token: a token of the uploader
\* or of the course's owner is stored, or the platform is not known and the
\* environment's token is used.  Neither client looks at revoked_at; how a user's
\* token is refreshed and lost is CanvasAccess's.
TakeOtherToken(c) ==
    /\ task[c].at = "read"
    /\ Set(c, [task[c] EXCEPT !.at = "elsewise", !.left = Calls[c]])
    /\ UNCHANGED <<limiter, tokens, revoked, faults, history>>

\* Canvas answers such a call, or refuses it and ends the task.
OtherAnswered(c) ==
    /\ task[c].at = "elsewise"
    /\ \/ Finish(c)
       \/ task[c].left > 1 /\ Set(c, [task[c] EXCEPT !.left = @ - 1])
    /\ UNCHANGED <<limiter, tokens, revoked, faults, history>>

\* Mutant: the cached token is taken before revoked_at is looked at.
LoadCachedFirst(c) ==
    /\ task[c].at = "load"
    /\ IF cache # NoToken
       THEN Set(c, [task[c] EXCEPT !.at = "request", !.token = cache])
       ELSE IF task[c].barred THEN Finish(c)
       ELSE Set(c, [task[c] EXCEPT !.at = "mint"])
    /\ UNCHANGED <<limiter, tokens, revoked, faults, history>>

\* get_service_token: a revoked platform is refused; a cached token is taken, or
\* one is minted and stored.  A forced refresh enters at the minting.
Load(c) ==
    /\ task[c].at = "load"
    /\ IF task[c].barred THEN Finish(c)
       ELSE IF cache # NoToken
       THEN Set(c, [task[c] EXCEPT !.at = "request", !.token = cache])
       ELSE Set(c, [task[c] EXCEPT !.at = "mint"])
    /\ UNCHANGED <<limiter, tokens, revoked, faults, history>>

\* The platform's endpoint signs a token; one that ends within the buffer is
\* used but not stored.
Mint(c) ==
    /\ task[c].at = "mint"
    /\ \E t \in Token \ InUse, long \in BOOLEAN :
        /\ \A u \in Token \ InUse : t <= u
        /\ withdrawn' = withdrawn \cap InUse
        /\ Set(c, [task[c] EXCEPT !.at = IF long THEN "store" ELSE "request",
                                  !.token = t, !.fresh = task[c].again])
    /\ UNCHANGED <<limiter, cache, revoked, faults, history>>

\* _store_cached: SET, over whatever another task stored meanwhile.
Store(c) ==
    /\ task[c].at = "store"
    /\ cache' = task[c].token
    /\ Set(c, [task[c] EXCEPT !.at = "request"])
    /\ UNCHANGED <<limiter, withdrawn, revoked, faults, history>>

\* Canvas answers; the task goes on to its next call, like the next page of a
\* listing, or is done.
Answered(c) ==
    /\ task[c].at = "request" /\ task[c].token \notin withdrawn
    /\ IF task[c].left <= 1 THEN Finish(c) ELSE Begin(c, task[c].left - 1, 1)
    /\ UNCHANGED <<limiter, tokens, revoked, faults, history>>

\* The first 401: the token is to be dropped and another minted.
Unauthorized(c) ==
    /\ task[c].at = "request" /\ task[c].token \in withdrawn
    /\ ~task[c].again
    /\ Set(c, [task[c] EXCEPT !.at = "drop", !.token = NoToken, !.again = TRUE])
    /\ UNCHANGED <<limiter, tokens, revoked, faults, history>>

\* Mutant: the refresh is not forced, so that the second request looks in the
\* cache like the first.
DropCachedUnforced(c) ==
    /\ task[c].at = "drop"
    /\ cache' = NoToken
    /\ Set(c, [task[c] EXCEPT !.at = "load"])
    /\ UNCHANGED <<limiter, withdrawn, revoked, faults, history>>

\* invalidate deletes whatever token is cached, another task's new one too;
\* get_service_token is then forced to mint, if the platform is not revoked.
DropCached(c) ==
    /\ task[c].at = "drop"
    /\ cache' = NoToken
    /\ Set(c, [task[c] EXCEPT !.at = "mint"])
    /\ UNCHANGED <<limiter, withdrawn, revoked, faults, history>>

\* The second 401 is the call's answer and ends the task.
GiveUp(c) ==
    /\ task[c].at = "request" /\ task[c].token \in withdrawn
    /\ task[c].again
    /\ Finish(c)
    /\ UNCHANGED <<limiter, tokens, revoked, faults, history>>

(***************************************************************************)
(* Failures.                                                               *)
(***************************************************************************)

\* A Redis error: inside a call it is retryable, elsewhere it ends the task.
RedisFails(c) ==
    /\ Fault
    /\ task[c].at \in Entering \cup {"read", "load", "store", "drop"}
    /\ IF task[c].at \in Calling /\ task[c].try < Attempts[c]
       THEN Begin(c, task[c].left, task[c].try + 1)
       ELSE Finish(c)
    /\ wasted' = IF task[c].at = "expire" THEN wasted \cup {task[c].window} ELSE wasted
    /\ UNCHANGED <<limiter, tokens, revoked, passed, turned>>

\* No answer from the token endpoint or from Canvas, or an error: neither
\* ServiceTokenError, CanvasApiError nor httpx's own errors are retryable.
HttpFails(c) ==
    /\ Fault
    /\ task[c].at \in {"mint", "request", "elsewise"}
    /\ Finish(c)
    /\ UNCHANGED <<limiter, tokens, revoked, history>>

\* The process is restarted.
Restart ==
    /\ Fault
    /\ task' = [c \in Caller |-> Idle]
    /\ wasted' = wasted \cup {w \in Window :
                    \E c \in Caller : task[c].at = "expire" /\ task[c].window = w}
    /\ UNCHANGED <<limiter, tokens, revoked, passed, turned>>

(***************************************************************************)
(* The platform.                                                           *)
(***************************************************************************)

\* The cached token comes within the buffer of its end.
ExpireCached ==
    /\ cache # NoToken
    /\ cache' = NoToken
    /\ UNCHANGED <<limiter, withdrawn, revoked, task, faults, history>>

\* Canvas ends a token: its time is up, or the developer key was reset.
Withdraw(t) ==
    /\ t \in InUse \ withdrawn
    /\ withdrawn' = withdrawn \cup {t}
    /\ UNCHANGED <<limiter, cache, revoked, task, faults, history>>

\* mark_revoked and clear_revoked, by the operator.
MarkRevoked ==
    /\ ~revoked /\ revoked' = TRUE
    /\ UNCHANGED <<limiter, tokens, task, faults, history>>
ClearRevoked ==
    /\ revoked /\ revoked' = FALSE
    /\ UNCHANGED <<limiter, tokens, task, faults, history>>

Work(c) ==
    \/ CountPost(c) \/ ExpireCount(c)
    \/ ReadPlatform(c) \/ TakeOtherToken(c) \/ OtherAnswered(c)
    \/ Load(c) \/ Mint(c) \/ Store(c)
    \/ Answered(c) \/ Unauthorized(c) \/ DropCached(c) \/ GiveUp(c)

Next ==
    \/ \E c \in Caller : Post(c) \/ Start(c) \/ Work(c) \/ RedisFails(c) \/ HttpFails(c)
    \/ \E w \in Window : Lapse(w)
    \/ Tick \/ Restart \/ ExpireCached
    \/ \E t \in Token : Withdraw(t)
    \/ MarkRevoked \/ ClearRevoked

\* A coroutine that was begun is resumed; Redis and HTTP calls have timeouts.
Fairness == \A c \in Caller : WF_vars(Work(c))

Spec == Init /\ [][Next]_vars /\ Fairness

(***************************************************************************)
(* Properties.                                                             *)
(***************************************************************************)

\* POSTs that have counted in a window but wait for their answer.
Waiting(w) == {c \in Caller : task[c].at = "expire" /\ task[c].window = w}

\* In no window are more POSTs let through than the limit, one is turned away
\* only when the limit was used up, but for a first POST that died, and a
\* counter without an expiry has its first POST to thank (rate_limit.py:62-72).
QuotaIsExact ==
    \A w \in Window :
        /\ passed[w] <= Limit
        /\ w \in turned =>
            passed[w] + (IF w \in wasted \/ Waiting(w) # {} THEN 1 ELSE 0) = Limit
        /\ count[w] > 0 => w \in expiring \/ w \in wasted \/ Waiting(w) # {}

\* A task gives up for want of authorization only when Canvas refused it a token
\* minted for that very call, never for a token another task had stored
\* (client.py:298-315).
RefusedOnlyFresh ==
    [][\A c \in Caller :
        (task[c].at = "request" /\ task[c].token \in withdrawn
            /\ task'[c].at = "idle" /\ faults' = faults) => task[c].fresh]_vars

\* The service token of a platform that stays revoked is in the end neither minted
\* nor sent, though tasks under way know only the record they began with and the
\* cache still holds a token (oauth.py:309-318).  Tasks that have a user's or the
\* environment's token go on: nothing on their way reads revoked_at.
RevocationReached ==
    <>[]revoked =>
        <>[](\A c \in Caller : task[c].at \notin {"mint", "store", "request"})
=============================================================================
