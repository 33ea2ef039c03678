---------------------------- MODULE CanvasAccess ----------------------------
(***************************************************************************)
(* How the connector comes by the right to call Canvas, and loses it.      *)
(*                                                                         *)
(* An LTI launch registers the Canvas platform, refuses a revoked one and  *)
(* opens a session (lti/routes.py, lti/platform_store.py).  The session's  *)
(* user then authorizes the tool in Canvas, and the callback stores a user *)
(* token and claims the course (api/canvas_oauth.py).  Every later call on *)
(* the user's behalf, by the watcher, the bridge or a handler, loads that  *)
(* token, refreshes it when it is stale or Canvas answers 401, and stores  *)
(* or drops it (canvas/client.py, canvas/user_oauth.py).                   *)
(*                                                                         *)
(* One platform and one of its courses are modelled; all keys of the code  *)
(* carry their ids.  Each await on Redis or HTTP is a step of a worker.    *)
(***************************************************************************)
EXTENDS Naturals

CONSTANTS
    User,
    Instructor, \* users with a teaching role
    Worker,     \* handlers and background calls that can be open at once
    Grant,      \* authorizations Canvas may issue: bound on consents
    MaxFaults,  \* bound on failed calls and restarts
    NoUser, NoToken

ASSUME UserAssumption == Instructor \subseteq User /\ NoUser \notin User
ASSUME FaultAssumption == MaxFaults \in Nat

\* A stored token: its access token is live until expires_at; its refresh
\* token, when it has one, is the grant's.
Token == [grant : Grant, live : BOOLEAN, renewable : BOOLEAN]

\* What Canvas issues under a grant, and what is left of it at expires_at.
Issue(g, renewable) == [grant |-> g, live |-> TRUE, renewable |-> renewable]
Stale(t) == [t EXCEPT !.live = FALSE]

ASSUME TokenAssumption == NoToken \notin Token

VARIABLES
    registered, \* the platform has a record
    revoked,    \* whose revoked_at is set
    seen,       \* the course is mapped to the platform
    session,    \* users with a session
    asked,      \* users with an OAuth state
    code,       \* users with an unused authorization code from Canvas
    token,      \* the stored token of each user
    owner,      \* the course's owner
    issued,     \* Canvas: whom each grant was issued to
    honoured,   \* Canvas: grants it accepts
    proc,       \* every worker: where it is and what it holds
    erasing,    \* the user erase_user is half done with
    faults,
    barred,     \* history: revoked, and no launch knew better
    safe,       \* history: users with a token nothing has endangered
    forgotten   \* history: users erased while nobody worked for them

vars == <<registered, revoked, seen, session, asked, code, token, owner,
          issued, honoured, proc, erasing, faults, barred, safe, forgotten>>

platform == <<registered, revoked, seen>>
canvas == <<issued, honoured>>
history == <<barred, safe, forgotten>>

Launching == {"read", "write", "seen", "gate"}
Authorizing == {"forget", "exchange", "keep", "claim"}
Calling == {"load", "refresh", "store", "drop", "send"}
At == {"idle"} \cup Launching \cup Authorizing \cup Calling
Work == [at : At, user : User \cup {NoUser}, token : Token \cup {NoToken},
         flag : BOOLEAN]
Idle == [at |-> "idle", user |-> NoUser, token |-> NoToken, flag |-> FALSE]

TypeOK ==
    /\ registered \in BOOLEAN /\ revoked \in BOOLEAN /\ seen \in BOOLEAN
    /\ session \subseteq User /\ asked \subseteq User /\ code \subseteq User
    /\ token \in [User -> Token \cup {NoToken}]
    /\ owner \in User \cup {NoUser}
    /\ issued \in [Grant -> User \cup {NoUser}]
    /\ honoured \subseteq Grant
    /\ proc \in [Worker -> Work]
    /\ erasing \in User \cup {NoUser}
    /\ faults \in 0..MaxFaults
    /\ barred \in BOOLEAN /\ safe \subseteq User /\ forgotten \subseteq User

Init ==
    /\ registered = FALSE /\ revoked = FALSE /\ seen = FALSE
    /\ session = {} /\ asked = {} /\ code = {}
    /\ token = [u \in User |-> NoToken]
    /\ owner = NoUser
    /\ issued = [g \in Grant |-> NoUser]
    /\ honoured = {}
    /\ proc = [w \in Worker |-> Idle]
    /\ erasing = NoUser
    /\ faults = 0
    /\ barred = FALSE /\ safe = {} /\ forgotten = {}

Start(w, where, u, t, b) ==
    proc' = [proc EXCEPT ![w] = [at |-> where, user |-> u, token |-> t,
                                 flag |-> b]]
Hold(w, where, t) == Start(w, where, proc[w].user, t, proc[w].flag)
Goto(w, where) == Hold(w, where, proc[w].token)
Finish(w) == proc' = [proc EXCEPT ![w] = Idle]
Fault == faults < MaxFaults /\ faults' = faults + 1

(***************************************************************************)
(* The LTI launch.                                                         *)
(***************************************************************************)

\* The signed launch of a user who came through /lti/login.
Launch(w, u) ==
    /\ proc[w].at = "idle"
    /\ Start(w, "read", u, NoToken, FALSE)
    /\ forgotten' = forgotten \ {u}
    /\ UNCHANGED <<platform, session, asked, code, token, owner, canvas,
                   erasing, faults, barred, safe>>

\* Mutant: put_platform does not carry revoked_at forward.
LaunchReadUnmerged(w) ==
    /\ proc[w].at = "read"
    /\ Goto(w, "write")
    /\ UNCHANGED <<platform, session, asked, code, token, owner, canvas,
                   erasing, faults, history>>

\* put_platform reads the record and merges it: revoked_at is kept.
LaunchRead(w) ==
    /\ proc[w].at = "read"
    /\ Start(w, "write", proc[w].user, NoToken, revoked)
    /\ UNCHANGED <<platform, session, asked, code, token, owner, canvas,
                   erasing, faults, history>>

\* It writes the merged record, whatever the key holds by now.
LaunchWrite(w) ==
    /\ proc[w].at = "write"
    /\ registered' = TRUE
    /\ revoked' = proc[w].flag
    /\ Goto(w, "seen")
    /\ UNCHANGED <<seen, session, asked, code, token, owner, canvas, erasing,
                   faults, history>>

\* mark_course_seen.
LaunchSeen(w) ==
    /\ proc[w].at = "seen"
    /\ seen' = TRUE
    /\ Goto(w, "gate")
    /\ UNCHANGED <<registered, revoked, session, asked, code, token, owner,
                   canvas, erasing, faults, history>>

\* What fails among these calls is logged, and the launch goes on with what
\* it has: when the read failed, without knowing of a revocation.
RegistryFails(w) ==
    /\ proc[w].at \in {"read", "write", "seen"}
    /\ Fault
    /\ Goto(w, "gate")
    /\ barred' = (barred /\ proc[w].flag)
    /\ UNCHANGED <<platform, session, asked, code, token, owner, canvas,
                   erasing, safe, forgotten>>

\* Mutant: nobody looks at revoked_at.
LaunchGateOpen(w) ==
    /\ proc[w].at = "gate"
    /\ session' = session \cup {proc[w].user}
    /\ Finish(w)
    /\ UNCHANGED <<platform, asked, code, token, owner, canvas, erasing,
                   faults, history>>

\* A revoked platform gets 403; otherwise put_session.
LaunchGate(w) ==
    /\ proc[w].at = "gate"
    /\ session' = IF proc[w].flag THEN session
                                  ELSE session \cup {proc[w].user}
    /\ Finish(w)
    /\ UNCHANGED <<platform, asked, code, token, owner, canvas, erasing,
                   faults, history>>

(***************************************************************************)
(* The OAuth consent.                                                      *)
(***************************************************************************)

\* /canvas/oauth/authorize stores a state; the user approves in Canvas.
Authorize(u) ==
    /\ u \in session /\ registered /\ seen
    /\ asked' = asked \cup {u}
    /\ code' = code \cup {u}
    /\ UNCHANGED <<platform, session, token, owner, canvas, proc, erasing,
                   faults, history>>

\* The callback: take_oauth_state is a GET, then a DELETE.
Callback(w, u) ==
    /\ proc[w].at = "idle" /\ u \in asked
    /\ Start(w, "forget", u, NoToken, FALSE)
    /\ UNCHANGED <<platform, session, asked, code, token, owner, canvas,
                   erasing, faults, history>>

Forget(w) ==
    /\ proc[w].at = "forget"
    /\ asked' = asked \ {proc[w].user}
    /\ Goto(w, "exchange")
    /\ UNCHANGED <<platform, session, code, token, owner, canvas, erasing,
                   faults, history>>

\* Canvas issues a grant for the code.
Granted(w, g) ==
    /\ issued[g] = NoUser
    /\ issued' = [issued EXCEPT ![g] = proc[w].user]
    /\ honoured' = honoured \cup {g}
    /\ Hold(w, "keep", Issue(g, TRUE))

\* Mutant: the session is not looked up again.
ExchangeAnyway(w) ==
    LET u == proc[w].user
    IN  /\ proc[w].at = "exchange"
        /\ \/ /\ u \in code
              /\ \E g \in Grant : Granted(w, g)
              /\ code' = code \ {u}
           \/ /\ Finish(w)
              /\ code' \in {code, code \ {u}}
              /\ UNCHANGED canvas
        /\ UNCHANGED <<platform, session, asked, token, owner, erasing,
                       faults, history>>

\* Without a session the callback is refused; Canvas takes a code once, and
\* the exchange may fail.
Exchange(w) ==
    LET u == proc[w].user
    IN  /\ proc[w].at = "exchange"
        /\ \/ /\ u \in session /\ u \in code
              /\ \E g \in Grant : Granted(w, g)
              /\ code' = code \ {u}
           \/ /\ Finish(w)
              /\ code' \in {code, code \ {u}}
              /\ UNCHANGED canvas
        /\ UNCHANGED <<platform, session, asked, token, owner, erasing,
                       faults, history>>

\* Somebody else still works with a token of u.
Shared(w, u) == \E v \in Worker \ {w} : proc[v].user = u

\* put_user_token, from the callback.
Keep(w) ==
    LET u == proc[w].user
    IN  /\ proc[w].at = "keep"
        /\ token' = [token EXCEPT ![u] = proc[w].token]
        /\ safe' = IF proc[w].token.grant \notin honoured THEN safe \ {u}
                   ELSE IF Shared(w, u) THEN safe ELSE safe \cup {u}
        /\ IF u \in Instructor THEN Goto(w, "claim") ELSE Finish(w)
        /\ UNCHANGED <<platform, session, asked, code, owner, canvas, erasing,
                       faults, barred, forgotten>>

\* claim_course_owner_if_unset is one SET NX.
Claim(w) ==
    /\ proc[w].at = "claim"
    /\ owner' = IF owner = NoUser THEN proc[w].user ELSE owner
    /\ Finish(w)
    /\ UNCHANGED <<platform, session, asked, code, token, canvas, erasing,
                   faults, history>>

(***************************************************************************)
(* A Canvas call on a user's behalf.                                       *)
(***************************************************************************)

\* A client is made for a user whose token was found: the job's uploader, or
\* the course's owner.
Call(w, u) ==
    /\ proc[w].at = "idle" /\ token[u] # NoToken
    /\ Start(w, "load", u, NoToken, FALSE)
    /\ UNCHANGED <<platform, session, asked, code, token, owner, canvas,
                   erasing, faults, history>>

\* _user_token_headers; the flag is set on the forced retry.
Load(w) ==
    LET t == token[proc[w].user]
    IN  /\ proc[w].at = "load"
        /\ IF t = NoToken THEN Finish(w)
           ELSE IF t.live /\ ~proc[w].flag THEN Hold(w, "send", t)
           ELSE IF t.renewable THEN Hold(w, "refresh", t)
           ELSE Hold(w, "drop", t)
        /\ UNCHANGED <<platform, session, asked, code, token, owner, canvas,
                       erasing, faults, history>>

\* Mutant: what Canvas omits on a refresh is not carried over.
RefreshForgetful(w) ==
    LET t == proc[w].token
    IN  /\ proc[w].at = "refresh"
        /\ IF t.grant \in honoured
           THEN Hold(w, "store", Issue(t.grant, FALSE))
           ELSE Goto(w, "drop")
        /\ UNCHANGED <<platform, session, asked, code, token, owner, canvas,
                       erasing, faults, history>>

\* refresh_user_token: Canvas renews a grant it honours; the refresh token it
\* omits is carried over.
Refresh(w) ==
    LET t == proc[w].token
    IN  /\ proc[w].at = "refresh"
        /\ IF t.grant \in honoured
           THEN Hold(w, "store", Issue(t.grant, t.renewable))
           ELSE Goto(w, "drop")
        /\ UNCHANGED <<platform, session, asked, code, token, owner, canvas,
                       erasing, faults, history>>

\* Every UserOAuthError counts as a refusal, a network error too.
RefreshFails(w) ==
    /\ proc[w].at = "refresh" /\ Fault
    /\ Goto(w, "drop")
    /\ safe' = safe \ {proc[w].user}
    /\ UNCHANGED <<platform, session, asked, code, token, owner, canvas,
                   erasing, barred, forgotten>>

\* put_user_token, from the client.
StoreToken(w) ==
    /\ proc[w].at = "store"
    /\ token' = [token EXCEPT ![proc[w].user] = proc[w].token]
    /\ Goto(w, "send")
    /\ UNCHANGED <<platform, session, asked, code, owner, canvas, erasing,
                   faults, history>>

\* drop_user_token deletes whatever token the user has by now.
DropToken(w) ==
    /\ proc[w].at = "drop"
    /\ token' = [token EXCEPT ![proc[w].user] = NoToken]
    /\ Finish(w)
    /\ UNCHANGED <<platform, session, asked, code, owner, canvas, erasing,
                   faults, history>>

\* The request itself: the first 401 forces a refresh, the second is final.
\* Canvas may answer 401 to a token of a grant it honours, too.
Send(w) ==
    /\ proc[w].at = "send"
    /\ \/ proc[w].token.grant \in honoured /\ Finish(w)
       \/ IF proc[w].flag THEN Finish(w)
                          ELSE Start(w, "load", proc[w].user, NoToken, TRUE)
    /\ UNCHANGED <<platform, session, asked, code, token, owner, canvas,
                   erasing, faults, history>>

WorkerStep(w) ==
    \/ LaunchRead(w) \/ LaunchWrite(w) \/ LaunchSeen(w) \/ LaunchGate(w)
    \/ Forget(w) \/ Exchange(w) \/ Keep(w) \/ Claim(w)
    \/ Load(w) \/ Refresh(w) \/ StoreToken(w) \/ DropToken(w) \/ Send(w)

(***************************************************************************)
(* Operators, erasure, Canvas and time.                                    *)
(***************************************************************************)

\* A launch is under way that would write, or act on, "not revoked".
LaunchUnaware ==
    \E w \in Worker : /\ proc[w].at \in Launching \ {"read"}
                      /\ ~proc[w].flag

\* mark_revoked, and clear_revoked.
MarkRevoked ==
    /\ registered
    /\ revoked' = TRUE
    /\ barred' = ~LaunchUnaware
    /\ UNCHANGED <<registered, seen, session, asked, code, token, owner,
                   canvas, proc, erasing, faults, safe, forgotten>>

ClearRevoked ==
    /\ registered
    /\ revoked' = FALSE /\ barred' = FALSE
    /\ UNCHANGED <<registered, seen, session, asked, code, token, owner,
                   canvas, proc, erasing, faults, safe, forgotten>>

\* erase_user deletes the tokens first, the sessions later.
EraseToken(u) ==
    /\ erasing = NoUser
    /\ erasing' = u
    /\ token' = [token EXCEPT ![u] = NoToken]
    /\ safe' = safe \ {u}
    /\ UNCHANGED <<platform, session, asked, code, owner, canvas, proc,
                   faults, barred, forgotten>>

EraseSession ==
    LET u == erasing
    IN  /\ u # NoUser
        /\ erasing' = NoUser
        /\ session' = session \ {u}
        /\ forgotten' = IF token[u] = NoToken
                           /\ \A w \in Worker : proc[w].user # u
                        THEN forgotten \cup {u} ELSE forgotten
        /\ UNCHANGED <<platform, asked, code, token, owner, canvas, proc,
                       faults, barred, safe>>

\* The user, or an admin, withdraws an authorization in Canvas.
Withdraw(g) ==
    /\ g \in honoured
    /\ honoured' = honoured \ {g}
    /\ safe' = safe \ {issued[g]}
    /\ UNCHANGED <<platform, session, asked, code, token, owner, issued, proc,
                   erasing, faults, barred, forgotten>>

\* expires_at passes; session (8 h) and OAuth state (10 min) have their TTLs.
Expire(u) ==
    /\ \/ /\ token[u] # NoToken
          /\ token[u].live
          /\ token' = [token EXCEPT ![u] = Stale(token[u])]
          /\ UNCHANGED <<session, asked>>
       \/ /\ u \in session /\ session' = session \ {u}
          /\ UNCHANGED <<token, asked>>
       \/ u \in asked /\ asked' = asked \ {u} /\ UNCHANGED <<token, session>>
    /\ UNCHANGED <<platform, code, owner, canvas, proc, erasing, faults,
                   history>>

\* The record of a token lives for 90 days from its last store.
Lapse(u) ==
    /\ token[u] # NoToken
    /\ token' = [token EXCEPT ![u] = NoToken]
    /\ safe' = safe \ {u}
    /\ UNCHANGED <<platform, session, asked, code, owner, canvas, proc,
                   erasing, faults, barred, forgotten>>

\* A handler fails, or the connector restarts.
Abort ==
    /\ Fault
    /\ \/ \E w \in Worker : proc[w].at # "idle" /\ Finish(w)
       \/ /\ \E w \in Worker : proc[w].at # "idle"
          /\ proc' = [w \in Worker |-> Idle]
    /\ UNCHANGED <<platform, session, asked, code, token, owner, canvas,
                   erasing, history>>

Next ==
    \/ \E w \in Worker :
          \/ WorkerStep(w) \/ RegistryFails(w) \/ RefreshFails(w)
          \/ \E u \in User : Launch(w, u) \/ Callback(w, u) \/ Call(w, u)
    \/ \E u \in User : Authorize(u) \/ EraseToken(u) \/ Expire(u) \/ Lapse(u)
    \/ \E g \in Grant : Withdraw(g)
    \/ MarkRevoked \/ ClearRevoked \/ EraseSession \/ Abort

Spec == Init /\ [][Next]_vars

-----------------------------------------------------------------------------
(* Safety. *)

\* A revocation no launch overlapped stands until an operator lifts it,
\* however often the platform launches again.
RevocationStands == barred => revoked

\* While it stands nobody is let in: sessions only go.
RevokedAdmitsNobody == [][barred /\ barred' => session' \subseteq session]_vars

\* A user keeps the authorization once given, through any number of expiries
\* and of calls refreshing one token at once, until Canvas stops honouring
\* it, a refresh fails, the record lapses or the user is erased.
AuthorizationKept == \A u \in safe : token[u] # NoToken

\* An erased user nobody was working for stays erased until the next launch:
\* an OAuth state that outlives the session does not bring a token back.
ErasureStands == \A u \in forgotten : token[u] = NoToken /\ u \notin session

(* The inductive invariant behind them, in parts. *)

\* No launch is about to write, or act on, "not revoked".
BarredInv == barred => revoked /\ ~LaunchUnaware

\* Every token of a safe user, stored or held, is one Canvas will renew.
Good(t, u) == t.renewable /\ t.grant \in honoured /\ issued[t.grant] = u
SafeInv ==
    \A u \in safe :
        /\ token[u] # NoToken /\ Good(token[u], u)
        /\ \A w \in Worker : proc[w].user = u =>
              /\ proc[w].at # "drop"
              /\ proc[w].at \in {"refresh", "store"} => Good(proc[w].token, u)

\* What a worker holds at each of its calls; grants name their users.
Holds(w) ==
    /\ proc[w].at # "idle" => proc[w].user \in User
    /\ proc[w].at \in {"keep", "refresh", "store", "drop", "send"} =>
          /\ proc[w].token \in Token
          /\ issued[proc[w].token.grant] = proc[w].user
    /\ proc[w].at = "keep" => proc[w].token.renewable

HeldInv ==
    /\ \A w \in Worker : Holds(w)
    /\ \A u \in User : token[u] # NoToken => issued[token[u].grant] = u
    /\ \A g \in honoured : issued[g] \in User

\* Nobody but a callback that will be refused works for a forgotten user.
ForgottenInv ==
    \A u \in forgotten :
        /\ token[u] = NoToken /\ u \notin session
        /\ \A w \in Worker :
              proc[w].user = u => proc[w].at \in {"forget", "exchange"}

IInv == TypeOK /\ BarredInv /\ SafeInv /\ HeldInv /\ ForgottenInv
=============================================================================
