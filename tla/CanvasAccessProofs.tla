------------------------- MODULE CanvasAccessProofs -------------------------
(***************************************************************************)
(* Proofs that a revocation stands and that authorizations are neither     *)
(* lost nor brought back, for any users, grants, workers and faults.       *)
(***************************************************************************)
EXTENDS CanvasAccess, TLAPS

\* What moving one worker does.
LEMMA Moved ==
    ASSUME TypeOK, NEW w \in Worker, NEW at \in At,
           NEW u \in User \cup {NoUser}, NEW t \in Token \cup {NoToken},
           NEW b \in BOOLEAN, Start(w, at, u, t, b)
    PROVE  /\ proc' \in [Worker -> Work]
           /\ proc'[w] = [at |-> at, user |-> u, token |-> t, flag |-> b]
           /\ \A v \in Worker : v # w => proc'[v] = proc[v]
BY DEF TypeOK, Start, Work

\* What a worker holds, and what it is once it is done.
LEMMA Held ==
    ASSUME TypeOK, NEW w \in Worker
    PROVE  /\ proc[w].at \in At /\ proc[w].user \in User \cup {NoUser}
           /\ proc[w].token \in Token \cup {NoToken} /\ proc[w].flag \in BOOLEAN
           /\ Finish(w) => /\ proc' \in [Worker -> Work]
                           /\ proc'[w] = Idle
                           /\ \A v \in Worker : v # w => proc'[v] = proc[v]
<1>1. proc[w] \in Work
  BY DEF TypeOK
<1>2. Idle \in Work
  BY DEF Work, Idle, At
<1> QED
  BY <1>1, <1>2 DEF TypeOK, Finish, Work

\* The tokens there are.
LEMMA Tokens ==
    /\ \A g \in Grant, b \in BOOLEAN :
          /\ Issue(g, b) \in Token /\ Issue(g, b) # NoToken
          /\ Issue(g, b).grant = g /\ Issue(g, b).renewable = b
    /\ \A t \in Token :
          /\ t.grant \in Grant /\ t.renewable \in BOOLEAN
          /\ Stale(t) \in Token /\ Stale(t) # NoToken
          /\ Stale(t).grant = t.grant /\ Stale(t).renewable = t.renewable
<1>1. \A g \in Grant, b \in BOOLEAN : Issue(g, b) \in Token
  BY DEF Token, Issue
<1>2. \A t \in Token : Stale(t) \in Token
  BY DEF Token, Stale
<1>3. \A t \in Token : /\ t.grant \in Grant /\ t.renewable \in BOOLEAN
                       /\ Stale(t).grant = t.grant
                       /\ Stale(t).renewable = t.renewable
  BY DEF Token, Stale
<1>4. \A g, b : Issue(g, b).grant = g /\ Issue(g, b).renewable = b
  BY DEF Issue
<1> QED
  BY <1>1, <1>2, <1>3, <1>4, TokenAssumption

\* Every action keeps the types.
LEMMA TypeStep ==
    ASSUME TypeOK, HeldInv, [Next]_vars
    PROVE  TypeOK'
<1> USE
   DEF TypeOK, HeldInv, Holds, platform, canvas, history, Start, Hold,
       Goto, Fault, Work, At, Launching, Authorizing, Calling
<1>1. ASSUME NEW w \in Worker, LaunchRead(w)
     PROVE  TypeOK'
  BY <1>1, Held DEF LaunchRead
<1>2. ASSUME NEW w \in Worker, LaunchWrite(w)
     PROVE  TypeOK'
  BY <1>2, Held DEF LaunchWrite
<1>3. ASSUME NEW w \in Worker, LaunchSeen(w)
     PROVE  TypeOK'
  BY <1>3, Held DEF LaunchSeen
<1>4. ASSUME NEW w \in Worker, RegistryFails(w)
     PROVE  TypeOK'
  <2>1. faults' \in 0..MaxFaults
    BY <1>4, Held, FaultAssumption DEF RegistryFails
  <2> QED
    BY <1>4, <2>1, Held DEF RegistryFails
<1>5. ASSUME NEW w \in Worker, LaunchGate(w)
     PROVE  TypeOK'
  BY <1>5, Held DEF LaunchGate
<1>6. ASSUME NEW w \in Worker, Forget(w)
     PROVE  TypeOK'
  BY <1>6, Held DEF Forget
<1>7. ASSUME NEW w \in Worker, Exchange(w)
     PROVE  TypeOK'
  <2>1. CASE Finish(w) /\ UNCHANGED canvas
    BY <1>7, <2>1, Held DEF Exchange
  <2>2. ASSUME NEW g \in Grant, Granted(w, g)
        PROVE  TypeOK'
    <3>1. Issue(g, TRUE) \in Token /\ "keep" \in At
      BY Tokens
    <3>2. proc' \in [Worker -> Work]
      BY <2>2, <3>1, Held, Moved DEF Granted
    <3>3. issued' \in [Grant -> User \cup {NoUser}]
      BY <2>2, Held DEF Granted
    <3> QED
      BY <1>7, <2>2, <3>2, <3>3 DEF Exchange, Granted
  <2> QED
    BY <1>7, <2>1, <2>2 DEF Exchange
<1>8. ASSUME NEW w \in Worker, Keep(w)
     PROVE  TypeOK'
  <2>1. proc' \in [Worker -> Work]
    BY <1>8, Held DEF Keep
  <2> QED
    BY <1>8, <2>1, Held DEF Keep
<1>9. ASSUME NEW w \in Worker, Claim(w)
     PROVE  TypeOK'
  BY <1>9, Held DEF Claim
<1>10. ASSUME NEW w \in Worker, Load(w)
     PROVE  TypeOK'
  <2>1. proc' \in [Worker -> Work]
    BY <1>10, Held DEF Load
  <2> QED
    BY <1>10, <2>1, Held DEF Load
<1>11. ASSUME NEW w \in Worker, Refresh(w)
     PROVE  TypeOK'
  <2>1. proc' \in [Worker -> Work]
    BY <1>11, Held, Tokens DEF Refresh
  <2> QED
    BY <1>11, <2>1, Held DEF Refresh
<1>12. ASSUME NEW w \in Worker, RefreshFails(w)
     PROVE  TypeOK'
  <2>1. faults' \in 0..MaxFaults
    BY <1>12, Held, FaultAssumption DEF RefreshFails
  <2> QED
    BY <1>12, <2>1, Held DEF RefreshFails
<1>13. ASSUME NEW w \in Worker, StoreToken(w)
     PROVE  TypeOK'
  BY <1>13, Held DEF StoreToken
<1>14. ASSUME NEW w \in Worker, DropToken(w)
     PROVE  TypeOK'
  BY <1>14, Held DEF DropToken
<1>15. ASSUME NEW w \in Worker, Send(w)
     PROVE  TypeOK'
  <2>1. CASE Finish(w)
    BY <1>15, <2>1, Held DEF Send
  <2>2. CASE Start(w, "load", proc[w].user, NoToken, TRUE)
    <3>1. proc' \in [Worker -> Work]
      BY <2>2, Held
    <3> QED
      BY <1>15, <3>1, Held DEF Send
  <2> QED
    BY <1>15, <2>1, <2>2 DEF Send
<1>16. ASSUME NEW w \in Worker, NEW u \in User, Launch(w, u)
     PROVE  TypeOK'
  BY <1>16, Held DEF Launch
<1>17. ASSUME NEW w \in Worker, NEW u \in User, Callback(w, u)
     PROVE  TypeOK'
  BY <1>17, Held DEF Callback
<1>18. ASSUME NEW w \in Worker, NEW u \in User, Call(w, u)
     PROVE  TypeOK'
  BY <1>18, Held DEF Call
<1>19. ASSUME NEW u \in User, Authorize(u)
     PROVE  TypeOK'
  BY <1>19, Held DEF Authorize
<1>20. ASSUME NEW u \in User, EraseToken(u)
     PROVE  TypeOK'
  BY <1>20, Held DEF EraseToken
<1>21. ASSUME NEW u \in User, Expire(u)
     PROVE  TypeOK'
  <2>1. token' \in [User -> Token \cup {NoToken}]
    BY <1>21, Held, Tokens DEF Expire
  <2> QED
    BY <1>21, <2>1, Held DEF Expire
<1>22. ASSUME NEW u \in User, Lapse(u)
     PROVE  TypeOK'
  BY <1>22, Held DEF Lapse
<1>23. ASSUME NEW g \in Grant, Withdraw(g)
     PROVE  TypeOK'
  BY <1>23, Held DEF Withdraw
<1>24. CASE MarkRevoked
  BY <1>24, Held DEF MarkRevoked
<1>25. CASE ClearRevoked
  BY <1>25, Held DEF ClearRevoked
<1>26. CASE EraseSession
  BY <1>26, Held DEF EraseSession
<1>27. CASE Abort
  <2>1. faults' \in 0..MaxFaults
    BY <1>27, FaultAssumption DEF Abort
  <2>2. proc' \in [Worker -> Work]
    <3>1. Idle \in Work
      BY DEF Idle
    <3> QED
      BY <1>27, <3>1, Held DEF Abort
  <2> QED
    BY <1>27, <2>1, <2>2 DEF Abort
<1>28. CASE UNCHANGED vars
  BY <1>28 DEF vars
<1>29. QED
  BY <1>1, <1>2, <1>3, <1>4, <1>5, <1>6, <1>7, <1>8, <1>9, <1>10, <1>11, <1>12,
     <1>13, <1>14, <1>15, <1>16, <1>17, <1>18, <1>19, <1>20, <1>21, <1>22,
     <1>23, <1>24,
     <1>25, <1>26, <1>27, <1>28
     DEF Next, WorkerStep

\* No launch comes to act on "not revoked" while the bar stands.
LEMMA BarredStep ==
    ASSUME TypeOK, BarredInv, [Next]_vars
    PROVE  BarredInv'
<1> USE
   DEF TypeOK, BarredInv, LaunchUnaware, Launching, platform, canvas,
       history, Start, Hold, Goto, Finish, Idle
<1>1. ASSUME NEW w \in Worker, LaunchRead(w)
     PROVE  BarredInv'
  BY <1>1 DEF LaunchRead
<1>2. ASSUME NEW w \in Worker, LaunchWrite(w)
     PROVE  BarredInv'
  BY <1>2 DEF LaunchWrite
<1>3. ASSUME NEW w \in Worker, LaunchSeen(w)
     PROVE  BarredInv'
  BY <1>3 DEF LaunchSeen
<1>4. ASSUME NEW w \in Worker, RegistryFails(w)
     PROVE  BarredInv'
  BY <1>4 DEF RegistryFails
<1>5. ASSUME NEW w \in Worker, LaunchGate(w)
     PROVE  BarredInv'
  BY <1>5 DEF LaunchGate
<1>6. ASSUME NEW w \in Worker, Forget(w)
     PROVE  BarredInv'
  BY <1>6 DEF Forget
<1>7. ASSUME NEW w \in Worker, Exchange(w)
     PROVE  BarredInv'
  <2>1. CASE Finish(w) /\ UNCHANGED canvas
    BY <1>7, <2>1 DEF Exchange
  <2>2. ASSUME proc[w].user \in session, NEW g \in Grant, Granted(w, g)
        PROVE  BarredInv'
    BY <1>7, <2>2, Tokens DEF Exchange, Granted
  <2> QED
    BY <1>7, <2>1, <2>2 DEF Exchange
<1>8. ASSUME NEW w \in Worker, Keep(w)
     PROVE  BarredInv'
  BY <1>8 DEF Keep
<1>9. ASSUME NEW w \in Worker, Claim(w)
     PROVE  BarredInv'
  BY <1>9 DEF Claim
<1>10. ASSUME NEW w \in Worker, Load(w)
     PROVE  BarredInv'
  BY <1>10 DEF Load
<1>11. ASSUME NEW w \in Worker, Refresh(w)
     PROVE  BarredInv'
  BY <1>11 DEF Refresh
<1>12. ASSUME NEW w \in Worker, RefreshFails(w)
     PROVE  BarredInv'
  BY <1>12 DEF RefreshFails
<1>13. ASSUME NEW w \in Worker, StoreToken(w)
     PROVE  BarredInv'
  BY <1>13 DEF StoreToken
<1>14. ASSUME NEW w \in Worker, DropToken(w)
     PROVE  BarredInv'
  BY <1>14 DEF DropToken
<1>15. ASSUME NEW w \in Worker, Send(w)
     PROVE  BarredInv'
  BY <1>15 DEF Send
<1>16. ASSUME NEW w \in Worker, NEW u \in User, Launch(w, u)
     PROVE  BarredInv'
  BY <1>16 DEF Launch
<1>17. ASSUME NEW w \in Worker, NEW u \in User, Callback(w, u)
     PROVE  BarredInv'
  BY <1>17 DEF Callback
<1>18. ASSUME NEW w \in Worker, NEW u \in User, Call(w, u)
     PROVE  BarredInv'
  BY <1>18 DEF Call
<1>19. ASSUME NEW u \in User, Authorize(u)
     PROVE  BarredInv'
  BY <1>19 DEF Authorize
<1>20. ASSUME NEW u \in User, EraseToken(u)
     PROVE  BarredInv'
  BY <1>20 DEF EraseToken
<1>21. ASSUME NEW u \in User, Expire(u)
     PROVE  BarredInv'
  BY <1>21 DEF Expire
<1>22. ASSUME NEW u \in User, Lapse(u)
     PROVE  BarredInv'
  BY <1>22 DEF Lapse
<1>23. ASSUME NEW g \in Grant, Withdraw(g)
     PROVE  BarredInv'
  BY <1>23 DEF Withdraw
<1>24. CASE MarkRevoked
  BY <1>24 DEF MarkRevoked
<1>25. CASE ClearRevoked
  BY <1>25 DEF ClearRevoked
<1>26. CASE EraseSession
  BY <1>26 DEF EraseSession
<1>27. CASE Abort
  BY <1>27 DEF Abort
<1>28. CASE UNCHANGED vars
  BY <1>28 DEF vars
<1>29. QED
  BY <1>1, <1>2, <1>3, <1>4, <1>5, <1>6, <1>7, <1>8, <1>9, <1>10, <1>11, <1>12,
     <1>13, <1>14, <1>15, <1>16, <1>17, <1>18, <1>19, <1>20, <1>21, <1>22,
     <1>23, <1>24,
     <1>25, <1>26, <1>27, <1>28
     DEF Next, WorkerStep

\* The tokens of a safe user remain renewable.
LEMMA SafeStep ==
    ASSUME TypeOK, HeldInv, SafeInv, [Next]_vars
    PROVE  SafeInv'
<1> USE
   DEF TypeOK, HeldInv, Holds, SafeInv, Good, platform, canvas, history,
       Start, Hold, Goto, Finish, Idle
<1>1. ASSUME NEW w \in Worker, LaunchRead(w)
     PROVE  SafeInv'
  BY <1>1, UserAssumption, TokenAssumption DEF LaunchRead
<1>2. ASSUME NEW w \in Worker, LaunchWrite(w)
     PROVE  SafeInv'
  BY <1>2, UserAssumption, TokenAssumption DEF LaunchWrite
<1>3. ASSUME NEW w \in Worker, LaunchSeen(w)
     PROVE  SafeInv'
  BY <1>3, UserAssumption, TokenAssumption DEF LaunchSeen
<1>4. ASSUME NEW w \in Worker, RegistryFails(w)
     PROVE  SafeInv'
  BY <1>4, UserAssumption, TokenAssumption DEF RegistryFails
<1>5. ASSUME NEW w \in Worker, LaunchGate(w)
     PROVE  SafeInv'
  BY <1>5, UserAssumption, TokenAssumption DEF LaunchGate
<1>6. ASSUME NEW w \in Worker, Forget(w)
     PROVE  SafeInv'
  BY <1>6, UserAssumption, TokenAssumption DEF Forget
<1>7. ASSUME NEW w \in Worker, Exchange(w)
     PROVE  SafeInv'
  <2>1. CASE Finish(w) /\ UNCHANGED canvas
    BY <1>7, <2>1, UserAssumption, TokenAssumption DEF Exchange
  <2>2. ASSUME proc[w].user \in session, NEW g \in Grant, Granted(w, g)
        PROVE  SafeInv'
    BY <1>7, <2>2, Tokens, UserAssumption, TokenAssumption DEF Exchange, Granted
  <2> QED
    BY <1>7, <2>1, <2>2 DEF Exchange
<1>8. ASSUME NEW w \in Worker, Keep(w)
     PROVE  SafeInv'
  BY <1>8, UserAssumption, TokenAssumption DEF Keep, Shared
<1>9. ASSUME NEW w \in Worker, Claim(w)
     PROVE  SafeInv'
  BY <1>9, UserAssumption, TokenAssumption DEF Claim
<1>10. ASSUME NEW w \in Worker, Load(w)
     PROVE  SafeInv'
  BY <1>10, UserAssumption, TokenAssumption DEF Load
<1>11. ASSUME NEW w \in Worker, Refresh(w)
     PROVE  SafeInv'
  BY <1>11, UserAssumption, Tokens DEF Refresh
<1>12. ASSUME NEW w \in Worker, RefreshFails(w)
     PROVE  SafeInv'
  BY <1>12, UserAssumption, TokenAssumption DEF RefreshFails
<1>13. ASSUME NEW w \in Worker, StoreToken(w)
     PROVE  SafeInv'
  BY <1>13, UserAssumption, TokenAssumption DEF StoreToken
<1>14. ASSUME NEW w \in Worker, DropToken(w)
     PROVE  SafeInv'
  BY <1>14, UserAssumption, TokenAssumption DEF DropToken
<1>15. ASSUME NEW w \in Worker, Send(w)
     PROVE  SafeInv'
  BY <1>15, UserAssumption, TokenAssumption DEF Send
<1>16. ASSUME NEW w \in Worker, NEW u \in User, Launch(w, u)
     PROVE  SafeInv'
  BY <1>16, UserAssumption, TokenAssumption DEF Launch
<1>17. ASSUME NEW w \in Worker, NEW u \in User, Callback(w, u)
     PROVE  SafeInv'
  BY <1>17, UserAssumption, TokenAssumption DEF Callback
<1>18. ASSUME NEW w \in Worker, NEW u \in User, Call(w, u)
     PROVE  SafeInv'
  BY <1>18, UserAssumption, TokenAssumption DEF Call
<1>19. ASSUME NEW u \in User, Authorize(u)
     PROVE  SafeInv'
  BY <1>19, UserAssumption, TokenAssumption DEF Authorize
<1>20. ASSUME NEW u \in User, EraseToken(u)
     PROVE  SafeInv'
  BY <1>20, UserAssumption, TokenAssumption DEF EraseToken
<1>21. ASSUME NEW u \in User, Expire(u)
     PROVE  SafeInv'
  BY <1>21, UserAssumption, Tokens DEF Expire
<1>22. ASSUME NEW u \in User, Lapse(u)
     PROVE  SafeInv'
  BY <1>22, UserAssumption, TokenAssumption DEF Lapse
<1>23. ASSUME NEW g \in Grant, Withdraw(g)
     PROVE  SafeInv'
  BY <1>23, UserAssumption, TokenAssumption DEF Withdraw
<1>24. CASE MarkRevoked
  BY <1>24, UserAssumption, TokenAssumption DEF MarkRevoked
<1>25. CASE ClearRevoked
  BY <1>25, UserAssumption, TokenAssumption DEF ClearRevoked
<1>26. CASE EraseSession
  BY <1>26, UserAssumption, TokenAssumption DEF EraseSession
<1>27. CASE Abort
  BY <1>27, UserAssumption, TokenAssumption DEF Abort
<1>28. CASE UNCHANGED vars
  BY <1>28 DEF vars
<1>29. QED
  BY <1>1, <1>2, <1>3, <1>4, <1>5, <1>6, <1>7, <1>8, <1>9, <1>10, <1>11, <1>12,
     <1>13, <1>14, <1>15, <1>16, <1>17, <1>18, <1>19, <1>20, <1>21, <1>22,
     <1>23, <1>24,
     <1>25, <1>26, <1>27, <1>28
     DEF Next, WorkerStep

\* Workers hold tokens of their own users.
LEMMA HeldStep ==
    ASSUME TypeOK, HeldInv, [Next]_vars
    PROVE  HeldInv'
<1> USE
   DEF TypeOK, HeldInv, Holds, platform, canvas, history, Start, Hold,
       Goto, Finish, Idle
<1>1. ASSUME NEW w \in Worker, LaunchRead(w)
     PROVE  HeldInv'
  BY <1>1, UserAssumption, TokenAssumption DEF LaunchRead
<1>2. ASSUME NEW w \in Worker, LaunchWrite(w)
     PROVE  HeldInv'
  BY <1>2, UserAssumption, TokenAssumption DEF LaunchWrite
<1>3. ASSUME NEW w \in Worker, LaunchSeen(w)
     PROVE  HeldInv'
  BY <1>3, UserAssumption, TokenAssumption DEF LaunchSeen
<1>4. ASSUME NEW w \in Worker, RegistryFails(w)
     PROVE  HeldInv'
  BY <1>4, UserAssumption, TokenAssumption DEF RegistryFails
<1>5. ASSUME NEW w \in Worker, LaunchGate(w)
     PROVE  HeldInv'
  BY <1>5, UserAssumption, TokenAssumption DEF LaunchGate
<1>6. ASSUME NEW w \in Worker, Forget(w)
     PROVE  HeldInv'
  BY <1>6, UserAssumption, TokenAssumption DEF Forget
<1>7. ASSUME NEW w \in Worker, Exchange(w)
     PROVE  HeldInv'
  <2>1. CASE Finish(w) /\ UNCHANGED canvas
    BY <1>7, <2>1, UserAssumption DEF Exchange
  <2>2. ASSUME NEW g \in Grant, Granted(w, g)
        PROVE  HeldInv'
    <3>1. /\ proc[w].user \in User /\ issued'[g] = proc[w].user
          /\ \A h \in Grant : issued[h] # NoUser => issued'[h] = issued[h]
      BY <1>7, <2>2 DEF Exchange, Granted
    <3>2. /\ proc'[w].user = proc[w].user /\ proc'[w].token = Issue(g, TRUE)
          /\ \A v \in Worker : v # w => proc'[v] = proc[v]
      BY <2>2 DEF Granted
    <3>3. \A t \in Token : t.grant \in Grant /\ t # NoToken
      BY TokenAssumption DEF Token
    <3>4. token' = token /\ honoured' = honoured \cup {g}
      BY <1>7, <2>2 DEF Exchange, Granted
    <3>5. \A u \in User : token'[u] # NoToken => issued'[token'[u].grant] = u
      BY <3>1, <3>3, <3>4, UserAssumption
    <3>6. \A h \in honoured' : issued'[h] \in User
      BY <3>1, <3>4, UserAssumption
    <3>7. \A v \in Worker : Holds(v)'
      <4> SUFFICES ASSUME NEW v \in Worker PROVE Holds(v)'
        OBVIOUS
      <4>1. CASE v = w
        <5>1. /\ Issue(g, TRUE) \in Token /\ Issue(g, TRUE).grant = g
              /\ Issue(g, TRUE).renewable
          BY Tokens
        <5> QED
          BY <3>1, <3>2, <4>1, <5>1 DEF Holds
      <4>2. CASE v # w
        <5>1. Holds(v) /\ proc'[v] = proc[v]
          BY <3>2, <4>2 DEF Holds
        <5> QED
          BY <3>1, <3>3, <5>1, UserAssumption DEF Holds
      <4> QED
        BY <4>1, <4>2
    <3> QED
      BY <3>5, <3>6, <3>7
  <2> QED
    BY <1>7, <2>1, <2>2 DEF Exchange
<1>8. ASSUME NEW w \in Worker, Keep(w)
     PROVE  HeldInv'
  BY <1>8, UserAssumption, TokenAssumption DEF Keep
<1>9. ASSUME NEW w \in Worker, Claim(w)
     PROVE  HeldInv'
  BY <1>9, UserAssumption, TokenAssumption DEF Claim
<1>10. ASSUME NEW w \in Worker, Load(w)
     PROVE  HeldInv'
  BY <1>10, UserAssumption, TokenAssumption DEF Load
<1>11. ASSUME NEW w \in Worker, Refresh(w)
     PROVE  HeldInv'
  BY <1>11, UserAssumption, Tokens DEF Refresh
<1>12. ASSUME NEW w \in Worker, RefreshFails(w)
     PROVE  HeldInv'
  BY <1>12, UserAssumption, TokenAssumption DEF RefreshFails
<1>13. ASSUME NEW w \in Worker, StoreToken(w)
     PROVE  HeldInv'
  BY <1>13, UserAssumption, TokenAssumption DEF StoreToken
<1>14. ASSUME NEW w \in Worker, DropToken(w)
     PROVE  HeldInv'
  BY <1>14, UserAssumption, TokenAssumption DEF DropToken
<1>15. ASSUME NEW w \in Worker, Send(w)
     PROVE  HeldInv'
  BY <1>15, UserAssumption, TokenAssumption DEF Send
<1>16. ASSUME NEW w \in Worker, NEW u \in User, Launch(w, u)
     PROVE  HeldInv'
  BY <1>16, UserAssumption, TokenAssumption DEF Launch
<1>17. ASSUME NEW w \in Worker, NEW u \in User, Callback(w, u)
     PROVE  HeldInv'
  BY <1>17, UserAssumption, TokenAssumption DEF Callback
<1>18. ASSUME NEW w \in Worker, NEW u \in User, Call(w, u)
     PROVE  HeldInv'
  BY <1>18, UserAssumption, TokenAssumption DEF Call
<1>19. ASSUME NEW u \in User, Authorize(u)
     PROVE  HeldInv'
  BY <1>19, UserAssumption, TokenAssumption DEF Authorize
<1>20. ASSUME NEW u \in User, EraseToken(u)
     PROVE  HeldInv'
  BY <1>20, UserAssumption, TokenAssumption DEF EraseToken
<1>21. ASSUME NEW u \in User, Expire(u)
     PROVE  HeldInv'
  BY <1>21, UserAssumption, Tokens DEF Expire
<1>22. ASSUME NEW u \in User, Lapse(u)
     PROVE  HeldInv'
  BY <1>22, UserAssumption, TokenAssumption DEF Lapse
<1>23. ASSUME NEW g \in Grant, Withdraw(g)
     PROVE  HeldInv'
  BY <1>23, UserAssumption, TokenAssumption DEF Withdraw
<1>24. CASE MarkRevoked
  BY <1>24, UserAssumption, TokenAssumption DEF MarkRevoked
<1>25. CASE ClearRevoked
  BY <1>25, UserAssumption, TokenAssumption DEF ClearRevoked
<1>26. CASE EraseSession
  BY <1>26, UserAssumption, TokenAssumption DEF EraseSession
<1>27. CASE Abort
  BY <1>27, UserAssumption, TokenAssumption DEF Abort
<1>28. CASE UNCHANGED vars
  BY <1>28 DEF vars
<1>29. QED
  BY <1>1, <1>2, <1>3, <1>4, <1>5, <1>6, <1>7, <1>8, <1>9, <1>10, <1>11, <1>12,
     <1>13, <1>14, <1>15, <1>16, <1>17, <1>18, <1>19, <1>20, <1>21, <1>22,
     <1>23, <1>24,
     <1>25, <1>26, <1>27, <1>28
     DEF Next, WorkerStep

\* Nobody starts to work for a forgotten user.
LEMMA ForgottenStep ==
    ASSUME TypeOK, HeldInv, ForgottenInv, [Next]_vars
    PROVE  ForgottenInv'
<1> USE
   DEF TypeOK, HeldInv, Holds, ForgottenInv, platform, canvas, history,
       Start, Hold, Goto, Finish, Idle
<1>1. ASSUME NEW w \in Worker, LaunchRead(w)
     PROVE  ForgottenInv'
  BY <1>1, UserAssumption DEF LaunchRead
<1>2. ASSUME NEW w \in Worker, LaunchWrite(w)
     PROVE  ForgottenInv'
  BY <1>2, UserAssumption DEF LaunchWrite
<1>3. ASSUME NEW w \in Worker, LaunchSeen(w)
     PROVE  ForgottenInv'
  BY <1>3, UserAssumption DEF LaunchSeen
<1>4. ASSUME NEW w \in Worker, RegistryFails(w)
     PROVE  ForgottenInv'
  BY <1>4, UserAssumption DEF RegistryFails
<1>5. ASSUME NEW w \in Worker, LaunchGate(w)
     PROVE  ForgottenInv'
  BY <1>5, UserAssumption DEF LaunchGate
<1>6. ASSUME NEW w \in Worker, Forget(w)
     PROVE  ForgottenInv'
  BY <1>6, UserAssumption DEF Forget
<1>7. ASSUME NEW w \in Worker, Exchange(w)
     PROVE  ForgottenInv'
  <2>1. CASE Finish(w) /\ UNCHANGED canvas
    BY <1>7, <2>1, UserAssumption DEF Exchange
  <2>2. ASSUME proc[w].user \in session, NEW g \in Grant, Granted(w, g)
        PROVE  ForgottenInv'
    BY <1>7, <2>2, Tokens, UserAssumption DEF Exchange, Granted
  <2> QED
    BY <1>7, <2>1, <2>2 DEF Exchange
<1>8. ASSUME NEW w \in Worker, Keep(w)
     PROVE  ForgottenInv'
  BY <1>8, UserAssumption DEF Keep
<1>9. ASSUME NEW w \in Worker, Claim(w)
     PROVE  ForgottenInv'
  BY <1>9, UserAssumption DEF Claim
<1>10. ASSUME NEW w \in Worker, Load(w)
     PROVE  ForgottenInv'
  BY <1>10, UserAssumption DEF Load
<1>11. ASSUME NEW w \in Worker, Refresh(w)
     PROVE  ForgottenInv'
  BY <1>11, UserAssumption DEF Refresh
<1>12. ASSUME NEW w \in Worker, RefreshFails(w)
     PROVE  ForgottenInv'
  BY <1>12, UserAssumption DEF RefreshFails
<1>13. ASSUME NEW w \in Worker, StoreToken(w)
     PROVE  ForgottenInv'
  BY <1>13, UserAssumption DEF StoreToken
<1>14. ASSUME NEW w \in Worker, DropToken(w)
     PROVE  ForgottenInv'
  BY <1>14, UserAssumption DEF DropToken
<1>15. ASSUME NEW w \in Worker, Send(w)
     PROVE  ForgottenInv'
  BY <1>15, UserAssumption DEF Send
<1>16. ASSUME NEW w \in Worker, NEW u \in User, Launch(w, u)
     PROVE  ForgottenInv'
  BY <1>16, UserAssumption DEF Launch
<1>17. ASSUME NEW w \in Worker, NEW u \in User, Callback(w, u)
     PROVE  ForgottenInv'
  BY <1>17, UserAssumption DEF Callback
<1>18. ASSUME NEW w \in Worker, NEW u \in User, Call(w, u)
     PROVE  ForgottenInv'
  BY <1>18, UserAssumption DEF Call
<1>19. ASSUME NEW u \in User, Authorize(u)
     PROVE  ForgottenInv'
  BY <1>19, UserAssumption DEF Authorize
<1>20. ASSUME NEW u \in User, EraseToken(u)
     PROVE  ForgottenInv'
  BY <1>20, UserAssumption DEF EraseToken
<1>21. ASSUME NEW u \in User, Expire(u)
     PROVE  ForgottenInv'
  BY <1>21, UserAssumption DEF Expire
<1>22. ASSUME NEW u \in User, Lapse(u)
     PROVE  ForgottenInv'
  BY <1>22, UserAssumption DEF Lapse
<1>23. ASSUME NEW g \in Grant, Withdraw(g)
     PROVE  ForgottenInv'
  BY <1>23, UserAssumption DEF Withdraw
<1>24. CASE MarkRevoked
  BY <1>24, UserAssumption DEF MarkRevoked
<1>25. CASE ClearRevoked
  BY <1>25, UserAssumption DEF ClearRevoked
<1>26. CASE EraseSession
  BY <1>26, UserAssumption DEF EraseSession
<1>27. CASE Abort
  BY <1>27, UserAssumption DEF Abort
<1>28. CASE UNCHANGED vars
  BY <1>28 DEF vars
<1>29. QED
  BY <1>1, <1>2, <1>3, <1>4, <1>5, <1>6, <1>7, <1>8, <1>9, <1>10, <1>11, <1>12,
     <1>13, <1>14, <1>15, <1>16, <1>17, <1>18, <1>19, <1>20, <1>21, <1>22,
     <1>23, <1>24,
     <1>25, <1>26, <1>27, <1>28
     DEF Next, WorkerStep

-----------------------------------------------------------------------------
(* The theorems. *)

\* The invariant holds at the start.
LEMMA InitInv == Init => IInv
<1> SUFFICES ASSUME Init PROVE IInv
  OBVIOUS
<1> USE DEF Init
<1>1. TypeOK
  <2>1. token \in [User -> Token \cup {NoToken}]
    OBVIOUS
  <2>2. Idle \in Work
    BY DEF Idle, Work, At
  <2>3. faults \in 0..MaxFaults
    BY FaultAssumption
  <2> QED
    BY <2>1, <2>2, <2>3 DEF TypeOK
<1>2. BarredInv /\ SafeInv /\ HeldInv /\ ForgottenInv
  BY DEF BarredInv, SafeInv, HeldInv, Holds, ForgottenInv, Idle
<1> QED
  BY <1>1, <1>2 DEF IInv

\* Every reachable state satisfies the inductive invariant.
THEOREM Inductive == Spec => []IInv
<1>1. IInv /\ [Next]_vars => IInv'
  BY TypeStep, BarredStep, SafeStep, HeldStep, ForgottenStep DEF IInv
<1> QED
  BY <1>1, InitInv, PTL DEF Spec

\* A revocation no launch overlapped stands until it is lifted.
THEOREM RevocationIsKept == Spec => []RevocationStands
<1>1. IInv => RevocationStands
  BY DEF IInv, BarredInv, RevocationStands
<1> QED
  BY <1>1, Inductive, PTL

\* While it stands no launch opens a session.
THEOREM NobodyAdmitted == Spec => RevokedAdmitsNobody
<1>1. IInv /\ [Next]_vars => (barred /\ barred' => session' \subseteq session)
  <2> SUFFICES ASSUME IInv, [Next]_vars, barred
               PROVE  session' \subseteq session
    OBVIOUS
  <2>1. ASSUME NEW w \in Worker, LaunchGate(w)
        PROVE  session' \subseteq session
    BY <2>1 DEF LaunchGate, IInv, BarredInv, LaunchUnaware, Launching
  <2> QED
    BY <2>1 DEF Next, WorkerStep, vars, platform, canvas, history, Launch,
       LaunchRead, LaunchWrite, LaunchSeen, RegistryFails, Authorize, Callback,
       Forget, Exchange, Keep, Claim, Call, Load, Refresh, RefreshFails,
       StoreToken, DropToken, Send, MarkRevoked, ClearRevoked, EraseToken,
       EraseSession, Withdraw, Expire, Lapse, Abort
<1> QED
  BY <1>1, Inductive, PTL DEF Spec, RevokedAdmitsNobody

\* An authorization no failed refresh, withdrawal or erasure touched is kept.
THEOREM AuthorizationIsKept == Spec => []AuthorizationKept
<1>1. IInv => AuthorizationKept
  BY DEF IInv, SafeInv, AuthorizationKept
<1> QED
  BY <1>1, Inductive, PTL

\* An erased user nobody was working for stays erased until the next launch.
THEOREM ErasureIsKept == Spec => []ErasureStands
<1>1. IInv => ErasureStands
  BY DEF IInv, ForgottenInv, ErasureStands
<1> QED
  BY <1>1, Inductive, PTL

=============================================================================
