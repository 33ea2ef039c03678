------------------------- MODULE ServiceCallsProofs -------------------------
(***************************************************************************)
(* Proofs that each window of the rate limiter lets through its limit and  *)
(* that a task gives up only on a token minted for it, for any callers,    *)
(* calls, attempts, limit and faults.                                      *)
(***************************************************************************)
EXTENDS ServiceCalls, TLAPS

(***************************************************************************)
(* The inductive invariant.                                                *)
(***************************************************************************)

\* One if a POST has counted in the window and has or will have no answer.
Owed(w) == IF w \in wasted \/ Waiting(w) # {} THEN 1 ELSE 0

\* What the counter says of the quota.
Used(w) == IF count[w] < Limit THEN count[w] ELSE Limit

Untouched(w) == passed[w] = 0 /\ w \notin wasted /\ w \notin turned
Closed(w) == w < clock /\ \A c \in Caller : task[c].at \in Entering => task[c].window # w

WindowInv(w) ==
    /\ Waiting(w) # {} => count[w] > 0 /\ w \notin wasted
    /\ count[w] = 0 => Untouched(w) \/ Closed(w)
    /\ count[w] > 0 =>
        /\ passed[w] + Owed(w) = Used(w)
        /\ w \in turned => count[w] >= Limit
        /\ w \in expiring \/ Owed(w) = 1
    /\ passed[w] <= Limit
    /\ w \in turned => passed[w] + Owed(w) = Limit

\* One POST of a window at most is between INCR and EXPIRE.
OneWaits ==
    \A c, d \in Caller :
        task[c].at = "expire" /\ task[d].at = "expire" /\ task[c].window = task[d].window
            => c = d

\* The second request of a call carries a token minted for it.
FreshTask(t) ==
    /\ t.at \in {"read", "load"} => ~t.again
    /\ t.at \in {"store", "request"} /\ t.again => t.fresh
FreshInv == \A c \in Caller : FreshTask(task[c])

IInv == TypeOK /\ FreshInv /\ OneWaits /\ \A w \in Window : WindowInv(w)

(***************************************************************************)
(* The parts the steps are made of.                                        *)
(***************************************************************************)

\* What moving one task does.
LEMMA Moved ==
    ASSUME TypeOK, NEW c \in Caller, NEW t \in Task, Set(c, t)
    PROVE  /\ task' \in [Caller -> Task]
           /\ task'[c] = t
           /\ \A d \in Caller : d # c => task'[d] = task[d]
BY DEF TypeOK, Set

\* The tasks there are, at rest and on their way.
LEMMA Tasks ==
    ASSUME TypeOK
    PROVE  /\ Idle \in Task
           /\ \A c \in Caller : task[c] \in Task
           /\ [Idle EXCEPT !.at = "read"] \in Task
           /\ [Idle EXCEPT !.at = "count", !.window = clock] \in Task
<1>1. clock \in Window /\ 0 \in Window
  BY BoundAssumption DEF TypeOK, Window
<1>2. Idle \in Task
  BY <1>1 DEF Idle, Task
<1> QED
  BY <1>1, <1>2 DEF TypeOK, Task, Entering

\* One more fault is still within the bound.
LEMMA Faults ==
    ASSUME TypeOK, Fault
    PROVE  faults' \in 0..MaxFaults
BY BoundAssumption DEF TypeOK, Fault

\* A step that leaves limiter and history alone, and takes nobody to EXPIRE or
\* from it, keeps what is known of the windows.
LEMMA Quiet ==
    ASSUME TypeOK, OneWaits, \A w \in Window : WindowInv(w),
           UNCHANGED <<limiter, history>>,
           \A c \in Caller :
               /\ task[c].at = "expire" \/ task'[c].at = "expire" =>
                    task'[c].at = task[c].at /\ task'[c].window = task[c].window
               /\ task'[c].at = "count" =>
                    \/ task[c].at = "count" /\ task'[c].window = task[c].window
                    \/ task'[c].window = clock
    PROVE  OneWaits' /\ \A w \in Window : WindowInv(w)'
<1>1. OneWaits'
  BY DEF OneWaits
<1>2. ASSUME NEW w \in Window
      PROVE  WindowInv(w)'
  <2>1. Waiting(w)' = Waiting(w)
    BY DEF Waiting
  <2>2. Owed(w)' = Owed(w) /\ Used(w)' = Used(w) /\ (Untouched(w) => Untouched(w)')
    BY <2>1 DEF Owed, Used, Untouched, limiter, history
  <2>3. Closed(w) => Closed(w)'
    BY DEF Closed, Entering, limiter, TypeOK, Window
  <2> QED
    BY <2>1, <2>2, <2>3 DEF WindowInv, limiter, history
<1> QED
  BY <1>1, <1>2

\* A task goes on outside the limiter.
LEMMA Advance ==
    ASSUME IInv, NEW c \in Caller, NEW t \in Task, Set(c, t), FreshTask(t),
           task[c].at # "expire", t.at \notin Entering,
           UNCHANGED <<limiter, history>>,
           cache' \in Token \cup {NoToken}, withdrawn' \subseteq Token,
           revoked' \in BOOLEAN, faults' \in 0..MaxFaults
    PROVE  IInv'
<1>1. /\ task' \in [Caller -> Task]
      /\ task'[c] = t
      /\ \A d \in Caller : d # c => task'[d] = task[d]
  BY Moved DEF IInv
<1>2. TypeOK' /\ FreshInv'
  BY <1>1 DEF IInv, TypeOK, FreshInv, limiter, history
<1>3. \A d \in Caller :
        /\ task[d].at = "expire" \/ task'[d].at = "expire" =>
             task'[d].at = task[d].at /\ task'[d].window = task[d].window
        /\ task'[d].at = "count" =>
             \/ task[d].at = "count" /\ task'[d].window = task[d].window
             \/ task'[d].window = clock
  BY <1>1 DEF Entering
<1>4. OneWaits' /\ \A w \in Window : WindowInv(w)'
  BY <1>3, Quiet DEF IInv
<1> QED
  BY <1>2, <1>4 DEF IInv

\* A task starts a call anew, or goes on to the next.
LEMMA Begun ==
    ASSUME IInv, NEW c \in Caller, NEW left \in Nat, NEW t \in Nat, Begin(c, left, t),
           task[c].at # "expire",
           UNCHANGED <<limiter, tokens, revoked, history>>, faults' \in 0..MaxFaults
    PROVE  IInv'
<1> DEFINE next == [task[c] EXCEPT !.at = "load", !.left = left, !.try = t,
                        !.token = NoToken, !.again = FALSE, !.fresh = FALSE]
<1>1. task[c] \in Task
  BY DEF IInv, TypeOK
<1>2. next \in Task /\ FreshTask(next) /\ next.at \notin Entering
  BY <1>1 DEF Task, Calling, FreshTask, Entering
<1>3. Set(c, next)
  BY DEF Begin
<1>4. cache' \in Token \cup {NoToken} /\ withdrawn' \subseteq Token /\ revoked' \in BOOLEAN
  BY DEF IInv, TypeOK, tokens
<1> HIDE DEF next
<1> QED
  BY <1>2, <1>3, <1>4, Advance

\* A task ends outside the limiter.
LEMMA Finished ==
    ASSUME IInv, NEW c \in Caller, Finish(c), task[c].at # "expire",
           UNCHANGED <<limiter, tokens, revoked, history>>, faults' \in 0..MaxFaults
    PROVE  IInv'
<1>1. Idle \in Task /\ FreshTask(Idle) /\ Idle.at \notin Entering
  BY Tasks DEF IInv, FreshTask, Idle, Entering
<1>2. cache' \in Token \cup {NoToken} /\ withdrawn' \subseteq Token /\ revoked' \in BOOLEAN
  BY DEF IInv, TypeOK, tokens
<1> QED
  BY <1>1, <1>2, Advance DEF Finish

\* A window whose first POST dies keeps its debt.
LEMMA Wasted ==
    ASSUME TypeOK, OneWaits, \A w \in Window : WindowInv(w),
           UNCHANGED <<limiter, passed, turned>>,
           \A d \in Caller : task'[d].at \in Entering => task'[d] = task[d],
           \A w \in Window :
               w \in wasted' <=> \/ w \in wasted
                                 \/ \E d \in Caller : /\ task[d].at = "expire"
                                                      /\ task[d].window = w
                                                      /\ task'[d] # task[d],
           wasted' \subseteq Window
    PROVE  OneWaits' /\ \A w \in Window : WindowInv(w)'
<1>1. OneWaits'
  BY DEF OneWaits, Entering
<1>2. ASSUME NEW w \in Window
      PROVE  WindowInv(w)'
  <2>1. Waiting(w)' \subseteq Waiting(w)
    BY DEF Waiting, Entering
  <2>2. Waiting(w)' # {} => w \notin wasted'
    <3> SUFFICES ASSUME NEW d \in Waiting(w)', w \in wasted'
                 PROVE  FALSE
      OBVIOUS
    <3>1. d \in Waiting(w) /\ task'[d] = task[d]
      BY <2>1 DEF Waiting, Entering
    <3>2. w \notin wasted
      BY <3>1 DEF WindowInv
    <3>3. PICK e \in Caller : task[e].at = "expire" /\ task[e].window = w /\ task'[e] # task[e]
      BY <3>2
    <3> QED
      BY <3>1, <3>3 DEF OneWaits, Waiting
  <2>3. Waiting(w) # {} => Waiting(w)' # {} \/ w \in wasted'
    BY DEF Waiting
  <2>4. w \in wasted' => w \in wasted \/ Waiting(w) # {}
    BY DEF Waiting
  <2>5. Owed(w)' = Owed(w)
    BY <2>1, <2>3, <2>4 DEF Owed
  <2>6. Used(w)' = Used(w)
    BY DEF Used, limiter
  <2>7. Untouched(w) /\ count[w] = 0 => Untouched(w)'
    BY <2>4 DEF Untouched, WindowInv
  <2>8. Closed(w) => Closed(w)'
    BY DEF Closed, limiter
  <2> QED
    BY <2>1, <2>2, <2>5, <2>6, <2>7, <2>8 DEF WindowInv, limiter
<1> QED
  BY <1>1, <1>2

(***************************************************************************)
(* The calls keep the invariant.                                           *)
(***************************************************************************)

LEMMA CallStep ==
    ASSUME IInv, NEW c \in Caller,
           \/ Start(c) \/ ReadPlatform(c) \/ TakeOtherToken(c) \/ OtherAnswered(c)
           \/ Load(c) \/ Mint(c) \/ Store(c)
           \/ Answered(c) \/ Unauthorized(c) \/ DropCached(c) \/ GiveUp(c) \/ HttpFails(c)
    PROVE  IInv'
<1> USE DEF tokens
<1>0. /\ task[c] \in Task /\ Idle \in Task /\ FreshTask(task[c])
      /\ cache \in Token \cup {NoToken} /\ withdrawn \subseteq Token
      /\ revoked \in BOOLEAN /\ faults \in 0..MaxFaults
  BY Tasks DEF IInv, TypeOK, FreshInv
<1>1. CASE Start(c)
  <2> DEFINE t == [Idle EXCEPT !.at = "read"]
  <2>1. t \in Task /\ FreshTask(t) /\ t.at \notin Entering
    BY Tasks DEF IInv, FreshTask, Idle, Entering
  <2>2. Set(c, t) /\ task[c].at # "expire"
    BY <1>1 DEF Start
  <2> HIDE DEF t
  <2> QED
    BY <1>0, <1>1, <2>1, <2>2, Advance DEF Start
<1>2. CASE ReadPlatform(c)
  <2> DEFINE t == [task[c] EXCEPT !.at = "load", !.left = Calls[c], !.try = 1, !.barred = revoked]
  <2>1. Calls[c] \in Nat
    BY CallerAssumption
  <2>2. t \in Task /\ FreshTask(t) /\ t.at \notin Entering
    BY <1>0, <1>2, <2>1 DEF ReadPlatform, Task, Calling, FreshTask, Entering
  <2>3. Set(c, t) /\ task[c].at # "expire"
    BY <1>2 DEF ReadPlatform
  <2> HIDE DEF t
  <2> QED
    BY <1>0, <1>2, <2>2, <2>3, Advance DEF ReadPlatform
<1>3. CASE Load(c)
  <2>1. CASE task[c].barred
    BY <1>0, <1>3, <2>1, Finished DEF Load
  <2>2. CASE ~task[c].barred /\ cache # NoToken
    <3> DEFINE t == [task[c] EXCEPT !.at = "request", !.token = cache]
    <3>1. t \in Task /\ FreshTask(t) /\ t.at \notin Entering
      BY <1>0, <1>3 DEF Load, Task, Calling, FreshTask, Entering
    <3>2. Set(c, t) /\ task[c].at # "expire"
      BY <1>3, <2>2 DEF Load
    <3> HIDE DEF t
    <3> QED
      BY <1>0, <1>3, <3>1, <3>2, Advance DEF Load
  <2>3. CASE ~task[c].barred /\ cache = NoToken
    <3> DEFINE t == [task[c] EXCEPT !.at = "mint"]
    <3>1. t \in Task /\ FreshTask(t) /\ t.at \notin Entering
      BY <1>0, <1>3 DEF Load, Task, Calling, FreshTask, Entering
    <3>2. Set(c, t) /\ task[c].at # "expire"
      BY <1>3, <2>3 DEF Load
    <3> HIDE DEF t
    <3> QED
      BY <1>0, <1>3, <3>1, <3>2, Advance DEF Load
  <2> QED
    BY <2>1, <2>2, <2>3
<1>4. CASE Mint(c)
  <2>1. PICK n \in Token \ InUse, long \in BOOLEAN :
            Set(c, [task[c] EXCEPT !.at = IF long THEN "store" ELSE "request",
                                   !.token = n, !.fresh = task[c].again])
    BY <1>4 DEF Mint
  <2> DEFINE t == [task[c] EXCEPT !.at = IF long THEN "store" ELSE "request",
                                  !.token = n, !.fresh = task[c].again]
  <2>2. t \in Task /\ FreshTask(t) /\ t.at \notin Entering
    BY <1>0 DEF Task, Calling, FreshTask, Entering
  <2>3. withdrawn' \subseteq Token
    BY <1>0, <1>4 DEF Mint
  <2>4. task[c].at # "expire"
    BY <1>4 DEF Mint
  <2> HIDE DEF t
  <2> QED
    BY <1>0, <1>4, <2>1, <2>2, <2>3, <2>4, Advance DEF Mint, t
<1>5. CASE Store(c)
  <2> DEFINE t == [task[c] EXCEPT !.at = "request"]
  <2>1. t \in Task /\ FreshTask(t) /\ t.at \notin Entering
    BY <1>0, <1>5 DEF Store, Task, Calling, FreshTask, Entering
  <2>2. Set(c, t) /\ task[c].at # "expire" /\ cache' \in Token \cup {NoToken}
    BY <1>0, <1>5 DEF Store, Task
  <2> HIDE DEF t
  <2> QED
    BY <1>0, <1>5, <2>1, <2>2, Advance DEF Store
<1>6. CASE Answered(c)
  <2>1. CASE task[c].left <= 1
    BY <1>0, <1>6, <2>1, Finished DEF Answered
  <2>2. CASE ~(task[c].left <= 1)
    <3>1. Begin(c, task[c].left - 1, 1)
      BY <1>6, <2>2 DEF Answered
    <3>2. task[c].left - 1 \in Nat
      BY <1>0, <2>2 DEF Task
    <3> QED
      BY <1>0, <1>6, <3>1, <3>2, Begun DEF Answered
  <2> QED
    BY <2>1, <2>2
<1>7. CASE Unauthorized(c)
  <2> DEFINE t == [task[c] EXCEPT !.at = "drop", !.token = NoToken, !.again = TRUE]
  <2>1. t \in Task /\ FreshTask(t) /\ t.at \notin Entering
    BY <1>0 DEF Task, Calling, FreshTask, Entering
  <2>2. Set(c, t) /\ task[c].at # "expire"
    BY <1>7 DEF Unauthorized
  <2> HIDE DEF t
  <2> QED
    BY <1>0, <1>7, <2>1, <2>2, Advance DEF Unauthorized
<1>8. CASE DropCached(c)
  <2> DEFINE t == [task[c] EXCEPT !.at = "mint"]
  <2>1. t \in Task /\ FreshTask(t) /\ t.at \notin Entering
    BY <1>0 DEF Task, Calling, FreshTask, Entering
  <2>2. Set(c, t) /\ task[c].at # "expire" /\ cache' \in Token \cup {NoToken}
    BY <1>8 DEF DropCached
  <2> HIDE DEF t
  <2> QED
    BY <1>0, <1>8, <2>1, <2>2, Advance DEF DropCached
<1>9. CASE GiveUp(c)
  BY <1>0, <1>9, Finished DEF GiveUp
<1>10. CASE HttpFails(c)
  <2>1. faults' \in 0..MaxFaults
    BY <1>10, Faults DEF HttpFails, IInv
  <2> QED
    BY <1>0, <1>10, <2>1, Finished DEF HttpFails
<1>11. CASE TakeOtherToken(c)
  <2> DEFINE t == [task[c] EXCEPT !.at = "elsewise", !.left = Calls[c]]
  <2>1. Calls[c] \in Nat
    BY CallerAssumption
  <2>2. t \in Task /\ FreshTask(t) /\ t.at \notin Entering
    BY <1>0, <2>1 DEF Task, FreshTask, Entering
  <2>3. Set(c, t) /\ task[c].at # "expire"
    BY <1>11 DEF TakeOtherToken
  <2> HIDE DEF t
  <2> QED
    BY <1>0, <1>11, <2>2, <2>3, Advance DEF TakeOtherToken
<1>12. CASE OtherAnswered(c)
  <2> DEFINE t == [task[c] EXCEPT !.left = task[c].left - 1]
  <2>1. CASE Finish(c)
    BY <1>0, <1>12, <2>1, Finished DEF OtherAnswered
  <2>2. CASE task[c].left > 1 /\ Set(c, t)
    <3>1. t \in Task /\ FreshTask(t) /\ t.at \notin Entering
      BY <1>0, <1>12, <2>2 DEF OtherAnswered, Task, FreshTask, Entering
    <3>2. Set(c, t) /\ task[c].at # "expire"
      BY <1>12, <2>2 DEF OtherAnswered
    <3> HIDE DEF t
    <3> QED
      BY <1>0, <1>12, <3>1, <3>2, Advance DEF OtherAnswered
  <2> QED
    BY <1>0, <1>12, <2>1, <2>2 DEF OtherAnswered
<1> QED
  BY <1>1, <1>2, <1>3, <1>4, <1>5, <1>6, <1>7, <1>8, <1>9, <1>10, <1>11, <1>12

(***************************************************************************)
(* The limiter and the failures keep the invariant.                        *)
(***************************************************************************)

\* The answer to a POST, what it leaves of the others and what it adds up to.
LEMMA Answer ==
    ASSUME IInv, NEW c \in Caller, NEW w \in Window, NEW n \in Nat \ {0}, Verdict(c, w, n)
    PROVE  /\ task' \in [Caller -> Task]
           /\ FreshTask(task'[c]) /\ task'[c].at \notin Entering
           /\ \A d \in Caller : d # c => task'[d] = task[d]
           /\ passed' \in [Window -> Nat] /\ turned' \subseteq Window
           /\ \A v \in Window : v # w => passed'[v] = passed[v]
           /\ \A v \in Window : v # w => (v \in turned' <=> v \in turned)
           /\ n <= Limit => passed'[w] = passed[w] + 1 /\ turned' = turned
           /\ ~(n <= Limit) => passed' = passed /\ turned' = turned \cup {w}
<1>1. /\ [Idle EXCEPT !.at = "read"] \in Task /\ Idle \in Task /\ TypeOK
      /\ passed \in [Window -> Nat] /\ turned \subseteq Window
  BY Tasks DEF IInv, TypeOK
<1>2. \A t \in {Idle, [Idle EXCEPT !.at = "read"]} : FreshTask(t) /\ t.at \notin Entering
  BY DEF FreshTask, Idle, Entering
<1>3. PICK t \in {Idle, [Idle EXCEPT !.at = "read"]} : Set(c, t)
  BY DEF Verdict, Finish
<1>4. t \in Task
  BY <1>1
<1>5. /\ task' \in [Caller -> Task] /\ task'[c] = t
      /\ \A d \in Caller : d # c => task'[d] = task[d]
  BY <1>1, <1>3, <1>4, Moved
<1>6. CASE n <= Limit
  <2>1. passed' = [passed EXCEPT ![w] = passed[w] + 1] /\ turned' = turned
    BY <1>6 DEF Verdict
  <2>2. passed' \in [Window -> Nat]
    BY <1>1, <2>1
  <2> QED
    BY <1>1, <1>2, <1>5, <1>6, <2>1, <2>2
<1>7. CASE ~(n <= Limit)
  BY <1>1, <1>2, <1>5, <1>7 DEF Verdict
<1> QED
  BY <1>6, <1>7

\* INCR.
LEMMA CountStep ==
    ASSUME IInv, NEW c \in Caller, CountPost(c)
    PROVE  IInv'
<1>0. PICK w \in Window : w = task[c].window
  BY DEF IInv, TypeOK, Task
<1>1. /\ task[c] \in Task /\ w = task[c].window /\ task[c].at = "count" /\ count[w] \in Nat
      /\ count' = [count EXCEPT ![w] = @ + 1] /\ count \in [Window -> Nat]
      /\ UNCHANGED <<clock, expiring, tokens, revoked, faults, wasted>>
  BY <1>0 DEF IInv, TypeOK, CountPost
<1>2. /\ passed \in [Window -> Nat] /\ turned \subseteq Window /\ Limit \in Nat /\ Limit >= 1
      /\ WindowInv(w) /\ ~Closed(w)
  BY <1>1, LimitAssumption DEF IInv, TypeOK, Closed, Entering
<1>a. TypeOK
  BY DEF IInv
<1>3. CASE count[w] = 0
  <2> DEFINE t == [task[c] EXCEPT !.at = "expire"]
  <2>1. Set(c, t) /\ UNCHANGED <<passed, turned>>
    BY <1>1, <1>3 DEF CountPost
  <2>2. t \in Task /\ FreshTask(t) /\ t.at = "expire" /\ t.window = w
    BY <1>1 DEF Task, Entering, FreshTask
  <2> HIDE DEF t
  <2>3. /\ task' \in [Caller -> Task] /\ task'[c] = t
        /\ \A d \in Caller : d # c => task'[d] = task[d]
    BY <2>1, <2>2, <1>a, Moved
  <2>4. TypeOK' /\ FreshInv'
    BY <1>1, <2>1, <2>2, <2>3 DEF IInv, TypeOK, FreshInv, tokens
  <2>5. Waiting(w) = {} /\ Untouched(w)
    BY <1>2, <1>3 DEF WindowInv
  <2>6. OneWaits'
    BY <2>2, <2>3, <2>5, <1>1 DEF OneWaits, Waiting, IInv
  <2>7. WindowInv(w)'
    <3>1. Waiting(w)' # {} /\ Owed(w)' = 1
      BY <2>2, <2>3 DEF Waiting, Owed
    <3>2. count'[w] = 1 /\ passed'[w] = 0 /\ w \notin wasted' /\ w \notin turned'
      BY <1>1, <1>3, <2>1, <2>5 DEF Untouched
    <3>3. Used(w)' = 1
      BY <3>2, <1>2 DEF Used
    <3> QED
      BY <3>1, <3>2, <3>3, <1>2 DEF WindowInv
  <2>8. ASSUME NEW v \in Window, v # w
        PROVE  WindowInv(v)'
    <3>1. Waiting(v)' = Waiting(v)
      BY <1>1, <2>2, <2>3, <2>8 DEF Waiting
    <3>2. count'[v] = count[v] /\ passed' = passed /\ turned' = turned
      BY <1>1, <2>1, <2>8
    <3>3. Owed(v)' = Owed(v) /\ Used(v)' = Used(v) /\ Untouched(v)' = Untouched(v)
      BY <1>1, <3>1, <3>2 DEF Owed, Used, Untouched
    <3>4. Closed(v) => Closed(v)'
      BY <1>1, <2>2, <2>3, <2>8 DEF Closed
    <3> QED
      BY <1>1, <3>1, <3>2, <3>3, <3>4 DEF WindowInv, IInv
  <2> QED
    BY <2>4, <2>6, <2>7, <2>8 DEF IInv
<1>4. CASE count[w] > 0
  <2>1. Verdict(c, w, count[w] + 1)
    BY <1>1, <1>4 DEF CountPost
  <2>2. /\ task' \in [Caller -> Task]
        /\ FreshTask(task'[c]) /\ task'[c].at \notin Entering
        /\ \A d \in Caller : d # c => task'[d] = task[d]
        /\ passed' \in [Window -> Nat] /\ turned' \subseteq Window
        /\ \A v \in Window : v # w => passed'[v] = passed[v]
        /\ \A v \in Window : v # w => (v \in turned' <=> v \in turned)
        /\ count[w] + 1 <= Limit => passed'[w] = passed[w] + 1 /\ turned' = turned
        /\ ~(count[w] + 1 <= Limit) => passed' = passed /\ turned' = turned \cup {w}
    BY <1>1, <2>1, Answer
  <2>3. TypeOK' /\ FreshInv'
    <3>1. count' \in [Window -> Nat]
      BY <1>1
    <3>2. TypeOK'
      BY <1>1, <1>a, <2>2, <3>1 DEF TypeOK, tokens
    <3>3. FreshInv'
      BY <2>2 DEF IInv, FreshInv
    <3> QED
      BY <3>2, <3>3
  <2>4. OneWaits'
    BY <2>2 DEF OneWaits, Entering, IInv
  <2>5. \A v \in Window : Waiting(v)' = Waiting(v)
    BY <1>1, <2>2 DEF Waiting, Entering
  <2>6. \A v \in Window : Owed(v)' = Owed(v)
    BY <1>1, <2>5 DEF Owed
  <2>7. WindowInv(w)'
    <3>1. count'[w] = count[w] + 1 /\ Owed(w) \in 0..1 /\ passed[w] \in Nat
      <4>1. count'[w] = count[w] + 1
        BY <1>0, <1>1
      <4>2. Owed(w) \in 0..1
        BY DEF Owed
      <4>3. passed[w] \in Nat
        BY <1>0, <1>2
      <4> QED
        BY <4>1, <4>2, <4>3
    <3>2. Used(w)' = IF count[w] + 1 < Limit THEN count[w] + 1 ELSE Limit
      BY <3>1 DEF Used
    <3>3. /\ passed[w] + Owed(w) = (IF count[w] < Limit THEN count[w] ELSE Limit)
          /\ w \in turned => count[w] >= Limit
          /\ w \in expiring \/ Owed(w) = 1
      BY <1>2, <1>4 DEF WindowInv, Used
    <3>4. Waiting(w)' # {} => w \notin wasted'
      BY <1>1, <1>2, <2>5 DEF WindowInv
    <3>5. passed'[w] + Owed(w)' = Used(w)'
      <4>1. CASE count[w] + 1 <= Limit
        BY <1>1, <1>2, <2>2, <2>6, <3>1, <3>2, <3>3, <4>1
      <4>2. CASE ~(count[w] + 1 <= Limit)
        BY <1>1, <1>2, <2>2, <2>6, <3>1, <3>2, <3>3, <4>2
      <4> QED
        BY <4>1, <4>2
    <3>6. w \in turned' => count'[w] >= Limit
      BY <1>1, <1>2, <2>2, <3>1, <3>3
    <3>7. passed'[w] <= Limit
      BY <1>1, <1>2, <2>2, <2>6, <3>1, <3>2, <3>5
    <3>8. w \in turned' => Used(w)' = Limit
      BY <1>1, <1>2, <3>1, <3>2, <3>6
    <3> QED
      BY <1>1, <2>6, <3>1, <3>3, <3>4, <3>5, <3>6, <3>7, <3>8 DEF WindowInv
  <2>8. ASSUME NEW v \in Window, v # w
        PROVE  WindowInv(v)'
    <3>1. count'[v] = count[v] /\ passed'[v] = passed[v] /\ (v \in turned' <=> v \in turned)
      BY <1>1, <2>2, <2>8
    <3>2. Used(v)' = Used(v) /\ Untouched(v)' = Untouched(v)
      BY <1>1, <3>1 DEF Used, Untouched
    <3>3. Closed(v) => Closed(v)'
      BY <1>1, <2>2 DEF Closed
    <3> QED
      BY <1>1, <2>5, <2>6, <3>1, <3>2, <3>3 DEF WindowInv, IInv
  <2> QED
    BY <2>3, <2>4, <2>7, <2>8 DEF IInv
<1> QED
  BY <1>1, <1>3, <1>4

\* EXPIRE, and the answer to the first POST of a window.
LEMMA ExpireStep ==
    ASSUME IInv, NEW c \in Caller, ExpireCount(c)
    PROVE  IInv'
<1>0. PICK w \in Window : w = task[c].window
  BY DEF IInv, TypeOK, Task
<1>1. /\ task[c] \in Task /\ w = task[c].window /\ task[c].at = "expire"
      /\ expiring' = expiring \cup {w} /\ Verdict(c, w, 1)
      /\ UNCHANGED <<clock, count, tokens, revoked, faults, wasted>>
  BY <1>0 DEF IInv, TypeOK, ExpireCount
<1>2. /\ Limit \in Nat /\ 1 <= Limit /\ TypeOK
      /\ passed[w] \in Nat /\ count[w] \in Nat /\ WindowInv(w)
  BY <1>0, LimitAssumption DEF IInv, TypeOK
<1>3. /\ task' \in [Caller -> Task]
      /\ FreshTask(task'[c]) /\ task'[c].at \notin Entering
      /\ \A d \in Caller : d # c => task'[d] = task[d]
      /\ passed' \in [Window -> Nat]
      /\ \A v \in Window : v # w => passed'[v] = passed[v]
      /\ passed'[w] = passed[w] + 1 /\ turned' = turned
  BY <1>0, <1>1, <1>2, Answer
<1>4. TypeOK' /\ FreshInv'
  <2>1. expiring' \subseteq Window
    BY <1>0, <1>1, <1>2 DEF TypeOK
  <2>2. TypeOK'
    BY <1>1, <1>2, <1>3, <2>1 DEF TypeOK, tokens
  <2>3. FreshInv'
    BY <1>3 DEF IInv, FreshInv
  <2> QED
    BY <2>2, <2>3
<1>5. OneWaits'
  BY <1>3 DEF OneWaits, Entering, IInv
<1>6. WindowInv(w)'
  <2>1. c \in Waiting(w) /\ Waiting(w)' = {}
    <3>1. c \in Waiting(w)
      BY <1>1 DEF Waiting
    <3>2. ASSUME NEW d \in Waiting(w)'
          PROVE  FALSE
      <4>1. d # c /\ task[d].at = "expire" /\ task[d].window = w
        BY <1>3 DEF Waiting, Entering
      <4> QED
        BY <1>1, <4>1 DEF OneWaits, IInv, Waiting
    <3> QED
      BY <3>1, <3>2
  <2>2. count[w] > 0 /\ w \notin wasted
    BY <1>2, <2>1 DEF WindowInv
  <2>3. Owed(w) = 1 /\ Owed(w)' = 0
    BY <1>1, <2>1, <2>2 DEF Owed
  <2>4. Used(w)' = Used(w)
    BY <1>1 DEF Used
  <2>5. /\ passed[w] + 1 = Used(w) /\ (w \in turned => count[w] >= Limit)
        /\ (w \in turned => passed[w] + 1 = Limit) /\ Used(w) <= Limit
    BY <1>2, <2>2, <2>3 DEF WindowInv, Used
  <2>6. passed'[w] + Owed(w)' = passed[w] + 1
    BY <1>2, <1>3, <2>3
  <2> QED
    BY <1>0, <1>1, <1>2, <1>3, <2>1, <2>2, <2>3, <2>4, <2>5, <2>6 DEF WindowInv
<1>7. ASSUME NEW v \in Window, v # w
      PROVE  WindowInv(v)'
  <2>1. Waiting(v)' = Waiting(v)
    BY <1>1, <1>3, <1>7 DEF Waiting, Entering
  <2>2. Owed(v)' = Owed(v) /\ Used(v)' = Used(v) /\ Untouched(v)' = Untouched(v)
    BY <1>1, <1>3, <1>7, <2>1 DEF Owed, Used, Untouched
  <2>3. Closed(v) => Closed(v)'
    BY <1>1, <1>3 DEF Closed
  <2> QED
    BY <1>1, <1>3, <1>7, <2>1, <2>2, <2>3 DEF WindowInv, IInv
<1> QED
  BY <1>0, <1>4, <1>5, <1>6, <1>7 DEF IInv

\* A POST asks for the time.
LEMMA PostStep ==
    ASSUME IInv, NEW c \in Caller, Post(c)
    PROVE  IInv'
<1> DEFINE t == [Idle EXCEPT !.at = "count", !.window = clock]
<1>1. /\ t \in Task /\ FreshTask(t) /\ t.at = "count" /\ t.window = clock
      /\ TypeOK /\ Set(c, t) /\ task[c].at = "idle"
      /\ UNCHANGED <<limiter, tokens, revoked, faults, history>>
  BY Tasks DEF IInv, FreshTask, Idle, Post
<1> HIDE DEF t
<1>2. /\ task' \in [Caller -> Task] /\ task'[c] = t
      /\ \A d \in Caller : d # c => task'[d] = task[d]
  BY <1>1, Moved
<1>3. TypeOK' /\ FreshInv'
  BY <1>1, <1>2 DEF IInv, TypeOK, FreshInv, limiter, tokens, history
<1>4. \A d \in Caller :
        /\ task[d].at = "expire" \/ task'[d].at = "expire" =>
             task'[d].at = task[d].at /\ task'[d].window = task[d].window
        /\ task'[d].at = "count" =>
             \/ task[d].at = "count" /\ task'[d].window = task[d].window
             \/ task'[d].window = clock
  BY <1>1, <1>2
<1>5. OneWaits' /\ \A w \in Window : WindowInv(w)'
  BY <1>1, <1>4, Quiet DEF IInv
<1> QED
  BY <1>3, <1>5 DEF IInv

\* Redis drops the counter of a window that is over.
LEMMA LapseStep ==
    ASSUME IInv, NEW w \in Window, Lapse(w)
    PROVE  IInv'
<1>1. /\ w < clock /\ count' = [count EXCEPT ![w] = 0] /\ expiring' = expiring \ {w}
      /\ UNCHANGED <<clock, tokens, revoked, task, faults, history>>
      /\ \A c \in Caller : task[c].at \in Entering => task[c].window # w
  BY DEF Lapse
<1>2. TypeOK /\ count \in [Window -> Nat] /\ WindowInv(w)
  BY DEF IInv, TypeOK
<1>3. TypeOK' /\ FreshInv' /\ OneWaits'
  BY <1>1, <1>2 DEF IInv, TypeOK, FreshInv, OneWaits, tokens, history
<1>4. \A v \in Window : /\ Waiting(v)' = Waiting(v) /\ Owed(v)' = Owed(v)
                        /\ passed'[v] = passed[v] /\ turned' = turned /\ wasted' = wasted
  BY <1>1 DEF Waiting, Owed, history
<1>5. WindowInv(w)'
  <2>1. Waiting(w) = {} /\ count'[w] = 0 /\ Closed(w)'
    BY <1>1, <1>2 DEF Waiting, Closed, Entering
  <2> QED
    BY <1>2, <1>4, <2>1 DEF WindowInv
<1>6. ASSUME NEW v \in Window, v # w
      PROVE  WindowInv(v)'
  <2>1. /\ count'[v] = count[v] /\ (v \in expiring' <=> v \in expiring)
        /\ Used(v)' = Used(v) /\ Untouched(v)' = Untouched(v) /\ Closed(v)' = Closed(v)
    BY <1>1, <1>2, <1>4, <1>6 DEF Used, Untouched, Closed
  <2> QED
    BY <1>4, <2>1 DEF WindowInv, IInv
<1> QED
  BY <1>3, <1>5, <1>6 DEF IInv

\* The window ends.
LEMMA TickStep ==
    ASSUME IInv, Tick
    PROVE  IInv'
<1>1. /\ clock' = clock + 1 /\ clock < MaxWindow
      /\ UNCHANGED <<count, expiring, tokens, revoked, task, faults, history>>
  BY DEF Tick
<1>2. TypeOK'
  <2>1. clock' \in Window
    BY <1>1, BoundAssumption DEF IInv, TypeOK, Window
  <2> QED
    BY <1>1, <2>1 DEF IInv, TypeOK, tokens, history
<1>3. FreshInv' /\ OneWaits'
  BY <1>1 DEF IInv, FreshInv, OneWaits
<1>4. ASSUME NEW w \in Window
      PROVE  WindowInv(w)'
  <2>1. Waiting(w)' = Waiting(w) /\ Owed(w)' = Owed(w) /\ Used(w)' = Used(w)
    BY <1>1 DEF Waiting, Owed, Used, history
  <2>2. Untouched(w)' = Untouched(w)
    BY <1>1 DEF Untouched, history
  <2>3. Closed(w) => Closed(w)'
    BY <1>1, BoundAssumption DEF Closed, IInv, TypeOK, Window
  <2> QED
    BY <1>1, <2>1, <2>2, <2>3 DEF WindowInv, IInv, history
<1> QED
  BY <1>2, <1>3, <1>4 DEF IInv

\* A Redis error ends a task or begins its call again.
LEMMA RedisStep ==
    ASSUME IInv, NEW c \in Caller, RedisFails(c)
    PROVE  IInv'
<1>1. /\ faults' \in 0..MaxFaults /\ TypeOK /\ task[c] \in Task
      /\ UNCHANGED <<limiter, tokens, revoked, passed, turned>>
  BY Faults DEF RedisFails, IInv, TypeOK
<1>2. CASE task[c].at = "expire"
  <2>1. Finish(c) /\ wasted' = wasted \cup {task[c].window}
    BY <1>2 DEF RedisFails, Calling
  <2>2. /\ Idle \in Task /\ Idle.at \notin Entering /\ Idle.at # "expire" /\ FreshTask(Idle)
    BY <1>1, Tasks DEF Idle, Entering, FreshTask
  <2>3. /\ task' \in [Caller -> Task] /\ task'[c] = Idle
        /\ \A d \in Caller : d # c => task'[d] = task[d]
    BY <1>1, <2>1, <2>2, Moved DEF Finish
  <2>4. wasted' \subseteq Window
    BY <1>1, <2>1 DEF TypeOK, Task
  <2>5. TypeOK' /\ FreshInv'
    BY <1>1, <2>2, <2>3, <2>4 DEF IInv, TypeOK, FreshInv, limiter, tokens
  <2>6. \A d \in Caller : task'[d].at \in Entering => task'[d] = task[d]
    BY <2>2, <2>3
  <2>7. ASSUME NEW w \in Window
        PROVE  w \in wasted' <=> \/ w \in wasted
                                 \/ \E d \in Caller : /\ task[d].at = "expire"
                                                      /\ task[d].window = w
                                                      /\ task'[d] # task[d]
    <3>1. task'[c] # task[c]
      BY <1>2, <2>2, <2>3
    <3> QED
      BY <1>2, <2>1, <2>3, <3>1
  <2>8. OneWaits' /\ \A w \in Window : WindowInv(w)'
    BY <1>1, <2>4, <2>6, <2>7, Wasted DEF IInv
  <2> QED
    BY <2>5, <2>8 DEF IInv
<1>3. CASE task[c].at # "expire"
  <2>1. UNCHANGED <<limiter, tokens, revoked, history>>
    BY <1>1, <1>3 DEF RedisFails, history
  <2>2. CASE task[c].at \in Calling /\ task[c].try < Attempts[c]
    <3>1. task[c].left \in Nat /\ task[c].try + 1 \in Nat
      BY <1>1 DEF Task
    <3>2. Begin(c, task[c].left, task[c].try + 1)
      BY <2>2 DEF RedisFails
    <3> QED
      BY <1>1, <1>3, <2>1, <3>1, <3>2, Begun
  <2>3. CASE ~(task[c].at \in Calling /\ task[c].try < Attempts[c])
    <3>1. Finish(c)
      BY <2>3 DEF RedisFails
    <3> QED
      BY <1>1, <1>3, <2>1, <3>1, Finished
  <2> QED
    BY <2>2, <2>3
<1> QED
  BY <1>2, <1>3

\* A restart ends every task.
LEMMA RestartStep ==
    ASSUME IInv, Restart
    PROVE  IInv'
<1>1. /\ faults' \in 0..MaxFaults /\ TypeOK /\ Idle \in Task
      /\ task' = [c \in Caller |-> Idle]
      /\ wasted' = wasted \cup {w \in Window :
                        \E c \in Caller : task[c].at = "expire" /\ task[c].window = w}
      /\ UNCHANGED <<limiter, tokens, revoked, passed, turned>>
  BY Faults, Tasks DEF Restart, IInv
<1>2. Idle.at \notin Entering /\ Idle.at # "expire" /\ FreshTask(Idle)
  BY DEF Idle, Entering, FreshTask
<1>3. wasted' \subseteq Window
  BY <1>1 DEF TypeOK
<1>4. TypeOK' /\ FreshInv'
  BY <1>1, <1>2, <1>3 DEF TypeOK, FreshInv, limiter, tokens
<1>5. \A d \in Caller : task'[d].at \in Entering => task'[d] = task[d]
  BY <1>1, <1>2
<1>6. \A w \in Window :
        w \in wasted' <=> \/ w \in wasted
                          \/ \E d \in Caller : /\ task[d].at = "expire"
                                               /\ task[d].window = w
                                               /\ task'[d] # task[d]
  BY <1>1, <1>2
<1>7. OneWaits' /\ \A w \in Window : WindowInv(w)'
  BY <1>1, <1>3, <1>5, <1>6, Wasted DEF IInv
<1> QED
  BY <1>4, <1>7 DEF IInv

\* The cached token, Canvas and the operator go their own way.
LEMMA OutsideStep ==
    ASSUME IInv,
           \/ ExpireCached \/ MarkRevoked \/ ClearRevoked
           \/ \E t \in Token : Withdraw(t)
           \/ UNCHANGED vars
    PROVE  IInv'
<1>1. UNCHANGED <<limiter, task, history>>
  BY DEF ExpireCached, MarkRevoked, ClearRevoked, Withdraw, vars
<1>2. /\ cache' \in Token \cup {NoToken} /\ withdrawn' \subseteq Token
      /\ revoked' \in BOOLEAN /\ faults' \in 0..MaxFaults
  BY DEF IInv, TypeOK, ExpireCached, MarkRevoked, ClearRevoked, Withdraw, vars, tokens, limiter
<1>3. TypeOK' /\ FreshInv'
  BY <1>1, <1>2 DEF IInv, TypeOK, FreshInv, limiter, history
<1>4. OneWaits' /\ \A w \in Window : WindowInv(w)'
  BY <1>1, Quiet DEF IInv
<1> QED
  BY <1>3, <1>4 DEF IInv

(***************************************************************************)
(* The theorems.                                                           *)
(***************************************************************************)

LEMMA InitInv == Init => IInv
<1> SUFFICES ASSUME Init
             PROVE  IInv
  OBVIOUS
<1>1. 0 \in Window /\ faults \in 0..MaxFaults
  BY BoundAssumption DEF Window, Init
<1>2. Idle \in Task /\ FreshTask(Idle) /\ Idle.at # "expire"
  BY <1>1 DEF Idle, Task, FreshTask
<1>3. TypeOK /\ FreshInv /\ OneWaits
  BY <1>1, <1>2 DEF Init, TypeOK, FreshInv, OneWaits
<1>4. ASSUME NEW w \in Window
      PROVE  WindowInv(w)
  <2>1. Waiting(w) = {} /\ count[w] = 0 /\ passed[w] = 0 /\ w \notin wasted /\ w \notin turned
    BY <1>2 DEF Init, Waiting
  <2> QED
    BY <2>1, LimitAssumption DEF WindowInv, Untouched
<1> QED
  BY <1>3, <1>4 DEF IInv

LEMMA NextStep == IInv /\ [Next]_vars => IInv'
<1> SUFFICES ASSUME IInv, [Next]_vars
             PROVE  IInv'
  OBVIOUS
<1>1. ASSUME NEW c \in Caller, Post(c)
      PROVE  IInv'
  BY <1>1, PostStep
<1>2. ASSUME NEW c \in Caller, Start(c) \/ HttpFails(c)
      PROVE  IInv'
  BY <1>2, CallStep
<1>3. ASSUME NEW c \in Caller, Work(c)
      PROVE  IInv'
  BY <1>3, CountStep, ExpireStep, CallStep DEF Work
<1>4. ASSUME NEW c \in Caller, RedisFails(c)
      PROVE  IInv'
  BY <1>4, RedisStep
<1>5. ASSUME NEW w \in Window, Lapse(w)
      PROVE  IInv'
  BY <1>5, LapseStep
<1> QED
  BY <1>1, <1>2, <1>3, <1>4, <1>5, TickStep, RestartStep, OutsideStep DEF Next

\* The inductive invariant holds of every reachable state.
THEOREM Inductive == Spec => []IInv
BY InitInv, NextStep, PTL DEF Spec

\* Each window of the rate limiter lets through its limit, for any number of
\* callers and any limit (enforce_rate_limit).
THEOREM QuotaHolds == Spec => []QuotaIsExact
<1>1. IInv => QuotaIsExact
  <2> SUFFICES ASSUME IInv, NEW w \in Window
               PROVE  /\ passed[w] <= Limit
                      /\ w \in turned => passed[w] + Owed(w) = Limit
                      /\ count[w] > 0 => w \in expiring \/ w \in wasted \/ Waiting(w) # {}
    BY DEF QuotaIsExact, Owed
  <2>1. WindowInv(w)
    BY DEF IInv
  <2> QED
    BY <2>1 DEF WindowInv, Owed
<1> QED
  BY <1>1, Inductive, PTL

\* A task gives up for want of authorization only on a token minted for that
\* call, for any number of tasks sharing the cached one
\* (_request_with_401_retry).
THEOREM OnlyFreshRefused == Spec => RefusedOnlyFresh
<1>1. IInv /\ [Next]_vars =>
        \A c \in Caller :
            (task[c].at = "request" /\ task[c].token \in withdrawn
                /\ task'[c].at = "idle" /\ faults' = faults) => task[c].fresh
  <2> SUFFICES ASSUME IInv, [Next]_vars, NEW c \in Caller,
                      task[c].at = "request", task[c].token \in withdrawn,
                      task'[c].at = "idle", faults' = faults
               PROVE  task[c].again
    BY DEF IInv, FreshInv, FreshTask
  <2>1. ~Fault
    BY DEF Fault, IInv, TypeOK
  <2>2. TypeOK /\ task \in [Caller -> Task]
    BY DEF IInv, TypeOK
  <2>3. task'[c] # task[c]
    OBVIOUS
  <2>4. PICK d \in Caller : Post(d) \/ Start(d) \/ Work(d)
    BY <2>1, <2>3 DEF Next, RedisFails, HttpFails, Restart, Lapse, Tick, ExpireCached,
       Withdraw, MarkRevoked, ClearRevoked, vars
  <2>5. d = c
    BY <2>2, <2>3, <2>4 DEF Post, Start, Work, CountPost, ExpireCount, Verdict, ReadPlatform,
       TakeOtherToken, OtherAnswered,
       Load, Mint, Store, Answered, Unauthorized, DropCached, GiveUp, Begin, Finish, Set
  <2>6. Unauthorized(c) \/ GiveUp(c)
    BY <2>4, <2>5 DEF Post, Start, Work, CountPost, ExpireCount, ReadPlatform,
       TakeOtherToken, OtherAnswered,
       Load, Mint, Store, Answered, DropCached
  <2>7. CASE Unauthorized(c)
    <3>1. task'[c].at = "drop"
      BY <2>2, <2>7 DEF Unauthorized, Set, Task
    <3> QED
      BY <3>1
  <2> QED
    BY <2>6, <2>7 DEF GiveUp
<1> QED
  BY <1>1, Inductive, PTL DEF Spec, RefusedOnlyFresh
=============================================================================
