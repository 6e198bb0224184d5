-------------------------- MODULE ConnectionProofs --------------------------
(***************************************************************************)
(* Proofs about module Connection.  The invariant has two layers.  Shape   *)
(* holds in every state: which labels a task of each kind can be at, what  *)
(* a task awaits, and that one task runs at a time.  Calm holds as long as *)
(* no detached task ran while the user was closing (~raced): which tasks   *)
(* can be alive together and where, what _web and _closing tell, and what  *)
(* is left of a session that was closed or logged out.                     *)
(***************************************************************************)
EXTENDS Connection, TLAPS

Live(t) == pc[t] # "off"
Closes == {"cRec", "recWait", "cRecv", "recvWait", "cKa", "kaWait", "cWeb", "webWait", "cEnd"}
Reconnects == {"rec", "try", "sleep", "connecting", "login"}

-----------------------------------------------------------------------------
(* What holds in every state                                               *)

\* asyncio runs one task at a time.
OneRunning == \A t, u \in Tasks : pc[t] \in Running /\ pc[u] \in Running => t = u

\* The user neither reads nor ends, a keepalive task does not reconnect by itself, and a
\* scheduled reconnection does nothing else.
Labels ==
  /\ pc[User] \in {"idle", "connecting", "login"} \cup Closes
  /\ \A r \in RecvTasks :
       pc[r] \in {"off", "loop", "recv", "fin", "finWait"} \cup Closes \cup Reconnects
  /\ \A k \in KaTasks : pc[k] \in {"off", "alive", "sched"} \cup Closes
  /\ \A x \in RecTasks : pc[x] \in {"off"} \cup Reconnects

\* A task awaits what its label says; a task that awaits a receive task, or a keepalive
\* task, is not the one that the client holds by then.
Waits ==
  /\ \A t \in Tasks :
       /\ pc[t] \notin Awaiting => waitOn[t] = None
       /\ pc[t] = "recWait" => waitOn[t] \in RecTasks
       /\ pc[t] = "recvWait" => waitOn[t] \in RecvTasks /\ recvTask # t
       /\ pc[t] \in {"kaWait", "finWait"} => waitOn[t] \in KaTasks
       /\ pc[t] = "kaWait" => kaTask # t
  /\ \A k \in KaTasks : pc[k] = "recvWait" => kaFailed
  /\ User \notin cancelled

\* No attempt is made beyond the bound, and a login has a socket.
Bounded ==
  /\ \A t \in Background : pc[t] \in {"sleep", "connecting", "login"} => attempt[t] <= MaxAttempts
  /\ \A t \in Tasks : pc[t] = "login" => using[t] \in Sockets

Shape == OneRunning /\ Labels /\ Waits /\ Bounded /\ NoMutualWait

-----------------------------------------------------------------------------
(* What holds until a detached task races with close() of the user         *)

\* One task receives or reconnects, one keeps alive, and a scheduled reconnection runs
\* with neither.
Apart ==
  /\ \A t, u \in Background : Live(t) /\ Live(u) => t = u
  /\ \A k, l \in KaTasks : Live(k) /\ Live(l) => k = l
  /\ \A x \in RecTasks, k \in KaTasks : Live(x) => ~Live(k)

\* The variables hold a task until the stage of close() that lets go of it.
Held ==
  /\ \A r \in RecvTasks :
       /\ pc[r] \in {"loop", "recv", "cRec", "cRecv", "finWait"} => recvTask = r
       /\ pc[r] \in {"cKa", "kaWait", "cWeb", "webWait", "cEnd"} \cup Reconnects => recvTask # r
       /\ pc[r] \notin {"recWait", "recvWait"}
  /\ \A k \in KaTasks :
       /\ pc[k] \in {"alive", "cRec", "cRecv", "recvWait", "cKa"} => kaTask = k
       /\ pc[k] \in {"cWeb", "webWait", "cEnd", "sched"} => kaTask # k
       /\ pc[k] \notin {"recWait", "kaWait"}
       /\ pc[k] = "recvWait" => Live(waitOn[k])
  /\ \A x \in RecTasks : Live(x) => recTask = x

\* A receive task that ends, or is about to: its cancellation is on the way.
Stopping(r) == pc[r] \in {"fin", "finWait"} \/ (pc[r] = "recv" /\ r \in cancelled)

\* Where a receive task and a keepalive task can be at the same time.
Together ==
  \A r \in RecvTasks, k \in KaTasks : Live(r) /\ Live(k) =>
    /\ \/ pc[k] = "alive" /\ pc[r] \in {"loop", "recv", "cRec", "cRecv", "cKa"}
       \/ pc[k] = "alive" /\ pc[r] \in {"kaWait", "finWait"} /\ k \in cancelled
       \/ pc[k] = "alive" /\ pc[r] = "fin" /\ recvTask = r
       \/ pc[k] \in {"cRec", "cRecv"} /\ pc[r] = "recv"
       \/ pc[k] = "recvWait" /\ waitOn[k] = r /\ Stopping(r) /\ recvTask = r
    /\ pc[r] \in {"kaWait", "finWait"} => waitOn[r] = k

\* What each stage of the user's calls leaves alive: close() takes the scheduled
\* reconnection down first, then the receive task, then the keepalive task.
UserApart ==
  /\ pc[User] \in {"connecting", "login", "cWeb", "webWait", "cEnd"} =>
       \A t \in Tasks \ {User} : ~Live(t)
  /\ pc[User] \in {"cKa", "kaWait"} =>
       /\ \A t \in Background : ~Live(t)
       /\ \A k \in KaTasks : Live(k) => pc[k] = "alive"
  /\ pc[User] = "kaWait" => \A k \in KaTasks : Live(k) => waitOn[User] = k /\ k \in cancelled
  /\ pc[User] = "recWait" =>
       /\ \A t \in RecvTasks \cup KaTasks : ~Live(t)
       /\ \A x \in RecTasks : Live(x) => waitOn[User] = x /\ x \in cancelled
  /\ pc[User] \in {"cRecv", "recvWait"} => \A x \in RecTasks : ~Live(x)
  /\ pc[User] = "recvWait" => \A r \in RecvTasks : Live(r) => waitOn[User] = r /\ Stopping(r)
  /\ pc[User] \in {"cRec", "cRecv", "recvWait"} =>
       /\ \A r \in RecvTasks : Live(r) => recvTask = r /\ pc[r] \in {"recv", "fin", "finWait"}
       /\ \A k \in KaTasks : Live(k) => pc[k] \in {"alive", "recvWait"}

\* A cancellation reaches a receive or a keepalive task only before it lets go of the
\* client: never in the closing handshake of its own close().
Cuts ==
  /\ \A r \in RecvTasks : r \in cancelled => pc[r] \in {"recv", "finWait"}
  /\ \A k \in KaTasks : k \in cancelled => pc[k] \in {"alive", "recvWait"}

\* _web is the socket of the task that logs in or closes, is gone or abandoned when a
\* reconnection starts, and is there as long as the keepalive task pings it.
WebHeld ==
  /\ \A t \in Tasks :
       /\ pc[t] = "cEnd" => web = None
       /\ pc[t] \in {"sched", "rec", "try", "sleep", "connecting"} =>
            web \in abandoned \cup {None}
       /\ pc[t] \in {"webWait", "login"} => web = using[t] /\ web # None
  /\ \A k \in KaTasks : pc[k] \in {"alive", "cRec", "cRecv", "recvWait"} => web # None
  /\ \A s \in Sockets : IsOpen(s) => s \in abandoned \cup {web}

\* _closing is set while somebody closes, and later only with no socket left: a receive
\* task that reads a client being closed is cancelled before it runs again.
ClosingTells ==
  /\ \A t \in Tasks : Closing(t) => closing
  /\ closing => web = None \/ \E t \in Tasks : Closing(t)
  /\ \A r \in RecvTasks : pc[r] = "loop" => ~closing
  /\ pc[User] = "login" => ~closing
  /\ \A r \in RecvTasks : pc[r] = "recv" /\ closing =>
       r \in cancelled \/ \E t \in {User} \cup KaTasks : pc[t] \in {"cRec", "cRecv"}

\* After close() of the user nothing is left.
ClosedQuiet ==
  userClosed => /\ pc[User] = "idle"
                /\ web = None
                /\ \A t \in Tasks \ {User} : ~Live(t)

\* After the device was logged out the receive task closes for that error, asks the
\* policy for that error, and ends; the keepalive task ends with it.
StreamEnded ==
  loggedOut = "stream" =>
    /\ pc[User] \notin {"connecting", "login"}
    /\ \A x \in RecTasks : ~Live(x)
    /\ \A r \in RecvTasks :
         /\ pc[r] \notin {"loop", "recv", "try", "sleep", "connecting", "login"}
         /\ pc[r] = "rec" => err[r] = "fatal"
         /\ Closing(r) => path[r] = "dispatch" /\ lastErr = "fatal"
    /\ web = None \/ \E r \in RecvTasks : Closing(r)
    /\ \A k \in KaTasks : Live(k) => \E r \in RecvTasks : Closing(r)

Calm ==
  /\ Apart
  /\ Held
  /\ Together
  /\ UserApart
  /\ Cuts
  /\ WebHeld
  /\ ClosingTells
  /\ ClosedQuiet
  /\ StreamEnded

-----------------------------------------------------------------------------
(* Lemmas                                                                  *)

\* A new task has ended before, is not cancelled, and nobody awaits it.
LEMMA NewTask ==
  ASSUME NEW S, Free(S) # {}
  PROVE  /\ New(S) \in S
         /\ pc[New(S)] = "off"
         /\ New(S) \notin cancelled
         /\ \A u \in Tasks : waitOn[u] # New(S)
  BY DEF New, Free

\* Starting tasks gives every task a label.
LEMMA StartType ==
  ASSUME TypeOK, NEW t \in Tasks, NEW label \in Running \cup Awaiting \cup Blocked,
         NEW starting, Start(t, label, starting)
  PROVE  pc' \in [Tasks -> Running \cup Awaiting \cup Blocked]
  BY DEF TypeOK, Start, Running, Blocked

\* What the first statements of close() write has its types.
LEMMA BeginCloseType ==
  ASSUME TypeOK, NEW t \in Tasks, NEW e \in Errors, BeginClose(t, e)
  PROVE  /\ raced' \in BOOLEAN
         /\ closing' \in BOOLEAN
         /\ lastErr' \in Errors
         /\ err' \in [Tasks -> Errors]
         /\ pc' \in [Tasks -> Running \cup Awaiting \cup Blocked]
<1>1. raced' \in BOOLEAN
  <2>1. CASE t = User
    BY <2>1, Zenon DEF BeginClose, TypeOK
  <2>2. CASE t # User
    BY <2>2, Zenon DEF BeginClose, TypeOK
  <2>3. QED
    BY <2>1, <2>2
<1>2. QED
  BY <1>1 DEF TypeOK, BeginClose, Goto, Running

\* Nobody forgets a race.
LEMMA RacedStays == ASSUME [Next]_vars, raced PROVE raced'
<1>1. ASSUME NEW t \in Tasks, CloseStep(t) \/ Cancelled(t) PROVE raced'
  BY <1>1 DEF CloseStep, CloseReconnect, CloseReceive, CloseKeepalive, Awaited, CloseWeb,
              WebClosed, CloseReturns, Cancelled, history
<1>2. ASSUME NEW t, ConnectStep(t) \/ ReconnectStep(t) PROVE raced'
  BY <1>2 DEF ConnectStep, ConnectFails, ConnectOpens, LoginFails, ReconnectStep, Reconnect,
              TryAgain, DelayOver, history
<1>3. ASSUME NEW r \in RecvTasks, ReceiveStep(r) PROVE raced'
  BY <1>3 DEF ReceiveStep, Loop, ReceiveNodes, ReceiveFails, Finally, ReceiverLogsIn,
              ReceiveDisconnect, BeginClose, history
<1>4. ASSUME NEW k \in KaTasks, KeepaliveStep(k) PROVE raced'
  BY <1>4 DEF KeepaliveStep, KeepaliveStops, KeepaliveFails, ScheduleReconnect, BeginClose,
              history
<1>5. ASSUME NEW x \in RecTasks, ReconnectorLogsIn(x) PROVE raced'
  BY <1>5 DEF ReconnectorLogsIn, history
<1>6. CASE UserStep
  BY <1>6 DEF UserStep, UserConnects, UserLogsIn, UserStartsKeepalive, UserStartsReceive,
              UserCloses, BeginClose, history
<1>7. ASSUME NEW s \in Sockets, SocketDies(s) PROVE raced'
  BY <1>7 DEF SocketDies, history
<1>8. CASE UNCHANGED vars
  BY <1>8 DEF vars
<1>9. QED
  BY <1>1, <1>2, <1>3, <1>4, <1>5, <1>6, <1>7, <1>8 DEF Next

-----------------------------------------------------------------------------
(* Type correctness                                                        *)

\* The types hold at first.
LEMMA InitType == Init => TypeOK
<1>1. 0 \in 0..MaxAttempts + 1 /\ 0 \in 0..MaxCalls
  BY ConnectionAssumption
<1>2. Init => attempt \in [Background -> 0..MaxAttempts + 1] /\ calls \in 0..MaxCalls
  BY <1>1 DEF Init
<1>3. Init => closing \in BOOLEAN /\ userClosed \in BOOLEAN /\ raced \in BOOLEAN /\ kaFailed \in BOOLEAN
  BY Zenon DEF Init
<1>4. QED
  BY <1>2, <1>3 DEF Init, TypeOK, Blocked, Errors

\* The stages of close() keep the types,
LEMMA CloseType ==
  ASSUME TypeOK, Shape, NEW t \in Tasks, CloseStep(t)
  PROVE  TypeOK'
<1> USE ConnectionAssumption DEF TypeOK, Shape, Labels, Waits, Bounded, Tasks,
      Background, Running, Awaiting, Blocked, Errors, Closes, Reconnects
<1>1. CASE CloseReconnect(t)
  BY <1>1 DEF CloseReconnect, At, Done, CancelAndAwait, Goto, history
<1>2. CASE CloseReceive(t)
  <2>1. kaFailed' \in BOOLEAN
    BY <1>2, Zenon DEF CloseReceive
  <2>2. QED
    BY <1>2, <2>1 DEF CloseReceive, At, Done, CancelAndAwait, Goto
<1>3. CASE CloseKeepalive(t)
  BY <1>3 DEF CloseKeepalive, At, Done, CancelAndAwait, Goto, history
<1>4. CASE Awaited(t)
  BY <1>4 DEF Awaited, MayResume, MayRun, At, Goto, history
<1>5. CASE CloseWeb(t)
  BY <1>5 DEF CloseWeb, At, Goto, selfVars, history
<1>6. CASE WebClosed(t)
  BY <1>6 DEF WebClosed, MayResume, MayRun, At, Goto, history
<1>7. CASE CloseReturns(t)
  <2>1. /\ path' \in [RecvTasks -> {"dispatch", "except"}]
        /\ using' \in [Tasks -> Sockets \cup {None}]
    BY <1>7 DEF CloseReturns
  <2>2. pc' \in [Tasks -> Running \cup Awaiting \cup Blocked]
    BY <1>7 DEF CloseReturns, Goto
  <2>3. err' \in [Tasks -> Errors]
    BY <1>7 DEF CloseReturns, selfVars
  <2>4. userClosed' \in BOOLEAN
    BY <1>7, Zenon DEF CloseReturns
  <2>5. QED
    BY <1>7, <2>1, <2>2, <2>3, <2>4 DEF CloseReturns, selfVars
<1>8. QED
  BY <1>1, <1>2, <1>3, <1>4, <1>5, <1>6, <1>7 DEF CloseStep

\* a cancellation that is delivered,
LEMMA CancelledType ==
  ASSUME TypeOK, Shape, NEW t \in Tasks, Cancelled(t)
  PROVE  TypeOK'
  BY ConnectionAssumption DEF TypeOK, Shape, Labels, Waits, Bounded, Tasks,
    Background, Running, Awaiting, Blocked, Errors, Closes, Reconnects, Cancelled,
    MayRun, Done, Goto, selfVars

\* connecting and logging in,
LEMMA ConnectType ==
  ASSUME TypeOK, Shape, NEW t \in Background \cup {User}, ConnectStep(t)
  PROVE  TypeOK'
<1> USE ConnectionAssumption DEF TypeOK, Shape, Labels, Waits, Bounded, Tasks,
      Background, Running, Awaiting, Blocked, Errors, Closes, Reconnects
<1>1. CASE ConnectFails(t)
  BY <1>1 DEF ConnectFails, MayResume, MayRun, At, AttemptFails, Goto, selfVars, history
<1>2. CASE ConnectOpens(t)
  <2>1. PICK s \in NextSocket : /\ sock' = [sock EXCEPT ![s] = "open"]
                               /\ web' = s
                               /\ using' = [using EXCEPT ![t] = s]
    BY <1>2 DEF ConnectOpens
  <2>2. s \in Sockets
    BY DEF NextSocket
  <2>3. QED
    BY <1>2, <2>1, <2>2 DEF ConnectOpens, Goto, history
<1>3. CASE LoginFails(t)
  BY <1>3 DEF LoginFails, MayResume, MayRun, At, AttemptFails, Goto, IsOpen, selfVars
<1>4. QED
  BY <1>1, <1>2, <1>3 DEF ConnectStep

\* the reconnection policy,
LEMMA ReconnectType ==
  ASSUME TypeOK, Shape, NEW t \in Background, ReconnectStep(t)
  PROVE  TypeOK'
<1> USE ConnectionAssumption DEF TypeOK, Shape, Labels, Waits, Bounded, Tasks,
      Background, Running, Awaiting, Blocked, Errors, Closes, Reconnects
<1>1. CASE Reconnect(t)
  BY <1>1 DEF Reconnect, At, GiveUp, Goto, selfVars, history
<1>2. CASE TryAgain(t)
  BY <1>2 DEF TryAgain, At, Goto, GiveUp, selfVars, history
<1>3. CASE DelayOver(t)
  BY <1>3 DEF DelayOver, MayResume, MayRun, At, Goto, selfVars, history
<1>4. QED
  BY <1>1, <1>2, <1>3 DEF ReconnectStep

\* the receive task,
LEMMA ReceiveType ==
  ASSUME TypeOK, Shape, NEW r \in RecvTasks, ReceiveStep(r)
  PROVE  TypeOK'
<1> USE ConnectionAssumption DEF TypeOK, Shape, Labels, Waits, Bounded, Tasks,
      Background, Running, Awaiting, Blocked, Errors, Closes, Reconnects
<1>1. CASE Loop(r)
  BY <1>1 DEF Loop, At, Goto, selfVars, history
<1>2. CASE ReceiveNodes(r)
  BY <1>2 DEF ReceiveNodes, MayResume, MayRun, At, IsOpen, Goto, selfVars, history
<1>3. CASE ReceiveFails(r)
  BY <1>3 DEF ReceiveFails, MayResume, MayRun, At, BeginClose, Closing, Goto
<1>4. CASE Finally(r)
  BY <1>4 DEF Finally, At, Done, CancelAndAwait, Goto, history
<1>5. CASE ReceiverLogsIn(r)
  <2>1. pc' \in [Tasks -> Running \cup Awaiting \cup Blocked]
    BY <1>5, StartType DEF ReceiverLogsIn
  <2>2. kaTask' \in KaTasks \cup {None}
    BY <1>5, NewTask DEF ReceiverLogsIn, start_keepalive_loop
  <2>3. attempt' \in [Background -> 0..MaxAttempts + 1]
    BY <1>5 DEF ReceiverLogsIn
  <2>4. QED
    BY <1>5, <2>1, <2>2, <2>3 DEF ReceiverLogsIn, history
<1>6. ASSUME NEW e \in {"retry", "fatal"}, ReceiveDisconnect(r, e) PROVE TypeOK'
  BY <1>6 DEF ReceiveDisconnect, MayResume, MayRun, At, IsOpen, BeginClose, Closing,
        Goto
<1>7. QED
  BY <1>1, <1>2, <1>3, <1>4, <1>5, <1>6 DEF ReceiveStep

\* the keepalive task,
LEMMA KeepaliveType ==
  ASSUME TypeOK, Shape, NEW k \in KaTasks, KeepaliveStep(k)
  PROVE  TypeOK'
<1> USE ConnectionAssumption DEF TypeOK, Shape, Labels, Waits, Bounded, Tasks,
      Background, Running, Awaiting, Blocked, Errors, Closes, Reconnects
<1>1. CASE KeepaliveStops(k)
  BY <1>1 DEF KeepaliveStops, MayResume, MayRun, At, IsOpen, Goto, selfVars, history
<1>2. CASE KeepaliveFails(k)
  BY <1>2 DEF KeepaliveFails, MayResume, MayRun, At, IsOpen, BeginClose, Closing, Goto
<1>3. CASE ScheduleReconnect(k)
  BY <1>3, NewTask DEF ScheduleReconnect, At, Done, Goto, history
<1>4. QED
  BY <1>1, <1>2, <1>3 DEF KeepaliveStep

\* the scheduled reconnection,
LEMMA ReconnectorLogsInType ==
  ASSUME TypeOK, Shape, NEW x \in RecTasks, ReconnectorLogsIn(x)
  PROVE  TypeOK'
<1> USE ConnectionAssumption DEF TypeOK, Tasks, Background, Running, Blocked, Errors
<1>1. pc' \in [Tasks -> Running \cup Awaiting \cup Blocked]
  BY StartType DEF ReconnectorLogsIn, Goto
<1>2. kaTask' \in KaTasks \cup {None} /\ recvTask' \in RecvTasks \cup {None}
  BY NewTask DEF ReconnectorLogsIn, start_keepalive_loop
<1>3. attempt' \in [Background -> 0..MaxAttempts + 1]
  BY DEF ReconnectorLogsIn
<1>4. QED
  BY <1>1, <1>2, <1>3 DEF ReconnectorLogsIn, history

\* the user,
LEMMA UserType ==
  ASSUME TypeOK, Shape, UserStep
  PROVE  TypeOK'
<1> USE ConnectionAssumption DEF TypeOK, Shape, Labels, Waits, Bounded, Tasks,
      Background, Running, Awaiting, Blocked, Errors, Closes, Reconnects
<1>1. CASE UserConnects
  <2>1. raced' \in BOOLEAN
    BY <1>1, Zenon DEF UserConnects
  <2>2. calls' \in 0..MaxCalls
    BY <1>1 DEF UserConnects
  <2>3. QED
    BY <1>1, <2>1, <2>2 DEF UserConnects, Goto, selfVars
<1>2. CASE UserLogsIn
  BY <1>2, NewTask DEF UserLogsIn, MayResume, MayRun, LoginReady, At, IsOpen, Goto,
        Done, start_keepalive_loop, Start, StartedKeepalive, history
<1>3. CASE UserStartsKeepalive
  <2>1. pc' \in [Tasks -> Running \cup Awaiting \cup Blocked]
    BY <1>3, StartType DEF UserStartsKeepalive
  <2>2. kaTask' \in KaTasks \cup {None}
    BY <1>3, NewTask DEF UserStartsKeepalive, start_keepalive_loop
  <2>3. calls' \in 0..MaxCalls
    BY <1>3 DEF UserStartsKeepalive
  <2>4. QED
    BY <1>3, <2>1, <2>2, <2>3 DEF UserStartsKeepalive
<1>4. CASE UserStartsReceive
  <2>1. pc' \in [Tasks -> Running \cup Awaiting \cup Blocked]
    BY <1>4, StartType DEF UserStartsReceive
  <2>2. kaTask' \in KaTasks \cup {None} /\ recvTask' \in RecvTasks \cup {None}
    BY <1>4, NewTask DEF UserStartsReceive, start_keepalive_loop
  <2>3. calls' \in 0..MaxCalls
    BY <1>4 DEF UserStartsReceive
  <2>4. QED
    BY <1>4, <2>1, <2>2, <2>3 DEF UserStartsReceive
<1>5. ASSUME NEW e \in {"none", "fatal"}, UserCloses(e) PROVE TypeOK'
  <2>1. BeginClose(User, e) /\ e \in Errors
    BY <1>5 DEF UserCloses
  <2>2. /\ raced' \in BOOLEAN
        /\ closing' \in BOOLEAN
        /\ lastErr' \in Errors
        /\ err' \in [Tasks -> Errors]
        /\ pc' \in [Tasks -> Running \cup Awaiting \cup Blocked]
    BY <2>1, BeginCloseType
  <2>3. calls' \in 0..MaxCalls
    BY <1>5 DEF UserCloses
  <2>4. QED
    BY <1>5, <2>2, <2>3 DEF UserCloses
<1>6. QED
  BY <1>1, <1>2, <1>3, <1>4, <1>5 DEF UserStep

\* and the network.
LEMMA SocketDiesType ==
  ASSUME TypeOK, Shape, NEW s \in Sockets, SocketDies(s)
  PROVE  TypeOK'
  BY ConnectionAssumption DEF TypeOK, Shape, Labels, Waits, Bounded, Tasks,
    Background, Running, Awaiting, Blocked, Errors, Closes, Reconnects, SocketDies,
    MayRun, IsOpen, taskVars, selfVars, history

\* Every step keeps it.
LEMMA NextType ==
  ASSUME TypeOK, Shape, [Next]_vars
  PROVE  TypeOK'
<1>1. ASSUME NEW t \in Tasks, CloseStep(t) \/ Cancelled(t) PROVE TypeOK'
  BY <1>1, CloseType, CancelledType
<1>2. ASSUME NEW t \in Background \cup {User}, ConnectStep(t) PROVE TypeOK'
  BY <1>2, ConnectType
<1>3. ASSUME NEW t \in Background, ReconnectStep(t) PROVE TypeOK'
  BY <1>3, ReconnectType
<1>4. ASSUME NEW r \in RecvTasks, ReceiveStep(r) PROVE TypeOK'
  BY <1>4, ReceiveType
<1>5. ASSUME NEW k \in KaTasks, KeepaliveStep(k) PROVE TypeOK'
  BY <1>5, KeepaliveType
<1>6. ASSUME NEW x \in RecTasks, ReconnectorLogsIn(x) PROVE TypeOK'
  BY <1>6, ReconnectorLogsInType
<1>7. CASE UserStep
  BY <1>7, UserType
<1>8. ASSUME NEW s \in Sockets, SocketDies(s) PROVE TypeOK'
  BY <1>8, SocketDiesType
<1>9. CASE UNCHANGED vars
  BY <1>9 DEF vars, TypeOK
<1>10. QED
  BY <1>1, <1>2, <1>3, <1>4, <1>5, <1>6, <1>7, <1>8, <1>9 DEF Next

-----------------------------------------------------------------------------
(* Labels and waits                                                        *)

\* At first the user is idle, and no other task has started,
LEMMA InitLabels ==
  ASSUME Init
  PROVE  /\ pc[User] = "idle"
         /\ \A t \in Tasks \ {User} : pc[t] = "off"
         /\ \A t \in Tasks : waitOn[t] = None
  BY DEF Init, Tasks

\* so that nobody runs or waits.
LEMMA InitShape == Init => Shape
<1> SUFFICES ASSUME Init PROVE Shape
  OBVIOUS
<1>1. OneRunning /\ Labels
  BY InitLabels, ConnectionAssumption DEF OneRunning, Labels, Tasks, Running
<1>2. Waits /\ Bounded /\ NoMutualWait
  BY InitLabels, ConnectionAssumption
  DEF Init, Waits, Bounded, NoMutualWait, Tasks, Background, Awaiting
<1>3. QED
  BY <1>1, <1>2 DEF Shape

\* A task that awaits another in close() is not the one the client holds (Waits), so that
\* the one it awaits cannot come to await it: only a keepalive task that fails can meet a
\* receive task that awaits it.
LEMMA CloseShape ==
  ASSUME TypeOK, Shape, NEW t \in Tasks, CloseStep(t)
  PROVE  Shape'
<1> USE ConnectionAssumption DEF TypeOK, Shape, OneRunning, Labels, Waits, Bounded,
      NoMutualWait, Tasks, Background, Running, Awaiting, Blocked, Closes, Reconnects
<1>1. CASE CloseReconnect(t)
  BY <1>1 DEF CloseReconnect, At, Done, CancelAndAwait, Goto, history
<1>2. CASE CloseReceive(t)
  <2>1. CASE recvTask # t /\ ~Done(recvTask)
    <3>1. recvTask \in RecvTasks /\ pc[recvTask] # "off"
      BY <2>1 DEF Done
    <3>2. /\ At(t, "cRecv")
          /\ cancelled' = cancelled \cup {recvTask}
          /\ waitOn' = [waitOn EXCEPT ![t] = recvTask]
          /\ pc' = [pc EXCEPT ![t] = "recvWait"]
          /\ recvTask' = recvTask /\ kaTask' = kaTask
          /\ t \in KaTasks \/ kaFailed => kaFailed'
      BY <1>2, <2>1 DEF CloseReceive, CancelAndAwait, Goto
    <3>3. Waits'
      BY <2>1, <3>1, <3>2
    <3>4. waitOn[recvTask] = t => t \in KaTasks
      BY <2>1, <3>1, <3>2 DEF At
    <3>5. NoMutualWait'
      BY <2>1, <3>1, <3>2, <3>4
    <3>6. QED
      BY <1>2, <2>1, <3>1, <3>2, <3>3, <3>5 DEF CloseReceive, At
  <2>2. CASE recvTask = t \/ Done(recvTask)
    BY <1>2, <2>2 DEF CloseReceive, At, Done, Goto
  <2>3. QED
    BY <2>1, <2>2
<1>3. CASE CloseKeepalive(t)
  BY <1>3 DEF CloseKeepalive, At, Done, CancelAndAwait, Goto, history
<1>4. CASE Awaited(t)
  BY <1>4 DEF Awaited, MayResume, MayRun, At, Goto, history
<1>5. CASE CloseWeb(t)
  BY <1>5 DEF CloseWeb, At, Goto, selfVars, history
<1>6. CASE WebClosed(t)
  BY <1>6 DEF WebClosed, MayResume, MayRun, At, Goto, history
<1>7. CASE CloseReturns(t)
  BY <1>7 DEF CloseReturns, At, Goto, selfVars
<1>8. QED
  BY <1>1, <1>2, <1>3, <1>4, <1>5, <1>6, <1>7 DEF CloseStep

\* A cancellation moves nobody into an await.
LEMMA CancelledShape ==
  ASSUME TypeOK, Shape, NEW t \in Tasks, Cancelled(t)
  PROVE  Shape'
  BY ConnectionAssumption DEF TypeOK, Shape, OneRunning, Labels, Waits,
    Bounded, NoMutualWait, Tasks, Background, Running, Awaiting, Blocked, Closes,
    Reconnects, Cancelled, MayRun, Done, Goto, selfVars

\* Nor does connecting,
LEMMA ConnectShape ==
  ASSUME TypeOK, Shape, NEW t \in Background \cup {User}, ConnectStep(t)
  PROVE  Shape'
<1> USE ConnectionAssumption DEF TypeOK, Shape, OneRunning, Labels, Waits, Bounded,
      NoMutualWait, Tasks, Background, Running, Awaiting, Blocked, Closes, Reconnects
<1>1. CASE ConnectFails(t)
  BY <1>1 DEF ConnectFails, MayResume, MayRun, At, AttemptFails, Goto, selfVars, history
<1>2. CASE ConnectOpens(t)
  BY <1>2 DEF ConnectOpens, MayResume, MayRun, At, NextSocket, Goto, history
<1>3. CASE LoginFails(t)
  BY <1>3 DEF LoginFails, MayResume, MayRun, At, AttemptFails, Goto, IsOpen, selfVars
<1>4. QED
  BY <1>1, <1>2, <1>3 DEF ConnectStep

\* reconnecting,
LEMMA ReconnectShape ==
  ASSUME TypeOK, Shape, NEW t \in Background, ReconnectStep(t)
  PROVE  Shape'
<1> USE ConnectionAssumption DEF TypeOK, Shape, OneRunning, Labels, Waits, Bounded,
      NoMutualWait, Tasks, Background, Running, Awaiting, Blocked, Closes, Reconnects
<1>1. CASE Reconnect(t)
  BY <1>1 DEF Reconnect, At, GiveUp, Goto, selfVars, history
<1>2. CASE TryAgain(t)
  BY <1>2 DEF TryAgain, At, Goto, GiveUp, selfVars, history
<1>3. CASE DelayOver(t)
  BY <1>3 DEF DelayOver, MayResume, MayRun, At, Goto, selfVars, history
<1>4. QED
  BY <1>1, <1>2, <1>3 DEF ReconnectStep

\* and receiving, but for the finally, which awaits a keepalive task that does not await
\* the receive task unless it failed.
LEMMA ReceiveShape ==
  ASSUME TypeOK, Shape, NEW r \in RecvTasks, ReceiveStep(r)
  PROVE  Shape'
<1> USE ConnectionAssumption DEF TypeOK, Shape, OneRunning, Labels, Waits, Bounded,
      NoMutualWait, Tasks, Background, Running, Awaiting, Blocked, Closes, Reconnects
<1>1. CASE Loop(r)
  BY <1>1 DEF Loop, At, Goto, selfVars, history
<1>2. CASE ReceiveNodes(r)
  BY <1>2 DEF ReceiveNodes, MayResume, MayRun, At, IsOpen, Goto, selfVars, history
<1>3. CASE ReceiveFails(r)
  BY <1>3 DEF ReceiveFails, MayResume, MayRun, At, BeginClose, Closing, Goto
<1>4. CASE Finally(r)
  BY <1>4 DEF Finally, At, Done, CancelAndAwait, Goto, history
<1>5. CASE ReceiverLogsIn(r)
  BY <1>5, NewTask DEF ReceiverLogsIn, MayResume, MayRun, LoginReady, At, IsOpen,
        start_keepalive_loop, Done, Start, StartedKeepalive, history
<1>6. ASSUME NEW e \in {"retry", "fatal"}, ReceiveDisconnect(r, e) PROVE Shape'
  BY <1>6 DEF ReceiveDisconnect, MayResume, MayRun, At, IsOpen, BeginClose, Closing,
        Goto
<1>7. QED
  BY <1>1, <1>2, <1>3, <1>4, <1>5, <1>6 DEF ReceiveStep

\* A keepalive task schedules a reconnection and ends.
LEMMA KeepaliveShape ==
  ASSUME TypeOK, Shape, NEW k \in KaTasks, KeepaliveStep(k)
  PROVE  Shape'
<1> USE ConnectionAssumption DEF TypeOK, Shape, OneRunning, Labels, Waits, Bounded,
      NoMutualWait, Tasks, Background, Running, Awaiting, Blocked, Closes, Reconnects
<1>1. CASE KeepaliveStops(k)
  BY <1>1 DEF KeepaliveStops, MayResume, MayRun, At, IsOpen, Goto, selfVars, history
<1>2. CASE KeepaliveFails(k)
  BY <1>2 DEF KeepaliveFails, MayResume, MayRun, At, IsOpen, BeginClose, Closing, Goto
<1>3. CASE ScheduleReconnect(k)
  BY <1>3, NewTask DEF ScheduleReconnect, At, Done, Goto, history
<1>4. QED
  BY <1>1, <1>2, <1>3 DEF KeepaliveStep

\* A new receive task is one that nobody awaits (NewTask),
LEMMA ReconnectorLogsInShape ==
  ASSUME TypeOK, Shape, NEW x \in RecTasks, ReconnectorLogsIn(x)
  PROVE  Shape'
  BY ConnectionAssumption, NewTask DEF TypeOK, Shape, OneRunning, Labels, Waits,
    Bounded, NoMutualWait, Tasks, Background, Running, Awaiting, Blocked, Closes,
    Reconnects, ReconnectorLogsIn, MayResume, MayRun, LoginReady, At, IsOpen, Done,
    Goto, start_keepalive_loop, Start, StartedKeepalive, history

\* also when the user starts it.
LEMMA UserShape ==
  ASSUME TypeOK, Shape, UserStep
  PROVE  Shape'
<1> USE ConnectionAssumption DEF TypeOK, Shape, OneRunning, Labels, Waits, Bounded,
      NoMutualWait, Tasks, Background, Running, Awaiting, Blocked, Closes, Reconnects
<1>1. CASE UserConnects
  BY <1>1 DEF UserConnects, MayResume, MayRun, At, Done, Goto, selfVars
<1>2. CASE UserLogsIn
  BY <1>2, NewTask DEF UserLogsIn, MayResume, MayRun, LoginReady, At, IsOpen, Goto,
        Done, start_keepalive_loop, Start, StartedKeepalive, history
<1>3. CASE UserStartsKeepalive
  BY <1>3, NewTask DEF UserStartsKeepalive, MayResume, MayRun, At, NoLoops, Done,
        start_keepalive_loop, Start
<1>4. CASE UserStartsReceive
  BY <1>4, NewTask DEF UserStartsReceive, MayResume, MayRun, At, NoLoops, Done,
        start_keepalive_loop, Start, StartedKeepalive
<1>5. ASSUME NEW e \in {"none", "fatal"}, UserCloses(e) PROVE Shape'
  BY <1>5 DEF UserCloses, MayResume, MayRun, At, BeginClose, Closing, Goto
<1>6. QED
  BY <1>1, <1>2, <1>3, <1>4, <1>5 DEF UserStep

\* A socket that dies moves no task.
LEMMA SocketDiesShape ==
  ASSUME TypeOK, Shape, NEW s \in Sockets, SocketDies(s)
  PROVE  Shape'
  BY ConnectionAssumption DEF TypeOK, Shape, OneRunning, Labels, Waits,
    Bounded, NoMutualWait, Tasks, Background, Running, Awaiting, Blocked, Closes,
    Reconnects, SocketDies, MayRun, IsOpen, taskVars, selfVars, history

\* Every step keeps it.
LEMMA NextShape ==
  ASSUME TypeOK, Shape, [Next]_vars
  PROVE  Shape'
<1>1. ASSUME NEW t \in Tasks, CloseStep(t) \/ Cancelled(t) PROVE Shape'
  BY <1>1, CloseShape, CancelledShape
<1>2. ASSUME NEW t \in Background \cup {User}, ConnectStep(t) PROVE Shape'
  BY <1>2, ConnectShape
<1>3. ASSUME NEW t \in Background, ReconnectStep(t) PROVE Shape'
  BY <1>3, ReconnectShape
<1>4. ASSUME NEW r \in RecvTasks, ReceiveStep(r) PROVE Shape'
  BY <1>4, ReceiveShape
<1>5. ASSUME NEW k \in KaTasks, KeepaliveStep(k) PROVE Shape'
  BY <1>5, KeepaliveShape
<1>6. ASSUME NEW x \in RecTasks, ReconnectorLogsIn(x) PROVE Shape'
  BY <1>6, ReconnectorLogsInShape
<1>7. CASE UserStep
  BY <1>7, UserShape
<1>8. ASSUME NEW s \in Sockets, SocketDies(s) PROVE Shape'
  BY <1>8, SocketDiesShape
<1>9. CASE UNCHANGED vars
  BY <1>9 DEF vars, Shape, OneRunning, Labels, Waits, Bounded,
              NoMutualWait
<1>10. QED
  BY <1>1, <1>2, <1>3, <1>4, <1>5, <1>6, <1>7, <1>8, <1>9 DEF Next

-----------------------------------------------------------------------------
(* One session at a time                                                   *)

\* At first no task has started, and there is no socket.
LEMMA InitCalm == Init => Calm
<1> SUFFICES ASSUME Init PROVE Calm
  OBVIOUS
<1>1. \A t \in RecvTasks \cup KaTasks \cup RecTasks : pc[t] = "off"
  BY InitLabels, ConnectionAssumption DEF Tasks
<1>2. Apart /\ Held /\ Together /\ UserApart /\ Cuts
  BY <1>1, InitLabels
  DEF Init, Apart, Held, Together, UserApart, Cuts, Live, Background, Reconnects
<1>3. WebHeld /\ ClosingTells /\ ClosedQuiet /\ StreamEnded
  BY <1>1, InitLabels
  DEF Init, WebHeld, ClosingTells, ClosedQuiet, StreamEnded, Closing, IsOpen, Tasks
<1>4. QED
  BY <1>2, <1>3 DEF Calm

\* close() lets go of one task after the other: each stage finds the tasks that the
\* stages before it took down still down.
LEMMA CloseCalm ==
  ASSUME TypeOK, Shape, Calm, ~raced', NEW t \in Tasks, CloseStep(t)
  PROVE  Calm'
<1> USE ConnectionAssumption DEF TypeOK, Shape, OneRunning, Labels, Waits, Bounded,
      Calm, Apart, Held, Together, UserApart, Cuts, WebHeld, ClosingTells, ClosedQuiet,
      StreamEnded, Live, Stopping, Tasks, Background, Running, Awaiting, Blocked,
      Closes, Reconnects, Closing, IsOpen
<1>1. CASE CloseReconnect(t)
  BY <1>1 DEF CloseReconnect, At, Done, CancelAndAwait, Goto, history
<1>2. CASE CloseReceive(t)
  BY <1>2 DEF CloseReceive, At, Done, CancelAndAwait, Goto
<1>3. CASE CloseKeepalive(t)
  BY <1>3 DEF CloseKeepalive, At, Done, CancelAndAwait, Goto, history
<1>4. CASE Awaited(t)
  BY <1>4 DEF Awaited, MayResume, MayRun, At, Goto, history
<1>5. CASE CloseWeb(t)
  BY <1>5 DEF CloseWeb, At, Goto, selfVars, history
<1>6. CASE WebClosed(t)
  BY <1>6 DEF WebClosed, MayResume, MayRun, At, Goto, history
<1>7. CASE CloseReturns(t)
  BY <1>7 DEF CloseReturns, At, Goto, selfVars
<1>8. QED
  BY <1>1, <1>2, <1>3, <1>4, <1>5, <1>6, <1>7 DEF CloseStep

\* A cancelled receive task goes to its finally, the others end.
LEMMA CancelledCalm ==
  ASSUME TypeOK, Shape, Calm, ~raced', NEW t \in Tasks, Cancelled(t)
  PROVE  Calm'
  BY ConnectionAssumption DEF TypeOK, Shape, OneRunning, Labels, Waits,
    Bounded, Calm, Apart, Held, Together, UserApart, Cuts, WebHeld, ClosingTells,
    ClosedQuiet, StreamEnded, Live, Stopping, Tasks, Background, Running, Awaiting,
    Blocked, Closes, Reconnects, Closing, IsOpen, Cancelled, MayRun, Done, Goto,
    selfVars

\* Whoever connects is alone, so that the socket it opens replaces none in use.
LEMMA ConnectCalm ==
  ASSUME TypeOK, Shape, Calm, ~raced', NEW t \in Background \cup {User}, ConnectStep(t)
  PROVE  Calm'
<1> USE ConnectionAssumption DEF TypeOK, Shape, OneRunning, Labels, Waits, Bounded,
      Calm, Apart, Held, Together, UserApart, Cuts, WebHeld, ClosingTells, ClosedQuiet,
      StreamEnded, Live, Stopping, Tasks, Background, Running, Awaiting, Blocked,
      Closes, Reconnects, Closing, IsOpen
<1>1. CASE ConnectFails(t)
  BY <1>1 DEF ConnectFails, MayResume, MayRun, At, AttemptFails, Goto, selfVars, history
<1>2. CASE ConnectOpens(t)
  BY <1>2 DEF ConnectOpens, MayResume, MayRun, At, NextSocket, Goto, history
<1>3. CASE LoginFails(t)
  BY <1>3 DEF LoginFails, MayResume, MayRun, At, AttemptFails, Goto, selfVars
<1>4. QED
  BY <1>1, <1>2, <1>3 DEF ConnectStep

\* A reconnection asked for after the device was logged out gives up.
LEMMA ReconnectCalm ==
  ASSUME TypeOK, Shape, Calm, ~raced', NEW t \in Background, ReconnectStep(t)
  PROVE  Calm'
<1> USE ConnectionAssumption DEF TypeOK, Shape, OneRunning, Labels, Waits, Bounded,
      Calm, Apart, Held, Together, UserApart, Cuts, WebHeld, ClosingTells, ClosedQuiet,
      StreamEnded, Live, Stopping, Tasks, Background, Running, Awaiting, Blocked,
      Closes, Reconnects, Closing, IsOpen
<1>1. CASE Reconnect(t)
  BY <1>1 DEF Reconnect, At, ShouldReconnect, GiveUp, Goto, selfVars, history
<1>2. CASE TryAgain(t)
  BY <1>2 DEF TryAgain, At, Goto, GiveUp, selfVars, history
<1>3. CASE DelayOver(t)
  BY <1>3 DEF DelayOver, MayResume, MayRun, At, Goto, selfVars, history
<1>4. QED
  BY <1>1, <1>2, <1>3 DEF ReconnectStep

\* A receive task that closes, or becomes _receive_task again, finds no other one, and
\* the user not closing (or the step races with it).
LEMMA ReceiveCalm ==
  ASSUME TypeOK, Shape, Calm, ~raced', NEW r \in RecvTasks, ReceiveStep(r)
  PROVE  Calm'
<1> USE ConnectionAssumption DEF TypeOK, Shape, OneRunning, Labels, Waits, Bounded,
      Calm, Apart, Held, Together, UserApart, Cuts, WebHeld, ClosingTells, ClosedQuiet,
      StreamEnded, Live, Stopping, Tasks, Background, Running, Awaiting, Blocked,
      Closes, Reconnects, Closing, IsOpen
<1>1. CASE Loop(r)
  BY <1>1 DEF Loop, At, Goto, selfVars, history
<1>2. CASE ReceiveNodes(r)
  BY <1>2 DEF ReceiveNodes, MayResume, MayRun, At, Goto, selfVars, history
<1>3. CASE ReceiveFails(r)
  BY <1>3 DEF ReceiveFails, MayResume, MayRun, At, BeginClose, Detached, Done, Goto
<1>4. CASE Finally(r)
  BY <1>4 DEF Finally, At, Done, CancelAndAwait, Goto, history
<1>5. CASE ReceiverLogsIn(r)
  BY <1>5, NewTask DEF ReceiverLogsIn, MayResume, MayRun, LoginReady, At,
        start_keepalive_loop, Done, Start, StartedKeepalive, history
<1>6. ASSUME NEW e \in {"retry", "fatal"}, ReceiveDisconnect(r, e) PROVE Calm'
  BY <1>6 DEF ReceiveDisconnect, MayResume, MayRun, At, BeginClose, Detached, Done, Goto
<1>7. QED
  BY <1>1, <1>2, <1>3, <1>4, <1>5, <1>6 DEF ReceiveStep

\* A keepalive task that closes finds the receive task reading or gone; when it schedules
\* a reconnection no receive task is left.
LEMMA KeepaliveCalm ==
  ASSUME TypeOK, Shape, Calm, ~raced', NEW k \in KaTasks, KeepaliveStep(k)
  PROVE  Calm'
<1> USE ConnectionAssumption DEF TypeOK, Shape, OneRunning, Labels, Waits, Bounded,
      Calm, Apart, Held, Together, UserApart, Cuts, WebHeld, ClosingTells, ClosedQuiet,
      StreamEnded, Live, Stopping, Tasks, Background, Running, Awaiting, Blocked,
      Closes, Reconnects, Closing, IsOpen
<1>1. CASE KeepaliveStops(k)
  BY <1>1 DEF KeepaliveStops, MayResume, MayRun, At, Goto, selfVars, history
<1>2. CASE KeepaliveFails(k)
  BY <1>2 DEF KeepaliveFails, MayResume, MayRun, At, BeginClose, Detached, Done, Goto
<1>3. CASE ScheduleReconnect(k)
  BY <1>3, NewTask DEF ScheduleReconnect, At, Done, ShouldReconnect, Goto, history
<1>4. QED
  BY <1>1, <1>2, <1>3 DEF KeepaliveStep

\* The reconnection starts the one receive task, and ends.
LEMMA ReconnectorLogsInCalm ==
  ASSUME TypeOK, Shape, Calm, ~raced', NEW x \in RecTasks, ReconnectorLogsIn(x)
  PROVE  Calm'
  BY ConnectionAssumption, NewTask DEF TypeOK, Shape, OneRunning, Labels, Waits,
    Bounded, Calm, Apart, Held, Together, UserApart, Cuts, WebHeld, ClosingTells,
    ClosedQuiet, StreamEnded, Live, Stopping, Tasks, Background, Running, Awaiting,
    Blocked, Closes, Reconnects, Closing, IsOpen, ReconnectorLogsIn, MayResume, MayRun,
    LoginReady, At, Done, Goto, start_keepalive_loop, Start, StartedKeepalive, history

\* The user connects when no task is left and closes when none is detached, or races.
LEMMA UserCalm ==
  ASSUME TypeOK, Shape, Calm, ~raced', UserStep
  PROVE  Calm'
<1> USE ConnectionAssumption DEF TypeOK, Shape, OneRunning, Labels, Waits, Bounded,
      Calm, Apart, Held, Together, UserApart, Cuts, WebHeld, ClosingTells, ClosedQuiet,
      StreamEnded, Live, Stopping, Tasks, Background, Running, Awaiting, Blocked,
      Closes, Reconnects, Closing, IsOpen
<1>1. CASE UserConnects
  <2>1. \A t \in Background : pc[t] = "off"
    <3>1. ~\E t \in Background : ~Done(t)
      BY <1>1 DEF UserConnects
    <3>2. QED
      BY <3>1 DEF Done
  <2>2. \A k \in KaTasks : pc[k] = "off"
    BY <1>1 DEF UserConnects, MayResume, MayRun, At
  <2>3. UserApart'
    BY <1>1, <2>1, <2>2 DEF UserConnects, Goto
  <2>4. QED
    BY <1>1, <2>1, <2>2, <2>3 DEF UserConnects, At, Goto, selfVars
<1>2. CASE UserLogsIn
  BY <1>2, NewTask DEF UserLogsIn, MayResume, MayRun, LoginReady, At, Goto, Done,
        start_keepalive_loop, Start, StartedKeepalive, history
<1>3. CASE UserStartsKeepalive
  BY <1>3, NewTask DEF UserStartsKeepalive, MayResume, MayRun, At, NoLoops, Done,
        start_keepalive_loop, Start
<1>4. CASE UserStartsReceive
  BY <1>4, NewTask DEF UserStartsReceive, MayResume, MayRun, At, NoLoops, Done,
        start_keepalive_loop, Start, StartedKeepalive
<1>5. ASSUME NEW e \in {"none", "fatal"}, UserCloses(e) PROVE Calm'
  <2>1. \A t \in Tasks : ~Detached(t)
    <3>1. ~\E t \in Tasks : Detached(t)
      BY <1>5 DEF UserCloses, BeginClose
    <3>2. QED
      BY <3>1
  <2>2. \A t \in Tasks \ {User} : pc[t] # "off" => t \in {recvTask, kaTask, recTask}
    BY <2>1 DEF Detached, Done
  <2>3. /\ \A r \in RecvTasks : pc[r] # "off" => recvTask = r /\ pc[r] \in {"recv", "finWait"}
        /\ \A k \in KaTasks : pc[k] # "off" => pc[k] \in {"alive", "recvWait"}
    BY <1>5, <2>2 DEF UserCloses, MayResume, MayRun, At
  <2>4. UserApart'
    BY <1>5, <2>3 DEF UserCloses, BeginClose, MayResume, MayRun, At, Goto
  <2>5. QED
    BY <1>5, <2>2, <2>3, <2>4 DEF UserCloses, BeginClose, MayResume, MayRun, At, Goto
<1>6. QED
  BY <1>1, <1>2, <1>3, <1>4, <1>5 DEF UserStep

\* A socket that dies is one open socket less.
LEMMA SocketDiesCalm ==
  ASSUME TypeOK, Shape, Calm, ~raced', NEW s \in Sockets, SocketDies(s)
  PROVE  Calm'
  BY ConnectionAssumption DEF TypeOK, Shape, OneRunning, Labels, Waits,
    Bounded, Calm, Apart, Held, Together, UserApart, Cuts, WebHeld, ClosingTells,
    ClosedQuiet, StreamEnded, Live, Stopping, Tasks, Background, Running, Awaiting,
    Blocked, Closes, Reconnects, Closing, IsOpen, SocketDies, MayRun, taskVars,
    selfVars, history

\* Every step keeps it.
LEMMA NextCalm ==
  ASSUME TypeOK, Shape, Calm, ~raced', [Next]_vars
  PROVE  Calm'
<1>1. ASSUME NEW t \in Tasks, CloseStep(t) \/ Cancelled(t) PROVE Calm'
  BY <1>1, CloseCalm, CancelledCalm
<1>2. ASSUME NEW t \in Background \cup {User}, ConnectStep(t) PROVE Calm'
  BY <1>2, ConnectCalm
<1>3. ASSUME NEW t \in Background, ReconnectStep(t) PROVE Calm'
  BY <1>3, ReconnectCalm
<1>4. ASSUME NEW r \in RecvTasks, ReceiveStep(r) PROVE Calm'
  BY <1>4, ReceiveCalm
<1>5. ASSUME NEW k \in KaTasks, KeepaliveStep(k) PROVE Calm'
  BY <1>5, KeepaliveCalm
<1>6. ASSUME NEW x \in RecTasks, ReconnectorLogsIn(x) PROVE Calm'
  BY <1>6, ReconnectorLogsInCalm
<1>7. CASE UserStep
  BY <1>7, UserCalm
<1>8. ASSUME NEW s \in Sockets, SocketDies(s) PROVE Calm'
  BY <1>8, SocketDiesCalm
<1>9. CASE UNCHANGED vars
  BY <1>9 DEF vars, Calm, Apart, Held, Together, UserApart, Cuts, WebHeld,
              ClosingTells, ClosedQuiet, StreamEnded, Live, Stopping, Closing, IsOpen
<1>10. QED
  BY <1>1, <1>2, <1>3, <1>4, <1>5, <1>6, <1>7, <1>8, <1>9 DEF Next

\* The two layers are kept together.
LEMMA Invariance == Spec => [](TypeOK /\ Shape /\ (raced \/ Calm))
<1>1. Init => TypeOK /\ Shape /\ (raced \/ Calm)
  BY InitType, InitShape, InitCalm
<1>2. ASSUME TypeOK, Shape, raced \/ Calm, [Next]_vars
      PROVE  (TypeOK /\ Shape /\ (raced \/ Calm))'
  <2>1. TypeOK' /\ Shape'
    BY <1>2, NextType, NextShape
  <2>2. CASE raced
    BY <1>2, <2>1, <2>2, RacedStays
  <2>3. CASE ~raced /\ ~raced'
    BY <1>2, <2>1, <2>3, NextCalm
  <2>4. QED
    BY <2>1, <2>2, <2>3
<1>3. QED
  BY <1>1, <1>2, PTL DEF Spec

-----------------------------------------------------------------------------
\* The variables of Connection keep their types, for any number of tasks and sockets: no
\* attempt beyond the policy's bound is ever counted, and no await is left without a task.
THEOREM ConnectionTypeOK == Spec => []TypeOK
  BY Invariance, PTL

\* close() never makes two tasks await each other, unless a keepalive task that failed has
\* cancelled a receive task: whichever of the user, the receive tasks and the keepalive
\* tasks close at the same time.
THEOREM ConnectionNoMutualWait == Spec => []NoMutualWait
<1>1. Shape => NoMutualWait
  BY DEF Shape
<1>2. QED
  BY <1>1, Invariance, PTL

\* At most one receive task runs and reconnecting leaks no open socket, as long as no
\* detached task raced with the user.
THEOREM ConnectionOneReceiver == Spec => []OneReceiver
<1>1. TypeOK /\ Shape /\ (raced \/ Calm) => OneReceiver
  BY ConnectionAssumption DEF Calm, Apart, WebHeld, Live, Background, OneReceiver, Done
<1>2. QED
  BY <1>1, Invariance, PTL

\* close() of the user leaves no socket and no task, and nothing reconnects a device that
\* a running session was told is logged out, as long as no detached task raced with the
\* user.
THEOREM ConnectionClosedStaysClosed == Spec => []ClosedStaysClosed
<1>1. TypeOK /\ Shape /\ (raced \/ Calm) => ClosedStaysClosed
  <2>1. SUFFICES ASSUME Calm, ~raced
                 PROVE  /\ userClosed => web = None /\ \A t \in Tasks \ {User} : Done(t)
                        /\ loggedOut = "stream" => \A t \in Background : ~Reconnecting(t)
    BY DEF ClosedStaysClosed
  <2>2. userClosed => web = None /\ \A t \in Tasks \ {User} : Done(t)
    BY <2>1, ConnectionAssumption DEF Calm, ClosedQuiet, Live, Done
  <2>3. loggedOut = "stream" => \A t \in Background : ~Reconnecting(t)
    BY <2>1 DEF Calm, StreamEnded, Live, Reconnecting, Background
  <2>4. QED
    BY <2>2, <2>3
<1>2. QED
  BY <1>1, Invariance, PTL
=============================================================================
