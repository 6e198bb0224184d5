----------------------------- MODULE Connection -----------------------------
(***************************************************************************)
(* The life cycle of WhatsAppClient (socket.py): connect, close, the       *)
(* receive task, the keepalive task and the two ways of reconnecting (in   *)
(* the receive task, or in a task of its own after a keepalive failure).   *)
(*                                                                         *)
(* A label of pc is a point where the task awaits, except the labels of    *)
(* Running: there the task has not awaited yet, and asyncio runs no other  *)
(* task before it does.  Event handlers return without awaiting.           *)
(***************************************************************************)
EXTENDS Naturals

CONSTANTS User,         \* the user's task
          RecvTasks,    \* instances of receive_forever
          KaTasks,      \* instances of keepalive_forever
          RecTasks,     \* instances of the scheduled _reconnect_after_disconnect
          None,         \* no task
          Sockets,      \* bound: websockets ever opened
          MaxAttempts,  \* ReconnectPolicy.max_attempts
          MaxCalls      \* bound: calls of the user

ASSUME ConnectionAssumption ==
  /\ RecvTasks \cap KaTasks = {}
  /\ RecvTasks \cap RecTasks = {}
  /\ KaTasks \cap RecTasks = {}
  /\ User \notin RecvTasks \cup KaTasks \cup RecTasks
  /\ None \notin RecvTasks \cup KaTasks \cup RecTasks \cup {User} \cup Sockets
  /\ MaxAttempts \in Nat
  /\ MaxCalls \in Nat

Tasks == {User} \cup RecvTasks \cup KaTasks \cup RecTasks
Background == RecvTasks \cup RecTasks

VARIABLES
  pc,        \* where each task is
  err,       \* the error a task closes or reconnects for
  path,      \* how a receive task came to close: dispatching a node or by exception
  attempt,   \* reconnect attempt of a task
  waitOn,    \* the task a task awaits
  cancelled, \* tasks with a cancellation not yet delivered
  using,     \* the socket a task is logging in on, reading or closing
  recvTask,  \* _receive_task
  kaTask,    \* _keepalive_task
  recTask,   \* _reconnect_task
  closing,   \* _closing
  lastErr,   \* _last_disconnect_error
  web,       \* _web: the socket it holds, or None
  sock,      \* state of each websocket
  calls,     \* calls of the user so far
  userClosed,\* close() or logout() returned and the user made no call since
  raced,     \* a task that close() does not see ran while the user closed
  kaFailed,  \* a keepalive task that failed has cancelled a receive task
  loggedOut, \* where the server said that the device is logged out
  abandoned  \* sockets left open by a login that failed or was cancelled

taskVars == <<pc, err, path, attempt, waitOn, cancelled, using>>
selfVars == <<recvTask, kaTask, recTask, closing, lastErr, web>>
history == <<calls, userClosed, raced, kaFailed, loggedOut, abandoned>>
vars == <<pc, err, path, attempt, waitOn, cancelled, using, recvTask, kaTask, recTask,
          closing, lastErr, web, sock, calls, userClosed, raced, kaFailed, loggedOut, abandoned>>

Errors == {"none", "retry", "fatal"}
Running == {"cRec", "cRecv", "cKa", "cWeb", "cEnd", "loop", "rec", "try", "fin", "sched"}
Awaiting == {"recWait", "recvWait", "kaWait", "finWait"}
Blocked == {"idle", "off", "recv", "sleep", "connecting", "login", "alive", "webWait"}

TypeOK ==
  /\ pc \in [Tasks -> Running \cup Awaiting \cup Blocked]
  /\ err \in [Tasks -> Errors]
  /\ path \in [RecvTasks -> {"dispatch", "except"}]
  /\ attempt \in [Background -> 0..MaxAttempts + 1]
  /\ waitOn \in [Tasks -> Tasks \cup {None}]
  /\ cancelled \in SUBSET Tasks
  /\ using \in [Tasks -> Sockets \cup {None}]
  /\ recvTask \in RecvTasks \cup {None}
  /\ kaTask \in KaTasks \cup {None}
  /\ recTask \in RecTasks \cup {None}
  /\ closing \in BOOLEAN
  /\ lastErr \in Errors
  /\ web \in Sockets \cup {None}
  /\ sock \in [Sockets -> {"unused", "open", "dead", "closed"}]
  /\ calls \in 0..MaxCalls
  /\ userClosed \in BOOLEAN
  /\ raced \in BOOLEAN
  /\ kaFailed \in BOOLEAN
  /\ loggedOut \in {"no", "stream", "login"}
  /\ abandoned \in SUBSET Sockets

Init ==
  /\ pc = [t \in Tasks |-> IF t = User THEN "idle" ELSE "off"]
  /\ err = [t \in Tasks |-> "none"]
  /\ path = [t \in RecvTasks |-> "dispatch"]
  /\ attempt = [t \in Background |-> 0]
  /\ waitOn = [t \in Tasks |-> None]
  /\ cancelled = {}
  /\ using = [t \in Tasks |-> None]
  /\ recvTask = None
  /\ kaTask = None
  /\ recTask = None
  /\ closing = FALSE
  /\ lastErr = "none"
  /\ web = None
  /\ sock = [s \in Sockets |-> "unused"]
  /\ calls = 0
  /\ userClosed = FALSE
  /\ raced = FALSE
  /\ kaFailed = FALSE
  /\ loggedOut = "no"
  /\ abandoned = {}

-----------------------------------------------------------------------------
MayRun == \A t \in Tasks : pc[t] \notin Running
\* A cancelled task goes on with CancelledError and nothing else.
MayResume(t) == MayRun /\ t \notin cancelled
Done(t) == IF t = None THEN TRUE ELSE pc[t] = "off"
At(t, label) == pc[t] = label
Goto(t, label) == pc' = [pc EXCEPT ![t] = label]
\* The instances that have ended and nobody waits for, one of which stands for the next
\* task that is created.
Free(S) == {t \in S : /\ pc[t] = "off"
                      /\ t \notin cancelled
                      /\ \A u \in Tasks : waitOn[u] # t}
New(S) == CHOOSE t \in Free(S) : TRUE
IsOpen(s) == IF s = None THEN FALSE ELSE sock[s] = "open"

\* A task that runs though no variable of the client holds it: it closes the client,
\* reconnects it in the receive task, or was dropped.
Detached(t) == ~Done(t) /\ t \notin {User, recvTask, kaTask, recTask}

Reconnecting(t) == pc[t] \in {"sleep", "connecting", "login"}

\* ReconnectPolicy.should_reconnect: an error with a retryable status code.
ShouldReconnect(e) == MaxAttempts > 0 /\ e = "retry"

-----------------------------------------------------------------------------
(* close(): each stage takes one of the other tasks down, then goes on.    *)

\* Cancel task v and await it: stop_receive_loop, stop_keepalive_loop.
CancelAndAwait(t, v, label) ==
  /\ cancelled' = cancelled \cup {v}
  /\ waitOn' = [waitOn EXCEPT ![t] = v]
  /\ Goto(t, label)

\* The scheduled reconnection.
CloseReconnect_keeps_running(t) ==
  /\ At(t, "cRec")
  /\ recTask' = IF recTask = t THEN recTask ELSE None
  /\ Goto(t, "cRecv")
  /\ UNCHANGED <<cancelled, waitOn, err, path, attempt, using, recvTask, kaTask, closing, lastErr,
                 web, sock, history>>

CloseReconnect(t) ==
  /\ At(t, "cRec")
  /\ \/ /\ recTask # t /\ ~Done(recTask)
        /\ CancelAndAwait(t, recTask, "recWait")
        /\ UNCHANGED recTask
     \/ /\ recTask = t \/ Done(recTask)
        /\ recTask' = IF recTask = t THEN recTask ELSE None
        /\ Goto(t, "cRecv")
        /\ UNCHANGED <<cancelled, waitOn>>
  /\ UNCHANGED <<err, path, attempt, using, recvTask, kaTask, closing, lastErr, web, sock, history>>

\* stop_receive_loop, unless the receive task itself closes.
CloseReceive_awaits_itself(t) ==
  /\ At(t, "cRecv")
  /\ \/ /\ ~Done(recvTask)
        /\ CancelAndAwait(t, recvTask, "recvWait")
        /\ kaFailed' = (kaFailed \/ t \in KaTasks)
        /\ UNCHANGED recvTask
     \/ /\ Done(recvTask)
        /\ recvTask' = None
        /\ Goto(t, "cKa")
        /\ UNCHANGED <<cancelled, waitOn, kaFailed>>
  /\ UNCHANGED <<err, path, attempt, using, kaTask, recTask, closing, lastErr, web, sock,
                 calls, userClosed, raced, loggedOut, abandoned>>

CloseReceive(t) ==
  /\ At(t, "cRecv")
  /\ \/ /\ recvTask # t /\ ~Done(recvTask)
        /\ CancelAndAwait(t, recvTask, "recvWait")
        /\ kaFailed' = (kaFailed \/ t \in KaTasks)
        /\ UNCHANGED recvTask
     \/ /\ recvTask = t \/ Done(recvTask)
        /\ recvTask' = None
        /\ Goto(t, "cKa")
        /\ UNCHANGED <<cancelled, waitOn, kaFailed>>
  /\ UNCHANGED <<err, path, attempt, using, kaTask, recTask, closing, lastErr, web, sock,
                 calls, userClosed, raced, loggedOut, abandoned>>

\* stop_keepalive_loop, unless the keepalive task itself closes.
CloseKeepalive(t) ==
  /\ At(t, "cKa")
  /\ \/ /\ kaTask # t /\ ~Done(kaTask)
        /\ CancelAndAwait(t, kaTask, "kaWait")
        /\ UNCHANGED kaTask
     \/ /\ kaTask = t \/ Done(kaTask)
        /\ kaTask' = None
        /\ Goto(t, "cWeb")
        /\ UNCHANGED <<cancelled, waitOn>>
  /\ UNCHANGED <<err, path, attempt, using, recvTask, recTask, closing, lastErr, web, sock, history>>

\* The awaited task has ended, by its cancellation or otherwise: the await swallows
\* CancelledError and the variable that held the task is cleared.
Awaited(t) ==
  /\ MayResume(t)
  /\ pc[t] \in Awaiting
  /\ At(waitOn[t], "off")
  /\ waitOn' = [waitOn EXCEPT ![t] = None]
  /\ \/ At(t, "recWait") /\ Goto(t, "cRecv") /\ recTask' = None /\ UNCHANGED <<recvTask, kaTask>>
     \/ At(t, "recvWait") /\ Goto(t, "cKa") /\ recvTask' = None /\ UNCHANGED <<recTask, kaTask>>
     \/ At(t, "kaWait") /\ Goto(t, "cWeb") /\ kaTask' = None /\ UNCHANGED <<recTask, recvTask>>
     \/ /\ At(t, "finWait") /\ Goto(t, "off") /\ kaTask' = None
        /\ recvTask' = IF recvTask = t THEN None ELSE recvTask
        /\ UNCHANGED recTask
  /\ UNCHANGED <<err, path, attempt, cancelled, using, closing, lastErr, web, sock, history>>

\* queries.cancel_all, then the websocket's closing handshake.
CloseWeb(t) ==
  /\ At(t, "cWeb")
  /\ using' = [using EXCEPT ![t] = web]
  /\ Goto(t, IF web = None THEN "cEnd" ELSE "webWait")
  /\ UNCHANGED <<err, path, attempt, waitOn, cancelled, selfVars, sock, history>>

WebClosed(t) ==
  /\ MayResume(t)
  /\ At(t, "webWait")
  /\ sock' = [sock EXCEPT ![using[t]] = "closed"]
  /\ web' = None
  /\ Goto(t, "cEnd")
  /\ UNCHANGED <<err, path, attempt, waitOn, cancelled, using, recvTask, kaTask, recTask,
                 closing, lastErr, history>>

\* close() returns to its caller: the user, receive_forever or keepalive_forever.
CloseReturns(t) ==
  /\ At(t, "cEnd")
  /\ using' = [using EXCEPT ![t] = None]
  /\ \/ t = User /\ Goto(t, "idle") /\ userClosed' = TRUE /\ err' = [err EXCEPT ![t] = "none"]
     \/ t \in KaTasks /\ Goto(t, "sched") /\ UNCHANGED <<err, userClosed>>
     \/ /\ t \in RecvTasks
        /\ \/ path[t] = "except" /\ Goto(t, "rec") /\ UNCHANGED err
           \/ /\ path[t] = "dispatch"
              /\ err' = [err EXCEPT ![t] = IF closing THEN lastErr ELSE "none"]
              /\ Goto(t, IF closing THEN "rec" ELSE "loop")
        /\ UNCHANGED userClosed
  /\ path' = [r \in RecvTasks |-> IF r = t THEN "dispatch" ELSE path[r]]
  /\ UNCHANGED <<attempt, waitOn, cancelled, selfVars, sock, calls, raced, kaFailed, loggedOut,
                 abandoned>>

\* The first statements of close(error).
Closing(t) == pc[t] \in {"cRec", "recWait", "cRecv", "recvWait", "cKa", "kaWait", "cWeb", "webWait", "cEnd"}

BeginClose(t, e) ==
  /\ raced' = (raced \/ IF t = User THEN \E u \in Tasks : Detached(u) ELSE Closing(User))
  /\ closing' = TRUE
  /\ lastErr' = e
  /\ err' = [err EXCEPT ![t] = e]
  /\ Goto(t, "cRec")

-----------------------------------------------------------------------------
(* connect() and wait_for_success(), and who calls them                    *)

\* The attempt of task t failed: the user gets the exception, a reconnection goes on to
\* its next attempt, whatever the exception says.
AttemptFails_uncounted(t) ==
  /\ using' = [using EXCEPT ![t] = None]
  /\ Goto(t, IF t = User THEN "idle" ELSE "try")
  /\ UNCHANGED attempt

AttemptFails(t) ==
  /\ using' = [using EXCEPT ![t] = None]
  /\ \/ t = User /\ Goto(t, "idle") /\ UNCHANGED attempt
     \/ t \in Background /\ Goto(t, "try") /\ attempt' = [attempt EXCEPT ![t] = @ + 1]

ConnectFails(t) ==
  /\ MayResume(t)
  /\ At(t, "connecting")
  /\ AttemptFails(t)
  /\ UNCHANGED <<err, path, waitOn, cancelled, selfVars, sock, history>>

\* The next websocket: which of the unused names it gets does not matter.
NextSocket ==
  LET unused == {s \in Sockets : sock[s] = "unused"}
  IN IF unused = {} THEN {} ELSE {CHOOSE s \in unused : TRUE}

\* The Noise handshake ended: the client is open again, whoever closed it.
ConnectOpens(t) ==
  /\ MayResume(t)
  /\ At(t, "connecting")
  /\ \E s \in NextSocket :
       /\ sock' = [sock EXCEPT ![s] = "open"]
       /\ web' = s
       /\ using' = [using EXCEPT ![t] = s]
  /\ closing' = FALSE
  /\ lastErr' = "none"
  /\ Goto(t, "login")
  /\ UNCHANGED <<err, path, attempt, waitOn, cancelled, recvTask, kaTask, recTask, history>>

\* No login success: a timeout, a failure node (whatever its code), a lost socket.  The
\* socket is left open and in _web.
LoginFails(t) ==
  /\ MayResume(t)
  /\ At(t, "login")
  /\ AttemptFails(t)
  /\ abandoned' = abandoned \cup {using[t]}
  /\ \/ UNCHANGED loggedOut
     \/ IsOpen(using[t]) /\ loggedOut' = "login"
  /\ UNCHANGED <<err, path, waitOn, cancelled, selfVars, sock, calls, userClosed, raced, kaFailed>>

start_keepalive_loop ==
  \/ Done(kaTask) /\ Free(KaTasks) # {} /\ kaTask' = New(KaTasks)
  \/ ~Done(kaTask) /\ UNCHANGED kaTask

StartedKeepalive == IF Done(kaTask) THEN {kaTask'} ELSE {}

\* What pc becomes when t moves on and the tasks in starting start.
Start(t, label, starting) ==
  pc' = [u \in Tasks |-> IF u = t THEN label
                         ELSE IF u \in starting
                              THEN IF u \in KaTasks THEN "alive" ELSE "loop"
                              ELSE pc[u]]

LoginReady(t) == At(t, "login") /\ IsOpen(using[t]) /\ web # None

\* connect_and_wait of the user, with or without start_receive_loop.
UserLogsIn ==
  /\ MayResume(User)
  /\ LoginReady(User)
  /\ \/ Goto(User, "idle") /\ UNCHANGED <<recvTask, kaTask>>
     \/ ~Done(recvTask) /\ Goto(User, "idle") /\ UNCHANGED <<recvTask, kaTask>>
     \/ /\ Done(recvTask)
        /\ start_keepalive_loop
        /\ Free(RecvTasks) # {} /\ recvTask' = New(RecvTasks)
        /\ Start(User, "idle", {recvTask'} \cup StartedKeepalive)
  /\ using' = [using EXCEPT ![User] = None]
  /\ UNCHANGED <<err, path, attempt, waitOn, cancelled, recTask, closing, lastErr, web, sock,
                 history>>

\* Reconnection inside the receive task: it becomes _receive_task again.
ReceiverLogsIn_stays_detached(r) ==
  /\ MayResume(r)
  /\ LoginReady(r)
  /\ closing' = FALSE
  /\ lastErr' = "none"
  /\ start_keepalive_loop
  /\ Start(r, "loop", StartedKeepalive)
  /\ using' = [using EXCEPT ![r] = None]
  /\ attempt' = [attempt EXCEPT ![r] = 0]
  /\ UNCHANGED <<err, path, waitOn, cancelled, recvTask, recTask, web, sock, history>>

ReceiverLogsIn(r) ==
  /\ MayResume(r)
  /\ LoginReady(r)
  /\ closing' = FALSE
  /\ lastErr' = "none"
  /\ recvTask' = r
  /\ start_keepalive_loop
  /\ Start(r, "loop", StartedKeepalive)
  /\ using' = [using EXCEPT ![r] = None]
  /\ attempt' = [attempt EXCEPT ![r] = 0]
  /\ UNCHANGED <<err, path, waitOn, cancelled, recTask, web, sock, history>>

\* The scheduled reconnection starts a new receive task if none is running.
ReconnectorLogsIn(x) ==
  /\ MayResume(x)
  /\ LoginReady(x)
  /\ closing' = FALSE
  /\ lastErr' = "none"
  /\ \/ ~Done(recvTask) /\ Goto(x, "off") /\ UNCHANGED <<recvTask, kaTask>>
     \/ /\ Done(recvTask)
        /\ start_keepalive_loop
        /\ Free(RecvTasks) # {} /\ recvTask' = New(RecvTasks)
        /\ Start(x, "off", {recvTask'} \cup StartedKeepalive)
  /\ using' = [using EXCEPT ![x] = None]
  /\ attempt' = [attempt EXCEPT ![x] = 0]
  /\ UNCHANGED <<err, path, waitOn, cancelled, recTask, web, sock, history>>

-----------------------------------------------------------------------------
(* _reconnect_after_disconnect                                             *)

\* The reconnection gives up: receive_forever leaves its loop, a scheduled one ends.
GiveUp(t) ==
  /\ Goto(t, IF t \in RecvTasks THEN "fin" ELSE "off")
  /\ attempt' = [attempt EXCEPT ![t] = 0]

\* The policy is asked once, for the error that started the reconnection.
Reconnect(t) ==
  /\ At(t, "rec")
  /\ \/ ~ShouldReconnect(err[t]) /\ GiveUp(t)
     \/ ShouldReconnect(err[t]) /\ Goto(t, "try") /\ attempt' = [attempt EXCEPT ![t] = 1]
  /\ err' = [err EXCEPT ![t] = "none"]
  /\ UNCHANGED <<path, waitOn, cancelled, using, selfVars, sock, history>>

TryAgain(t) ==
  /\ At(t, "try")
  /\ \/ attempt[t] <= MaxAttempts /\ Goto(t, "sleep") /\ UNCHANGED attempt
     \/ attempt[t] > MaxAttempts /\ GiveUp(t)
  /\ UNCHANGED <<err, path, waitOn, cancelled, using, selfVars, sock, history>>

DelayOver(t) ==
  /\ MayResume(t)
  /\ At(t, "sleep")
  /\ Goto(t, "connecting")
  /\ UNCHANGED <<err, path, attempt, waitOn, cancelled, using, selfVars, sock, history>>

-----------------------------------------------------------------------------
(* receive_forever                                                         *)

Loop(r) ==
  /\ At(r, "loop")
  /\ Goto(r, IF closing THEN "fin" ELSE "recv")
  /\ using' = [using EXCEPT ![r] = IF closing THEN None ELSE web]
  /\ UNCHANGED <<err, path, attempt, waitOn, cancelled, selfVars, sock, history>>

\* receive_nodes returns or times out.  A client that was closed meanwhile by somebody
\* else is reconnected for the recorded error.
ReceiveNodes(r) ==
  /\ MayResume(r)
  /\ At(r, "recv")
  /\ IsOpen(using[r])
  /\ \/ closing /\ Goto(r, "rec") /\ err' = [err EXCEPT ![r] = lastErr]
     \/ Goto(r, "loop") /\ UNCHANGED err
  /\ UNCHANGED <<path, attempt, waitOn, cancelled, using, selfVars, sock, history>>

\* dispatch_node of a stream error or a failure closes from inside receive_nodes.
ReceiveDisconnect(r, e) ==
  /\ MayResume(r)
  /\ At(r, "recv")
  /\ IsOpen(using[r])
  /\ BeginClose(r, e)
  /\ path' = [path EXCEPT ![r] = "dispatch"]
  /\ loggedOut' = IF e = "fatal" THEN "stream" ELSE loggedOut
  /\ UNCHANGED <<attempt, waitOn, cancelled, using, recvTask, kaTask, recTask, web, sock, calls,
                 userClosed, kaFailed, abandoned>>

\* receive_nodes raises: no socket, a dead one, bad bytes, an exception of a handler.
ReceiveFails(r) ==
  /\ MayResume(r)
  /\ At(r, "recv")
  /\ BeginClose(r, "retry")
  /\ path' = [path EXCEPT ![r] = "except"]
  /\ UNCHANGED <<attempt, waitOn, cancelled, using, recvTask, kaTask, recTask, web, sock, calls,
                 userClosed, kaFailed, loggedOut, abandoned>>

\* The finally of receive_forever stops the keepalive task, then the task is done.
Finally(r) ==
  /\ At(r, "fin")
  /\ using' = [using EXCEPT ![r] = None]
  /\ \/ /\ ~Done(kaTask)
        /\ CancelAndAwait(r, kaTask, "finWait")
        /\ UNCHANGED <<kaTask, recvTask>>
     \/ /\ Done(kaTask)
        /\ kaTask' = None
        /\ recvTask' = IF recvTask = r THEN None ELSE recvTask
        /\ Goto(r, "off")
        /\ UNCHANGED <<cancelled, waitOn>>
  /\ UNCHANGED <<err, path, attempt, recTask, closing, lastErr, web, sock, history>>

-----------------------------------------------------------------------------
(* keepalive_forever                                                       *)

KeepaliveStops(k) ==
  /\ MayResume(k)
  /\ At(k, "alive")
  /\ IsOpen(web)
  /\ closing
  /\ Goto(k, "off")
  /\ UNCHANGED <<err, path, attempt, waitOn, cancelled, using, selfVars, sock, history>>

\* The ping cannot be sent: the keepalive task closes the client itself.
KeepaliveFails(k) ==
  /\ MayResume(k)
  /\ At(k, "alive")
  /\ ~IsOpen(web)
  /\ BeginClose(k, "retry")
  /\ UNCHANGED <<path, attempt, waitOn, cancelled, using, recvTask, kaTask, recTask, web, sock,
                 calls, userClosed, kaFailed, loggedOut, abandoned>>

\* _schedule_reconnect, then the keepalive task ends.
ScheduleReconnect(k) ==
  /\ At(k, "sched")
  /\ \/ /\ Done(recTask) /\ ShouldReconnect(err[k])
        /\ Free(RecTasks) # {}
        /\ recTask' = New(RecTasks)
        /\ err' = [err EXCEPT ![k] = "none", ![recTask'] = err[k]]
        /\ pc' = [pc EXCEPT ![k] = "off", ![recTask'] = "rec"]
     \/ /\ ~Done(recTask) \/ ~ShouldReconnect(err[k])
        /\ Goto(k, "off")
        /\ err' = [err EXCEPT ![k] = "none"]
        /\ UNCHANGED recTask
  /\ UNCHANGED <<path, attempt, waitOn, cancelled, using, recvTask, kaTask, closing, lastErr, web,
                 sock, history>>

-----------------------------------------------------------------------------
(* Cancellation                                                            *)

\* A cancelled task raises CancelledError where it awaits.  A task that awaits another
\* passes the cancellation on.  A handshake that is cut leaves its websocket open.
Cancelled(t) ==
  /\ MayRun
  /\ t \in cancelled
  /\ \/ /\ pc[t] \in Awaiting
        /\ cancelled' = (cancelled \ {t}) \cup {u \in {waitOn[t]} : ~Done(u)}
        /\ UNCHANGED <<pc, err, path, attempt, using, abandoned>>
     \/ /\ pc[t] \in Blocked \ {"off"}
        /\ cancelled' = cancelled \ {t}
        /\ using' = [using EXCEPT ![t] = None]
        /\ abandoned' = IF pc[t] = "login" THEN abandoned \cup {using[t]} ELSE abandoned
        /\ err' = [err EXCEPT ![t] = "none"]
        /\ path' = [r \in RecvTasks |-> IF r = t THEN "dispatch" ELSE path[r]]
        /\ attempt' = [u \in Background |-> IF u = t THEN 0 ELSE attempt[u]]
        /\ Goto(t, IF t \in RecvTasks THEN "fin" ELSE "off")
  /\ UNCHANGED <<waitOn, selfVars, sock, calls, userClosed, raced, kaFailed, loggedOut>>

-----------------------------------------------------------------------------
(* The user and the network                                                *)

UserConnects ==
  /\ MayResume(User)
  /\ At(User, "idle")
  /\ web = None
  /\ calls < MaxCalls
  /\ calls' = calls + 1
  /\ userClosed' = FALSE
  /\ raced' = (raced \/ \E t \in Background : ~Done(t))
  /\ loggedOut' = "no"
  /\ Goto(User, "connecting")
  /\ UNCHANGED <<err, path, attempt, waitOn, cancelled, using, selfVars, sock, kaFailed,
                 abandoned>>

\* close(), or logout() which closes with loggedOut.
UserCloses(e) ==
  /\ MayResume(User)
  /\ At(User, "idle")
  /\ calls > 0 /\ calls < MaxCalls
  /\ calls' = calls + 1
  /\ userClosed' = FALSE
  /\ BeginClose(User, e)
  /\ UNCHANGED <<path, attempt, waitOn, cancelled, using, recvTask, kaTask, recTask, web, sock,
                 kaFailed, loggedOut, abandoned>>

\* start_keepalive_loop() alone, or start_receive_loop() after a login without it; of a
\* connected client whose tasks have ended.
NoLoops == web # None /\ \A t \in Tasks \ {User} : Done(t)

UserStartsKeepalive ==
  /\ MayResume(User)
  /\ At(User, "idle")
  /\ calls > 0 /\ calls < MaxCalls
  /\ NoLoops
  /\ calls' = calls + 1
  /\ start_keepalive_loop
  /\ userClosed' = FALSE
  /\ Start(User, "idle", {kaTask'})
  /\ UNCHANGED <<err, path, attempt, waitOn, cancelled, using, recvTask, recTask, closing, lastErr,
                 web, sock, raced, kaFailed, loggedOut, abandoned>>

UserStartsReceive ==
  /\ MayResume(User)
  /\ At(User, "idle")
  /\ calls > 0 /\ calls < MaxCalls
  /\ NoLoops
  /\ calls' = calls + 1
  /\ start_keepalive_loop
  /\ Free(RecvTasks) # {} /\ recvTask' = New(RecvTasks)
  /\ Start(User, "idle", {recvTask'} \cup StartedKeepalive)
  /\ userClosed' = FALSE
  /\ UNCHANGED <<err, path, attempt, waitOn, cancelled, using, recTask, closing, lastErr, web, sock,
                 raced, kaFailed, loggedOut, abandoned>>

\* A socket nobody holds may as well stay open.
SocketDies(s) ==
  /\ MayRun
  /\ IsOpen(s)
  /\ s = web \/ \E t \in Tasks : using[t] = s
  /\ sock' = [sock EXCEPT ![s] = "dead"]
  /\ UNCHANGED <<taskVars, selfVars, history>>

-----------------------------------------------------------------------------
CloseStep(t) ==
  \/ CloseReconnect(t) \/ CloseReceive(t) \/ CloseKeepalive(t) \/ Awaited(t)
  \/ CloseWeb(t) \/ WebClosed(t) \/ CloseReturns(t)

ConnectStep(t) == ConnectFails(t) \/ ConnectOpens(t) \/ LoginFails(t)

ReconnectStep(t) == Reconnect(t) \/ TryAgain(t) \/ DelayOver(t)

ReceiveStep(r) ==
  \/ Loop(r) \/ ReceiveNodes(r) \/ ReceiveFails(r) \/ Finally(r) \/ ReceiverLogsIn(r)
  \/ \E e \in {"retry", "fatal"} : ReceiveDisconnect(r, e)

KeepaliveStep(k) == KeepaliveStops(k) \/ KeepaliveFails(k) \/ ScheduleReconnect(k)

UserStep ==
  \/ UserConnects \/ UserLogsIn \/ UserStartsKeepalive \/ UserStartsReceive
  \/ \E e \in {"none", "fatal"} : UserCloses(e)

Next ==
  \/ \E t \in Tasks : CloseStep(t) \/ Cancelled(t)
  \/ \E t \in Background \cup {User} : ConnectStep(t)
  \/ \E t \in Background : ReconnectStep(t)
  \/ \E r \in RecvTasks : ReceiveStep(r)
  \/ \E k \in KaTasks : KeepaliveStep(k)
  \/ \E x \in RecTasks : ReconnectorLogsIn(x)
  \/ UserStep
  \/ \E s \in Sockets : SocketDies(s)

Spec == Init /\ [][Next]_vars

-----------------------------------------------------------------------------
(* Fairness: asyncio resumes every task that can go on, timers expire, and *)
(* every cancellation is delivered.                                        *)

TaskStep(t) ==
  \/ CloseStep(t)
  \/ t \in Background \cup {User} /\ ConnectStep(t)
  \/ t \in Background /\ ReconnectStep(t)
  \/ t \in RecvTasks /\ ReceiveStep(t)
  \/ t \in KaTasks /\ KeepaliveStep(t)
  \/ t \in RecTasks /\ ReconnectorLogsIn(t)
  \/ t = User /\ UserLogsIn

FairSpec == Spec /\ \A t \in Tasks : SF_vars(TaskStep(t) \/ Cancelled(t))

-----------------------------------------------------------------------------
(* Safety                                                                  *)

\* close() of the user, if no detached task ran meanwhile, leaves neither a socket nor a
\* task behind, and nothing reopens the client until the user connects: close() takes the
\* scheduled reconnection down before the tasks that could schedule another.  And once a
\* running session is told that the device is logged out, nothing reconnects.
ClosedStaysClosed ==
  ~raced => /\ userClosed => web = None /\ \A t \in Tasks \ {User} : Done(t)
            /\ loggedOut = "stream" => \A t \in Background : ~Reconnecting(t)

\* No two receive tasks run, so that no two readers share a socket: a receive task that
\* reconnects becomes _receive_task again before anyone starts another.  And every socket
\* that is open is the client's, or is left from a login that failed or was cancelled:
\* reconnecting leaks no other.
OneReceiver ==
  raced \/ /\ \A r, q \in RecvTasks : ~Done(r) /\ ~Done(q) => r = q
           /\ \A s \in Sockets : IsOpen(s) => s \in abandoned \cup {web}

\* Two tasks await each other only after a keepalive failure: close() never awaits the
\* task that runs it, and the tasks it awaits do not await it.
NoMutualWait ==
  \A t, u \in Tasks : waitOn[t] = u /\ waitOn[u] = t => kaFailed

-----------------------------------------------------------------------------
(* Liveness                                                                *)

\* close() of the user returns, whatever the tasks it awaits are doing, unless the
\* keepalive failed under a receive task.
CloseEnds == Closing(User) ~> At(User, "idle") \/ kaFailed

\* A receive task that closes the client reads again or ends, with the same exception:
\* its reconnections are bounded.
ReceiverGoesOn ==
  \A r \in RecvTasks : Closing(r) ~> pc[r] \in {"recv", "off"} \/ kaFailed

-----------------------------------------------------------------------------
(* What the documents and the tests say, and the code does not do          *)

\* docs/compatibility-matrix.md:35: "receive loop handles server pings and automatic
\* retry/backoff for retryable disconnects, keepalive failures, and exhausted reconnect
\* attempts".  keepalive_forever closes the client, close() awaits the receive task, and
\* its finally awaits the keepalive task: both wait for good and nothing reconnects.
KeepaliveFailureHandled ==
  \A t, u \in Tasks : ~(waitOn[t] = u /\ waitOn[u] = t)
=============================================================================
