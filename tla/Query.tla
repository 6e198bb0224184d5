------------------------------- MODULE Query -------------------------------
(***************************************************************************)
(* Request/response correlation of the client: QueryManager (query.py) and *)
(* the parts of WhatsAppClient that use it (query, receive_nodes,          *)
(* dispatch_node, receive_forever and close in socket.py).                 *)
(*                                                                         *)
(* asyncio is single threaded: a task runs until it awaits.  Each action   *)
(* is the code between two awaits of one task; a task that has not awaited *)
(* yet is at pc "check" and no other task may run (NobodyRunning).         *)
(*                                                                         *)
(* A query owns up to two futures: the "waiter" that query() creates, and  *)
(* the "fresh" one that QueryManager.wait_for() creates when the tag is no *)
(* longer in the map.  Time is abstract: a timeout may fire whenever the   *)
(* task is blocked.                                                        *)
(***************************************************************************)
EXTENDS Naturals, Sequences

CONSTANTS Callers,     \* tasks that call query()
          Nested,      \* the caller that runs inside the receive task (a
                       \* handler of an event), an element of Callers or not
          Loop,        \* the receive task
          NoTag,       \* the tag of a caller that has made no query
          Tags,        \* the tags TagGenerator hands out
          MaxWire,     \* bound: nodes on the wire of the current socket
          MaxRetries,  \* retries of upload_pre_keys
          MaxOpen      \* bound: sockets opened

ASSUME QueryAssumption ==
  /\ Loop \notin Callers
  /\ NoTag \notin Tags
  /\ MaxWire \in Nat
  /\ MaxRetries \in Nat
  /\ MaxOpen \in Nat

Tasks == Callers \cup {Loop}

VARIABLES
  pending,   \* QueryManager._pending: which future of the tag the map holds
  waiter,    \* state of the future query() created for the tag
  fresh,     \* state of the future wait_for() created for the tag
  used,      \* tags handed out by TagGenerator
  pc,        \* where each task is
  tries,     \* retries of the caller's last query so far
  tag,       \* tag of the caller's current or last query
  want,      \* its drive_receive argument
  drv,       \* whether it drives the socket itself
  held,      \* which future it awaits in wait_for
  out,       \* how its last query ended
  hit,       \* whether close() ran while its current query was active
  batch,     \* nodes a task has read and not yet dispatched
  loopTask,  \* _receive_task is the receive task
  sock,      \* _web: none, open, or set with a dead transport
  opened,    \* sockets opened so far
  asked,     \* tags the server has been asked and has not answered
  wire,      \* nodes sent by the server and not yet read
  leaked     \* tags whose caller was cancelled before wait_for

qvars == <<pending, waiter, fresh, used>>
cvars == <<tries, tag, want, drv, held, out, hit>>
svars == <<sock, opened, asked, wire>>
vars == <<pending, waiter, fresh, used, pc, tries, tag, want, drv, held, out, hit,
          batch, loopTask, sock, opened, asked, wire, leaked>>

FutureState == {"none", "pending", "result", "cancelled"}
Outcome == {"none", "answer", "timeout", "cancelled", "error"}
StreamError == [kind |-> "stream_error", tag |-> NoTag]
Answer(t) == [kind |-> "answer", tag |-> t]
Nodes == {StreamError} \cup {Answer(t) : t \in Tags}

TypeOK ==
  /\ pending \in [Tags -> {"none", "waiter", "fresh"}]
  /\ waiter \in [Tags -> FutureState]
  /\ fresh \in [Tags -> FutureState]
  /\ used \in SUBSET Tags
  /\ pc \in [Tasks -> {"idle", "send", "check", "recv", "dispatch", "wait"}]
  /\ tries \in [Callers -> 0..MaxRetries]
  /\ tag \in [Callers -> Tags \cup {NoTag}]
  /\ want \in [Callers -> BOOLEAN]
  /\ drv \in [Callers -> BOOLEAN]
  /\ held \in [Callers -> {"waiter", "fresh"}]
  /\ out \in [Callers -> Outcome]
  /\ hit \in [Callers -> BOOLEAN]
  /\ batch \in [Tasks -> Seq(Nodes)]
  /\ loopTask \in BOOLEAN
  /\ sock \in {"none", "open", "dead"}
  /\ opened \in Nat
  /\ asked \in SUBSET Tags
  /\ wire \in Seq(Nodes)
  /\ leaked \in SUBSET Tags

Init ==
  /\ pending = [t \in Tags |-> "none"]
  /\ waiter = [t \in Tags |-> "none"]
  /\ fresh = [t \in Tags |-> "none"]
  /\ used = {}
  /\ pc = [t \in Tasks |-> "idle"]
  /\ tries = [c \in Callers |-> 0]
  /\ tag = [c \in Callers |-> NoTag]
  /\ want = [c \in Callers |-> FALSE]
  /\ drv = [c \in Callers |-> FALSE]
  /\ held = [c \in Callers |-> "waiter"]
  /\ out = [c \in Callers |-> "none"]
  /\ hit = [c \in Callers |-> FALSE]
  /\ batch = [t \in Tasks |-> <<>>]
  /\ loopTask = FALSE
  /\ sock = "none"
  /\ opened = 0
  /\ asked = {}
  /\ wire = <<>>
  /\ leaked = {}

-----------------------------------------------------------------------------
NobodyRunning == \A t \in Tasks : pc[t] # "check"
Active(c) == pc[c] # "idle"
\* A handler that awaits a query suspends the receive task that called it.
Suspended(t) == t = Loop /\ Nested \in Callers /\ pc[Nested] # "idle"
OtherReader(t) == \E u \in Tasks \ {t} : pc[u] = "recv"
\* _receive_loop_is_running_elsewhere: the nested caller is the loop's task.
LoopElsewhere(c) == loopTask /\ c # Nested

\* The pending future of a tag, if the map has one and it is not done.
Unresolved(t) == \/ pending[t] = "waiter" /\ waiter[t] = "pending"
                 \/ pending[t] = "fresh" /\ fresh[t] = "pending"
HeldFuture(c) == IF held[c] = "waiter" THEN waiter[tag[c]] ELSE fresh[tag[c]]

-----------------------------------------------------------------------------
(* QueryManager: each operator gives the map and the futures their next    *)
(* values; the callers' actions say when it runs.                          *)

create_waiter(t) ==
  /\ pending[t] = "none"
  /\ pending' = [pending EXCEPT ![t] = "waiter"]
  /\ waiter' = [waiter EXCEPT ![t] = "pending"]
  /\ fresh' = [fresh EXCEPT ![t] = "none"]

\* Faulty variant: the future is cancelled, the tag stays in the map.
discard_keeps_tag(t) ==
  /\ waiter' = [waiter EXCEPT ![t] = IF @ = "pending" THEN "cancelled" ELSE @]
  /\ UNCHANGED <<pending, fresh>>

\* The except branch of query(): cancel the waiter if it is not done, discard.
discard(t) ==
  /\ pending' = [pending EXCEPT ![t] = "none"]
  /\ waiter' = [waiter EXCEPT ![t] = IF @ = "pending" THEN "cancelled" ELSE @]
  /\ UNCHANGED fresh

resolve(t) ==
  /\ Unresolved(t)
  /\ waiter' = [waiter EXCEPT ![t] = IF pending[t] = "waiter" THEN "result" ELSE @]
  /\ fresh' = [fresh EXCEPT ![t] = IF pending[t] = "fresh" THEN "result" ELSE @]
  /\ UNCHANGED pending

\* Faulty variant: the map is emptied and the futures are left alone.
cancel_all_forgets ==
  /\ pending' = [t \in Tags |-> "none"]
  /\ UNCHANGED <<waiter, fresh>>

cancel_all ==
  /\ pending' = [t \in Tags |-> "none"]
  /\ waiter' = [t \in Tags |-> IF pending[t] = "waiter" /\ waiter[t] = "pending"
                               THEN "cancelled" ELSE waiter[t]]
  /\ fresh' = [t \in Tags |-> IF pending[t] = "fresh" /\ fresh[t] = "pending"
                              THEN "cancelled" ELSE fresh[t]]

\* Faulty variant: a new future replaces the one the map holds.
wait_for_replaces(c) ==
  /\ held' = [held EXCEPT ![c] = "fresh"]
  /\ pending' = [pending EXCEPT ![tag[c]] = "fresh"]
  /\ fresh' = [fresh EXCEPT ![tag[c]] = "pending"]
  /\ UNCHANGED waiter

\* wait_for: takes the future of the map, or registers a new one for the tag.
wait_for(c) ==
  LET t == tag[c] IN
  /\ held' = [held EXCEPT ![c] = IF pending[t] = "none" THEN "fresh" ELSE pending[t]]
  /\ \/ pending[t] # "none" /\ UNCHANGED <<pending, fresh>>
     \/ /\ pending[t] = "none"
        /\ pending' = [pending EXCEPT ![t] = "fresh"]
        /\ fresh' = [fresh EXCEPT ![t] = "pending"]
  /\ UNCHANGED waiter

-----------------------------------------------------------------------------
(* query()                                                                 *)

\* The query of c ends: the task is free again.
End(c, how) ==
  /\ out' = [out EXCEPT ![c] = how]
  /\ held' = [held EXCEPT ![c] = "waiter"]
  /\ pc' = [pc EXCEPT ![c] = "idle"]
  /\ batch' = [batch EXCEPT ![c] = <<>>]

Fail(c, how) ==
  /\ discard(tag[c])
  /\ End(c, how)

\* A query from inside the receive task needs the receive task to be in a handler.
MayCall(c) == c = Nested => pc[Loop] = "dispatch"

Begin(c, t, drive) ==
  /\ NobodyRunning
  /\ pc[c] = "idle"
  /\ MayCall(c)
  /\ create_waiter(t)
  /\ tag' = [tag EXCEPT ![c] = t]
  /\ want' = [want EXCEPT ![c] = drive]
  /\ hit' = [hit EXCEPT ![c] = FALSE]
  /\ out' = [out EXCEPT ![c] = "none"]
  /\ pc' = [pc EXCEPT ![c] = "send"]
  /\ UNCHANGED <<drv, held, batch, loopTask, svars, leaked>>

Query(c, drive) ==
  \E t \in Tags \ used :
    /\ Begin(c, t, drive)
    /\ used' = used \cup {t}
    /\ tries' = [tries EXCEPT ![c] = 0]

\* upload_pre_keys tries again with the same node, hence the same id.
MayRetry(c) == pc[c] = "idle" /\ out[c] \in {"timeout", "error"}
Retry(c) ==
  /\ MayRetry(c)
  /\ tries[c] < MaxRetries
  /\ Begin(c, tag[c], want[c])
  /\ tries' = [tries EXCEPT ![c] = @ + 1]
  /\ UNCHANGED used

\* send_node returns: the node is on its way, the caller decides who reads.
Sent(c) ==
  /\ NobodyRunning
  /\ pc[c] = "send"
  /\ sock = "open"
  /\ asked' = asked \cup {tag[c]}
  /\ drv' = [drv EXCEPT ![c] = want[c] /\ ~LoopElsewhere(c)]
  /\ pc' = [pc EXCEPT ![c] = "check"]
  /\ UNCHANGED <<qvars, tries, tag, want, held, out, hit, batch, loopTask, sock, opened, wire, leaked>>

\* send_node raises: not connected, or the transport is gone.
SendFails(c) ==
  /\ NobodyRunning
  /\ pc[c] = "send"
  /\ sock # "open"
  /\ Fail(c, "error")
  /\ UNCHANGED <<used, tries, tag, want, drv, hit, loopTask, svars, leaked>>

KeepsDriving(c) == drv[c] /\ waiter[tag[c]] = "pending"

\* while not waiter.done(): await self.receive_nodes(...)
DriveReceive(c) ==
  /\ pc[c] = "check"
  /\ KeepsDriving(c)
  /\ sock = "open"
  /\ ~OtherReader(c)
  /\ pc' = [pc EXCEPT ![c] = "recv"]
  /\ UNCHANGED <<qvars, cvars, batch, loopTask, svars, leaked>>

\* receive_nodes raises at once: no socket, a dead one, or (websockets allows
\* one reader) another task already in recv.
DriveFails(c) ==
  /\ pc[c] = "check"
  /\ KeepsDriving(c)
  /\ sock # "open" \/ OtherReader(c)
  /\ Fail(c, "error")
  /\ UNCHANGED <<used, tries, tag, want, drv, hit, loopTask, svars, leaked>>

WaitFor(c) ==
  /\ pc[c] = "check"
  /\ ~KeepsDriving(c)
  /\ wait_for(c)
  /\ pc' = [pc EXCEPT ![c] = "wait"]
  /\ UNCHANGED <<used, tries, tag, want, drv, out, hit, batch, loopTask, svars, leaked>>

\* receive_nodes(min(5, remaining)) times out or its socket closes: query() raises.
RecvFails(c) ==
  /\ NobodyRunning
  /\ pc[c] = "recv"
  /\ Fail(c, IF sock = "open" THEN "timeout" ELSE "error")
  /\ UNCHANGED <<used, tries, tag, want, drv, hit, loopTask, svars, leaked>>

\* The finally of wait_for: the tag leaves the map whatever the outcome.
Return(c) ==
  /\ NobodyRunning
  /\ pc[c] = "wait"
  /\ HeldFuture(c) \in {"result", "cancelled"}
  /\ pending' = [pending EXCEPT ![tag[c]] = "none"]
  /\ End(c, IF HeldFuture(c) = "result" THEN "answer" ELSE "cancelled")
  /\ UNCHANGED <<waiter, fresh, used, tries, tag, want, drv, hit, loopTask, svars, leaked>>

\* asyncio.wait_for cancels the future it waited for; query() discards the tag.
CancelHeld(c) ==
  /\ pending' = [pending EXCEPT ![tag[c]] = "none"]
  /\ waiter' = [waiter EXCEPT ![tag[c]] = IF @ = "pending" THEN "cancelled" ELSE @]
  /\ fresh' = [fresh EXCEPT ![tag[c]] = IF @ = "pending" THEN "cancelled" ELSE @]

\* Faulty variant: only the waiter of query() is awaited with a timeout.
WaitTimeout_waiter_only(c) ==
  /\ NobodyRunning
  /\ pc[c] = "wait"
  /\ held[c] = "waiter"
  /\ HeldFuture(c) = "pending"
  /\ CancelHeld(c)
  /\ End(c, "timeout")
  /\ UNCHANGED <<used, tries, tag, want, drv, hit, loopTask, svars, leaked>>

WaitTimeout(c) ==
  /\ NobodyRunning
  /\ pc[c] = "wait"
  /\ HeldFuture(c) = "pending"
  /\ CancelHeld(c)
  /\ End(c, "timeout")
  /\ UNCHANGED <<used, tries, tag, want, drv, hit, loopTask, svars, leaked>>

\* The caller's task is cancelled.  CancelledError is not an Exception: before
\* wait_for nothing removes the tag from the map; the rest of the batch is lost.
CancelCaller(c) ==
  /\ NobodyRunning
  /\ c # Nested
  /\ Active(c)
  /\ \/ /\ pc[c] = "wait"
        /\ CancelHeld(c)
        /\ UNCHANGED leaked
     \/ /\ pc[c] # "wait"
        /\ leaked' = IF pending[tag[c]] = "none" THEN leaked ELSE leaked \cup {tag[c]}
        /\ UNCHANGED <<pending, waiter, fresh>>
  /\ End(c, "cancelled")
  /\ UNCHANGED <<used, tries, tag, want, drv, hit, loopTask, svars>>

-----------------------------------------------------------------------------
(* Reading and dispatching                                                 *)

\* receive_nodes: one websocket message holds one or more nodes.
Receive(t) ==
  /\ NobodyRunning
  /\ pc[t] = "recv"
  /\ sock = "open"
  /\ \E n \in 1..Len(wire) :
       /\ batch' = [batch EXCEPT ![t] = SubSeq(wire, 1, n)]
       /\ wire' = SubSeq(wire, n + 1, Len(wire))
  /\ pc' = [pc EXCEPT ![t] = "dispatch"]
  /\ UNCHANGED <<qvars, cvars, loopTask, sock, opened, asked, leaked>>

\* dispatch_node of an answer: resolve it, or emit it as an event if nobody waits.
DispatchAnswer(t) ==
  /\ NobodyRunning
  /\ pc[t] = "dispatch"
  /\ ~Suspended(t)
  /\ batch[t] # <<>>
  /\ Head(batch[t]).kind = "answer"
  /\ LET a == Head(batch[t]).tag IN
       \/ resolve(a)
       \/ ~Unresolved(a) /\ UNCHANGED <<pending, waiter, fresh>>
  /\ batch' = [batch EXCEPT ![t] = Tail(@)]
  /\ UNCHANGED <<used, pc, cvars, loopTask, svars, leaked>>

\* close() run by task t (or by a task that makes no query, t = NoTag): the
\* receive task and a handler's query die with it unless t runs inside it.
InLoop(t) == t \in {Loop, Nested}
Killed(t) == IF InLoop(t) THEN {} ELSE {Loop, Nested} \cap Tasks
close(t) ==
  /\ cancel_all
  /\ loopTask' = FALSE
  /\ sock' = "none"
  /\ asked' = {}
  /\ wire' = <<>>
  /\ leaked' = {}
  /\ hit' = [c \in Callers |-> hit[c] \/ Active(c)]
  /\ out' = [c \in Callers |-> IF c \in Killed(t) /\ Active(c) THEN "cancelled" ELSE out[c]]
  /\ UNCHANGED <<used, tries, tag, want, drv, held, opened>>

\* dispatch_node of a stream error closes the client, then goes on with the batch.
DispatchStreamError(t) ==
  /\ NobodyRunning
  /\ pc[t] = "dispatch"
  /\ ~Suspended(t)
  /\ batch[t] # <<>>
  /\ Head(batch[t]).kind = "stream_error"
  /\ close(t)
  /\ pc' = [u \in Tasks |-> IF u \in Killed(t) THEN "idle" ELSE pc[u]]
  /\ batch' = [u \in Tasks |-> IF u = t THEN Tail(batch[u])
                               ELSE IF u \in Killed(t) THEN <<>> ELSE batch[u]]

BatchDone(t) ==
  /\ NobodyRunning
  /\ pc[t] = "dispatch"
  /\ ~Suspended(t)
  /\ batch[t] = <<>>
  /\ pc' = [pc EXCEPT ![t] = "check"]
  /\ UNCHANGED <<qvars, cvars, batch, loopTask, svars, leaked>>

-----------------------------------------------------------------------------
(* The receive task (its reconnection is module Connection)                *)

start_receive_loop ==
  /\ NobodyRunning
  /\ pc[Loop] = "idle"
  /\ sock # "none"
  /\ loopTask' = TRUE
  /\ pc' = [pc EXCEPT ![Loop] = "check"]
  /\ UNCHANGED <<qvars, cvars, batch, svars, leaked>>

LoopReads ==
  /\ pc[Loop] = "check"
  /\ sock = "open"
  /\ ~OtherReader(Loop)
  /\ pc' = [pc EXCEPT ![Loop] = "recv"]
  /\ UNCHANGED <<qvars, cvars, batch, loopTask, svars, leaked>>

\* An error of receive_nodes closes the client; a client that is closing ends the loop.
LoopEnds ==
  /\ \/ pc[Loop] = "check" /\ (sock # "open" \/ OtherReader(Loop))
     \/ pc[Loop] = "recv" /\ sock # "open" /\ NobodyRunning
  /\ close(Loop)
  /\ pc' = [pc EXCEPT ![Loop] = "idle"]
  /\ UNCHANGED batch

-----------------------------------------------------------------------------
(* The user and the network                                                *)

\* connect(); a socket that close() shut has woken its readers and writers before
\* the next handshake ends.
Connect ==
  /\ NobodyRunning
  /\ sock = "none"
  /\ opened < MaxOpen
  /\ \A t \in Tasks : pc[t] \notin {"recv", "send"}
  /\ sock' = "open"
  /\ opened' = opened + 1
  /\ UNCHANGED <<qvars, cvars, pc, batch, loopTask, asked, wire, leaked>>

\* close() called by the user, from a task that makes no query.
Close ==
  /\ NobodyRunning
  /\ sock # "none"
  /\ close(NoTag)
  /\ pc' = [u \in Tasks |-> IF u \in Killed(NoTag) THEN "idle" ELSE pc[u]]
  /\ batch' = [u \in Tasks |-> IF u \in Killed(NoTag) THEN <<>> ELSE batch[u]]

ConnectionLost ==
  /\ sock = "open"
  /\ sock' = "dead"
  /\ asked' = {}
  /\ wire' = <<>>
  /\ UNCHANGED <<qvars, cvars, pc, batch, loopTask, opened, leaked>>

ServerAnswers ==
  /\ sock = "open"
  /\ Len(wire) < MaxWire
  /\ \E t \in asked :
       /\ wire' = Append(wire, Answer(t))
       /\ asked' = asked \ {t}
  /\ UNCHANGED <<qvars, cvars, pc, batch, loopTask, sock, opened, leaked>>

\* The server ends the stream: nothing follows the stream error.
ServerEndsStream ==
  /\ sock = "open"
  /\ Len(wire) < MaxWire
  /\ \A i \in 1..Len(wire) : wire[i].kind # "stream_error"
  /\ wire' = Append(wire, StreamError)
  /\ asked' = {}
  /\ UNCHANGED <<qvars, cvars, pc, batch, loopTask, sock, opened, leaked>>

-----------------------------------------------------------------------------
Caller(c) ==
  \/ \E drive \in BOOLEAN : Query(c, drive)
  \/ Retry(c) \/ Sent(c) \/ SendFails(c)
  \/ DriveReceive(c) \/ DriveFails(c) \/ WaitFor(c)
  \/ RecvFails(c) \/ Return(c) \/ WaitTimeout(c) \/ CancelCaller(c)

Reader(t) == Receive(t) \/ DispatchAnswer(t) \/ DispatchStreamError(t) \/ BatchDone(t)

ReceiveLoop == start_receive_loop \/ LoopReads \/ LoopEnds

Environment == Connect \/ Close \/ ConnectionLost \/ ServerAnswers \/ ServerEndsStream

Next ==
  \/ \E c \in Callers : Caller(c)
  \/ \E t \in Tasks : Reader(t)
  \/ ReceiveLoop
  \/ Environment

Spec == Init /\ [][Next]_vars

\* A task that can run is run, and every blocking call of a query has a timeout: the
\* event loop keeps ready tasks in a FIFO queue, so a task that is ready again and
\* again between the steps of the others runs (strong fairness).
Progress(c) ==
  \/ Sent(c) \/ SendFails(c) \/ DriveReceive(c) \/ DriveFails(c) \/ WaitFor(c)
  \/ RecvFails(c) \/ Return(c) \/ WaitTimeout(c) \/ Reader(c)

FairSpec ==
  /\ Spec
  /\ \A c \in Callers : SF_vars(Progress(c))
  /\ SF_vars(LoopReads \/ LoopEnds)

-----------------------------------------------------------------------------
(* Properties                                                              *)

\* A caller blocked in wait_for can still be reached: the future it awaits is the
\* one the map holds for its tag, so an answer resolves it and close() cancels it.
WaiterReachable ==
  \A c \in Callers :
    pc[c] = "wait" /\ HeldFuture(c) = "pending" => pending[tag[c]] = held[c]

\* No tag stays in the map after its query ended, except when the caller's task was
\* cancelled between create_waiter and wait_for (query() catches Exception only).
PendingAccounted ==
  \A t \in Tags : pending[t] # "none" =>
    t \in leaked \/ \E c \in Callers : Active(c) /\ tag[c] = t

\* Two queries in progress never share a tag, although retries reuse theirs.
TagsDistinct ==
  \A c, d \in Callers : Active(c) /\ Active(d) /\ c # d => tag[c] # tag[d]

\* A retry finds its tag free: create_waiter never raises "query id already pending".
RetryTagFree ==
  \A c \in Callers : MayRetry(c) => pending[tag[c]] = "none"

\* A query that leaves the reading to the receive task and whose waiter was answered is
\* reported as timed out only if close() ran in between.  (A query that reads for itself
\* can time out in recv on an answer that another task, still dispatching nodes of the
\* previous socket, has resolved; one that is sending again can fail after the answer to
\* its first attempt.)
AnswerReturned ==
  \A c \in Callers :
    out[c] = "timeout" /\ ~drv[c] /\ waiter[tag[c]] = "result" => hit[c]

\* Every query ends: with an answer, a timeout, an error or a cancellation.
QueryEnds == \A c \in Callers : pc[c] = "send" ~> pc[c] = "idle"
=============================================================================
