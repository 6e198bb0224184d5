--------------------------- MODULE TransportProofs ---------------------------
(***************************************************************************)
(* Proofs about what everything else is carried by: the queries of one      *)
(* connection (Query) and the connection below the nodes (Wire).            *)
(*                                                                         *)
(* Queries.  The inductive invariant QInv adds to the properties what they  *)
(* rest on: a tag belongs to one caller for good (TagsApart, TagsUsed), so  *)
(* that no caller's step touches the map entry another caller waits on.     *)
(* ReturnInv follows a query that timed out: the waiter it leaves is not    *)
(* answered later, because its map entry is gone.                          *)
(*                                                                         *)
(* The connection, for every bound and every cut of the bytes: both sides   *)
(* end with the same keys (KeysInv); what is not consumed are the cells of  *)
(* the frames not decrypted yet (StreamInv), so frames are decrypted once   *)
(* and in order; and each that does not reach the dispatcher has its reason *)
(* (NodesInv).                                                             *)
(***************************************************************************)
EXTENDS Query, Wire, TLAPS, WellFoundedInduction, FiniteSetTheorems, SequenceTheorems

TagsUsed == \A c \in Callers : tag[c] # NoTag => tag[c] \in used
TagsApart == \A c, d \in Callers : c # d /\ tag[c] = tag[d] => tag[c] = NoTag
ActiveTagged == \A c \in Callers : pc[c] # "idle" => tag[c] \in Tags
EndedTagged == \A c \in Callers : out[c] # "none" => tag[c] \in Tags

QInv ==
  /\ TagsUsed
  /\ TagsApart
  /\ ActiveTagged
  /\ EndedTagged
  /\ WaiterReachable
  /\ PendingAccounted
  /\ RetryTagFree

-----------------------------------------------------------------------------
(* Type correctness                                                        *)

\* The types hold at first.
LEMMA InitType == Init => TypeOK
<1>1. 0 \in 0..MaxRetries
  BY QueryAssumption
<1>2. <<>> \in Seq(Nodes)
  OBVIOUS
<1>3. Init => tries \in [Callers -> 0..MaxRetries]
  BY <1>1 DEF Init
<1>4. Init => batch \in [Tasks -> Seq(Nodes)] /\ wire \in Seq(Nodes)
  BY <1>2 DEF Init
<1>5. Init => /\ pending \in [Tags -> {"none", "waiter", "fresh"}]
              /\ waiter \in [Tags -> FutureState]
              /\ fresh \in [Tags -> FutureState]
              /\ used \in SUBSET Tags
              /\ asked \in SUBSET Tags
              /\ leaked \in SUBSET Tags
  BY DEF Init, FutureState
<1>6. Init => /\ pc \in [Tasks -> {"idle", "send", "check", "recv", "dispatch", "wait"}]
              /\ tag \in [Callers -> Tags \cup {NoTag}]
              /\ want \in [Callers -> BOOLEAN]
              /\ drv \in [Callers -> BOOLEAN]
              /\ held \in [Callers -> {"waiter", "fresh"}]
              /\ out \in [Callers -> Outcome]
              /\ hit \in [Callers -> BOOLEAN]
  BY DEF Init, Outcome
<1>7. Init => sock \in {"none", "open", "dead"} /\ opened \in Nat
  BY DEF Init
<1>8. Init => loopTask \in BOOLEAN
  BY Zenon DEF Init
<1>9. QED
  BY <1>3, <1>4, <1>5, <1>6, <1>7, <1>8 DEF TypeOK

\* What answers a query is a node.
LEMMA AnswerNode ==
  /\ StreamError \in Nodes
  /\ \A t \in Tags : Answer(t) \in Nodes
  BY DEF Nodes

\* The steps of a caller keep the types.
LEMMA CallerType ==
  ASSUME TypeOK, ActiveTagged, EndedTagged, NEW c \in Callers, Caller(c)
  PROVE  TypeOK'
<1> USE QueryAssumption DEF TypeOK, ActiveTagged, EndedTagged, FutureState, Outcome, Tasks
<1>1. ASSUME NEW drive \in BOOLEAN, Query(c, drive) PROVE TypeOK'
  BY <1>1 DEF Query, Begin, create_waiter, svars
<1>2. CASE Retry(c)
  BY <1>2 DEF Retry, MayRetry, Begin, create_waiter, svars
<1>3. CASE Sent(c)
  BY <1>3 DEF Sent, qvars
<1>4. CASE SendFails(c)
  BY <1>4 DEF SendFails, Fail, End, discard, svars
<1>5. CASE DriveReceive(c)
  BY <1>5 DEF DriveReceive, qvars, cvars, svars
<1>6. CASE DriveFails(c)
  BY <1>6 DEF DriveFails, Fail, End, discard, svars
<1>7. CASE WaitFor(c)
  <2>1. tag[c] \in Tags
    BY <1>7 DEF WaitFor
  <2>2. held' \in [Callers -> {"waiter", "fresh"}]
    BY <1>7, <2>1 DEF WaitFor, wait_for
  <2>3. pending' \in [Tags -> {"none", "waiter", "fresh"}] /\ fresh' \in [Tags -> FutureState]
    <3>1. CASE pending[tag[c]] = "none"
      BY <1>7, <2>1, <3>1 DEF WaitFor, wait_for
    <3>2. CASE pending[tag[c]] # "none"
      BY <1>7, <3>2 DEF WaitFor, wait_for
    <3>3. QED
      BY <3>1, <3>2
  <2>4. pc' \in [Tasks -> {"idle", "send", "check", "recv", "dispatch", "wait"}]
    BY <1>7 DEF WaitFor
  <2>5. QED
    BY <1>7, <2>2, <2>3, <2>4 DEF WaitFor, wait_for, svars
<1>8. CASE RecvFails(c)
  BY <1>8 DEF RecvFails, Fail, End, discard, svars
<1>9. CASE Return(c)
  BY <1>9 DEF Return, End, svars
<1>10. CASE WaitTimeout(c)
  BY <1>10 DEF WaitTimeout, CancelHeld, End, svars
<1>11. CASE CancelCaller(c)
  <2>1. leaked' \in SUBSET Tags
    BY <1>11 DEF CancelCaller, Active
  <2>2. /\ pending' \in [Tags -> {"none", "waiter", "fresh"}]
        /\ waiter' \in [Tags -> FutureState]
        /\ fresh' \in [Tags -> FutureState]
    <3>1. CASE pc[c] = "wait"
      <4>1. CancelHeld(c)
        BY <1>11, <3>1 DEF CancelCaller
      <4>2. tag[c] \in Tags
        BY <3>1
      <4>3. QED
        BY <4>1, <4>2 DEF CancelHeld
    <3>2. CASE pc[c] # "wait"
      BY <1>11, <3>2 DEF CancelCaller
    <3>3. QED
      BY <3>1, <3>2
  <2>3. QED
    BY <1>11, <2>1, <2>2 DEF CancelCaller, End, svars
<1>12. QED
  BY <1>1, <1>2, <1>3, <1>4, <1>5, <1>6, <1>7, <1>8, <1>9, <1>10, <1>11 DEF Caller

\* What close() writes has its types, whoever runs it.
LEMMA closeType ==
  ASSUME TypeOK, NEW t, close(t)
  PROVE  /\ pending' \in [Tags -> {"none", "waiter", "fresh"}]
         /\ waiter' \in [Tags -> FutureState]
         /\ fresh' \in [Tags -> FutureState]
         /\ used' \in SUBSET Tags
         /\ tries' \in [Callers -> 0..MaxRetries]
         /\ tag' \in [Callers -> Tags \cup {NoTag}]
         /\ want' \in [Callers -> BOOLEAN]
         /\ drv' \in [Callers -> BOOLEAN]
         /\ held' \in [Callers -> {"waiter", "fresh"}]
         /\ out' \in [Callers -> Outcome]
         /\ hit' \in [Callers -> BOOLEAN]
         /\ loopTask' \in BOOLEAN
         /\ sock' \in {"none", "open", "dead"}
         /\ opened' \in Nat
         /\ asked' \in SUBSET Tags
         /\ wire' \in Seq(Nodes)
         /\ leaked' \in SUBSET Tags
<1>1. /\ pending' \in [Tags -> {"none", "waiter", "fresh"}]
      /\ waiter' \in [Tags -> FutureState]
      /\ fresh' \in [Tags -> FutureState]
  BY DEF TypeOK, close, cancel_all, FutureState
<1>2. out' \in [Callers -> Outcome]
  BY DEF TypeOK, close, Outcome
<1>3. hit' \in [Callers -> BOOLEAN]
  BY Zenon DEF TypeOK, close
<1>4. wire' \in Seq(Nodes)
  BY DEF TypeOK, close
<1>5. QED
  BY <1>1, <1>2, <1>3, <1>4 DEF TypeOK, close

\* the steps of whoever reads the socket,
LEMMA ReaderType ==
  ASSUME TypeOK, NEW t \in Tasks, Reader(t)
  PROVE  TypeOK'
<1>1. CASE Receive(t)
  <2>1. PICK n \in 1..Len(wire) :
          /\ batch' = [batch EXCEPT ![t] = SubSeq(wire, 1, n)]
          /\ wire' = SubSeq(wire, n + 1, Len(wire))
    BY <1>1 DEF Receive
  <2>2. wire \in Seq(Nodes) /\ Len(wire) \in Nat
    BY LenProperties DEF TypeOK
  <2>3. SubSeq(wire, 1, n) \in Seq(Nodes)
    BY <2>2, SubSeqProperties
  <2>4. SubSeq(wire, n + 1, Len(wire)) \in Seq(Nodes)
    BY <2>2, SubSeqProperties
  <2>5. QED
    BY <1>1, <2>1, <2>3, <2>4 DEF Receive, TypeOK, qvars, cvars
<1>2. CASE DispatchAnswer(t)
  <2>1. batch[t] \in Seq(Nodes) /\ batch[t] # <<>>
    BY <1>2 DEF DispatchAnswer, TypeOK
  <2>2. Tail(batch[t]) \in Seq(Nodes)
    BY <2>1, HeadTailProperties
  <2>3. batch' \in [Tasks -> Seq(Nodes)]
    BY <1>2, <2>2 DEF DispatchAnswer, TypeOK
  <2>4. PICK a : \/ resolve(a)
                 \/ UNCHANGED <<pending, waiter, fresh>>
    BY <1>2 DEF DispatchAnswer
  <2>5. /\ pending' \in [Tags -> {"none", "waiter", "fresh"}]
        /\ waiter' \in [Tags -> FutureState]
        /\ fresh' \in [Tags -> FutureState]
    <3>1. ASSUME resolve(a) PROVE pending' = pending
      BY <3>1 DEF resolve
    <3>2. ASSUME resolve(a) PROVE waiter' \in [Tags -> FutureState]
      BY <3>2 DEF resolve, TypeOK, FutureState
    <3>3. ASSUME resolve(a) PROVE fresh' \in [Tags -> FutureState]
      BY <3>3 DEF resolve, TypeOK, FutureState
    <3>4. QED
      BY <2>4, <3>1, <3>2, <3>3 DEF TypeOK
  <2>6. QED
    BY <1>2, <2>3, <2>5 DEF DispatchAnswer, TypeOK, cvars, svars
<1>3. CASE DispatchStreamError(t)
  <2>1. batch[t] \in Seq(Nodes) /\ batch[t] # <<>>
    BY <1>3 DEF DispatchStreamError, TypeOK
  <2>2. Tail(batch[t]) \in Seq(Nodes)
    BY <2>1, HeadTailProperties
  <2>3. batch' \in [Tasks -> Seq(Nodes)]
    BY <1>3, <2>2 DEF DispatchStreamError, TypeOK
  <2>4. QED
    BY <1>3, <2>3, closeType DEF DispatchStreamError, TypeOK
<1>4. CASE BatchDone(t)
  BY <1>4 DEF BatchDone, TypeOK, qvars, cvars, svars
<1>5. QED
  BY <1>1, <1>2, <1>3, <1>4, Reader(t) DEF Reader

\* of the receive loop,
LEMMA LoopType ==
  ASSUME TypeOK, ReceiveLoop
  PROVE  TypeOK'
<1>1. CASE start_receive_loop
  BY <1>1 DEF start_receive_loop, TypeOK, Tasks, qvars, cvars, svars
<1>2. CASE LoopReads
  BY <1>2 DEF LoopReads, TypeOK, Tasks, qvars, cvars, svars
<1>3. CASE LoopEnds
  BY <1>3, closeType DEF LoopEnds, TypeOK, Tasks
<1>4. QED
  BY <1>1, <1>2, <1>3, ReceiveLoop DEF ReceiveLoop

\* and of the server.
LEMMA EnvironmentType ==
  ASSUME TypeOK, Environment
  PROVE  TypeOK'
<1>1. CASE Connect
  BY <1>1 DEF Connect, TypeOK, qvars, cvars
<1>2. CASE Close
  BY <1>2, closeType DEF Close, TypeOK, Killed, Tasks
<1>3. CASE ConnectionLost
  BY <1>3 DEF ConnectionLost, TypeOK, qvars, cvars
<1>4. CASE ServerAnswers
  <2>1. PICK a \in asked : wire' = Append(wire, Answer(a)) /\ asked' = asked \ {a}
    BY <1>4 DEF ServerAnswers
  <2>2. wire' \in Seq(Nodes)
    BY <2>1, AnswerNode, AppendProperties DEF TypeOK
  <2>3. QED
    BY <1>4, <2>1, <2>2 DEF ServerAnswers, TypeOK, qvars, cvars
<1>5. CASE ServerEndsStream
  <2>1. wire' \in Seq(Nodes)
    BY <1>5, AnswerNode, AppendProperties DEF ServerEndsStream, TypeOK
  <2>2. QED
    BY <1>5, <2>1 DEF ServerEndsStream, TypeOK, qvars, cvars
<1>6. QED
  BY <1>1, <1>2, <1>3, <1>4, <1>5, Environment DEF Environment

-----------------------------------------------------------------------------
(* The inductive invariant                                                 *)

\* The invariant holds at first.
LEMMA InitQInv == Init => QInv
  BY QueryAssumption
  DEF Init, QInv, TagsUsed, TagsApart, ActiveTagged, EndedTagged,
      WaiterReachable, PendingAccounted, RetryTagFree, MayRetry, Active, Tasks

\* A caller's step changes the map only at the caller's own tag.
LEMMA CallerQInv ==
  ASSUME TypeOK, QInv, NEW c \in Callers, Caller(c)
  PROVE  QInv'
<1> USE QueryAssumption DEF TypeOK, QInv, TagsUsed, TagsApart, ActiveTagged, EndedTagged,
      FutureState, Outcome, Tasks, Active, MayRetry
<1>1. ASSUME NEW drive \in BOOLEAN, Query(c, drive) PROVE QInv'
  BY <1>1 DEF Query, Begin, create_waiter, svars, WaiterReachable, HeldFuture,
              PendingAccounted, RetryTagFree
<1>2. CASE Retry(c)
  BY <1>2 DEF Retry, Begin, create_waiter, svars, WaiterReachable, HeldFuture,
              PendingAccounted, RetryTagFree
<1>3. CASE Sent(c)
  BY <1>3 DEF Sent, qvars, WaiterReachable, HeldFuture, PendingAccounted, RetryTagFree
<1>4. CASE SendFails(c)
  BY <1>4 DEF SendFails, Fail, End, discard, svars, WaiterReachable, HeldFuture,
              PendingAccounted, RetryTagFree
<1>5. CASE DriveReceive(c)
  BY <1>5 DEF DriveReceive, qvars, cvars, WaiterReachable, HeldFuture, PendingAccounted,
              RetryTagFree
<1>6. CASE DriveFails(c)
  BY <1>6 DEF DriveFails, Fail, End, discard, svars, WaiterReachable, HeldFuture,
              PendingAccounted, RetryTagFree
<1>7. CASE WaitFor(c)
  BY <1>7 DEF WaitFor, wait_for, svars, WaiterReachable, HeldFuture, PendingAccounted,
              RetryTagFree
<1>8. CASE RecvFails(c)
  BY <1>8 DEF RecvFails, Fail, End, discard, svars, WaiterReachable, HeldFuture,
              PendingAccounted, RetryTagFree
<1>9. CASE Return(c)
  BY <1>9 DEF Return, End, svars, WaiterReachable, HeldFuture, PendingAccounted,
              RetryTagFree
<1>10. CASE WaitTimeout(c)
  BY <1>10 DEF WaitTimeout, CancelHeld, End, svars, WaiterReachable, HeldFuture,
               PendingAccounted, RetryTagFree
<1>11. CASE CancelCaller(c)
  BY <1>11 DEF CancelCaller, CancelHeld, End, svars, WaiterReachable, HeldFuture,
               PendingAccounted, RetryTagFree
<1>12. QED
  BY <1>1, <1>2, <1>3, <1>4, <1>5, <1>6, <1>7, <1>8, <1>9, <1>10, <1>11 DEF Caller

\* close() empties the map, and cancels every future it finds in it: a caller blocked
\* on a future the map held (WaiterReachable) is no longer blocked.
LEMMA closeQInv ==
  ASSUME TypeOK, QInv, NEW t, close(t),
         \A c \in Callers : pc'[c] = pc[c] \/ (pc'[c] = "idle" /\ c \in Killed(t))
  PROVE  QInv'
<1> USE DEF TypeOK, QInv
<1>1. \A u \in Tags : pending'[u] = "none"
  BY DEF close, cancel_all
<1>2. tag' = tag /\ used' = used /\ held' = held
  BY DEF close
<1>3. TagsUsed' /\ TagsApart' /\ ActiveTagged'
  BY <1>2 DEF TagsUsed, TagsApart, ActiveTagged
<1>4. EndedTagged'
  BY <1>2 DEF close, EndedTagged, ActiveTagged, Active
<1>5. WaiterReachable'
  <2>1. SUFFICES ASSUME NEW c \in Callers, pc'[c] = "wait", HeldFuture(c)' = "pending"
                 PROVE  FALSE
    BY DEF WaiterReachable
  <2>2. pc[c] = "wait" /\ tag[c] \in Tags
    BY <2>1 DEF ActiveTagged
  <2>3. CASE held[c] = "waiter"
    BY <1>2, <2>1, <2>2, <2>3 DEF HeldFuture, WaiterReachable, close, cancel_all
  <2>4. CASE held[c] = "fresh"
    BY <1>2, <2>1, <2>2, <2>4 DEF HeldFuture, WaiterReachable, close, cancel_all
  <2>5. QED
    BY <2>3, <2>4
<1>6. PendingAccounted' /\ RetryTagFree'
  BY <1>1, <1>4 DEF PendingAccounted, RetryTagFree, MayRetry, EndedTagged
<1>7. QED
  BY <1>3, <1>4, <1>5, <1>6

\* the steps of whoever reads the socket,
LEMMA ReaderQInv ==
  ASSUME TypeOK, QInv, NEW t \in Tasks, Reader(t)
  PROVE  QInv'
<1> USE QueryAssumption DEF TypeOK, QInv
<1>1. CASE Receive(t)
  BY <1>1 DEF Receive, qvars, cvars, Tasks, Active, MayRetry, TagsUsed, TagsApart,
              ActiveTagged, EndedTagged, WaiterReachable, HeldFuture, PendingAccounted,
              RetryTagFree
<1>2. CASE DispatchAnswer(t)
  <2>1. PICK a : resolve(a) \/ UNCHANGED <<pending, waiter, fresh>>
    BY <1>2 DEF DispatchAnswer
  <2>2. UNCHANGED <<pending, used, pc, tag, held, out, leaked>>
    BY <1>2, <2>1 DEF DispatchAnswer, resolve, cvars
  <2>3. WaiterReachable'
    BY <2>1, <2>2 DEF WaiterReachable, HeldFuture, resolve, ActiveTagged, Tasks, FutureState
  <2>4. QED
    BY <2>2, <2>3 DEF TagsUsed, TagsApart, ActiveTagged, EndedTagged, PendingAccounted,
                      RetryTagFree, Active, MayRetry
<1>3. CASE DispatchStreamError(t)
  <2>1. \A c \in Callers : pc'[c] = pc[c] \/ (pc'[c] = "idle" /\ c \in Killed(t))
    BY <1>3 DEF DispatchStreamError, Tasks
  <2>2. QED
    BY <1>3, <2>1, closeQInv DEF DispatchStreamError
<1>4. CASE BatchDone(t)
  BY <1>4 DEF BatchDone, qvars, cvars, Tasks, Active, MayRetry, TagsUsed, TagsApart,
              ActiveTagged, EndedTagged, WaiterReachable, HeldFuture, PendingAccounted,
              RetryTagFree
<1>5. QED
  BY <1>1, <1>2, <1>3, <1>4, Reader(t) DEF Reader

\* of the receive loop,
LEMMA LoopQInv ==
  ASSUME TypeOK, QInv, ReceiveLoop
  PROVE  QInv'
<1> USE QueryAssumption DEF TypeOK, QInv
<1>1. CASE start_receive_loop \/ LoopReads
  BY <1>1 DEF start_receive_loop, LoopReads, qvars, cvars, Tasks, Active, MayRetry, TagsUsed,
              TagsApart, ActiveTagged, EndedTagged, WaiterReachable, HeldFuture,
              PendingAccounted, RetryTagFree
<1>2. CASE LoopEnds
  <2>1. \A c \in Callers : pc'[c] = pc[c] \/ (pc'[c] = "idle" /\ c \in Killed(Loop))
    BY <1>2 DEF LoopEnds, Tasks
  <2>2. close(Loop)
    BY <1>2 DEF LoopEnds
  <2>3. QED
    BY <2>1, <2>2, closeQInv
<1>3. QED
  BY <1>1, <1>2, ReceiveLoop DEF ReceiveLoop

\* and of the server.
LEMMA EnvironmentQInv ==
  ASSUME TypeOK, QInv, Environment
  PROVE  QInv'
<1> USE QueryAssumption DEF TypeOK, QInv
<1>1. CASE Close
  <2>1. \A c \in Callers : pc'[c] = pc[c] \/ (pc'[c] = "idle" /\ c \in Killed(NoTag))
    BY <1>1 DEF Close, Tasks
  <2>2. QED
    BY <1>1, <2>1, closeQInv DEF Close
<1>2. CASE Connect \/ ConnectionLost \/ ServerAnswers \/ ServerEndsStream
  <2>1. UNCHANGED <<pending, waiter, fresh, used, pc, tag, held, out, leaked>>
    BY <1>2 DEF Connect, ConnectionLost, ServerAnswers, ServerEndsStream, qvars, cvars
  <2>2. QED
    BY <2>1 DEF Active, MayRetry, TagsUsed, TagsApart, ActiveTagged, EndedTagged,
                WaiterReachable, HeldFuture, PendingAccounted, RetryTagFree
<1>3. QED
  BY <1>1, <1>2, Environment DEF Environment

\* A step that changes nothing keeps everything.
LEMMA Stutter ==
  ASSUME TypeOK, QInv, UNCHANGED vars
  PROVE  TypeOK' /\ QInv'
  BY DEF vars, TypeOK, QInv, Active, MayRetry, TagsUsed, TagsApart, ActiveTagged,
         EndedTagged, WaiterReachable, HeldFuture, PendingAccounted, RetryTagFree

\* Every step keeps both.
LEMMA NextQInv ==
  ASSUME TypeOK, QInv, [Next]_vars
  PROVE  TypeOK' /\ QInv'
<1>1. ASSUME NEW c \in Callers, Caller(c) PROVE TypeOK' /\ QInv'
  BY <1>1, CallerType, CallerQInv DEF QInv
<1>2. ASSUME NEW t \in Tasks, Reader(t) PROVE TypeOK' /\ QInv'
  BY <1>2, ReaderType, ReaderQInv
<1>3. CASE ReceiveLoop
  BY <1>3, LoopType, LoopQInv
<1>4. CASE Environment
  BY <1>4, EnvironmentType, EnvironmentQInv
<1>5. CASE UNCHANGED vars
  BY <1>5, Stutter
<1>6. QED
  BY <1>1, <1>2, <1>3, <1>4, <1>5 DEF Next

\* Both invariants are kept together: the types rest on every active query having a tag.
LEMMA Invariance == Spec => [](TypeOK /\ QInv)
<1>1. Init => TypeOK /\ QInv
  BY InitType, InitQInv
<1>2. (TypeOK /\ QInv) /\ [Next]_vars => (TypeOK /\ QInv)'
  BY NextQInv
<1>3. QED
  BY <1>1, <1>2, PTL DEF Spec

-----------------------------------------------------------------------------
(* How a query that timed out left its waiter                              *)

\* Once the map no longer holds the waiter of a query in progress, close() has run;
UnansweredHeld == \A c \in Callers : pc[c] # "idle" /\ pending[tag[c]] # "waiter" => hit[c]
\* a query in progress has no outcome yet;
ActiveUnended == \A c \in Callers : pc[c] # "idle" => out[c] = "none"
\* and a caller that reads the socket is one that decided to drive it.
ReadingDrives == \A c \in Callers : pc[c] \in {"recv", "dispatch"} => drv[c]

ReturnInv ==
  /\ UnansweredHeld
  /\ ActiveUnended
  /\ ReadingDrives
  /\ AnswerReturned

\* No query, no outcome.
LEMMA InitReturn == Init => ReturnInv
  BY DEF Init, ReturnInv, UnansweredHeld, ActiveUnended, ReadingDrives, AnswerReturned, Tasks

\* A caller that times out in wait_for cancels the waiter, unless it awaits a future that
\* wait_for made because close() had emptied the map.
LEMMA CallerReturn ==
  ASSUME TypeOK, QInv, ReturnInv, NEW c \in Callers, Caller(c)
  PROVE  ReturnInv'
<1> USE QueryAssumption DEF TypeOK, QInv, ReturnInv, TagsUsed, TagsApart, ActiveTagged,
      EndedTagged, FutureState, Outcome, Tasks, Active, MayRetry
<1>1. ASSUME NEW drive \in BOOLEAN, Query(c, drive) PROVE ReturnInv'
  BY <1>1 DEF Query, Begin, create_waiter, svars, UnansweredHeld, ActiveUnended,
              ReadingDrives, AnswerReturned
<1>2. CASE Retry(c)
  BY <1>2 DEF Retry, Begin, create_waiter, svars, UnansweredHeld, ActiveUnended,
              ReadingDrives, AnswerReturned
<1>3. CASE Sent(c)
  BY <1>3 DEF Sent, qvars, UnansweredHeld, ActiveUnended, ReadingDrives, AnswerReturned
<1>4. CASE SendFails(c)
  BY <1>4 DEF SendFails, Fail, End, discard, svars, UnansweredHeld, ActiveUnended,
              ReadingDrives, AnswerReturned
<1>5. CASE DriveReceive(c)
  BY <1>5 DEF DriveReceive, KeepsDriving, qvars, cvars, UnansweredHeld, ActiveUnended,
              ReadingDrives, AnswerReturned
<1>6. CASE DriveFails(c)
  BY <1>6 DEF DriveFails, Fail, End, discard, svars, UnansweredHeld, ActiveUnended,
              ReadingDrives, AnswerReturned
<1>7. CASE WaitFor(c)
  BY <1>7 DEF WaitFor, wait_for, svars, UnansweredHeld, ActiveUnended, ReadingDrives,
              AnswerReturned
<1>8. CASE RecvFails(c)
  BY <1>8 DEF RecvFails, Fail, End, discard, svars, UnansweredHeld, ActiveUnended,
              ReadingDrives, AnswerReturned
<1>9. CASE Return(c)
  BY <1>9 DEF Return, End, svars, UnansweredHeld, ActiveUnended, ReadingDrives,
              AnswerReturned
<1>10. CASE WaitTimeout(c)
  BY <1>10 DEF WaitTimeout, CancelHeld, End, svars, WaiterReachable, HeldFuture,
               UnansweredHeld, ActiveUnended, ReadingDrives, AnswerReturned
<1>11. CASE CancelCaller(c)
  BY <1>11 DEF CancelCaller, CancelHeld, End, svars, UnansweredHeld, ActiveUnended,
               ReadingDrives, AnswerReturned
<1>12. QED
  BY <1>1, <1>2, <1>3, <1>4, <1>5, <1>6, <1>7, <1>8, <1>9, <1>10, <1>11 DEF Caller

\* close() never answers a future, and marks every query it runs under.
LEMMA closeReturn ==
  ASSUME TypeOK, QInv, ReturnInv, NEW t, close(t),
         \A c \in Callers : pc'[c] = IF c \in Killed(t) THEN "idle" ELSE pc[c]
  PROVE  ReturnInv'
<1> USE DEF TypeOK, QInv, ReturnInv
<1>1. /\ tag' = tag
      /\ drv' = drv
      /\ hit' = [c \in Callers |-> hit[c] \/ Active(c)]
      /\ out' = [c \in Callers |-> IF c \in Killed(t) /\ Active(c) THEN "cancelled" ELSE out[c]]
  BY DEF close
<1>2. \A c \in Callers : hit[c] \/ pc[c] # "idle" => hit'[c]
  BY <1>1, Zenon DEF Active
<1>3. \A u \in Tags : waiter'[u] = "result" => waiter[u] = "result"
  BY DEF close, cancel_all
<1>4. UnansweredHeld' /\ ActiveUnended' /\ ReadingDrives'
  BY <1>1, <1>2 DEF UnansweredHeld, ActiveUnended, ReadingDrives
<1>5. AnswerReturned'
  <2>1. SUFFICES ASSUME NEW c \in Callers, out'[c] = "timeout", ~drv[c],
                        waiter'[tag[c]] = "result"
                 PROVE  hit'[c]
    BY <1>1 DEF AnswerReturned
  <2>2. out[c] = "timeout"
    BY <1>1, <2>1
  <2>3. tag[c] \in Tags
    BY <2>2 DEF EndedTagged
  <2>4. QED
    BY <1>2, <1>3, <2>1, <2>2, <2>3 DEF AnswerReturned
<1>6. QED
  BY <1>4, <1>5

\* An answer dispatched late finds no entry of a query that timed out (RetryTagFree), so
\* it cannot turn that query's waiter into an answered one.
LEMMA ReaderReturn ==
  ASSUME TypeOK, QInv, ReturnInv, NEW t \in Tasks, Reader(t)
  PROVE  ReturnInv'
<1> USE QueryAssumption DEF TypeOK, QInv, ReturnInv, UnansweredHeld, ActiveUnended,
      ReadingDrives, Tasks
<1>1. CASE Receive(t)
  BY <1>1 DEF Receive, qvars, cvars, AnswerReturned
<1>2. CASE DispatchAnswer(t)
  <2>1. PICK a : resolve(a) \/ UNCHANGED <<pending, waiter, fresh>>
    BY <1>2 DEF DispatchAnswer
  <2>2. UNCHANGED <<pending, pc, tag, drv, out, hit>>
    BY <1>2, <2>1 DEF DispatchAnswer, resolve, cvars
  <2>3. \A u \in Tags : waiter'[u] = "result" =>
          waiter[u] = "result" \/ pending[u] = "waiter"
    BY <2>1 DEF resolve
  <2>4. AnswerReturned'
    BY <2>2, <2>3 DEF AnswerReturned, RetryTagFree, MayRetry, EndedTagged, Outcome
  <2>5. QED
    BY <2>2, <2>4
<1>3. CASE DispatchStreamError(t)
  <2>1. /\ close(t)
        /\ pc' = [u \in Tasks |-> IF u \in Killed(t) THEN "idle" ELSE pc[u]]
    BY <1>3 DEF DispatchStreamError
  <2>2. \A c \in Callers : pc'[c] = IF c \in Killed(t) THEN "idle" ELSE pc[c]
    BY <2>1
  <2>3. QED
    BY <2>1, <2>2, closeReturn
<1>4. CASE BatchDone(t)
  BY <1>4 DEF BatchDone, qvars, cvars, AnswerReturned
<1>5. QED
  BY <1>1, <1>2, <1>3, <1>4, Reader(t) DEF Reader

\* The receive task closes, at most,
LEMMA LoopReturn ==
  ASSUME TypeOK, QInv, ReturnInv, ReceiveLoop
  PROVE  ReturnInv'
<1> USE QueryAssumption DEF TypeOK, QInv, ReturnInv
<1>1. CASE start_receive_loop \/ LoopReads
  BY <1>1 DEF start_receive_loop, LoopReads, qvars, cvars, Tasks, UnansweredHeld,
              ActiveUnended, ReadingDrives, AnswerReturned
<1>2. CASE LoopEnds
  <2>1. Killed(Loop) = {}
    BY DEF Killed, InLoop
  <2>2. \A c \in Callers : pc'[c] = IF c \in Killed(Loop) THEN "idle" ELSE pc[c]
    BY <1>2, <2>1 DEF LoopEnds, Tasks
  <2>3. close(Loop)
    BY <1>2 DEF LoopEnds
  <2>4. QED
    BY <2>1, <2>2, <2>3, closeReturn
<1>3. QED
  BY <1>1, <1>2, ReceiveLoop DEF ReceiveLoop

\* and so does the user.
LEMMA EnvironmentReturn ==
  ASSUME TypeOK, QInv, ReturnInv, Environment
  PROVE  ReturnInv'
<1> USE QueryAssumption DEF TypeOK, QInv, ReturnInv
<1>1. CASE Close
  <2>1. /\ close(NoTag)
        /\ pc' = [u \in Tasks |-> IF u \in Killed(NoTag) THEN "idle" ELSE pc[u]]
    BY <1>1 DEF Close
  <2>2. \A c \in Callers : pc'[c] = IF c \in Killed(NoTag) THEN "idle" ELSE pc[c]
    BY <2>1 DEF Tasks
  <2>3. QED
    BY <2>1, <2>2, closeReturn
<1>2. CASE Connect \/ ConnectionLost \/ ServerAnswers \/ ServerEndsStream
  BY <1>2 DEF Connect, ConnectionLost, ServerAnswers, ServerEndsStream, qvars, cvars,
              UnansweredHeld, ActiveUnended, ReadingDrives, AnswerReturned
<1>3. QED
  BY <1>1, <1>2, Environment DEF Environment

\* Every step keeps it.
LEMMA NextReturn ==
  ASSUME TypeOK, QInv, ReturnInv, [Next]_vars
  PROVE  ReturnInv'
<1>1. ASSUME NEW c \in Callers, Caller(c) PROVE ReturnInv'
  BY <1>1, CallerReturn
<1>2. ASSUME NEW t \in Tasks, Reader(t) PROVE ReturnInv'
  BY <1>2, ReaderReturn
<1>3. CASE ReceiveLoop
  BY <1>3, LoopReturn
<1>4. CASE Environment
  BY <1>4, EnvironmentReturn
<1>5. CASE UNCHANGED vars
  BY <1>5 DEF vars, ReturnInv, UnansweredHeld, ActiveUnended, ReadingDrives, AnswerReturned
<1>6. QED
  BY <1>1, <1>2, <1>3, <1>4, <1>5 DEF Next

-----------------------------------------------------------------------------
\* The variables of Query keep their types, for any number of callers and tags.
THEOREM QueryTypeOK == Spec => []TypeOK
  BY Invariance, PTL

\* A caller blocked in QueryManager.wait_for always awaits the future the map holds for
\* its tag: an answer that is dispatched reaches it, and close() cancels it.
THEOREM QueryWaiterReachable == Spec => []WaiterReachable
<1>1. QInv => WaiterReachable
  BY DEF QInv
<1>2. QED
  BY <1>1, Invariance, PTL

\* The map holds no entry of a query that ended, but for callers cancelled before wait_for.
THEOREM QueryPendingAccounted == Spec => []PendingAccounted
<1>1. QInv => PendingAccounted
  BY DEF QInv
<1>2. QED
  BY <1>1, Invariance, PTL

\* A retry with the id of the failed attempt never finds that id still pending.
THEOREM QueryRetryTagFree == Spec => []RetryTagFree
<1>1. QInv => RetryTagFree
  BY DEF QInv
<1>2. QED
  BY <1>1, Invariance, PTL

\* Two queries in progress never share an id.
THEOREM QueryTagsDistinct == Spec => []TagsDistinct
<1>1. QInv => TagsDistinct
  BY QueryAssumption DEF QInv, TagsApart, ActiveTagged, TagsDistinct, Active
<1>2. QED
  BY <1>1, Invariance, PTL

\* A query that leaves the reading to the receive task is never reported as timed out with
\* its waiter answered, unless close() ran while it was in progress.
THEOREM QueryAnswerReturned == Spec => []AnswerReturned
<1>1. Init => ReturnInv
  BY InitReturn
<1>2. (TypeOK /\ QInv) /\ ReturnInv /\ [Next]_vars => ReturnInv'
  BY NextReturn
<1>3. ReturnInv => AnswerReturned
  BY DEF ReturnInv
<1>4. QED
  BY <1>1, <1>2, <1>3, Invariance, PTL DEF Spec

-----------------------------------------------------------------------------
(* Numbers and sequences                                                   *)

\* A set of numbers that is not empty has a least one.
LEMMA Least ==
  ASSUME NEW T \in SUBSET Nat, T # {}
  PROVE  \E x \in T : \A y \in T : x <= y
<1>1. \E x \in T : \A y \in T : ~(<<y, x>> \in OpToRel(<, Nat))
  BY NatLessThanWellFounded, WFMin
<1>2. PICK x \in T : \A y \in T : ~(<<y, x>> \in OpToRel(<, Nat))
  BY <1>1
<1>3. \A y \in T : ~(y < x)
  BY <1>2 DEF OpToRel
<1>4. QED
  BY <1>3

\* A set of numbers that is not empty and has a bound has a greatest one.
LEMMA Greatest ==
  ASSUME NEW n \in Nat, NEW T \in SUBSET (0 .. n), T # {}
  PROVE  Max(T) \in T /\ \A y \in T : y <= Max(T)
<1> DEFINE U == {n - x : x \in T}
<1>1. U \in SUBSET Nat /\ U # {}
  <2>1. ASSUME NEW x \in T PROVE n - x \in Nat
    <3>1. x \in 0 .. n
      OBVIOUS
    <3>2. QED
      BY <3>1
  <2>2. QED
    BY <2>1
<1>2. PICK u \in U : \A y \in U : u <= y
  BY <1>1, Least
<1>3. PICK x \in T : u = n - x
  OBVIOUS
<1>4. ASSUME NEW y \in T PROVE x >= y
  <2>1. n - y \in U
    OBVIOUS
  <2>2. x \in 0 .. n /\ y \in 0 .. n /\ n - x <= n - y
    BY <1>2, <1>3, <2>1
  <2>3. QED
    BY <2>2
<1>5. Max(T) \in T /\ \A y \in T : Max(T) >= y
  BY <1>4 DEF Max
<1>6. QED
  BY <1>5

\* And Min is the least.
LEMMA Smallest ==
  ASSUME NEW T \in SUBSET Nat, T # {}
  PROVE  Min(T) \in T /\ \A y \in T : Min(T) <= y
<1>1. PICK x \in T : \A y \in T : x <= y
  BY Least
<1>2. QED
  BY <1>1 DEF Min

\* Of 1 .. c and the p numbers after it.
LEMMA Later ==
  ASSUME NEW c \in Nat, NEW p \in Nat, NEW i \in 1 .. p
  PROVE  /\ c + i \in 1 .. c + p
         /\ \A x \in 1 .. c : x < c + i /\ x \in 1 .. c + p
         /\ \A j \in 1 .. p : i < j => c + i < c + j
OBVIOUS

\* A prefix.
LEMMA PrefixIs ==
  ASSUME NEW S, NEW s \in Seq(S), NEW n \in 0 .. Len(s), NEW t, t = SubSeq(s, 1, n)
  PROVE  t \in Seq(S) /\ Len(t) = n /\ \A k \in 1 .. n : t[k] = s[k]
BY SubSeqProperties

\* The rest of a sequence.
LEMMA RestIs ==
  ASSUME NEW S, NEW s \in Seq(S), NEW n \in 0 .. Len(s), NEW t, t = SubSeq(s, n + 1, Len(s))
  PROVE  /\ t \in Seq(S) /\ Len(t) = Len(s) - n
         /\ \A k \in 1 .. Len(s) - n : t[k] = s[n + k]
<1>1. Len(s) \in Nat /\ n + 1 \in 1 .. Len(s) + 1
  OBVIOUS
<1>2. t \in Seq(S)
  BY <1>1, SubSeqProperties
<1>3. t = [k \in 1 .. Len(s) - n |-> s[n + k]]
  <2>1. t = [k \in 1 .. (1 + Len(s) - (n + 1)) |-> s[(n + 1) + k - 1]]
    OBVIOUS
  <2>2. (1 + Len(s) - (n + 1)) = Len(s) - n
    BY <1>1
  <2>3. \A k \in 1 .. Len(s) - n : (n + 1) + k - 1 = n + k
    BY <1>1
  <2>4. QED
    BY <2>1, <2>2, <2>3
<1>4. Len(s) - n \in Nat
  BY <1>1
<1>5. QED
  BY <1>2, <1>3, <1>4

\* A sequence is a prefix and the rest.
LEMMA SplitIs ==
  ASSUME NEW S, NEW s \in Seq(S), NEW n \in 0 .. Len(s)
  PROVE  SubSeq(s, 1, n) \o SubSeq(s, n + 1, Len(s)) = s
<1> DEFINE a == SubSeq(s, 1, n)
           z == SubSeq(s, n + 1, Len(s))
<1>1. a \in Seq(S) /\ Len(a) = n /\ \A k \in 1 .. n : a[k] = s[k]
  BY PrefixIs
<1>2. z \in Seq(S) /\ Len(z) = Len(s) - n /\ \A k \in 1 .. Len(s) - n : z[k] = s[n + k]
  BY RestIs
<1> HIDE DEF a, z
<1>3. /\ a \o z \in Seq(S) /\ Len(a \o z) = Len(a) + Len(z)
      /\ \A i \in 1 .. Len(a) + Len(z) : (a \o z)[i] = IF i <= Len(a) THEN a[i] ELSE z[i - Len(a)]
  BY <1>1, <1>2, ConcatProperties
<1>4. Len(a) + Len(z) = Len(s) /\ Len(s) \in Nat
  BY <1>1, <1>2
<1>5. ASSUME NEW i \in 1 .. Len(s) PROVE (a \o z)[i] = s[i]
  <2>1. CASE i <= n
    <3>1. i \in 1 .. n
      BY <2>1
    <3>2. QED
      BY <1>1, <1>3, <1>4, <2>1, <3>1
  <2>2. CASE ~(i <= n)
    <3>1. i - n \in 1 .. Len(s) - n /\ n + (i - n) = i
      BY <1>4, <2>2
    <3>2. z[i - n] = s[i]
      BY <1>2, <3>1
    <3>3. (a \o z)[i] = z[i - n]
      BY <1>1, <1>3, <1>4, <2>2
    <3>4. QED
      BY <3>2, <3>3
  <2>3. QED
    BY <2>1, <2>2
<1>6. a \o z = s
  BY <1>3, <1>4, <1>5, SeqEqual
<1>7. QED
  BY <1>6 DEF a, z

\* Three sequences.
LEMMA ConcatAssoc ==
  ASSUME NEW S, NEW a \in Seq(S), NEW b \in Seq(S), NEW c \in Seq(S)
  PROVE  (a \o b) \o c = a \o (b \o c)
OBVIOUS

\* A read takes the first ones of what comes (t) to what is there (s).
LEMMA ReadSplit ==
  ASSUME NEW S, NEW s \in Seq(S), NEW t \in Seq(S), NEW n \in 0 .. Len(t)
  PROVE  /\ s \o SubSeq(t, 1, n) \in Seq(S) /\ Len(s \o SubSeq(t, 1, n)) = Len(s) + n
         /\ (s \o SubSeq(t, 1, n)) \o SubSeq(t, n + 1, Len(t)) = s \o t
<1>1. PICK bytes : bytes = SubSeq(t, 1, n)
  OBVIOUS
<1>2. PICK rest : rest = SubSeq(t, n + 1, Len(t))
  OBVIOUS
<1>3. bytes \in Seq(S) /\ Len(bytes) = n
  BY <1>1, PrefixIs
<1>4. rest \in Seq(S)
  BY <1>2, RestIs
<1>5. bytes \o rest = t
  BY <1>2, <1>1, SplitIs
<1>6. s \o bytes \in Seq(S) /\ Len(s \o bytes) = Len(s) + Len(bytes)
  BY <1>3, ConcatProperties
<1>7. (s \o bytes) \o rest = s \o (bytes \o rest)
  BY ONLY s \in Seq(S), <1>3, <1>4, ConcatAssoc
<1>8. QED
  BY <1>2, <1>1, <1>3, <1>5, <1>6, <1>7

\* What was consumed of s is not there in front of t.
LEMMA DropConcat ==
  ASSUME NEW S, NEW s \in Seq(S), NEW t \in Seq(S), NEW n \in 0 .. Len(s),
         NEW j \in 1 .. (Len(s) - n) + Len(t)
  PROVE  (SubSeq(s, n + 1, Len(s)) \o t)[j] = (s \o t)[n + j]
<1>1. PICK rest : rest = SubSeq(s, n + 1, Len(s))
  OBVIOUS
<1>2. rest \in Seq(S) /\ Len(rest) = Len(s) - n /\ \A k \in 1 .. Len(s) - n : rest[k] = s[n + k]
  BY <1>1, RestIs
<1>3. Len(s) \in Nat /\ Len(t) \in Nat
  OBVIOUS
<1>4. (rest \o t)[j] = IF j <= Len(rest) THEN rest[j] ELSE t[j - Len(rest)]
  BY <1>2, <1>3, ConcatProperties
<1>5. n + j \in 1 .. Len(s) + Len(t)
  BY <1>3
<1>6. (s \o t)[n + j] = IF n + j <= Len(s) THEN s[n + j] ELSE t[n + j - Len(s)]
  BY <1>5, ConcatProperties
<1>7. CASE j <= Len(s) - n
  <2>1. j \in 1 .. Len(s) - n /\ n + j <= Len(s)
    BY <1>3, <1>7
  <2>2. QED
    BY <1>1, <1>2, <1>4, <1>6, <1>7, <2>1
<1>8. CASE ~(j <= Len(s) - n)
  <2>1. ~(n + j <= Len(s)) /\ n + j - Len(s) = j - (Len(s) - n)
    BY <1>3, <1>8
  <2>2. QED
    BY <1>1, <1>2, <1>4, <1>6, <1>8, <2>1
<1>9. QED
  BY <1>7, <1>8

\* The numbers go on.
LEMMA NumbersGoOn ==
  ASSUME NEW c \in Nat, NEW p \in Nat, NEW s \in Seq(Nat), Len(s) = p, \A k \in 1 .. p : s[k] = c + k
  PROVE  [k \in 1 .. c |-> k] \o s = [k \in 1 .. c + p |-> k]
<1> DEFINE a == [k \in 1 .. c |-> k]
           z == [k \in 1 .. c + p |-> k]
<1>1. a \in Seq(Nat) /\ Len(a) = c /\ \A k \in 1 .. c : a[k] = k
  OBVIOUS
<1>2. c + p \in Nat
  OBVIOUS
<1>3. z \in Seq(Nat) /\ Len(z) = c + p /\ \A k \in 1 .. c + p : z[k] = k
  BY <1>2
<1> HIDE DEF a, z
<1>4. /\ a \o s \in Seq(Nat) /\ Len(a \o s) = Len(a) + Len(s)
      /\ \A i \in 1 .. Len(a) + Len(s) : (a \o s)[i] = IF i <= Len(a) THEN a[i] ELSE s[i - Len(a)]
  BY <1>1, ConcatProperties
<1>5. ASSUME NEW k \in 1 .. c + p PROVE (a \o s)[k] = z[k]
  <2>1. CASE k <= c
    BY <1>1, <1>3, <1>4, <2>1
  <2>2. CASE ~(k <= c)
    <3>1. k - c \in 1 .. p /\ c + (k - c) = k
      BY <2>2
    <3>2. s[k - c] = k
      BY <3>1
    <3>3. QED
      BY <1>1, <1>3, <1>4, <2>2, <3>2
  <2>3. QED
    BY <2>1, <2>2
<1>6. a \o s = z
  BY <1>1, <1>3, <1>4, <1>5, SeqEqual
<1>7. QED
  BY <1>6 DEF a, z

\* ToSet.
LEMMA ToSetIs ==
  ASSUME NEW S, NEW s \in Seq(S), NEW x
  PROVE  x \in ToSet(s) <=> \E i \in 1 .. Len(s) : s[i] = x
BY DEF ToSet

\* A prefix and what follows, as sets.
LEMMA ToSetConcat ==
  ASSUME NEW S, NEW s \in Seq(S), NEW t \in Seq(S)
  PROVE  /\ ToSet(s) \subseteq ToSet(s \o t)
         /\ \A i \in 1 .. Len(t) : t[i] \in ToSet(s \o t)
<1>1. /\ s \o t \in Seq(S) /\ Len(s \o t) = Len(s) + Len(t) /\ Len(s) \in Nat /\ Len(t) \in Nat
      /\ \A i \in 1 .. Len(s) + Len(t) : (s \o t)[i] = IF i <= Len(s) THEN s[i] ELSE t[i - Len(s)]
  BY ConcatProperties
<1>2. ASSUME NEW x \in ToSet(s) PROVE x \in ToSet(s \o t)
  <2>1. PICK i \in 1 .. Len(s) : s[i] = x
    BY ToSetIs
  <2>2. i \in 1 .. Len(s \o t) /\ (s \o t)[i] = x
    BY <1>1, <2>1
  <2>3. QED
    BY <1>1, <2>2, ToSetIs
<1>3. ASSUME NEW i \in 1 .. Len(t) PROVE t[i] \in ToSet(s \o t)
  <2>1. Len(s) + i \in 1 .. Len(s \o t) /\ ~(Len(s) + i <= Len(s)) /\ Len(s) + i - Len(s) = i
    BY <1>1
  <2>2. (s \o t)[Len(s) + i] = t[i]
    BY <1>1, <2>1
  <2>3. QED
    BY <1>1, <2>1, <2>2, ToSetIs
<1>4. QED
  BY <1>2, <1>3

-----------------------------------------------------------------------------
(* FlattenSeq                                                              *)

\* f is what FlattenSeq makes of the first 1 to n sequences of s.
IsFlat(s, n, f) == f = [i \in 1..n |-> IF i = 1 THEN s[i] ELSE f[i-1] \o s[i]]

\* The recursive function of FlattenSeq exists, for as long a sequence as is wanted.
LEMMA FlatExists ==
  ASSUME NEW s, NEW n \in Nat
  PROVE  \E f : IsFlat(s, n, f)
<1> DEFINE T == {m \in Nat : ~\E f : IsFlat(s, m, f)}
<1> SUFFICES ASSUME T # {} PROVE FALSE
  OBVIOUS
<1>1. PICK m \in T : \A y \in T : m <= y
  BY Least
<1>2. CASE m = 0
  <2>1. IsFlat(s, 0, <<>>)
    BY DEF IsFlat
  <2>2. QED
    BY <1>2, <2>1
<1>3. CASE m # 0
  <2>1. m - 1 \in Nat /\ ~(m <= m - 1)
    BY <1>3
  <2>2. PICK f : IsFlat(s, m - 1, f)
    BY <1>1, <2>1
  <2> DEFINE g == [i \in 1..m |-> IF i = m THEN IF i = 1 THEN s[i] ELSE f[i-1] \o s[i] ELSE f[i]]
  <2>3. ASSUME NEW i \in 1..m PROVE g[i] = IF i = 1 THEN s[i] ELSE g[i-1] \o s[i]
    <3>1. CASE i = 1
      BY <1>3, <2>2, <3>1 DEF IsFlat
    <3>2. CASE i # 1
      <4>1. i - 1 \in 1..(m - 1) /\ i - 1 # m /\ i - 1 \in 1..m
        BY <3>2
      <4>2. g[i - 1] = f[i - 1]
        BY <4>1
      <4>3. CASE i = m
        BY <3>2, <4>2, <4>3
      <4>4. CASE i # m
        <5>1. i \in 1..(m - 1)
          BY <4>4
        <5>2. f[i] = f[i - 1] \o s[i]
          BY <2>2, <3>2, <5>1 DEF IsFlat
        <5>3. QED
          BY <3>2, <4>2, <4>4, <5>2
      <4>5. QED
        BY <4>3, <4>4
    <3>3. QED
      BY <3>1, <3>2
  <2>4. IsFlat(s, m, g)
    <3> HIDE DEF g
    <3>1. g = [i \in 1..m |-> g[i]]
      BY DEF g
    <3>2. QED
      BY <2>3, <3>1 DEF IsFlat
  <2>5. QED
    BY <1>1, <2>4
<1>4. QED
  BY <1>2, <1>3

\* Of two of them, that of the longer sequence goes on where the other ends.
LEMMA FlatAgree ==
  ASSUME NEW s, NEW t, NEW n \in Nat, NEW m \in Nat, n <= m, \A i \in 1..n : t[i] = s[i],
         NEW f, IsFlat(s, n, f), NEW g, IsFlat(t, m, g)
  PROVE  \A i \in 1..n : g[i] = f[i]
<1> DEFINE T == {i \in 1..n : g[i] # f[i]}
<1> SUFFICES ASSUME T # {} PROVE FALSE
  OBVIOUS
<1>1. PICK i \in T : \A j \in T : i <= j
  <2>1. T \in SUBSET Nat
    OBVIOUS
  <2>2. QED
    BY <2>1, Least
<1>2. i \in 1..n /\ i \in 1..m
  OBVIOUS
<1>3. /\ f[i] = IF i = 1 THEN s[i] ELSE f[i-1] \o s[i]
      /\ g[i] = IF i = 1 THEN t[i] ELSE g[i-1] \o t[i]
  BY <1>2 DEF IsFlat
<1>4. i # 1 => g[i - 1] = f[i - 1]
  BY <1>1, <1>2
<1>5. QED
  BY <1>2, <1>3, <1>4

\* The function that FlattenSeq looks up at the end of s.
FlatOf(s, f) == Len(s) \in Nat /\ Len(s) # 0 /\ IsFlat(s, Len(s), f)
\* t is s and one more.
OneMore(s, t) ==
  /\ Len(s) \in Nat /\ Len(t) = Len(s) + 1
  /\ \A i \in 1..Len(s) : t[i] = s[i]

\* What FlattenSeq computes.
LEMMA FlattenIs ==
  ASSUME NEW s, Len(s) \in Nat, Len(s) # 0
  PROVE  \E f : FlatOf(s, f) /\ FlattenSeq(s) = f[Len(s)]
<1> DEFINE f == CHOOSE g : IsFlat(s, Len(s), g)
<1>1. IsFlat(s, Len(s), f)
  BY FlatExists
<1>2. f = CHOOSE g : g = [i \in 1..Len(s) |-> IF i = 1 THEN s[i] ELSE g[i-1] \o s[i]]
  BY DEF IsFlat
<1> HIDE DEF f
<1>3. FlattenSeq(s) = f[Len(s)]
  BY <1>2 DEF FlattenSeq
<1>4. QED
  BY <1>1, <1>3 DEF FlatOf

\* One sequence more.
LEMMA FlatOneMore ==
  ASSUME NEW s, NEW t, OneMore(s, t), NEW f, FlatOf(s, f), NEW g, FlatOf(t, g)
  PROVE  g[Len(t)] = f[Len(s)] \o t[Len(t)]
<1> DEFINE n == Len(s)
           m == Len(t)
<1>1. /\ n \in Nat /\ m \in Nat /\ n <= m /\ n \in 1..n /\ m \in 1..m /\ m # 1 /\ m - 1 = n
      /\ IsFlat(s, n, f) /\ IsFlat(t, m, g) /\ \A i \in 1..n : t[i] = s[i]
  BY DEF OneMore, FlatOf
<1> HIDE DEF n, m
<1>2. g[m] = g[n] \o t[m]
  BY <1>1 DEF IsFlat
<1>3. \A i \in 1..n : g[i] = f[i]
  BY <1>1, FlatAgree
<1>4. QED
  BY <1>1, <1>2, <1>3 DEF n, m

\* FlattenSeq of a sequence with one more.
LEMMA FlattenAppend ==
  ASSUME NEW S, NEW s \in Seq(Seq(S)), NEW x \in Seq(S), NEW t, t = Append(s, x)
  PROVE  FlattenSeq(t) = FlattenSeq(s) \o x
<1>1. OneMore(s, t) /\ Len(s) \in Nat /\ Len(t) \in Nat /\ Len(t) # 0 /\ t[Len(t)] = x
  BY DEF OneMore
<1>2. PICK g : FlatOf(t, g) /\ FlattenSeq(t) = g[Len(t)]
  BY ONLY <1>1, FlattenIs
<1>3. CASE s = << >>
  <2>1. FlattenSeq(s) = << >>
    BY <1>3 DEF FlattenSeq
  <2>2. Len(t) = 1
    BY <1>1, <1>3 DEF OneMore
  <2>3. g[1] = t[1]
    BY <1>2, <2>2 DEF FlatOf, IsFlat
  <2>4. << >> \o x = x
    OBVIOUS
  <2>5. QED
    BY <1>1, <1>2, <2>1, <2>2, <2>3, <2>4
<1>4. CASE s # << >>
  <2>1. Len(s) # 0
    BY <1>4
  <2>2. PICK f : FlatOf(s, f) /\ FlattenSeq(s) = f[Len(s)]
    BY ONLY <1>1, <2>1, FlattenIs
  <2>3. g[Len(t)] = f[Len(s)] \o t[Len(t)]
    BY ONLY <1>1, <1>2, <2>2, FlatOneMore
  <2>4. QED
    BY <1>1, <1>2, <2>2, <2>3
<1>5. QED
  BY <1>3, <1>4

-----------------------------------------------------------------------------
(* Handshakes                                                              *)

\* A NoiseHandshake has its fields.
IsNoise(n) ==
  n = [hash |-> n.hash, salt |-> n.salt, key |-> n.key, counter |-> n.counter,
       sent_intro |-> n.sent_intro, transport |-> n.transport]

\* Two handshakes that have mixed in the same: what the one seals the other opens.
Same(n, m) == n.hash = m.hash /\ n.salt = m.salt /\ n.key = m.key /\ n.counter = m.counter

\* A handshake begins the same on both sides, without a transport.
LEMMA NoiseBegins ==
  ASSUME NEW e, NEW n, n = NoiseHandshake(e)
  PROVE  IsNoise(n) /\ n.sent_intro = FALSE /\ n.transport = Nothing
BY DEF NoiseHandshake, authenticate, IsNoise

\* authenticate goes into the hash alone.
LEMMA AuthenticateIs ==
  ASSUME NEW n, IsNoise(n), NEW data, NEW m, m = authenticate(n, data)
  PROVE  /\ IsNoise(m) /\ m.hash = H(n.hash, data)
         /\ m.salt = n.salt /\ m.key = n.key /\ m.counter = n.counter
         /\ m.sent_intro = n.sent_intro /\ m.transport = n.transport
BY DEF authenticate, IsNoise

\* mix_into_key makes a salt and a key of the salt before, and counts from 0.
LEMMA MixIs ==
  ASSUME NEW n, IsNoise(n), NEW data, NEW m, m = mix_into_key(n, data)
  PROVE  /\ IsNoise(m) /\ m.hash = n.hash
         /\ m.salt = <<"write", n.salt, data>> /\ m.key = <<"read", n.salt, data>>
         /\ m.counter = 0
         /\ m.sent_intro = n.sent_intro /\ m.transport = n.transport
BY DEF mix_into_key, IsNoise

\* What was sealed counts and goes into the hash.
LEMMA AdvanceIs ==
  ASSUME NEW n, IsNoise(n), NEW sealed, NEW m, m = Advance(n, sealed)
  PROVE  /\ IsNoise(m) /\ m.hash = H(n.hash, sealed)
         /\ m.salt = n.salt /\ m.key = n.key /\ m.counter = n.counter + 1
         /\ m.sent_intro = n.sent_intro /\ m.transport = n.transport
BY DEF Advance, authenticate, IsNoise

\* The steps of the handshake keep two sides the same.
LEMMA SameSteps ==
  ASSUME NEW n, NEW m, IsNoise(n), IsNoise(m), Same(n, m), NEW data
  PROVE  /\ IsNoise(authenticate(n, data)) /\ IsNoise(mix_into_key(n, data))
         /\ IsNoise(Advance(n, data))
         /\ Same(authenticate(n, data), authenticate(m, data))
         /\ Same(mix_into_key(n, data), mix_into_key(m, data))
         /\ Same(Advance(n, data), Advance(m, data))
         /\ Seal(n, data) = Seal(m, data)
         /\ Opens(n, data) <=> Opens(m, data)
<1>1. /\ IsNoise(authenticate(n, data)) /\ IsNoise(authenticate(m, data))
      /\ Same(authenticate(n, data), authenticate(m, data))
  BY AuthenticateIs DEF Same
<1>2. /\ IsNoise(mix_into_key(n, data)) /\ IsNoise(mix_into_key(m, data))
      /\ Same(mix_into_key(n, data), mix_into_key(m, data))
  BY MixIs DEF Same
<1>3. /\ IsNoise(Advance(n, data)) /\ IsNoise(Advance(m, data))
      /\ Same(Advance(n, data), Advance(m, data))
  BY AdvanceIs DEF Same
<1>4. Seal(n, data) = Seal(m, data) /\ (Opens(n, data) <=> Opens(m, data))
  BY DEF Same, Seal, Opens
<1>5. QED
  BY <1>1, <1>2, <1>3, <1>4

\* What a side seals, it would open itself.
LEMMA OpensOwn ==
  ASSUME NEW n, NEW plain
  PROVE  Opens(n, Seal(n, plain)) /\ Seal(n, plain).plain = plain
BY DEF Opens, Seal, Sealed

-----------------------------------------------------------------------------
(* The handshake of this client with an honest server: what the server has *)
(* mixed in when it has sent its static key (StageA, StageB) and its       *)
(* certificate (StageC), and what both have after the finish (StageD).     *)

Stage0 == NoiseHandshake("ce")
StageA == mix_into_key(authenticate(Stage0, "se"), DH("ce", "se"))
ServerStatic == Seal(StageA, "ss")
StageB == mix_into_key(Advance(StageA, ServerStatic), DH("ce", "ss"))
Certificate == Seal(StageB, "chain")
StageC == Advance(StageB, Certificate)
ClientStatic == Seal(StageC, "cs")
StageD == mix_into_key(Advance(StageC, ClientStatic), DH("cs", "se"))
LoginPayload == Seal(StageD, "login")

\* What the server of this handshake answers.
HelloOf(kind) ==
  [kind |-> kind, ephemeral |-> "se", static |-> ServerStatic, payload |-> Certificate]

\* The stages are handshakes.
LEMMA StagesNoise ==
  IsNoise(Stage0) /\ IsNoise(StageA) /\ IsNoise(StageB) /\ IsNoise(StageC) /\ IsNoise(StageD)
<1>1. IsNoise(Stage0)
  BY NoiseBegins DEF Stage0
<1>2. IsNoise(StageA)
  BY <1>1, AuthenticateIs, MixIs DEF StageA
<1>3. IsNoise(StageB)
  BY <1>2, AdvanceIs, MixIs DEF StageB
<1>4. IsNoise(StageC)
  BY <1>3, AdvanceIs DEF StageC
<1>5. IsNoise(StageD)
  BY <1>4, AdvanceIs, MixIs DEF StageD
<1>6. QED
  BY <1>1, <1>2, <1>3, <1>4, <1>5

\* The client takes an honest hello, ends at the server's stage and seals its key for it; it
\* raises on any other.
LEMMA HelloTaken ==
  ASSUME NEW n, IsNoise(n), Same(n, Stage0), NEW kind \in Hellos,
         NEW done, done = process_server_hello(n, HelloOf(kind))
  PROVE  /\ kind # "good" => done = Nothing
         /\ kind = "good" => /\ done # Nothing
                             /\ done.static = ClientStatic
                             /\ IsNoise(done.noise) /\ Same(done.noise, StageD)
                             /\ done.noise.sent_intro = n.sent_intro
<1> DEFINE a == mix_into_key(authenticate(n, "se"), DH("ce", "se"))
           b == mix_into_key(Advance(a, ServerStatic), DH("ce", ServerStatic.plain))
           c == Advance(b, Certificate)
           static == Seal(c, "cs")
           d == mix_into_key(Advance(c, static), DH("cs", "se"))
<1>1. IsNoise(a) /\ Same(a, StageA) /\ a.sent_intro = n.sent_intro
  <2>1. IsNoise(authenticate(n, "se")) /\ authenticate(n, "se").sent_intro = n.sent_intro
    BY AuthenticateIs
  <2>2. IsNoise(authenticate(Stage0, "se")) /\ Same(authenticate(n, "se"), authenticate(Stage0, "se"))
    BY StagesNoise, SameSteps, AuthenticateIs
  <2>3. QED
    BY <2>1, <2>2, SameSteps, MixIs DEF StageA
<1> HIDE DEF a
<1>2. IsNoise(b) /\ Same(b, StageB) /\ b.sent_intro = n.sent_intro
  <2>1. ServerStatic.plain = "ss"
    BY OpensOwn DEF ServerStatic
  <2>2. IsNoise(Advance(a, ServerStatic)) /\ Advance(a, ServerStatic).sent_intro = n.sent_intro
    BY <1>1, AdvanceIs
  <2>3. IsNoise(Advance(StageA, ServerStatic)) /\ Same(Advance(a, ServerStatic), Advance(StageA, ServerStatic))
    BY <1>1, StagesNoise, SameSteps, AdvanceIs
  <2>4. QED
    BY <2>1, <2>2, <2>3, SameSteps, MixIs DEF StageB
<1> HIDE DEF b
<1>3. IsNoise(c) /\ Same(c, StageC) /\ c.sent_intro = n.sent_intro
  BY <1>2, StagesNoise, SameSteps, AdvanceIs DEF StageC
<1> HIDE DEF c
<1>4. static = ClientStatic
  BY <1>3, StagesNoise, SameSteps DEF ClientStatic
<1>5. IsNoise(d) /\ Same(d, StageD) /\ d.sent_intro = n.sent_intro
  <2>1. IsNoise(Advance(c, static)) /\ Advance(c, static).sent_intro = n.sent_intro
    BY <1>3, AdvanceIs
  <2>2. IsNoise(Advance(StageC, static)) /\ Same(Advance(c, static), Advance(StageC, static))
    BY <1>3, StagesNoise, SameSteps, AdvanceIs
  <2>3. QED
    BY <1>4, <2>1, <2>2, SameSteps, MixIs DEF StageD
<1>6. Opens(a, ServerStatic) /\ Opens(b, Certificate)
  <2>1. Opens(StageA, ServerStatic) /\ Opens(StageB, Certificate)
    BY OpensOwn DEF ServerStatic, Certificate
  <2>2. QED
    BY <1>1, <1>2, <2>1, StagesNoise, SameSteps
<1>7. done = IF kind = "no_hello" \/ kind # "good" THEN Nothing
             ELSE [noise |-> d, static |-> static]
  BY <1>6 DEF process_server_hello, HelloOf, a, b, c
<1> HIDE DEF d, static
<1>8. QED
  BY <1>4, <1>5, <1>7 DEF Nothing

-----------------------------------------------------------------------------
(* Types                                                                   *)

Logins == {"waiting", "success", "raised"}
Sents == [kind : Kinds \ {"node"}, node : {None}] \cup [kind : {"node"}, node : ServerNodes]
Cells == [frame : Nat, part : 1 .. 4]
Reads == [frames : Seq(Nat), raised : BOOLEAN, login : Logins]

\* What the variables below the handshake hold.
TypeInv ==
  /\ login \in Logins
  /\ sent \in Seq(Sents)
  /\ damaged \in SUBSET (1 .. Len(sent))
  /\ cells \in Seq(Cells) /\ in_bytes \in Seq(Cells)
  /\ reads \in Seq(Reads)
  /\ seen \in Seq(Nat)

\* The frames that decrypt are the first ones, up to one that does not.
LEMMA DecryptedIs ==
  ASSUME NEW frames \in Seq(Nat), NEW p, p = Decrypted(frames)
  PROVE  /\ p \in 0 .. Len(frames)
         /\ \A k \in 1 .. p : Decrypts(frames[k], noise.transport.read_counter + k - 1)
         /\ p < Len(frames) => ~Decrypts(frames[p + 1], noise.transport.read_counter + (p + 1) - 1)
<1> DEFINE D(k) == Decrypts(frames[k], noise.transport.read_counter + k - 1)
           T == {0} \cup {q \in DOMAIN frames : \A k \in 1 .. q : D(k)}
<1> HIDE DEF D
<1>1. Len(frames) \in Nat /\ DOMAIN frames = 1 .. Len(frames)
  OBVIOUS
<1>2. p = Max(T)
  BY DEF Decrypted, D
<1>3. T \in SUBSET (0 .. Len(frames)) /\ T # {}
  BY <1>1
<1>4. p \in T /\ \A y \in T : y <= p
  BY <1>1, <1>2, <1>3, Greatest
<1>5. p \in 0 .. Len(frames) /\ \A k \in 1 .. p : D(k)
  BY <1>1, <1>4
<1>6. ASSUME p < Len(frames), D(p + 1) PROVE FALSE
  <2>1. p + 1 \in T
    BY <1>1, <1>5, <1>6
  <2>2. QED
    BY <1>4, <1>5, <2>1
<1>7. QED
  BY <1>5, <1>6 DEF D

\* A read of bytes: the buffer, the frames that are whole, and the p that decrypt.
ReadOf(decoded, bytes, buffer, frames, p) ==
  /\ buffer = in_bytes \o bytes
  /\ frames = Whole(buffer) /\ p = Decrypted(frames)
  /\ p \in 0 .. Len(frames)
  /\ decoded.frames \in Seq(Nat) /\ Len(decoded.frames) = p
  /\ \A k \in 1 .. p : decoded.frames[k] = frames[k]
  /\ decoded.raises = (p < Len(frames))
  /\ decoded.in_bytes = IF p < Len(frames) THEN buffer ELSE SubSeq(buffer, 4 * p + 1, Len(buffer))
  /\ decoded.in_bytes \in Seq(Cells)

LEMMA DecodeIs ==
  ASSUME in_bytes \in Seq(Cells), NEW bytes \in Seq(Cells),
         NEW decoded, decoded = decode_transport_frames(bytes)
  PROVE  \E buffer \in Seq(Cells), frames \in Seq(Nat), p \in Nat : ReadOf(decoded, bytes, buffer, frames, p)
<1> DEFINE buffer == in_bytes \o bytes
           frames == Whole(buffer)
           p == Decrypted(frames)
<1>1. buffer \in Seq(Cells)
  BY ConcatProperties
<1>2. frames \in Seq(Nat) /\ Len(frames) = Len(buffer) \div 4
  <2> HIDE DEF buffer
  <2>1. Len(buffer) \in Nat /\ Len(buffer) \div 4 \in Nat
    BY <1>1
  <2>2. ASSUME NEW k \in 1 .. Len(buffer) \div 4 PROVE buffer[4 * k].frame \in Nat
    <3>1. 4 * k \in 1 .. Len(buffer)
      BY <2>1
    <3>2. buffer[4 * k] \in Cells
      BY <1>1, <3>1
    <3>3. QED
      BY <3>2 DEF Cells
  <2>3. QED
    BY <2>1, <2>2 DEF Whole
<1>3. decoded = [frames |-> SubSeq(frames, 1, p), raises |-> p < Len(frames),
                 in_bytes |-> IF p < Len(frames) THEN buffer ELSE SubSeq(buffer, 4 * p + 1, Len(buffer))]
  BY DEF decode_transport_frames
<1> HIDE DEF frames, p
<1>4. p \in 0 .. Len(frames)
  BY <1>2, DecryptedIs DEF p
<1>5. /\ SubSeq(frames, 1, p) \in Seq(Nat) /\ Len(SubSeq(frames, 1, p)) = p
      /\ \A k \in 1 .. p : SubSeq(frames, 1, p)[k] = frames[k]
  BY <1>2, <1>4, PrefixIs
<1> HIDE DEF buffer
<1>6. SubSeq(buffer, 4 * p + 1, Len(buffer)) \in Seq(Cells)
  <2>1. Len(buffer) \in Nat /\ 4 * p + 1 \in 1 .. Len(buffer) + 1
    BY <1>1, <1>2, <1>4
  <2>2. QED
    BY <1>1, <2>1, SubSeqProperties
<1>7. /\ decoded.frames \in Seq(Nat) /\ Len(decoded.frames) = p
      /\ \A k \in 1 .. p : decoded.frames[k] = frames[k]
  BY <1>3, <1>5
<1>8. /\ decoded.raises = (p < Len(frames))
      /\ decoded.in_bytes = IF p < Len(frames) THEN buffer ELSE SubSeq(buffer, 4 * p + 1, Len(buffer))
  <2> DEFINE r == p < Len(frames)
  <2>1. decoded.raises = r /\ decoded.in_bytes = IF r THEN buffer ELSE SubSeq(buffer, 4 * p + 1, Len(buffer))
    <3> HIDE DEF r
    <3>1. decoded = [frames |-> SubSeq(frames, 1, p), raises |-> r,
                     in_bytes |-> IF r THEN buffer ELSE SubSeq(buffer, 4 * p + 1, Len(buffer))]
      BY <1>3 DEF r
    <3>2. QED
      BY <3>1
  <2>2. QED
    BY <2>1
<1>9. decoded.in_bytes \in Seq(Cells)
  BY <1>1, <1>6, <1>8
<1>10. buffer = in_bytes \o bytes /\ frames = Whole(buffer) /\ p = Decrypted(frames) /\ p \in Nat
  BY <1>4 DEF buffer, frames, p
<1>11. QED
  <2>1. ReadOf(decoded, bytes, buffer, frames, p)
    BY <1>4, <1>7, <1>8, <1>9, <1>10 DEF ReadOf
  <2>2. QED
    BY <1>1, <1>2, <1>10, <2>1

\* wait_for_success handles the first frames, up to the first that ends it.
LEMMA HandledIs ==
  ASSUME NEW frames \in Seq(Nat), NEW handled, handled = Handled(frames)
  PROVE  /\ handled \in Seq(Nat) /\ Len(handled) <= Len(frames)
         /\ \A k \in 1 .. Len(handled) : handled[k] = frames[k]
         /\ Len(handled) < Len(frames) =>
              Len(handled) > 0 /\ sent[frames[Len(handled)]].kind \in {"success", "failure"}
<1> DEFINE T == Terminal(frames)
<1>1. Len(frames) \in Nat /\ DOMAIN frames = 1 .. Len(frames)
  OBVIOUS
<1>2. CASE T = {}
  BY <1>1, <1>2 DEF Handled
<1>3. CASE T # {}
  <2> DEFINE m == Min(T)
  <2>1. T \in SUBSET Nat
    BY <1>1 DEF Terminal
  <2>2. m \in T
    BY <1>3, <2>1, Smallest
  <2>3. m \in 1 .. Len(frames) /\ sent[frames[m]].kind \in {"success", "failure"}
    BY <1>1, <2>2 DEF Terminal
  <2>4. handled = SubSeq(frames, 1, m)
    BY <1>3 DEF Handled
  <2> HIDE DEF m
  <2>5. QED
    BY <1>1, <2>3, <2>4, PrefixIs
<1>4. QED
  BY <1>2, <1>3

\* Pings are counted.
LEMMA PingsCounted ==
  ASSUME NEW frames \in Seq(Nat)
  PROVE  Pings(frames) \in Nat
<1>1. Len(frames) \in Nat /\ DOMAIN frames = 1 .. Len(frames)
  OBVIOUS
<1>2. IsFiniteSet(1 .. Len(frames))
  BY <1>1, FS_Interval
<1>3. IsFiniteSet({k \in DOMAIN frames : sent[frames[k]].kind = "ping"})
  BY <1>1, <1>2, FS_Subset
<1>4. QED
  BY <1>3, FS_CardinalityType DEF Pings

-----------------------------------------------------------------------------
(* The frames of the client                                                *)

ClientKey == <<"write", StageD.salt, "">>
ServerKey == <<"read", StageD.salt, "">>

\* What the frames after the hello carry of the intro.
NoIntro == FALSE

\* The first n frames, each under the next counter.
FramesTo(n) == [k \in 1 .. n |-> [key |-> ClientKey, counter |-> k - 1, intro |-> NoIntro]]

\* Of a client that has sent these, a frame is the next.
Sending(n) ==
  /\ n \in Nat /\ outbox = FramesTo(n)
  /\ TransportSealed(noise) = [key |-> ClientKey, counter |-> n, intro |-> NoIntro]

\* These are as many.
LEMMA FramesLen ==
  ASSUME NEW n \in Nat
  PROVE  Len(FramesTo(n)) = n /\ FramesTo(n) \in Seq([key : {ClientKey}, counter : Nat, intro : {NoIntro}])
BY DEF FramesTo

\* A frame, or the replies to the pings of a read, go on with the counter.
LEMMA FramesGoOn ==
  ASSUME NEW n \in Nat, NEW m \in Nat, NEW more,
         more = [k \in 1 .. m |-> [key |-> ClientKey, counter |-> n + k - 1, intro |-> NoIntro]]
  PROVE  FramesTo(n) \o more = FramesTo(n + m)
<1> DEFINE F == [key : {ClientKey}, counter : Nat, intro : {NoIntro}]
           s == FramesTo(n)
           t == FramesTo(n + m)
<1>1. n + m \in Nat
  OBVIOUS
<1>2. s \in Seq(F) /\ t \in Seq(F) /\ Len(s) = n /\ Len(t) = n + m
  BY <1>1, FramesLen
<1>3. more \in Seq(F) /\ Len(more) = m
  OBVIOUS
<1> HIDE DEF F, s, t
<1>4. /\ s \o more \in Seq(F) /\ Len(s \o more) = n + m
      /\ \A i \in 1 .. n + m : (s \o more)[i] = IF i <= n THEN s[i] ELSE more[i - n]
  <2>1. /\ s \o more \in Seq(F) /\ Len(s \o more) = Len(s) + Len(more)
        /\ \A i \in 1 .. Len(s) + Len(more) : (s \o more)[i] = IF i <= Len(s) THEN s[i] ELSE more[i - Len(s)]
    BY <1>2, <1>3, ConcatProperties
  <2> HIDE DEF s, t
  <2>2. QED
    BY ONLY <1>2, <1>3, <2>1
<1>5. ASSUME NEW i \in 1 .. n + m PROVE (s \o more)[i] = t[i]
  <2>1. CASE i <= n
    <3>1. i \in 1 .. n
      BY <2>1
    <3>2. s[i] = t[i]
      BY <3>1 DEF FramesTo, s, t
    <3>3. QED
      BY <1>4, <2>1, <3>2
  <2>2. CASE ~(i <= n)
    <3>1. i - n \in 1 .. m /\ n + (i - n) - 1 = i - 1
      BY <2>2
    <3>2. more[i - n] = [key |-> ClientKey, counter |-> n + (i - n) - 1, intro |-> NoIntro]
      BY <3>1
    <3>3. t[i] = [key |-> ClientKey, counter |-> i - 1, intro |-> NoIntro]
      BY DEF FramesTo, t
    <3>4. QED
      BY <1>4, <2>2, <3>1, <3>2, <3>3
  <2>3. QED
    BY <2>1, <2>2
<1>6. QED
  <2>1. s \o more = t
    BY <1>2, <1>4, <1>5, SeqEqual
  <2>2. QED
    BY <2>1 DEF s, t

\* The counter of the k-th reply.
LEMMA LaterFrame ==
  ASSUME NEW n \in Nat, NEW key, NEW k, NEW intro
  PROVE  [[key |-> key, counter |-> n, intro |-> intro] EXCEPT !.counter = @ + k - 1]
           = [key |-> key, counter |-> n + k - 1, intro |-> intro]
OBVIOUS

\* The replies to the pings of a read.
LEMMA RepliesGoOn ==
  ASSUME NEW n, Sending(n), NEW frames \in Seq(Nat), Replies(frames)
  PROVE  outbox' = FramesTo(n + Pings(frames)) /\ Len(outbox') = n + Pings(frames)
<1> DEFINE m == Pings(frames)
           more == [k \in 1 .. m |-> [TransportSealed(noise) EXCEPT !.counter = @ + k - 1]]
<1>1. m \in Nat
  BY PingsCounted
<1>2. outbox' = outbox \o more
  BY DEF Replies
<1> HIDE DEF m
<1> DEFINE frame == TransportSealed(noise)
<1>3. frame = [key |-> ClientKey, counter |-> n, intro |-> NoIntro] /\ n \in Nat
  BY DEF Sending
<1> HIDE DEF frame
<1>4. more = [k \in 1 .. m |-> [key |-> ClientKey, counter |-> n + k - 1, intro |-> NoIntro]]
  <2>1. more = [k \in 1 .. m |-> [frame EXCEPT !.counter = @ + k - 1]]
    BY DEF frame
  <2>2. ASSUME NEW k \in 1 .. m
        PROVE  [frame EXCEPT !.counter = @ + k - 1] = [key |-> ClientKey, counter |-> n + k - 1, intro |-> NoIntro]
    <3>1. [[key |-> ClientKey, counter |-> n, intro |-> NoIntro] EXCEPT !.counter = @ + k - 1]
            = [key |-> ClientKey, counter |-> n + k - 1, intro |-> NoIntro]
      BY <1>3, LaterFrame
    <3>2. QED
      BY <1>3, <3>1
  <2> HIDE DEF more
  <2>3. QED
    BY <2>1, <2>2
<1> HIDE DEF more
<1>5. outbox' = FramesTo(n + m)
  BY <1>1, <1>2, <1>4, FramesGoOn DEF Sending
<1>6. n + m \in Nat
  BY <1>1 DEF Sending
<1>7. QED
  BY <1>5, <1>6, FramesLen DEF m

-----------------------------------------------------------------------------
(* The keys                                                                *)

\* A transport of the client after n frames.
Transport(n, read) ==
  [write |-> ClientKey, read |-> ServerKey, write_counter |-> n, read_counter |-> read]

\* The client: where its handshake is, and the frames that it has sent.
ClientInv ==
  /\ IsNoise(noise)
  /\ state \in {"new", "hello", "open", "failed", "closed"}
  /\ state # "new" => noise.sent_intro = TRUE
  /\ Len(outbox) \in Nat /\ outbox = FramesTo(Len(outbox))
  /\ finish = Nothing => state # "open" /\ Same(noise, Stage0) /\ outbox = << >>
  /\ finish # Nothing => /\ state \in {"open", "closed"}
                         /\ finish = [static |-> ClientStatic, payload |-> LoginPayload]
                         /\ \E read \in Nat : noise.transport = Transport(Len(outbox), read)

\* The server: where its handshake is, by what was sent of it.
ServerInv ==
  /\ IsNoise(peer)
  /\ hello = Nothing => /\ Same(peer, Stage0) /\ peer.transport = Nothing
                        /\ state \in {"new", "hello"} /\ finish = Nothing
  /\ hello # Nothing => \E kind \in Hellos :
       /\ hello = HelloOf(kind)
       /\ state = "failed" => kind # "good"
       /\ finish # Nothing => kind = "good"
  /\ hello # Nothing /\ peer.transport = Nothing => Same(peer, StageC)
  /\ peer.transport # Nothing =>
       finish # Nothing /\ peer.transport.read = ClientKey /\ peer.transport.write = ServerKey

KeysInv == ClientInv /\ ServerInv

\* A client whose connection is open sends the next frame.
LEMMA ClientSending ==
  ASSUME ClientInv, finish # Nothing
  PROVE  Sending(Len(outbox))
<1>1. PICK read \in Nat : noise.transport = Transport(Len(outbox), read)
  BY DEF ClientInv
<1>2. noise.transport.write = ClientKey /\ noise.transport.write_counter = Len(outbox)
  BY <1>1 DEF Transport
<1>3. noise.sent_intro = TRUE
  BY DEF ClientInv
<1>4. (~noise.sent_intro) = NoIntro
  BY <1>3 DEF NoIntro
<1>5. TransportSealed(noise) = [key |-> ClientKey, counter |-> Len(outbox), intro |-> NoIntro]
  <2> DEFINE i == ~noise.sent_intro
  <2>1. TransportSealed(noise) = [key |-> noise.transport.write, counter |-> noise.transport.write_counter, intro |-> i]
    BY DEF TransportSealed
  <2>2. i = NoIntro
    BY <1>4
  <2> HIDE DEF i
  <2>3. QED
    BY <1>2, <2>1, <2>2
<1>6. QED
  BY <1>5 DEF ClientInv, Sending

\* The handshake starts with nothing sent.
LEMMA KeysInit ==
  ASSUME WireInit
  PROVE  KeysInv
<1>1. noise = Stage0 /\ peer = Stage0
  BY DEF WireInit, Stage0
<1>2. IsNoise(Stage0) /\ Stage0.transport = Nothing
  BY NoiseBegins DEF Stage0
<1>3. Len(outbox) = 0 /\ FramesTo(0) = << >>
  BY DEF WireInit, FramesTo
<1>4. Same(noise, Stage0) /\ Same(peer, Stage0)
  BY <1>1 DEF Same
<1>5. QED
  BY <1>1, <1>2, <1>3, <1>4 DEF WireInit, KeysInv, ClientInv, ServerInv

\* client_hello_frame sets the intro alone.
LEMMA KeysHello ==
  ASSUME KeysInv, client_hello_frame
  PROVE  KeysInv'
<1>1. finish = Nothing
  BY DEF KeysInv, ClientInv, client_hello_frame
<1>2. noise' = [noise EXCEPT !.sent_intro = TRUE] /\ state' = "hello"
  BY DEF client_hello_frame
<1>3. IsNoise(noise') /\ noise'.sent_intro = TRUE /\ Same(noise', noise)
  BY <1>2 DEF KeysInv, ClientInv, IsNoise, Same
<1>4. Same(noise', Stage0)
  BY <1>1, <1>3 DEF KeysInv, ClientInv, Same
<1>5. ClientInv'
  BY <1>1, <1>2, <1>3, <1>4 DEF KeysInv, ClientInv, client_hello_frame
<1>6. ServerInv'
  BY <1>1, <1>2 DEF KeysInv, ServerInv, client_hello_frame
<1>7. QED
  BY <1>5, <1>6 DEF KeysInv

\* The server is at StageC once its hello is sent.
LEMMA KeysServerHello ==
  ASSUME KeysInv, NEW kind \in Hellos, ServerHello(kind)
  PROVE  KeysInv'
<1> DEFINE a == mix_into_key(authenticate(peer, "se"), DH("ce", "se"))
           static == Seal(a, "ss")
           b == mix_into_key(Advance(a, static), DH("ce", "ss"))
           payload == Seal(b, "chain")
<1>1. /\ state = "hello" /\ hello = Nothing
      /\ hello' = [kind |-> kind, ephemeral |-> "se", static |-> static, payload |-> payload]
      /\ peer' = Advance(b, payload)
      /\ UNCHANGED <<state, noise, finish, outbox>>
  BY DEF ServerHello
<1>2. IsNoise(peer) /\ Same(peer, Stage0) /\ peer.transport = Nothing /\ finish = Nothing
  BY <1>1 DEF KeysInv, ServerInv
<1>3. IsNoise(a) /\ Same(a, StageA) /\ a.transport = Nothing
  <2>1. IsNoise(authenticate(peer, "se")) /\ Same(authenticate(peer, "se"), authenticate(Stage0, "se"))
        /\ authenticate(peer, "se").transport = Nothing /\ IsNoise(authenticate(Stage0, "se"))
    BY <1>2, StagesNoise, SameSteps, AuthenticateIs
  <2>2. QED
    BY <2>1, SameSteps, MixIs DEF StageA
<1> HIDE DEF a
<1>4. static = ServerStatic
  BY <1>3, StagesNoise, SameSteps DEF ServerStatic
<1>5. IsNoise(b) /\ Same(b, StageB) /\ b.transport = Nothing
  <2>1. IsNoise(Advance(a, static)) /\ Same(Advance(a, static), Advance(StageA, static))
        /\ Advance(a, static).transport = Nothing /\ IsNoise(Advance(StageA, static))
    BY <1>3, StagesNoise, SameSteps, AdvanceIs
  <2>2. QED
    BY <1>4, <2>1, SameSteps, MixIs DEF StageB
<1> HIDE DEF b
<1>6. payload = Certificate
  BY <1>5, StagesNoise, SameSteps DEF Certificate
<1>7. IsNoise(peer') /\ Same(peer', StageC) /\ peer'.transport = Nothing
  BY <1>1, <1>5, <1>6, StagesNoise, SameSteps, AdvanceIs DEF StageC
<1>8. hello' = HelloOf(kind)
  BY <1>1, <1>4, <1>6 DEF HelloOf
<1>9. hello' # Nothing
  BY <1>8 DEF HelloOf, Nothing
<1> HIDE DEF static, payload
<1>10. ServerInv'
  BY <1>1, <1>2, <1>7, <1>8, <1>9 DEF ServerInv
<1>11. ClientInv'
  BY <1>1 DEF KeysInv, ClientInv
<1>12. QED
  BY <1>10, <1>11 DEF KeysInv

\* connect takes an honest hello and ends at StageD, or fails.
LEMMA KeysConnect ==
  ASSUME KeysInv, connect
  PROVE  KeysInv'
<1> DEFINE done == process_server_hello(noise, hello)
           payload == Seal(done.noise, "login")
           c == Advance(done.noise, payload)
<1>1. /\ state = "hello" /\ hello # Nothing /\ UNCHANGED <<peer, hello, outbox>>
      /\ done = Nothing => state' = "failed" /\ UNCHANGED <<noise, finish>>
      /\ done # Nothing => /\ state' = "open"
                           /\ finish' = [static |-> done.static, payload |-> payload]
                           /\ noise' = finish_init(c)
  BY DEF connect
<1>2. finish = Nothing /\ outbox = << >> /\ IsNoise(noise) /\ Same(noise, Stage0) /\ noise.sent_intro = TRUE
  BY <1>1 DEF KeysInv, ClientInv
<1>3. peer.transport = Nothing
  BY <1>2 DEF KeysInv, ServerInv
<1>4. PICK kind \in Hellos : hello = HelloOf(kind)
  BY <1>1 DEF KeysInv, ServerInv
<1>5. /\ kind # "good" => done = Nothing
      /\ kind = "good" => /\ done # Nothing
                          /\ done.static = ClientStatic
                          /\ IsNoise(done.noise) /\ Same(done.noise, StageD)
                          /\ done.noise.sent_intro = noise.sent_intro
  BY <1>2, <1>4, HelloTaken
<1> HIDE DEF done
<1>6. CASE kind # "good"
  <2>1. state' = "failed" /\ UNCHANGED <<noise, finish, peer, hello, outbox>>
    BY <1>1, <1>5, <1>6
  <2>2. ClientInv'
    BY <1>2, <2>1 DEF KeysInv, ClientInv
  <2>3. ServerInv'
    BY <1>1, <1>2, <1>3, <1>4, <1>6, <2>1 DEF KeysInv, ServerInv
  <2>4. QED
    BY <2>2, <2>3 DEF KeysInv
<1>7. CASE kind = "good"
  <2>1. payload = LoginPayload
    BY <1>5, <1>7, StagesNoise, SameSteps DEF LoginPayload
  <2>2. IsNoise(c) /\ c.salt = StageD.salt /\ c.sent_intro = TRUE
    BY <1>2, <1>5, <1>7, AdvanceIs DEF Same
  <2>3. finish' = [static |-> ClientStatic, payload |-> LoginPayload] /\ noise' = finish_init(c) /\ state' = "open"
    BY <1>1, <1>5, <1>7, <2>1
  <2> HIDE DEF c, payload
  <2>4. IsNoise(noise') /\ noise'.sent_intro = TRUE /\ noise'.transport = Transport(0, 0)
    BY <2>2, <2>3 DEF finish_init, IsNoise, Transport, ClientKey, ServerKey
  <2>5. finish' # Nothing
    BY <2>3 DEF Nothing
  <2>6. outbox' = << >> /\ Len(outbox') = 0
    BY <1>1, <1>2
  <2>7. ClientInv'
    BY <1>1, <2>3, <2>4, <2>5, <2>6 DEF KeysInv, ClientInv
  <2>8. ServerInv'
    BY <1>1, <1>2, <1>3, <1>4, <1>7, <2>3, <2>5 DEF KeysInv, ServerInv
  <2>9. QED
    BY <2>7, <2>8 DEF KeysInv
<1>8. QED
  BY <1>6, <1>7

\* The server opens the finish and is at StageD as well.
LEMMA KeysFinish ==
  ASSUME KeysInv, ServerFinishes
  PROVE  KeysInv'
<1> DEFINE a == mix_into_key(Advance(peer, finish.static), DH(finish.static.plain, "se"))
           b == Advance(a, finish.payload)
<1>1. /\ finish # Nothing /\ peer.transport = Nothing /\ UNCHANGED <<state, noise, hello, finish, outbox>>
      /\ peer' = [b EXCEPT !.transport = [write |-> <<"read", b.salt, "">>, read |-> <<"write", b.salt, "">>,
                                          write_counter |-> 0, read_counter |-> 0]]
  BY DEF ServerFinishes
<1>2. finish.static = ClientStatic /\ finish.payload = LoginPayload
  <2>1. finish = [static |-> ClientStatic, payload |-> LoginPayload]
    BY <1>1 DEF KeysInv, ClientInv
  <2>2. QED
    BY <2>1
<1>3. hello # Nothing /\ IsNoise(peer) /\ Same(peer, StageC)
  BY <1>1 DEF KeysInv, ServerInv
<1>4. ClientStatic.plain = "cs"
  BY OpensOwn DEF ClientStatic
<1>5. IsNoise(a) /\ Same(a, StageD)
  <2>1. IsNoise(Advance(peer, ClientStatic)) /\ Same(Advance(peer, ClientStatic), Advance(StageC, ClientStatic))
        /\ IsNoise(Advance(StageC, ClientStatic))
    <3>1. IsNoise(StageC)
      BY StagesNoise
    <3>2. IsNoise(peer) /\ Same(peer, StageC)
      BY <1>3
    <3>3. IsNoise(Advance(peer, ClientStatic)) /\ IsNoise(Advance(StageC, ClientStatic))
      BY ONLY <3>1, <3>2, AdvanceIs
    <3>4. Same(Advance(peer, ClientStatic), Advance(StageC, ClientStatic))
      BY ONLY <3>1, <3>2, SameSteps
    <3>5. QED
      BY <3>3, <3>4
  <2>2. QED
    BY <1>2, <1>4, <2>1, SameSteps DEF StageD
<1> HIDE DEF a
<1>6. IsNoise(b) /\ b.salt = StageD.salt
  BY <1>5, AdvanceIs DEF Same
<1> HIDE DEF b
<1>7. /\ IsNoise(peer')
      /\ peer'.transport = [write |-> <<"read", b.salt, "">>, read |-> <<"write", b.salt, "">>,
                            write_counter |-> 0, read_counter |-> 0]
  BY <1>1, <1>6 DEF IsNoise
<1>8. peer'.transport.read = ClientKey /\ peer'.transport.write = ServerKey /\ peer'.transport # Nothing
  <2> DEFINE t == [write |-> ServerKey, read |-> ClientKey, write_counter |-> 0, read_counter |-> 0]
  <2>1. peer'.transport = t
    BY <1>6, <1>7 DEF ClientKey, ServerKey
  <2>2. t.read = ClientKey /\ t.write = ServerKey /\ t # Nothing
    BY DEF Nothing
  <2>3. QED
    BY <2>1, <2>2
<1>9. ServerInv'
  BY <1>1, <1>3, <1>7, <1>8 DEF KeysInv, ServerInv
<1>10. ClientInv'
  BY <1>1 DEF KeysInv, ClientInv
<1>11. QED
  BY <1>9, <1>10 DEF KeysInv

\* send_node sends the next frame.
LEMMA KeysSent ==
  ASSUME KeysInv, send_node
  PROVE  KeysInv'
<1> DEFINE n == Len(outbox)
           frame == TransportSealed(noise)
<1>1. /\ state = "open" /\ outbox' = Append(outbox, frame) /\ noise' = encode_frame(noise)
      /\ UNCHANGED <<state, peer, hello, finish>>
  BY DEF send_node
<1>2. finish # Nothing
  BY <1>1 DEF KeysInv, ClientInv
<1>3. Sending(n)
  BY <1>2, ClientSending DEF KeysInv
<1>4. n \in Nat /\ outbox = FramesTo(n) /\ frame = [key |-> ClientKey, counter |-> n, intro |-> NoIntro]
  BY <1>3 DEF Sending
<1>5. PICK read \in Nat : noise.transport = Transport(n, read)
  BY <1>2 DEF KeysInv, ClientInv
<1> HIDE DEF frame, n
<1>6. outbox' = FramesTo(n + 1) /\ Len(outbox') = n + 1
  <2> DEFINE more == [k \in 1 .. 1 |-> [key |-> ClientKey, counter |-> n + k - 1, intro |-> NoIntro]]
  <2>1. FramesTo(n) \o more = FramesTo(n + 1)
    BY <1>4, FramesGoOn
  <2>2. more[1] = frame /\ Len(more) = 1
    BY <1>4
  <2>3. outbox \in Seq([key : {ClientKey}, counter : Nat, intro : {NoIntro}]) /\ Len(outbox) = n
    BY <1>4, FramesLen
  <2>4. more \in Seq([key : {ClientKey}, counter : Nat, intro : {NoIntro}])
    BY <1>4
  <2> HIDE DEF more
  <2>5. more = <<frame>>
    BY <2>2, <2>4
  <2>6. Append(outbox, frame) = outbox \o <<frame>>
    BY <1>4, <2>3
  <2>7. n + 1 \in Nat
    BY <1>4
  <2>8. QED
    BY <1>1, <1>4, <2>1, <2>5, <2>6, <2>7, FramesLen
<1>7. IsNoise(noise') /\ noise'.sent_intro = TRUE /\ noise'.transport = Transport(n + 1, read)
  <2>1. IsNoise(noise)
    BY DEF KeysInv, ClientInv
  <2> DEFINE t == [noise.transport EXCEPT !.write_counter = @ + 1]
  <2>2. t = Transport(n + 1, read)
    BY <1>5 DEF Transport
  <2>3. noise' = [noise EXCEPT !.sent_intro = TRUE, !.transport = t]
    BY <1>1, <2>1 DEF encode_frame, IsNoise
  <2> HIDE DEF t
  <2>4. QED
    BY <2>1, <2>2, <2>3 DEF IsNoise
<1>8. ClientInv'
  BY <1>1, <1>2, <1>4, <1>6, <1>7 DEF KeysInv, ClientInv
<1>9. ServerInv'
  BY <1>1 DEF KeysInv, ServerInv
<1>10. QED
  BY <1>8, <1>9 DEF KeysInv

\* A read may reply to pings, and counts what it decrypts.
LEMMA KeysRead ==
  ASSUME TypeInv, KeysInv, NEW size, receive_nodes(size)
  PROVE  KeysInv'
<1> DEFINE n == Len(outbox)
           bytes == SubSeq(cells, 1, size)
           decoded == decode_transport_frames(bytes)
<1>1. /\ state = "open" /\ size \in 1 .. Len(cells) /\ UNCHANGED <<state, peer, hello, finish>>
      /\ \/ Replies(<< >>)
         \/ Replies(Handled(decoded.frames))
         \/ Replies(<< >>)
      /\ noise' = [noise EXCEPT !.transport.read_counter = @ + Len(decoded.frames),
                                !.transport.write_counter = Len(outbox')]
  BY DEF receive_nodes, wait_for_success, Dispatched
<1>2. finish # Nothing
  BY <1>1 DEF KeysInv, ClientInv
<1>3. bytes \in Seq(Cells)
  BY <1>1, SubSeqProperties DEF TypeInv
<1>4. decoded.frames \in Seq(Nat)
  BY <1>3, DecodeIs DEF TypeInv, ReadOf
<1> HIDE DEF decoded, bytes
<1>5. PICK frames \in Seq(Nat) : Replies(frames)
  <2>1. << >> \in Seq(Nat) /\ Handled(decoded.frames) \in Seq(Nat)
    BY <1>4, HandledIs
  <2>2. QED
    BY <1>1, <2>1
<1>6. Sending(n)
  BY <1>2, ClientSending DEF KeysInv
<1> DEFINE m == n + Pings(frames)
<1>7. m \in Nat /\ outbox' = FramesTo(m) /\ Len(outbox') = m
  BY <1>5, <1>6, RepliesGoOn, PingsCounted DEF Sending
<1>8. PICK read \in Nat : noise.transport = Transport(n, read)
  BY <1>2 DEF KeysInv, ClientInv
<1> HIDE DEF m, n
<1> DEFINE r == read + Len(decoded.frames)
<1>9. r \in Nat
  BY <1>4
<1>10. noise' = [noise EXCEPT !.transport.read_counter = r, !.transport.write_counter = m]
  BY <1>1, <1>7, <1>8 DEF Transport, KeysInv, ClientInv, IsNoise
<1> HIDE DEF r
<1>11. IsNoise(noise') /\ noise'.sent_intro = TRUE /\ noise'.transport = Transport(m, r)
  <2>1. IsNoise(noise) /\ noise.sent_intro = TRUE
    BY <1>1 DEF KeysInv, ClientInv
  <2> DEFINE t == [noise.transport EXCEPT !.read_counter = r]
             u == [t EXCEPT !.write_counter = m]
  <2>2. t = Transport(n, r)
    BY <1>8 DEF Transport
  <2>3. noise' = [noise EXCEPT !.transport = u]
    BY <1>10, <2>1 DEF IsNoise
  <2> HIDE DEF t
  <2>4. u = Transport(m, r)
    BY <2>2 DEF Transport
  <2> HIDE DEF u
  <2>5. QED
    BY <2>1, <2>3, <2>4 DEF IsNoise
<1>12. ClientInv'
  BY <1>1, <1>2, <1>7, <1>9, <1>11 DEF KeysInv, ClientInv
<1>13. ServerInv'
  BY <1>1 DEF KeysInv, ServerInv
<1>14. QED
  BY <1>12, <1>13 DEF KeysInv

\* Every step keeps the keys.
LEMMA KeysStep ==
  ASSUME TypeInv, KeysInv, [WireNext]_wireVars
  PROVE  KeysInv'
<1>1. CASE \/ \E kind \in Kinds \ {"node"}, spoiled \in BOOLEAN : ServerSends(kind, None, spoiled)
           \/ ServerSendsNode
           \/ UNCHANGED wireVars
  <2>1. UNCHANGED <<state, noise, peer, hello, finish, outbox>>
    BY <1>1 DEF ServerSends, ServerSendsNode, wireVars
  <2>2. QED
    BY <2>1 DEF KeysInv, ClientInv, ServerInv
<1>2. CASE web_close
  <2>1. state \in {"open", "failed"} /\ state' = "closed" /\ UNCHANGED <<noise, peer, hello, finish, outbox>>
    BY <1>2 DEF web_close
  <2>2. QED
    BY <2>1 DEF KeysInv, ClientInv, ServerInv
<1>3. QED
  BY <1>1, <1>2, KeysHello, KeysServerHello, KeysConnect, KeysFinish, KeysSent, KeysRead DEF WireNext

-----------------------------------------------------------------------------
(* The types, in every state                                               *)

\* The cells of a frame.
LEMMA CellsOfIs ==
  ASSUME NEW k \in Nat
  PROVE  CellsOf(k) \in Seq(Cells) /\ Len(CellsOf(k)) = 4 /\ CellsOf(k)[4].frame = k
BY DEF CellsOf, Cells

\* Nothing was sent or read.
LEMMA TypeInit ==
  ASSUME WireInit
  PROVE  TypeInv
BY DEF WireInit, TypeInv, Logins

\* The server sends one of Sents.
LEMMA TypeSends ==
  ASSUME TypeInv, NEW kind, NEW node, NEW spoiled, ServerSends(kind, node, spoiled),
         [kind |-> kind, node |-> node] \in Sents
  PROVE  TypeInv'
<1> DEFINE x == [kind |-> kind, node |-> node]
<1>1. /\ sent' = Append(sent, x)
      /\ damaged' = IF spoiled THEN damaged \cup {Len(sent')} ELSE damaged
      /\ cells' = cells \o CellsOf(Len(sent'))
      /\ UNCHANGED <<login, in_bytes, reads, seen>>
  BY DEF ServerSends
<1>2. x \in Sents
  OBVIOUS
<1> HIDE DEF x
<1>3. sent' \in Seq(Sents) /\ Len(sent') = Len(sent) + 1 /\ Len(sent) \in Nat
  BY <1>1, <1>2 DEF TypeInv
<1>4. damaged' \in SUBSET (1 .. Len(sent'))
  <2>1. damaged' \subseteq damaged \cup {Len(sent')}
    BY <1>1
  <2>2. damaged \subseteq 1 .. Len(sent) /\ 1 .. Len(sent) \subseteq 1 .. Len(sent') /\ Len(sent') \in 1 .. Len(sent')
    BY <1>3 DEF TypeInv
  <2>3. QED
    BY <2>1, <2>2
<1>5. cells' \in Seq(Cells)
  <2>1. cells \in Seq(Cells) /\ Len(sent') \in Nat
    BY <1>3 DEF TypeInv
  <2>2. CellsOf(Len(sent')) \in Seq(Cells)
    BY <2>1, CellsOfIs
  <2>3. cells \o CellsOf(Len(sent')) \in Seq(Cells)
    BY <2>1, <2>2, ConcatProperties
  <2>4. QED
    BY <1>1, <2>3
<1>6. QED
  BY <1>1, <1>3, <1>4, <1>5 DEF TypeInv

\* A read takes cells and keeps frames.
LEMMA TypeRead ==
  ASSUME TypeInv, NEW size, receive_nodes(size)
  PROVE  TypeInv'
<1> DEFINE bytes == SubSeq(cells, 1, size)
           decoded == decode_transport_frames(bytes)
           raises == decoded.raises \/ \E k \in ToSet(decoded.frames) : sent[k].kind = "odd"
           new == [frames |-> decoded.frames, raised |-> raises, login |-> login]
           handled == Handled(decoded.frames)
<1>1. /\ size \in 1 .. Len(cells) /\ UNCHANGED <<sent, damaged>>
      /\ cells' = SubSeq(cells, size + 1, Len(cells))
      /\ in_bytes' = decoded.in_bytes
      /\ reads' = reads \/ reads' = Append(reads, new)
      /\ login' \in {login, "raised", "success"}
      /\ seen' = seen \/ seen' = seen \o handled
  BY DEF receive_nodes, wait_for_success, Dispatched
<1>2. Len(cells) \in Nat /\ bytes \in Seq(Cells) /\ cells' \in Seq(Cells)
  BY <1>1, SubSeqProperties DEF TypeInv
<1>3. decoded.frames \in Seq(Nat) /\ decoded.in_bytes \in Seq(Cells)
  BY <1>2, DecodeIs DEF TypeInv, ReadOf
<1>4. handled \in Seq(Nat)
  BY <1>3, HandledIs
<1>5. raises \in BOOLEAN
  OBVIOUS
<1> HIDE DEF bytes, decoded, raises, handled
<1>6. new \in Reads
  BY <1>3, <1>5 DEF Reads, TypeInv
<1> HIDE DEF new
<1>7. reads' \in Seq(Reads)
  <2>1. reads \in Seq(Reads)
    BY DEF TypeInv
  <2>2. Append(reads, new) \in Seq(Reads)
    BY <1>6, <2>1, AppendProperties
  <2>3. QED
    BY <1>1, <2>1, <2>2
<1>8. seen' \in Seq(Nat)
  BY <1>1, <1>4, ConcatProperties DEF TypeInv
<1>9. login' \in Logins
  BY <1>1 DEF TypeInv, Logins
<1>10. QED
  BY <1>1, <1>2, <1>3, <1>7, <1>8, <1>9 DEF TypeInv

\* What the server may send.
LEMMA SentsAre ==
  /\ \A kind \in Kinds \ {"node"} : [kind |-> kind, node |-> None] \in Sents
  /\ \A node \in ServerNodes : [kind |-> "node", node |-> node] \in Sents
BY DEF Sents

\* Every step keeps the types.
LEMMA TypeStep ==
  ASSUME TypeInv, [WireNext]_wireVars
  PROVE  TypeInv'
<1>1. CASE \E kind \in Kinds \ {"node"}, spoiled \in BOOLEAN : ServerSends(kind, None, spoiled)
  BY <1>1, TypeSends, SentsAre
<1>2. CASE ServerSendsNode
  BY <1>2, TypeSends, SentsAre DEF ServerSendsNode
<1>3. CASE \E size \in 1 .. 4 * MaxSent : receive_nodes(size)
  BY <1>3, TypeRead
<1>4. CASE \/ client_hello_frame \/ connect \/ ServerFinishes
           \/ \E kind \in Hellos : ServerHello(kind)
           \/ send_node \/ web_close \/ UNCHANGED wireVars
  <2>1. UNCHANGED <<login, sent, damaged, cells, in_bytes, reads, seen>>
    BY <1>4 DEF client_hello_frame, connect, ServerFinishes, ServerHello, send_node, web_close, wireVars
  <2>2. QED
    BY <2>1 DEF TypeInv
<1>5. QED
  BY <1>1, <1>2, <1>3, <1>4 DEF WireNext

-----------------------------------------------------------------------------
(* The stream                                                              *)

\* How many frames the client has decrypted.
Count == IF finish = Nothing THEN 0 ELSE noise.transport.read_counter

\* The cells that were not consumed are those of the frames after the first b, which are
\* the decrypted ones; or fewer, once the next one does not decrypt.
Base(b) ==
  /\ b \in 0 .. Len(sent)
  /\ Len(in_bytes) + Len(cells) = 4 * (Len(sent) - b)
  /\ \A k \in 1 .. Len(sent) - b : (in_bytes \o cells)[4 * k].frame = b + k
  /\ b <= Count
  /\ b = Count \/ Count + 1 \in damaged

\* The cells that came.
Came == 4 * Len(sent) - Len(cells)

\* What was decrypted are the frames up to Count, which goes as far as it can.
StreamInv ==
  /\ Count \in Nat
  /\ peer.transport = Nothing => sent = << >>
  /\ \E b \in Nat : Base(b)
  /\ 4 * Count <= Came
  /\ 4 * (Count + 1) > Came \/ Count + 1 \in damaged
  /\ \A k \in damaged : Count < k
  /\ FlattenSeq([r \in DOMAIN reads |-> reads[r].frames]) = [k \in 1 .. Count |-> k]

\* Nothing came.
LEMMA StreamInit ==
  ASSUME WireInit
  PROVE  StreamInv
<1>1. /\ finish = Nothing /\ sent = << >> /\ cells = << >> /\ in_bytes = << >> /\ damaged = {} /\ reads = << >>
  BY DEF WireInit
<1>2. Count = 0 /\ Came = 0
  BY <1>1 DEF Count, Came
<1>3. Base(0)
  BY <1>1, <1>2 DEF Base
<1>4. FlattenSeq([r \in DOMAIN reads |-> reads[r].frames]) = [k \in 1 .. 0 |-> k]
  <2>1. [r \in DOMAIN reads |-> reads[r].frames] = << >> /\ [k \in 1 .. 0 |-> k] = << >>
    BY <1>1
  <2>2. FlattenSeq(<< >>) = << >>
    BY DEF FlattenSeq
  <2>3. QED
    BY <2>1, <2>2
<1>5. QED
  BY <1>1, <1>2, <1>3, <1>4 DEF StreamInv

\* A frame more of the server.
LEMMA StreamSends ==
  ASSUME TypeInv, StreamInv, NEW kind, NEW node, NEW spoiled, ServerSends(kind, node, spoiled),
         [kind |-> kind, node |-> node] \in Sents
  PROVE  StreamInv'
<1> DEFINE L == Len(sent)
<1>1. /\ peer.transport # Nothing
      /\ sent' = Append(sent, [kind |-> kind, node |-> node])
      /\ damaged' = IF spoiled THEN damaged \cup {Len(sent')} ELSE damaged
      /\ cells' = cells \o CellsOf(Len(sent'))
      /\ UNCHANGED <<noise, finish, peer, in_bytes, reads>>
  BY DEF ServerSends
<1>2. L \in Nat /\ Len(sent') = L + 1 /\ Len(cells) \in Nat /\ Len(in_bytes) \in Nat
  BY <1>1 DEF TypeInv
<1>3. CellsOf(L + 1) \in Seq(Cells) /\ Len(CellsOf(L + 1)) = 4 /\ CellsOf(L + 1)[4].frame = L + 1
  BY <1>2, CellsOfIs
<1>4. Len(cells') = Len(cells) + 4 /\ cells' = cells \o CellsOf(L + 1)
  <2>1. cells \in Seq(Cells)
    BY DEF TypeInv
  <2>2. cells' = cells \o CellsOf(L + 1)
    BY <1>1, <1>2
  <2>3. Len(cells \o CellsOf(L + 1)) = Len(cells) + Len(CellsOf(L + 1))
    BY <1>3, <2>1, ConcatProperties
  <2>4. QED
    BY ONLY <1>3, <2>2, <2>3
<1>5. Count' = Count /\ Count \in Nat
  BY <1>1 DEF Count, StreamInv
<1>6. Came' = Came
  BY <1>2, <1>4 DEF Came
<1>7. damaged \subseteq damaged' /\ damaged' \subseteq damaged \cup {L + 1}
  BY <1>1, <1>2
<1> HIDE DEF L
<1>8. PICK b \in Nat : Base(b)
  BY DEF StreamInv
<1>9. b \in 0 .. L /\ Len(in_bytes) + Len(cells) = 4 * (L - b) /\ b <= Count /\ Count <= L
  BY <1>2, <1>8, <1>5 DEF Base, L, StreamInv, Came
<1>10. ASSUME NEW k \in 1 .. L + 1 - b PROVE (in_bytes \o cells')[4 * k].frame = b + k
  <2>1. in_bytes \o cells \in Seq(Cells) /\ Len(in_bytes \o cells) = 4 * (L - b)
    BY <1>9, ConcatProperties DEF TypeInv
  <2>2. in_bytes \o cells' = (in_bytes \o cells) \o CellsOf(L + 1)
    <3>1. cells \in Seq(Cells) /\ in_bytes \in Seq(Cells)
      BY DEF TypeInv
    <3>2. (in_bytes \o cells) \o CellsOf(L + 1) = in_bytes \o (cells \o CellsOf(L + 1))
      BY <1>3, <3>1, ConcatAssoc
    <3>3. QED
      BY <1>4, <3>2
  <2>3. 4 * k \in 1 .. 4 * (L - b) + 4
    BY <1>2, <1>8
  <2>4. (in_bytes \o cells')[4 * k] = IF 4 * k <= 4 * (L - b) THEN (in_bytes \o cells)[4 * k]
                                      ELSE CellsOf(L + 1)[4 * k - 4 * (L - b)]
    BY <1>3, <2>1, <2>2, <2>3, ConcatProperties
  <2>5. CASE k \in 1 .. L - b
    <3>1. 4 * k <= 4 * (L - b)
      BY <1>2, <1>9, <2>5
    <3>2. QED
      BY <1>8, <2>4, <2>5, <3>1 DEF Base, L
  <2>6. CASE k = L + 1 - b
    <3>1. ~(4 * k <= 4 * (L - b)) /\ 4 * k - 4 * (L - b) = 4 /\ b + k = L + 1
      BY <1>2, <1>8, <2>6
    <3>2. QED
      BY <1>3, <2>4, <3>1
  <2>7. k \in 1 .. L - b \/ k = L + 1 - b
    BY ONLY <1>2, <1>9, k \in 1 .. L + 1 - b
  <2>8. QED
    BY <2>5, <2>6, <2>7
<1>11. Base(b)'
  <2>1. b \in 0 .. L + 1 /\ Len(in_bytes) + Len(cells') = 4 * (L + 1 - b)
    <3> DEFINE i == Len(in_bytes)
               c == Len(cells)
               d == Len(cells')
    <3>1. i \in Nat /\ c \in Nat /\ d = c + 4 /\ i + c = 4 * (L - b) /\ L \in Nat /\ b \in 0 .. L
      BY <1>2, <1>4, <1>9
    <3> HIDE DEF i, c, d
    <3>2. b \in 0 .. L + 1 /\ i + d = 4 * (L + 1 - b)
      BY <3>1
    <3>3. QED
      BY <3>2 DEF i, d
  <2>2. b = Count \/ Count + 1 \in damaged'
    BY <1>7, <1>8 DEF Base
  <2>3. Len(sent') = L + 1
    BY <1>2 DEF L
  <2>4. in_bytes' = in_bytes /\ Count' = Count /\ b <= Count
    BY <1>1, <1>5, <1>9
  <2>5. b \in 0 .. Len(sent') /\ Len(in_bytes') + Len(cells') = 4 * (Len(sent') - b)
    BY ONLY <1>2, <2>1, <2>3, <2>4
  <2>6. \A k \in 1 .. Len(sent') - b : (in_bytes' \o cells')[4 * k].frame = b + k
    <3>1. 1 .. Len(sent') - b = 1 .. L + 1 - b
      BY <1>2
    <3>2. QED
      BY <1>10, <2>4, <3>1
  <2>7. b <= Count' /\ (b = Count' \/ Count' + 1 \in damaged')
    BY ONLY <2>2, <2>4
  <2>8. QED
    BY ONLY <2>5, <2>6, <2>7 DEF Base
<1>12. \A k \in damaged' : Count < k
  BY <1>2, <1>5, <1>7, <1>9 DEF StreamInv
<1>13. 4 * (Count + 1) > Came \/ Count + 1 \in damaged'
  BY <1>7 DEF StreamInv
<1>14. QED
  BY <1>1, <1>5, <1>6, <1>8, <1>11, <1>12, <1>13 DEF StreamInv

\* Whole takes the last cell of each four.
LEMMA WholeIs ==
  ASSUME NEW buffer \in Seq(Cells), NEW frames, frames = Whole(buffer)
  PROVE  /\ Len(frames) \in Nat
         /\ 4 * Len(frames) <= Len(buffer) /\ Len(buffer) < 4 * Len(frames) + 4
         /\ \A k \in 1 .. Len(frames) : frames[k] = buffer[4 * k].frame
<1>1. Len(buffer) \in Nat
  OBVIOUS
<1> DEFINE w == Len(buffer) \div 4
<1>2. w \in Nat /\ 4 * w <= Len(buffer) /\ Len(buffer) < 4 * w + 4
  BY <1>1
<1>3. frames = [k \in 1 .. w |-> buffer[4 * k].frame]
  BY DEF Whole
<1> HIDE DEF w
<1>4. Len(frames) = w
  BY <1>2, <1>3
<1>5. QED
  BY <1>2, <1>3, <1>4

\* A read divides the cells.
LEMMA CellsSplit ==
  ASSUME in_bytes \in Seq(Cells), cells \in Seq(Cells), NEW size \in 0 .. Len(cells)
  PROVE  (in_bytes \o SubSeq(cells, 1, size)) \o SubSeq(cells, size + 1, Len(cells)) = in_bytes \o cells
BY ReadSplit

\* What a read decrypts: the p frames after the Count of before.  As many as are whole, or
\* up to one that does not decrypt.
LEMMA ReadIs ==
  ASSUME TypeInv, KeysInv, StreamInv, NEW size, receive_nodes(size),
         NEW decoded, decoded = decode_transport_frames(SubSeq(cells, 1, size))
  PROVE  \E p \in Nat :
           /\ decoded.frames \in Seq(Nat) /\ Len(decoded.frames) = p
           /\ \A k \in 1 .. p : decoded.frames[k] = Count + k /\ Count + k \notin damaged
           /\ Count' = Count + p
           /\ 4 * (Count + p) <= Came'
           /\ 4 * (Count + p + 1) > Came' \/ Count + p + 1 \in damaged
           /\ \E b \in Nat : Base(b)'
<1> DEFINE L == Len(sent)
           c == Count
           i == Len(in_bytes)
           z == Len(cells)
<1>1. /\ state = "open" /\ size \in 1 .. z
      /\ cells' = SubSeq(cells, size + 1, Len(cells))
      /\ in_bytes' = decoded.in_bytes
      /\ noise' = [noise EXCEPT !.transport.read_counter = @ + Len(decoded.frames),
                                !.transport.write_counter = Len(outbox')]
      /\ UNCHANGED <<peer, finish, sent, damaged>>
  BY DEF receive_nodes
<1>2. /\ cells \in Seq(Cells) /\ in_bytes \in Seq(Cells) /\ sent \in Seq(Sents)
      /\ L \in Nat /\ z \in Nat /\ i \in Nat /\ size \in 0 .. z
  BY <1>1 DEF TypeInv
<1>3. finish # Nothing
  BY <1>1 DEF KeysInv, ClientInv
<1>4. PICK read \in Nat : noise.transport = Transport(Len(outbox), read)
  BY <1>3 DEF KeysInv, ClientInv
<1>5. c = read /\ noise.transport.read = ServerKey /\ c = noise.transport.read_counter
  BY <1>3, <1>4 DEF Count, Transport
<1>6. c \in Nat
  BY <1>5
<1>7. PICK b \in Nat : Base(b)
  BY DEF StreamInv
<1>8. /\ b \in 0 .. L /\ i + z = 4 * (L - b) /\ b <= c /\ (b = c \/ c + 1 \in damaged)
      /\ \A k \in 1 .. L - b : (in_bytes \o cells)[4 * k].frame = b + k
  BY <1>7 DEF Base
<1>9. peer.transport.write = ServerKey
  <2>1. L # 0
    BY <1>1, <1>2, <1>8
  <2>2. peer.transport # Nothing
    BY <2>1 DEF StreamInv
  <2>3. QED
    BY <2>2 DEF KeysInv, ServerInv
<1>10. PICK buffer \in Seq(Cells), frames \in Seq(Nat), p \in Nat :
           ReadOf(decoded, SubSeq(cells, 1, size), buffer, frames, p)
  <2>1. SubSeq(cells, 1, size) \in Seq(Cells)
    BY <1>2, PrefixIs
  <2>2. QED
    BY <1>2, <2>1, DecodeIs
<1> DEFINE w == Len(frames)
           rest == SubSeq(cells, size + 1, Len(cells))
           N == i + size
<1>11. /\ Len(buffer) = N /\ rest \in Seq(Cells) /\ Len(rest) = z - size
       /\ buffer \o rest = in_bytes \o cells
  <2> HIDE DEF rest
  <2>1. rest = SubSeq(cells, size + 1, Len(cells)) /\ buffer = in_bytes \o SubSeq(cells, 1, size)
    BY <1>10 DEF rest, ReadOf
  <2>2. size \in 0 .. Len(cells) /\ cells \in Seq(Cells) /\ in_bytes \in Seq(Cells)
    BY <1>2
  <2>3. /\ Len(buffer) = Len(in_bytes) + size
        /\ rest \in Seq(Cells) /\ Len(rest) = Len(cells) - size
        /\ buffer \o rest = in_bytes \o cells
    <3>1. Len(in_bytes \o SubSeq(cells, 1, size)) = Len(in_bytes) + size
      BY <2>2, ReadSplit
    <3>2. (in_bytes \o SubSeq(cells, 1, size)) \o SubSeq(cells, size + 1, Len(cells)) = in_bytes \o cells
      BY <2>2, CellsSplit
    <3>3. rest \in Seq(Cells) /\ Len(rest) = Len(cells) - size
      BY ONLY <2>1, <2>2, RestIs
    <3>4. QED
      BY ONLY <2>1, <3>1, <3>2, <3>3
  <2>4. QED
    BY <2>3
<1>12. /\ w \in Nat /\ 4 * w <= N /\ N < 4 * w + 4
       /\ \A k \in 1 .. w : frames[k] = buffer[4 * k].frame
  BY <1>10, <1>11, WholeIs DEF ReadOf
<1> HIDE DEF L, c, i, z, w, N, rest
<1>13. N \in Nat /\ N + (z - size) = 4 * (L - b) /\ w <= L - b
  <2>1. N \in Nat /\ N + (z - size) = 4 * (L - b)
    BY <1>2, <1>8 DEF N
  <2>2. QED
    BY <1>2, <1>7, <1>8, <1>12, <2>1
\* the frames of the buffer are the next ones
<1>14. ASSUME NEW k \in 1 .. w PROVE frames[k] = b + k
  <2>1. 4 * k \in 1 .. N /\ k \in 1 .. L - b
    BY <1>2, <1>8, <1>12, <1>13
  <2>2. (buffer \o rest)[4 * k] = buffer[4 * k]
    BY <1>10, <1>11, <2>1, ConcatProperties
  <2>3. QED
    BY <1>8, <1>11, <1>12, <2>1, <2>2
\* they decrypt, unless they are spoiled or were decrypted before
<1>15. ASSUME NEW k \in 1 .. w
       PROVE  Decrypts(frames[k], noise.transport.read_counter + k - 1) <=> b + k \notin damaged /\ b = c
  <2>1. frames[k] = b + k
    BY <1>14
  <2>2. c + k - 1 = b + k - 1 <=> b = c
    BY <1>6, <1>7
  <2>3. QED
    BY <1>5, <1>9, <2>1, <2>2 DEF Decrypts
<1>16. /\ \A k \in 1 .. p : Decrypts(frames[k], noise.transport.read_counter + k - 1)
       /\ p < w => ~Decrypts(frames[p + 1], noise.transport.read_counter + (p + 1) - 1)
  BY <1>10, DecryptedIs DEF w, ReadOf
<1>17. p \in 0 .. w
  BY <1>10 DEF w, ReadOf
<1>18. p # 0 => b = c
  <2>1. ASSUME p # 0 PROVE b = c
    <3>1. 1 \in 1 .. p /\ 1 \in 1 .. w
      BY <1>12, <1>17, <2>1
    <3>2. QED
      BY <1>15, <1>16, <3>1
  <2>2. QED
    BY <2>1
<1>19. ASSUME NEW k \in 1 .. p PROVE decoded.frames[k] = c + k /\ c + k \notin damaged
  <2>1. k \in 1 .. w /\ b = c
    BY <1>12, <1>17, <1>18
  <2>2. frames[k] = b + k /\ b + k \notin damaged
    BY <1>14, <1>15, <1>16, <2>1
  <2>3. QED
    BY <1>10, <2>1, <2>2 DEF ReadOf
<1>20. p < w => c + p + 1 \in damaged
  <2>1. ASSUME p < w PROVE c + p + 1 \in damaged
    <3>1. p + 1 \in 1 .. w
      BY <1>12, <1>17, <2>1
    <3>2. b + (p + 1) \in damaged \/ b # c
      BY <1>15, <1>16, <2>1, <3>1
    <3>3. b # c => p = 0 /\ c + 1 \in damaged
      BY <1>8, <1>18
    <3>4. b = c => b + (p + 1) = c + p + 1
      BY <1>6, <1>7
    <3>5. p = 0 => c + p + 1 = c + 1
      BY <1>6
    <3>6. QED
      BY <3>2, <3>3, <3>4, <3>5
  <2>2. QED
    BY <2>1
<1>21. Count' = c + p
  <2> DEFINE count == noise.transport.read_counter + Len(decoded.frames)
  <2>1. noise'.transport.read_counter = count
    <3> HIDE DEF count
    <3>1. IsNoise(noise)
      BY DEF KeysInv, ClientInv
    <3>2. noise' = [noise EXCEPT !.transport.read_counter = count, !.transport.write_counter = Len(outbox')]
      BY <1>1 DEF count
    <3>3. QED
      BY <1>4, <3>1, <3>2 DEF IsNoise, Transport
  <2>2. finish' # Nothing
    BY <1>1, <1>3
  <2>3. QED
    BY <1>5, <1>10, <2>1, <2>2 DEF Count, ReadOf
<1>22. Len(sent') = L /\ Len(cells') = z - size /\ Came' = 4 * L - (z - size)
  BY <1>1, <1>11 DEF L, z, rest, Came
<1>23. Came' = 4 * b + N /\ 4 * c <= Came'
  <2>1. 4 * c <= 4 * L - z
    BY DEF StreamInv, Came, c, L, z
  <2>2. QED
    BY <1>2, <1>6, <1>7, <1>13, <1>22, <2>1
<1>24. 4 * (c + p) <= Came'
  <2>1. CASE p = 0
    BY <1>6, <1>23, <2>1
  <2>2. CASE p # 0
    <3>1. b = c /\ 4 * p <= N
      BY <1>12, <1>13, <1>17, <1>18, <2>2
    <3>2. QED
      BY <1>6, <1>10, <1>13, <1>23, <3>1
  <2>3. QED
    BY <2>1, <2>2
<1>25. 4 * (c + p + 1) > Came' \/ c + p + 1 \in damaged
  <2>1. CASE p < w
    BY <1>20, <2>1
  <2>2. CASE p = w /\ b = c
    BY <1>6, <1>12, <1>13, <1>23, <2>2
  <2>3. CASE b # c
    BY <1>6, <1>8, <1>18, <2>3
  <2>4. QED
    BY <1>12, <1>17, <2>1, <2>2, <2>3
<1>26. \E a \in Nat : Base(a)'
  <2>1. CASE p < w
    <3>1. in_bytes' = buffer
      BY <1>1, <1>10, <2>1 DEF w, ReadOf
    <3>2. Len(in_bytes') + Len(cells') = 4 * (Len(sent') - b) /\ b \in 0 .. Len(sent')
      BY <1>8, <1>11, <1>13, <1>22, <3>1
    <3>3. \A k \in 1 .. Len(sent') - b : (in_bytes' \o cells')[4 * k].frame = b + k
      BY <1>1, <1>8, <1>11, <1>22, <3>1 DEF rest
    <3>4. b <= Count' /\ Count' + 1 \in damaged'
      BY <1>1, <1>6, <1>7, <1>8, <1>20, <1>21, <2>1
    <3>5. Base(b)'
      BY <3>2, <3>3, <3>4 DEF Base
    <3>6. QED
      BY <3>5
  <2>2. CASE p = w
    <3> DEFINE a == b + p
    <3>1. in_bytes' = SubSeq(buffer, 4 * p + 1, Len(buffer)) /\ 4 * p \in 0 .. Len(buffer)
      <4>1. ~(p < Len(frames))
        BY <1>12, <2>2 DEF w
      <4>2. in_bytes' = SubSeq(buffer, 4 * p + 1, Len(buffer))
        BY <1>1, <1>10, <4>1 DEF ReadOf
      <4>3. 4 * p \in 0 .. Len(buffer)
        BY <1>10, <1>11, <1>12, <1>13, <2>2
      <4>4. QED
        BY <4>2, <4>3
    <3>2. in_bytes' \in Seq(Cells) /\ Len(in_bytes') = N - 4 * p
      BY <1>10, <1>11, <3>1, RestIs
    <3>3. a \in 0 .. L /\ (N - 4 * p) + (z - size) = 4 * (L - a) /\ N - 4 * p \in Nat
      BY <1>2, <1>8, <1>12, <1>13, <2>2
    <3>4. Len(in_bytes') + Len(cells') = 4 * (Len(sent') - a)
      BY <1>22, <3>2, <3>3
    <3>5. ASSUME NEW k \in 1 .. L - a PROVE (in_bytes' \o cells')[4 * k].frame = a + k
      <4>1. p + k \in 1 .. L - b /\ 4 * k \in 1 .. (N - 4 * p) + (z - size)
        BY <1>2, <1>8, <3>3
      <4>2. (in_bytes' \o rest)[4 * k] = (buffer \o rest)[4 * p + 4 * k]
        <5> DEFINE n == 4 * p
                   j == 4 * k
        <5>1. n \in 0 .. Len(buffer) /\ j \in 1 .. (Len(buffer) - n) + Len(rest)
          BY <1>11, <3>1, <4>1
        <5> HIDE DEF n, j
        <5>2. (SubSeq(buffer, n + 1, Len(buffer)) \o rest)[j] = (buffer \o rest)[n + j]
          <6>1. buffer \in Seq(Cells) /\ rest \in Seq(Cells)
            BY <1>11
          <6>2. QED
            BY ONLY <5>1, <6>1, DropConcat
        <5>3. QED
          BY <3>1, <5>2 DEF n, j
      <4>3. 4 * p + 4 * k = 4 * (p + k) /\ b + (p + k) = a + k
        BY <1>2, <1>7, <4>1
      <4>4. (in_bytes \o cells)[4 * (p + k)].frame = b + (p + k)
        BY <1>8, <4>1
      <4>5. cells' = rest
        BY <1>1 DEF rest
      <4>6. QED
        BY <1>11, <4>2, <4>3, <4>4, <4>5
    <3>6. a <= Count' /\ (a = Count' \/ Count' + 1 \in damaged')
      BY <1>1, <1>6, <1>7, <1>8, <1>18, <1>21
    <3> HIDE DEF a
    <3>7. a \in 0 .. Len(sent')
      BY <1>22, <3>3
    <3>8. \A k \in 1 .. Len(sent') - a : (in_bytes' \o cells')[4 * k].frame = a + k
      BY <1>22, <3>5
    <3>9. Base(a)' /\ a \in Nat
      BY <3>3, <3>4, <3>6, <3>7, <3>8 DEF Base
    <3>10. QED
      BY <3>9
  <2>3. QED
    BY <1>12, <1>17, <2>1, <2>2
<1>27. QED
  BY <1>10, <1>19, <1>21, <1>24, <1>25, <1>26 DEF ReadOf, c

\* The frames of each read.
FramesRead == [r \in DOMAIN reads |-> reads[r].frames]

\* One read more.
LEMMA FramesReadMore ==
  ASSUME reads \in Seq(Reads), NEW frames \in Seq(Nat), NEW raised, NEW when, 
         reads' = Append(reads, [frames |-> frames, raised |-> raised, login |-> when])
  PROVE  FramesRead \in Seq(Seq(Nat)) /\ FramesRead' = Append(FramesRead, frames)
<1> DEFINE new == [frames |-> frames, raised |-> raised, login |-> when]
           n == Len(reads)
<1>1. new.frames = frames
  OBVIOUS
<1>2. reads' = Append(reads, new)
  OBVIOUS
<1> HIDE DEF new
<1>3. n \in Nat /\ DOMAIN reads = 1 .. n /\ \A r \in 1 .. n : reads[r].frames \in Seq(Nat)
  <2>1. n \in Nat /\ DOMAIN reads = 1 .. n
    OBVIOUS
  <2>2. ASSUME NEW r \in 1 .. n PROVE reads[r].frames \in Seq(Nat)
    <3>1. reads[r] \in Reads
      BY <2>1
    <3>2. QED
      BY <3>1 DEF Reads
  <2>3. QED
    BY <2>1, <2>2
<1>4. FramesRead \in Seq(Seq(Nat)) /\ Len(FramesRead) = n
  BY <1>3 DEF FramesRead
<1>5. DOMAIN reads' = 1 .. n + 1 /\ reads'[n + 1] = new /\ \A r \in 1 .. n : reads'[r] = reads[r]
  BY <1>2, <1>3
<1> HIDE DEF n
<1>6. FramesRead' = [r \in 1 .. n + 1 |-> reads'[r].frames]
  BY <1>5 DEF FramesRead
<1>7. Append(FramesRead, frames) = [r \in 1 .. n + 1 |-> IF r = n + 1 THEN frames ELSE FramesRead[r]]
  <2> DEFINE t == Append(FramesRead, frames)
  <2>1. /\ t \in Seq(Seq(Nat)) /\ Len(t) = n + 1 /\ t[n + 1] = frames
        /\ \A r \in 1 .. n : t[r] = FramesRead[r]
    BY <1>4, AppendProperties
  <2> HIDE DEF t
  <2>2. t = [r \in 1 .. n + 1 |-> t[r]]
    BY <2>1
  <2>3. \A r \in 1 .. n + 1 : t[r] = IF r = n + 1 THEN frames ELSE FramesRead[r]
    BY <1>3, <2>1
  <2>4. QED
    BY <2>2, <2>3 DEF t
<1>8. ASSUME NEW r \in 1 .. n + 1 PROVE reads'[r].frames = IF r = n + 1 THEN frames ELSE FramesRead[r]
  <2>1. CASE r = n + 1
    BY <1>1, <1>5, <2>1
  <2>2. CASE r # n + 1
    <3>1. r \in 1 .. n
      BY <1>3, <2>2
    <3>2. FramesRead[r] = reads[r].frames
      BY <1>3, <3>1 DEF FramesRead
    <3>3. QED
      BY <1>5, <2>2, <3>1, <3>2
  <2>3. QED
    BY <2>1, <2>2
<1>9. QED
  BY <1>4, <1>6, <1>7, <1>8

\* A read goes on with the numbers.
LEMMA StreamRead ==
  ASSUME TypeInv, KeysInv, StreamInv, NEW size, receive_nodes(size)
  PROVE  StreamInv'
<1> DEFINE decoded == decode_transport_frames(SubSeq(cells, 1, size))
           raises == decoded.raises \/ \E k \in ToSet(decoded.frames) : sent[k].kind = "odd"
           frames == decoded.frames
<1>1. /\ reads' = IF frames = << >> /\ ~raises THEN reads
                  ELSE Append(reads, [frames |-> frames, raised |-> raises, login |-> login])
      /\ UNCHANGED <<peer, sent, damaged>>
  BY DEF receive_nodes
<1>2. PICK p \in Nat :
        /\ frames \in Seq(Nat) /\ Len(frames) = p
        /\ \A k \in 1 .. p : frames[k] = Count + k /\ Count + k \notin damaged
        /\ Count' = Count + p
        /\ 4 * (Count + p) <= Came'
        /\ 4 * (Count + p + 1) > Came' \/ Count + p + 1 \in damaged
        /\ \E b \in Nat : Base(b)'
  BY ReadIs
<1> HIDE DEF decoded, raises, frames
<1>3. Count \in Nat /\ Count' \in Nat
  BY <1>2 DEF StreamInv
<1>4. \A k \in damaged' : Count' < k
  <2>1. ASSUME NEW k \in damaged PROVE Count + p < k
    <3>1. k \in Nat /\ Count < k
      BY DEF TypeInv, StreamInv
    <3>2. CASE k <= Count + p
      <4>1. k - Count \in 1 .. p /\ Count + (k - Count) = k
        BY <1>3, <3>1, <3>2
      <4>2. QED
        BY <1>2, <4>1
    <3>3. QED
      BY <1>3, <3>1, <3>2
  <2>2. QED
    BY <1>1, <1>2, <2>1
<1>5. FlattenSeq(FramesRead)' = [k \in 1 .. Count' |-> k]
  <2>1. FlattenSeq(FramesRead) = [k \in 1 .. Count |-> k]
    BY DEF StreamInv, FramesRead
  <2>2. CASE reads' = reads /\ frames = << >>
    <3>1. p = 0 /\ FramesRead' = FramesRead
      BY <1>2, <2>2 DEF FramesRead
    <3>2. Count' = Count
      BY <1>2, <1>3, <3>1
    <3>3. QED
      BY <2>1, <3>1, <3>2
  <2>3. CASE reads' = Append(reads, [frames |-> frames, raised |-> raises, login |-> login])
    <3>1. FramesRead \in Seq(Seq(Nat)) /\ FramesRead' = Append(FramesRead, frames)
      BY <1>2, <2>3, FramesReadMore DEF TypeInv
    <3>2. FlattenSeq(FramesRead)' = FlattenSeq(FramesRead) \o frames
      BY <1>2, <3>1, FlattenAppend
    <3>3. [k \in 1 .. Count |-> k] \o frames = [k \in 1 .. Count + p |-> k]
      BY <1>2, <1>3, NumbersGoOn
    <3>4. QED
      BY <1>2, <2>1, <3>2, <3>3
  <2>4. QED
    BY <1>1, <2>2, <2>3
<1>6. 4 * Count' <= Came' /\ (4 * (Count' + 1) > Came' \/ Count' + 1 \in damaged')
  BY <1>1, <1>2
<1>7. \E b \in Nat : Base(b)'
  BY <1>2
<1>8. QED
  BY <1>1, <1>3, <1>4, <1>5, <1>6, <1>7 DEF StreamInv, FramesRead

\* The steps that neither send a frame of the server nor read one.
Quiet ==
  \/ client_hello_frame \/ connect \/ ServerFinishes
  \/ \E kind \in Hellos : ServerHello(kind)
  \/ send_node \/ web_close \/ UNCHANGED wireVars

\* They leave all of that alone; connect starts to count at 0.
LEMMA CountKept ==
  ASSUME KeysInv, Quiet
  PROVE  Count' = Count /\ UNCHANGED <<sent, damaged, cells, in_bytes, reads, seen, got>>
<1>1. UNCHANGED <<sent, damaged, cells, in_bytes, reads, seen, got>>
  BY DEF Quiet, client_hello_frame, connect, ServerFinishes, ServerHello, send_node, web_close, wireVars
<1> SUFFICES Count' = Count
  BY <1>1
<1>2. CASE client_hello_frame
  BY <1>2 DEF Count, client_hello_frame, KeysInv, ClientInv
<1>3. CASE connect
  <2>1. finish = Nothing /\ hello # Nothing
    BY <1>3 DEF connect, KeysInv, ClientInv
  <2>2. CASE finish' = Nothing
    BY <2>1, <2>2 DEF Count
  <2>3. CASE finish' # Nothing
    <3> DEFINE done == process_server_hello(noise, hello)
               m == Advance(done.noise, Seal(done.noise, "login"))
    <3>1. done # Nothing /\ noise' = finish_init(m)
      BY <1>3, <2>1, <2>3 DEF connect
    <3>2. PICK kind \in Hellos : hello = HelloOf(kind)
      BY <2>1 DEF KeysInv, ServerInv
    <3>3. IsNoise(noise) /\ Same(noise, Stage0)
      BY <2>1 DEF KeysInv, ClientInv
    <3>4. IsNoise(done.noise)
      BY <3>1, <3>2, <3>3, HelloTaken
    <3> HIDE DEF done
    <3>5. IsNoise(m)
      BY <3>4, AdvanceIs
    <3> HIDE DEF m
    <3> DEFINE w == <<"write", m.salt, "">>
               r == <<"read", m.salt, "">>
    <3>6. noise'.transport = [write |-> w, read |-> r, write_counter |-> 0, read_counter |-> 0]
      BY <3>1, <3>5 DEF finish_init, IsNoise
    <3> HIDE DEF w, r
    <3>7. noise'.transport.read_counter = 0
      BY <3>6
    <3>8. QED
      BY <2>1, <2>3, <3>7 DEF Count
  <2>4. QED
    BY <2>2, <2>3
<1>4. CASE send_node
  <2>1. noise' = encode_frame(noise) /\ state = "open" /\ finish' = finish
    BY <1>4 DEF send_node
  <2>2. IsNoise(noise) /\ finish # Nothing
    BY <2>1 DEF KeysInv, ClientInv
  <2>3. PICK read \in Nat : noise.transport = Transport(Len(outbox), read)
    BY <2>2 DEF KeysInv, ClientInv
  <2>4. noise'.transport.read_counter = noise.transport.read_counter
    BY <2>1, <2>2, <2>3 DEF encode_frame, IsNoise, Transport
  <2>5. QED
    BY <2>1, <2>4 DEF Count
<1>5. CASE ServerFinishes \/ (\E kind \in Hellos : ServerHello(kind)) \/ web_close \/ UNCHANGED wireVars
  <2>1. UNCHANGED <<noise, finish>>
    BY <1>5 DEF ServerFinishes, ServerHello, web_close, wireVars
  <2>2. QED
    BY <2>1 DEF Count
<1>6. QED
  BY <1>2, <1>3, <1>4, <1>5 DEF Quiet

\* Every step keeps the stream.
LEMMA StreamStep ==
  ASSUME TypeInv, KeysInv, StreamInv, [WireNext]_wireVars
  PROVE  StreamInv'
<1>1. CASE \E kind \in Kinds \ {"node"}, spoiled \in BOOLEAN : ServerSends(kind, None, spoiled)
  BY <1>1, StreamSends, SentsAre
<1>2. CASE ServerSendsNode
  BY <1>2, StreamSends, SentsAre DEF ServerSendsNode
<1>3. CASE \E size \in 1 .. 4 * MaxSent : receive_nodes(size)
  BY <1>3, StreamRead
<1>4. CASE Quiet
  <2>1. Count' = Count /\ UNCHANGED <<sent, damaged, cells, in_bytes, reads>>
    BY <1>4, CountKept
  <2>2. Came' = Came /\ \A b \in Nat : Base(b) => Base(b)'
    BY <2>1 DEF Came, Base
  <2>3. peer.transport # Nothing => peer'.transport # Nothing
    <3>1. ASSUME peer.transport # Nothing PROVE peer' = peer
      BY <1>4, <3>1 DEF Quiet, client_hello_frame, connect, ServerFinishes, ServerHello, send_node, web_close, wireVars,
                        KeysInv, ServerInv
    <3>2. QED
      BY <3>1
  <2>4. QED
    BY <2>1, <2>2, <2>3 DEF StreamInv
<1>5. QED
  BY <1>1, <1>2, <1>3, <1>4 DEF WireNext, Quiet

-----------------------------------------------------------------------------
(* The nodes                                                               *)

Gots == [k : Nat, node : {None} \cup {Carried[n] : n \in ServerNodes}]

\* Where the node of frame k is, or why it is nowhere.
Explained(read, k) ==
  \/ read.raised
  \/ read.login = "success" /\ \E i \in DOMAIN got : got[i].k = k
  \/ read.login = "waiting" /\ k \in ToSet(seen)
  \/ read.login = "waiting" /\ \E s \in ToSet(read.frames) :
                                 s < k /\ sent[s].kind \in {"success", "failure"}

\* What was dispatched is in order, and all that was decrypted is explained.
NodesInv ==
  /\ got \in Seq(Gots)
  /\ \A i \in DOMAIN got : got[i].k \in 1 .. Count
  /\ \A i, j \in DOMAIN got : i < j => got[i].k < got[j].k
  /\ \A r \in DOMAIN reads : \A k \in ToSet(reads[r].frames) : k \in 1 .. Count /\ Explained(reads[r], k)

WireInv == TypeInv /\ KeysInv /\ StreamInv /\ NodesInv

\* The frames that were decrypted were sent.
LEMMA CountSent ==
  ASSUME TypeInv, StreamInv
  PROVE  Len(sent) \in Nat /\ Count \in Nat /\ Count <= Len(sent)
<1>1. Len(sent) \in Nat /\ Len(cells) \in Nat /\ Count \in Nat /\ 4 * Count <= 4 * Len(sent) - Len(cells)
  BY DEF TypeInv, StreamInv, Came
<1>2. QED
  BY <1>1

\* What a node is read as.
LEMMA DecodedIs ==
  ASSUME TypeInv, NEW k \in 1 .. Len(sent)
  PROVE  DecodedNode(k) \in Gots /\ DecodedNode(k).k = k
<1>1. sent[k] \in Sents /\ k \in Nat
  BY DEF TypeInv
<1>2. sent[k].kind = "node" => sent[k].node \in ServerNodes
  BY <1>1 DEF Sents
<1>3. QED
  BY <1>1, <1>2 DEF DecodedNode, Gots

\* A frame that is explained stays so while the lists grow.
LEMMA ExplainedStays ==
  ASSUME NEW read, NEW k, Explained(read, k),
         \A i \in DOMAIN got : i \in DOMAIN got' /\ got'[i] = got[i],
         ToSet(seen) \subseteq ToSet(seen'),
         \A s \in ToSet(read.frames) : sent'[s] = sent[s]
  PROVE  Explained(read, k)'
BY DEF Explained

\* Nothing was read.
LEMMA NodesInit ==
  ASSUME WireInit
  PROVE  NodesInv
BY DEF WireInit, NodesInv

\* What the server sends is after all that was read.
LEMMA NodesSends ==
  ASSUME TypeInv, StreamInv, NodesInv, NEW kind, NEW node, NEW spoiled,
         ServerSends(kind, node, spoiled)
  PROVE  NodesInv'
<1>1. sent' = Append(sent, [kind |-> kind, node |-> node]) /\ UNCHANGED <<noise, finish, reads, seen, got>>
  BY DEF ServerSends
<1>2. Count' = Count /\ Len(sent) \in Nat /\ Count \in Nat /\ Count <= Len(sent)
  BY <1>1, CountSent DEF Count
<1>3. \A s \in 1 .. Count : sent'[s] = sent[s]
  <2>1. \A s \in 1 .. Len(sent) : sent'[s] = sent[s]
    BY <1>1 DEF TypeInv
  <2>2. QED
    BY <1>2, <2>1
<1>4. ASSUME NEW r \in DOMAIN reads, NEW k \in ToSet(reads[r].frames)
      PROVE  k \in 1 .. Count /\ Explained(reads[r], k)'
  <2>1. k \in 1 .. Count /\ Explained(reads[r], k) /\ \A s \in ToSet(reads[r].frames) : s \in 1 .. Count
    BY DEF NodesInv
  <2>2. \A s \in ToSet(reads[r].frames) : sent'[s] = sent[s]
    BY <1>3, <2>1
  <2>3. reads'[r] = reads[r] /\ got' = got /\ seen' = seen
    BY <1>1
  <2>4. Explained(reads[r], k)'
    BY <2>1, <2>2, <2>3 DEF Explained
  <2>5. QED
    BY <2>1, <2>4
<1>5. QED
  BY <1>1, <1>2, <1>4 DEF NodesInv

\* The reads stay explained when one more is.
LEMMA ReadsExplained ==
  ASSUME TypeInv, StreamInv, NodesInv, NEW new \in Reads,
         sent' = sent, reads' = reads \/ reads' = Append(reads, new),
         Count' \in Nat, Count <= Count',
         \A i \in DOMAIN got : i \in DOMAIN got' /\ got'[i] = got[i],
         ToSet(seen) \subseteq ToSet(seen'),
         reads' # reads => \A k \in ToSet(new.frames) : k \in 1 .. Count' /\ Explained(new, k)'
  PROVE  \A r \in DOMAIN reads' : \A k \in ToSet(reads'[r].frames) : k \in 1 .. Count' /\ Explained(reads[r], k)'
<1>1. reads \in Seq(Reads) /\ Count \in Nat
  BY DEF TypeInv, StreamInv
<1>2. ASSUME NEW r \in DOMAIN reads'
      PROVE  (r \in DOMAIN reads /\ reads'[r] = reads[r]) \/ (reads' # reads /\ reads'[r] = new)
  <2>1. CASE reads' = reads
    BY <2>1
  <2>2. CASE reads' = Append(reads, new)
    <3>1. Len(reads') = Len(reads) + 1 /\ Len(reads) \in Nat /\ DOMAIN reads' = 1 .. Len(reads) + 1
          /\ reads'[Len(reads) + 1] = new /\ \A i \in 1 .. Len(reads) : reads'[i] = reads[i]
      BY <1>1, <2>2
    <3>2. r \in 1 .. Len(reads) \/ r = Len(reads) + 1
      BY <3>1
    <3>3. reads' # reads
      BY <3>1
    <3>4. QED
      BY <1>1, <3>1, <3>2, <3>3
  <2>3. QED
    BY <2>1, <2>2
<1>3. ASSUME NEW r \in DOMAIN reads', NEW k \in ToSet(reads'[r].frames)
      PROVE  k \in 1 .. Count' /\ Explained(reads[r], k)'
  <2>1. CASE r \in DOMAIN reads /\ reads'[r] = reads[r]
    <3>1. k \in 1 .. Count /\ Explained(reads[r], k)
      BY <2>1 DEF NodesInv
    <3>2. Explained(reads[r], k)'
      BY <2>1, <3>1 DEF Explained
    <3>3. QED
      BY <1>1, <3>1, <3>2
  <2>2. CASE reads' # reads /\ reads'[r] = new
    <3>1. k \in 1 .. Count' /\ Explained(new, k)'
      BY <2>2
    <3>2. Explained(reads[r], k)'
      BY <2>2, <3>1 DEF Explained
    <3>3. QED
      BY <3>1, <3>2
  <2>3. QED
    BY <1>2, <2>1, <2>2
<1>4. QED
  BY <1>3

\* What Dispatched adds to got: the nodes of the frames after the first c.
LEMMA GotGrows ==
  ASSUME TypeInv, got \in Seq(Gots), NEW c \in Nat, \A i \in DOMAIN got : got[i].k \in 1 .. c,
         \A i, j \in DOMAIN got : i < j => got[i].k < got[j].k,
         NEW p \in Nat, c + p <= Len(sent),
         NEW frames \in Seq(Nat), Len(frames) = p, \A i \in 1 .. p : frames[i] = c + i,
         got' = got \o [k \in DOMAIN frames |-> DecodedNode(frames[k])]
  PROVE  /\ got' \in Seq(Gots)
         /\ \A i \in DOMAIN got : i \in DOMAIN got' /\ got'[i] = got[i]
         /\ \A i \in DOMAIN got' : got'[i].k \in 1 .. c + p
         /\ \A i, j \in DOMAIN got' : i < j => got'[i].k < got'[j].k
         /\ \A i \in 1 .. p : \E j \in DOMAIN got' : got'[j].k = c + i
<1> DEFINE more == [k \in DOMAIN frames |-> DecodedNode(frames[k])]
           n == Len(got)
<1>1. got \in Seq(Gots) /\ n \in Nat /\ DOMAIN got = 1 .. n /\ Len(sent) \in Nat
  BY DEF TypeInv
<1>2. ASSUME NEW i \in 1 .. p PROVE more[i] \in Gots /\ more[i].k = c + i
  <2>1. c + i \in 1 .. Len(sent) /\ i \in DOMAIN frames
    BY <1>1
  <2>2. more[i] = DecodedNode(c + i)
    BY <2>1
  <2>3. QED
    BY <2>1, <2>2, DecodedIs
<1>3. more = [i \in 1 .. p |-> more[i]]
  OBVIOUS
<1>4. got' = got \o more
  OBVIOUS
<1> HIDE DEF more, n
<1>5. more \in Seq(Gots) /\ Len(more) = p
  <2>1. \A i \in 1 .. p : more[i] \in Gots
    BY <1>2
  <2>2. QED
    BY ONLY <1>3, <2>1, p \in Nat
<1>6. /\ got' \in Seq(Gots) /\ Len(got') = n + p
      /\ \A i \in 1 .. n + p : got'[i] = IF i <= n THEN got[i] ELSE more[i - n]
  <2>1. /\ got \o more \in Seq(Gots) /\ Len(got \o more) = Len(got) + Len(more)
        /\ \A i \in 1 .. Len(got) + Len(more) : (got \o more)[i] = IF i <= Len(got) THEN got[i] ELSE more[i - Len(got)]
    BY <1>1, <1>5, ConcatProperties
  <2>2. QED
    BY <1>4, <1>5, <2>1 DEF n
<1>7. DOMAIN got' = 1 .. n + p
  BY <1>6
<1>8. ASSUME NEW i \in 1 .. n PROVE i \in 1 .. n + p /\ got'[i] = got[i] /\ got'[i].k \in 1 .. c
  <2>1. i \in 1 .. n + p /\ i <= n
    BY <1>1
  <2>2. got[i].k \in 1 .. c
    BY <1>1
  <2>3. QED
    BY <1>6, <2>1, <2>2
<1>9. ASSUME NEW i \in 1 .. n + p, ~(i <= n) PROVE i - n \in 1 .. p /\ got'[i].k = c + (i - n)
  <2>1. i - n \in 1 .. p
    BY <1>1, <1>9
  <2>2. QED
    BY <1>2, <1>6, <1>9, <2>1
<1>10. ASSUME NEW i \in 1 .. n + p PROVE got'[i].k \in 1 .. c + p
  <2>1. CASE i <= n
    <3>1. i \in 1 .. n
      BY <1>1, <2>1
    <3>2. PICK x \in 1 .. c : x = got'[i].k
      BY <1>8, <3>1
    <3>3. x \in 1 .. c + p
      OBVIOUS
    <3>4. QED
      BY <3>2, <3>3
  <2>2. CASE ~(i <= n)
    <3>1. i - n \in 1 .. p /\ got'[i].k = c + (i - n)
      BY <1>9, <2>2
    <3>2. QED
      BY <3>1, Later
  <2>3. QED
    BY <2>1, <2>2
<1>11. ASSUME NEW i \in 1 .. n + p, NEW j \in 1 .. n + p, i < j PROVE got'[i].k < got'[j].k
  <2>1. CASE j <= n
    <3>1. i \in 1 .. n /\ j \in 1 .. n
      BY <1>1, <1>11, <2>1
    <3>2. got[i].k < got[j].k
      BY <1>1, <1>11, <3>1
    <3>3. QED
      BY <1>8, <3>1, <3>2
  <2>2. CASE i <= n /\ ~(j <= n)
    <3>1. i \in 1 .. n
      BY <1>1, <2>2
    <3>2. got'[i].k \in 1 .. c /\ j - n \in 1 .. p /\ got'[j].k = c + (j - n)
      BY <1>8, <1>9, <2>2, <3>1
    <3>3. PICK x \in 1 .. c : x = got'[i].k
      BY <3>2
    <3>4. x < c + (j - n)
      BY <3>2, Later
    <3>5. QED
      BY <3>2, <3>3, <3>4
  <2>3. CASE ~(i <= n) /\ ~(j <= n)
    <3>1. i - n \in 1 .. p /\ got'[i].k = c + (i - n) /\ j - n \in 1 .. p /\ got'[j].k = c + (j - n)
      BY <1>9, <2>3
    <3>2. i - n < j - n
      BY <1>1, <1>11
    <3>3. QED
      BY <3>1, <3>2, Later
  <2>4. QED
    BY <1>1, <1>11, <2>1, <2>2, <2>3
<1>12. ASSUME NEW i \in 1 .. p PROVE \E j \in 1 .. n + p : got'[j].k = c + i
  <2>1. n + i \in 1 .. n + p /\ ~(n + i <= n) /\ (n + i) - n = i
    BY <1>1
  <2>2. got'[n + i].k = c + i
    BY <1>9, <2>1
  <2>3. QED
    BY <2>1, <2>2
<1>13. QED
  BY <1>1, <1>6, <1>7, <1>8, <1>10, <1>11, <1>12

\* What a read decrypts is in got, in seen, behind the end of the login or lost.
LEMMA NodesRead ==
  ASSUME TypeInv, KeysInv, StreamInv, NodesInv, NEW size, receive_nodes(size)
  PROVE  NodesInv'
<1> DEFINE decoded == decode_transport_frames(SubSeq(cells, 1, size))
           frames == decoded.frames
           raises == decoded.raises \/ \E k \in ToSet(frames) : sent[k].kind = "odd"
           handled == Handled(frames)
<1>1. /\ login # "raised" /\ sent' = sent
      /\ reads' = IF frames = << >> /\ ~raises THEN reads
                  ELSE Append(reads, [frames |-> frames, raised |-> raises, login |-> login])
      /\ raises => UNCHANGED <<seen, got>>
      /\ ~raises /\ login = "waiting" => seen' = seen \o handled /\ UNCHANGED got
      /\ ~raises /\ login # "waiting" =>
           UNCHANGED seen /\ got' = got \o [k \in DOMAIN frames |-> DecodedNode(frames[k])]
  BY DEF receive_nodes, wait_for_success, Dispatched
<1>2. PICK p \in Nat :
        /\ frames \in Seq(Nat) /\ Len(frames) = p
        /\ \A k \in 1 .. p : frames[k] = Count + k /\ Count + k \notin damaged
        /\ Count' = Count + p
        /\ 4 * (Count + p) <= Came'
        /\ 4 * (Count + p + 1) > Came' \/ Count + p + 1 \in damaged
        /\ \E b \in Nat : Base(b)'
  BY ReadIs
<1>3. TypeInv' /\ StreamInv'
  BY TypeRead, StreamRead
<1>4. Len(sent) \in Nat /\ Count \in Nat /\ Count' \in Nat /\ Count + p <= Len(sent) /\ Count <= Count'
  <2>1. Count' \in Nat /\ Len(sent') \in Nat /\ Len(cells') \in Nat
    <3>1. Count' \in Nat
      BY <1>3 DEF StreamInv
    <3>2. sent' \in Seq(Sents) /\ cells' \in Seq(Cells)
      BY <1>3 DEF TypeInv
    <3>3. QED
      BY <3>1, <3>2
  <2>2. Count \in Nat
    BY DEF StreamInv
  <2>3. 4 * (Count + p) <= 4 * Len(sent) - Len(cells')
    BY <1>1, <1>2 DEF Came
  <2>4. QED
    BY <1>1, <1>2, <2>1, <2>2, <2>3
<1>5. raises \in BOOLEAN /\ login \in {"waiting", "success"}
  BY <1>1 DEF TypeInv, Logins
<1>6. PICK new \in Reads : new = [frames |-> frames, raised |-> raises, login |-> login]
  <2> HIDE DEF frames, raises
  <2>1. [frames |-> frames, raised |-> raises, login |-> login] \in Reads
    BY <1>2, <1>5 DEF Reads, Logins
  <2>2. QED
    BY <2>1
<1>7. new.frames = frames /\ new.login = login /\ new.raised = raises
  <2> HIDE DEF frames, raises
  <2>1. QED
    BY <1>6
<1>8. handled \in Seq(Nat) /\ Len(handled) <= Len(frames)
      /\ (\A k \in 1 .. Len(handled) : handled[k] = frames[k])
      /\ (Len(handled) < Len(frames) =>
           Len(handled) > 0 /\ sent[frames[Len(handled)]].kind \in {"success", "failure"})
  <2> HIDE DEF frames
  <2>1. QED
    BY <1>2, HandledIs
<1> HIDE DEF decoded, frames, raises, handled
<1>9. reads' = reads \/ reads' = Append(reads, new)
  BY <1>1, <1>6
<1>10. ASSUME NEW k \in ToSet(frames) PROVE k \in 1 .. Count' /\ \E i \in 1 .. p : k = Count + i /\ frames[i] = k
  <2>1. PICK i \in 1 .. Len(frames) : frames[i] = k
    BY <1>2, ToSetIs
  <2>2. i \in 1 .. p /\ k = Count + i
    BY <1>2, <2>1
  <2>3. QED
    BY <1>2, <1>4, <2>1, <2>2
\* got and seen grow, and what is read is explained
<1>11. /\ got' \in Seq(Gots)
       /\ \A i \in DOMAIN got : i \in DOMAIN got' /\ got'[i] = got[i]
       /\ \A i \in DOMAIN got' : got'[i].k \in 1 .. Count'
       /\ \A i, j \in DOMAIN got' : i < j => got'[i].k < got'[j].k
       /\ ToSet(seen) \subseteq ToSet(seen')
       /\ reads' # reads => \A k \in ToSet(frames) : Explained(new, k)'
  <2>1. CASE raises
    <3>1. got' = got /\ seen' = seen
      BY <1>1, <2>1
    <3>2. \A k \in ToSet(frames) : Explained(new, k)'
      BY <1>7, <2>1 DEF Explained
    <3>3. \A i \in DOMAIN got : got[i].k \in 1 .. Count'
      BY <1>4 DEF NodesInv
    <3>4. QED
      BY <3>1, <3>2, <3>3 DEF NodesInv
  <2>2. CASE ~raises /\ login = "waiting"
    <3>1. got' = got /\ seen' = seen \o handled
      BY <1>1, <2>2
    <3>2. seen \in Seq(Nat)
      BY DEF TypeInv
    <3>3. ToSet(seen) \subseteq ToSet(seen') /\ \A i \in 1 .. Len(handled) : handled[i] \in ToSet(seen')
      BY <1>8, <3>1, <3>2, ToSetConcat
    <3>4. ASSUME NEW k \in ToSet(frames) PROVE Explained(new, k)'
      <4>1. PICK i \in 1 .. p : k = Count + i /\ frames[i] = k
        BY <1>10
      <4>2. CASE i <= Len(handled)
        <5>1. i \in 1 .. Len(handled)
          BY <1>8, <4>2
        <5>2. k \in ToSet(seen')
          BY <1>8, <3>3, <4>1, <5>1
        <5>3. QED
          BY <1>7, <2>2, <5>2 DEF Explained
      <4>3. CASE ~(i <= Len(handled))
        <5> DEFINE m == Len(handled)
        <5>1. m \in Nat /\ m < i /\ m < Len(frames)
          BY <1>2, <1>8, <4>3
        <5>2. m > 0 /\ sent[frames[m]].kind \in {"success", "failure"} /\ m \in 1 .. p
          BY <1>2, <1>8, <5>1
        <5> HIDE DEF m
        <5>3. frames[m] = Count + m /\ frames[m] \in ToSet(frames) /\ frames[m] < k
          <6>1. frames[m] = Count + m /\ Count + m < k
            BY <1>2, <1>4, <4>1, <5>1, <5>2
          <6>2. m \in 1 .. Len(frames)
            BY <1>2, <5>2
          <6>3. QED
            BY <1>2, <6>1, <6>2, ToSetIs
        <5>4. QED
          BY <1>1, <1>7, <2>2, <5>2, <5>3 DEF Explained
      <4>4. QED
        BY <4>2, <4>3
    <3>5. \A i \in DOMAIN got : got[i].k \in 1 .. Count'
      BY <1>4 DEF NodesInv
    <3>6. QED
      BY <3>1, <3>3, <3>4, <3>5 DEF NodesInv
  <2>3. CASE ~raises /\ login = "success"
    <3>1. seen' = seen /\ got' = got \o [k \in DOMAIN frames |-> DecodedNode(frames[k])]
      BY <1>1, <2>3
    <3>2. /\ got' \in Seq(Gots)
          /\ \A i \in DOMAIN got : i \in DOMAIN got' /\ got'[i] = got[i]
          /\ \A i \in DOMAIN got' : got'[i].k \in 1 .. Count + p
          /\ \A i, j \in DOMAIN got' : i < j => got'[i].k < got'[j].k
          /\ \A i \in 1 .. p : \E j \in DOMAIN got' : got'[j].k = Count + i
      <4>1. /\ got \in Seq(Gots) /\ \A i \in DOMAIN got : got[i].k \in 1 .. Count
            /\ \A i, j \in DOMAIN got : i < j => got[i].k < got[j].k
        BY DEF NodesInv
      <4>2. /\ Count \in Nat /\ Count + p <= Len(sent) /\ frames \in Seq(Nat) /\ Len(frames) = p
            /\ \A i \in 1 .. p : frames[i] = Count + i
            /\ got' = got \o [k \in DOMAIN frames |-> DecodedNode(frames[k])]
        BY <1>2, <1>4, <3>1
      <4>3. QED
        BY <4>1, <4>2, GotGrows, Zenon
    <3>3. ASSUME NEW k \in ToSet(frames) PROVE Explained(new, k)'
      <4>1. PICK i \in 1 .. p : k = Count + i
        BY <1>10
      <4>2. \E j \in DOMAIN got' : got'[j].k = k
        BY <3>2, <4>1
      <4>3. QED
        BY <1>7, <2>3, <4>2 DEF Explained
    <3>4. QED
      BY <1>2, <3>1, <3>2, <3>3
  <2>4. QED
    BY <1>5, <2>1, <2>2, <2>3
<1>12. \A r \in DOMAIN reads' : \A k \in ToSet(reads'[r].frames) : k \in 1 .. Count' /\ Explained(reads[r], k)'
  <2>1. reads' # reads => \A k \in ToSet(new.frames) : k \in 1 .. Count' /\ Explained(new, k)'
    BY <1>7, <1>10, <1>11
  <2>2. QED
    BY <1>1, <1>4, <1>6, <1>9, <1>11, <2>1, ReadsExplained
<1>13. QED
  BY <1>11, <1>12 DEF NodesInv

\* Every step keeps the nodes; only a read and the server's frames touch what they are about.
LEMMA NodesStep ==
  ASSUME TypeInv, KeysInv, StreamInv, NodesInv, [WireNext]_wireVars
  PROVE  NodesInv'
<1>1. CASE \E kind \in Kinds \ {"node"}, spoiled \in BOOLEAN : ServerSends(kind, None, spoiled)
  BY <1>1, NodesSends
<1>2. CASE ServerSendsNode
  BY <1>2, NodesSends DEF ServerSendsNode
<1>3. CASE \E size \in 1 .. 4 * MaxSent : receive_nodes(size)
  BY <1>3, NodesRead
<1>4. CASE Quiet
  <2>1. Count' = Count /\ UNCHANGED <<sent, reads, seen, got>>
    BY <1>4, CountKept
  <2>2. QED
    BY <2>1 DEF NodesInv, Explained
<1>5. QED
  BY <1>1, <1>2, <1>3, <1>4 DEF WireNext, Quiet

\* The four together are inductive.
LEMMA WireInvariant ==
  WireSpec => []WireInv
<1>1. WireInit => WireInv
  BY TypeInit, KeysInit, StreamInit, NodesInit DEF WireInv
<1>2. WireInv /\ [WireNext]_wireVars => WireInv'
  BY TypeStep, KeysStep, StreamStep, NodesStep DEF WireInv
<1>3. QED
  BY <1>1, <1>2, PTL DEF WireSpec

-----------------------------------------------------------------------------
(* Theorems                                                                *)

\* Only an honest server's hello is taken, and the keys agree, so that the server can open
\* every frame of the client in order.
THEOREM WireKeysAgree == WireSpec => []KeysAgree
<1>1. KeysInv => KeysAgree
  <2> SUFFICES ASSUME KeysInv PROVE KeysAgree
    OBVIOUS
  <2>1. state = "failed" => hello.kind # "good"
    <3>1. ASSUME state = "failed" PROVE hello.kind # "good"
      <4>1. hello # Nothing
        BY <3>1 DEF KeysInv, ServerInv
      <4>2. PICK kind \in Hellos : hello = HelloOf(kind) /\ kind # "good"
        BY <3>1, <4>1 DEF KeysInv, ServerInv
      <4>3. QED
        BY <4>2 DEF HelloOf
    <3>2. QED
      BY <3>1
  <2>2. state = "open" => hello.kind = "good"
    <3>1. ASSUME state = "open" PROVE hello.kind = "good"
      <4>1. hello # Nothing /\ finish # Nothing
        BY <3>1 DEF KeysInv, ClientInv, ServerInv
      <4>2. PICK kind \in Hellos : hello = HelloOf(kind) /\ kind = "good"
        BY <4>1 DEF KeysInv, ServerInv
      <4>3. QED
        BY <4>2 DEF HelloOf
    <3>2. QED
      BY <3>1
  <2>3. ASSUME finish # Nothing
        PROVE  noise.transport.write = ClientKey /\ noise.transport.read = ServerKey
    <3>1. PICK read \in Nat : noise.transport = Transport(Len(outbox), read)
      BY <2>3 DEF KeysInv, ClientInv
    <3>2. QED
      BY <3>1 DEF Transport
  <2>4. peer.transport # Nothing =>
          noise.transport.write = peer.transport.read /\ noise.transport.read = peer.transport.write
    BY <2>3 DEF KeysInv, ServerInv
  <2>5. ASSUME NEW k \in DOMAIN outbox
        PROVE  outbox[k] = [key |-> noise.transport.write, counter |-> k - 1, intro |-> FALSE]
    <3>1. Len(outbox) \in Nat /\ outbox = FramesTo(Len(outbox))
      BY DEF KeysInv, ClientInv
    <3>2. finish # Nothing
      BY <2>5 DEF KeysInv, ClientInv
    <3>3. noise.transport.write = ClientKey
      BY <2>3, <3>2
    <3> DEFINE n == Len(outbox)
    <3> HIDE DEF n
    <3>4. n \in Nat /\ outbox = FramesTo(n)
      BY <3>1 DEF n
    <3>5. outbox[k] = [key |-> ClientKey, counter |-> k - 1, intro |-> NoIntro]
      BY <3>4 DEF FramesTo
    <3>6. QED
      BY <3>3, <3>5 DEF NoIntro
  <2>6. QED
    BY <2>1, <2>2, <2>4, <2>5 DEF KeysAgree
<1>2. QED
  BY <1>1, WireInvariant, PTL DEF WireInv

\* In whatever pieces the bytes come, frames are decrypted once and in order, as soon as they
\* are whole and up to the first that does not decrypt; and every node of them reached the
\* dispatcher in order, or has its reason not to.
THEOREM WireNodesExplained == WireSpec => []NodesExplained
<1>1. TypeInv /\ StreamInv => FramesOnce
  <2> SUFFICES ASSUME TypeInv, StreamInv PROVE FramesOnce
    OBVIOUS
  <2> DEFINE frames == FlattenSeq([k \in DOMAIN reads |-> reads[k].frames])
             received == (4 * Len(sent) - Len(cells)) \div 4
             T == {received} \cup {k - 1 : k \in damaged}
  <2>1. frames = [k \in 1 .. Count |-> k] /\ Count \in Nat
    BY DEF StreamInv
  <2> HIDE DEF frames
  <2>2. Len(frames) = Count
    BY <2>1
  <2>3. /\ Len(sent) \in Nat /\ Len(cells) \in Nat
        /\ 4 * Count <= 4 * Len(sent) - Len(cells)
        /\ 4 * (Count + 1) > 4 * Len(sent) - Len(cells) \/ Count + 1 \in damaged
        /\ \A k \in damaged : k \in Nat /\ Count < k
    BY DEF TypeInv, StreamInv, Came
  <2>4. received \in Nat /\ Count <= received
    BY <2>1, <2>3
  <2>5. Count \in T
    <3>1. CASE 4 * (Count + 1) > 4 * Len(sent) - Len(cells)
      BY <2>1, <2>3, <3>1
    <3>2. CASE Count + 1 \in damaged
      <4>1. (Count + 1) - 1 = Count
        BY <2>1
      <4>2. QED
        BY <3>2, <4>1
    <3>3. QED
      BY <2>3, <3>1, <3>2
  <2> HIDE DEF received
  <2>6. \A x \in T : x \in Nat /\ Count <= x
    <3>1. ASSUME NEW k \in damaged PROVE k - 1 \in Nat /\ Count <= k - 1
      BY <2>1, <2>3
    <3>2. QED
      BY <2>4, <3>1
  <2> HIDE DEF T
  <2>7. Min(T) = Count
    <3>1. T \in SUBSET Nat /\ T # {}
      BY <2>5, <2>6
    <3>2. Min(T) \in T /\ \A y \in T : Min(T) <= y
      BY <3>1, Smallest
    <3>3. Min(T) \in Nat /\ Count <= Min(T) /\ Min(T) <= Count
      BY <2>5, <2>6, <3>2
    <3>4. QED
      BY <2>1, <3>3
  <2>8. QED
    BY <2>1, <2>2, <2>7 DEF FramesOnce, frames, received, T
<1>2. WireInv => NodesExplained
  <2>1. NodesInv => \A r \in DOMAIN reads : \A k \in ToSet(reads[r].frames) : Explained(reads[r], k)
    BY DEF NodesInv
  <2>2. QED
    BY <1>1, <2>1 DEF WireInv, NodesInv, Explained, NodesExplained
<1>3. QED
  BY <1>2, WireInvariant, PTL
=============================================================================
