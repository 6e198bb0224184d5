--------------------------- MODULE DeliveryProofs ---------------------------
(***************************************************************************)
(* Proofs about module Delivery, for any calls, requests, devices, plans   *)
(* and crashes.                                                            *)
(*                                                                         *)
(* How often a message is sent again (RetryInv): several readers can be    *)
(* about to send the same message to the same device.  They count as if    *)
(* they had, so the invariant bounds what was sent and what is going to be *)
(* by the count, and by the limit.                                         *)
(*                                                                         *)
(* What is refused as unavailable (ServedInv), what a caller hears of its  *)
(* ack (AckInv), and which messages reach the application (InboundInv).    *)
(*                                                                         *)
(* Who gets a copy (FanInv): what a call has chosen is kept with it, from  *)
(* the lookup to the node, so that a commit of another call can only drop  *)
(* the sessions of a call it marks; what a receipt is for (ReceiptInv).    *)
(***************************************************************************)
EXTENDS Delivery, FiniteSetTheorems, SequenceTheorems, WellFoundedInduction, TLAPS

Keys == Callers \X Requesters

\* The readers that are about to send the message of a key again.
Resending(k) ==
  {t \in Readers : at[t] # None /\ at[t].step = "resend" /\ <<at[t].request.id, at[t].request.participant>> = k}

\* Where a reader is, is a record with a step.
Whole(v) == v # None => v = [f \in DOMAIN v |-> v[f]] /\ "step" \in DOMAIN v

Typed ==
  /\ counts \in [Keys -> Nat]
  /\ resent \in [Keys -> Nat]
  /\ crashes \in Nat
  /\ DOMAIN at = Readers
  /\ at = [t \in Readers |-> at[t]]
  /\ \A t \in Readers : Whole(at[t])

\* The lives of the process before this one used up their limit at most.
Counted ==
  \A k \in Keys :
    /\ IsFiniteSet(Resending(k))
    /\ resent[k] + Cardinality(Resending(k)) <= MaxRetry * crashes + counts[k]
    /\ resent[k] + Cardinality(Resending(k)) <= MaxRetry * crashes + MaxRetry

RetryInv == Typed /\ Counted

-----------------------------------------------------------------------------
LEMMA OneMore ==
  ASSUME NEW f \in [Keys -> Nat], NEW k
  PROVE  [f EXCEPT ![k] = @ + 1] \in [Keys -> Nat]
<1> DEFINE g == [f EXCEPT ![k] = f[k] + 1]
<1>1. g = [x \in Keys |-> IF x = k THEN f[k] + 1 ELSE f[x]]
  OBVIOUS
<1>2. \A x \in Keys : (IF x = k THEN f[k] + 1 ELSE f[x]) \in Nat
  OBVIOUS
<1> QED
  BY <1>1, <1>2

\* What Counted says is kept when no reader starts to send again.
LEMMA FewerResending ==
  ASSUME RetryInv, Typed', counts' = counts, resent' = resent, crashes' = crashes,
         \A k \in Keys : Resending(k)' \subseteq Resending(k)
  PROVE  Counted'
<1>1. SUFFICES ASSUME NEW k \in Keys
               PROVE  /\ IsFiniteSet(Resending(k)')
                      /\ resent[k] + Cardinality(Resending(k)') <= MaxRetry * crashes + counts[k]
                      /\ resent[k] + Cardinality(Resending(k)') <= MaxRetry * crashes + MaxRetry
  BY DEF Counted
<1>2. /\ IsFiniteSet(Resending(k))
      /\ resent[k] + Cardinality(Resending(k)) <= MaxRetry * crashes + counts[k]
      /\ resent[k] + Cardinality(Resending(k)) <= MaxRetry * crashes + MaxRetry
  BY DEF RetryInv, Counted
<1>3. /\ IsFiniteSet(Resending(k)')
      /\ Cardinality(Resending(k)') <= Cardinality(Resending(k))
  BY <1>2, FS_Subset
<1>4. Cardinality(Resending(k)') \in Nat /\ Cardinality(Resending(k)) \in Nat
  BY <1>2, <1>3, FS_CardinalityType
<1>5. resent[k] \in Nat /\ counts[k] \in Nat /\ crashes \in Nat /\ MaxRetry \in Nat
  BY DeliveryAssumption DEF RetryInv, Typed
<1>6. MaxRetry * crashes \in Nat
  BY <1>5
<1> QED
  BY <1>2, <1>3, <1>4, <1>5, <1>6

LEMMA SameResending ==
  ASSUME RetryInv, at' = at, counts' = counts, resent' = resent, crashes' = crashes
  PROVE  RetryInv'
<1>1. Typed'
  BY DEF RetryInv, Typed
<1>2. \A k \in Keys : Resending(k)' \subseteq Resending(k)
  BY DEF Resending
<1> QED
  BY <1>1, <1>2, FewerResending DEF RetryInv

\* What a reader does, or goes on to, other than sending again.
Other(v) ==
  v = None \/ (v = [f \in DOMAIN v |-> v[f]] /\ "step" \in DOMAIN v /\ v.step # "resend")

LEMMA OtherStep ==
  ASSUME RetryInv, NEW t \in Readers, NEW v, Other(v), at' = [at EXCEPT ![t] = v],
         counts' = counts, resent' = resent, crashes' = crashes
  PROVE  RetryInv'
<1>1. \A u \in Readers : at'[u] = IF u = t THEN v ELSE at[u]
  BY DEF RetryInv, Typed
<1>2. Typed'
  <2>1. DOMAIN at' = Readers /\ at' = [u \in Readers |-> at'[u]]
    BY DEF RetryInv, Typed
  <2>2. Whole(v)
    BY DEF Other, Whole
  <2>3. \A u \in Readers : Whole(at'[u])
    BY <1>1, <2>2 DEF RetryInv, Typed
  <2> QED
    BY <2>1, <2>3 DEF RetryInv, Typed
<1>3. \A k \in Keys : Resending(k)' \subseteq Resending(k)
  BY <1>1 DEF Resending, Other
<1> QED
  BY <1>2, <1>3, FewerResending DEF RetryInv

\* A step that a record of at is put to.
LEMMA StepTo ==
  ASSUME RetryInv, NEW t \in Readers, at[t] # None, NEW s, s # "resend"
  PROVE  Other([at[t] EXCEPT !.step = s])
<1>1. at[t] = [f \in DOMAIN at[t] |-> at[t][f]] /\ "step" \in DOMAIN at[t]
  BY DEF RetryInv, Typed, Whole
<1> DEFINE v == [at[t] EXCEPT !.step = s]
<1>2. DOMAIN v = DOMAIN at[t] /\ v = [f \in DOMAIN v |-> v[f]] /\ v["step"] = s
  BY <1>1
<1>3. v.step # "resend"
  BY <1>2
<1> QED
  BY <1>1, <1>2, <1>3 DEF Other

-----------------------------------------------------------------------------
\* The actions that count, or send again.

\* A request is counted, and sent again only within the limit.
LEMMA RetryCounted ==
  ASSUME RetryInv, NEW t \in Readers, NEW n, NEW request, DispatchRetry(t, n, request),
         resent' = resent, crashes' = crashes
  PROVE  RetryInv'
<1> DEFINE key == <<request.id, request.participant>>
<1>1. PICK v : /\ at' = [at EXCEPT ![t] = v]
               /\ v = [f \in DOMAIN v |-> v[f]] /\ "step" \in DOMAIN v
               /\ v.step = "resend" => ~(counts[key] + 1 > MaxRetry)
               /\ <<v.request.id, v.request.participant>> = key
  <2> DEFINE live == Found(recent, expired, request.id)
             refuses == ~request.from_me \/ counts[key] + 1 > MaxRetry
             reason == IF ~request.from_me THEN "not_from_me"
                       ELSE IF refuses THEN "max_retries_exceeded"
                       ELSE IF live THEN "resent" ELSE "message_unavailable"
             v == [node |-> n, request |-> request, reason |-> reason,
                   step |-> IF reason = "resent" THEN "resend" ELSE "report"]
  <2>1. at' = [at EXCEPT ![t] = v]
    BY DEF DispatchRetry
  <2>2. v.step = "resend" => ~refuses
    BY DEF reason
  <2> HIDE DEF reason
  <2>3. v = [f \in DOMAIN v |-> v[f]] /\ "step" \in DOMAIN v /\ <<v.request.id, v.request.participant>> = key
    OBVIOUS
  <2> QED
    BY <2>1, <2>2, <2>3
<1>2. counts' = [counts EXCEPT ![key] = @ + 1]
  BY DEF DispatchRetry
<1> HIDE DEF key
<1>3. \A u \in Readers : at'[u] = IF u = t THEN v ELSE at[u]
  BY <1>1 DEF RetryInv, Typed
<1>4. Typed'
  <2>1. DOMAIN at' = Readers /\ at' = [u \in Readers |-> at'[u]]
    BY <1>1 DEF RetryInv, Typed
  <2>2. \A u \in Readers : Whole(at'[u])
    <3>1. Whole(v)
      BY <1>1 DEF Whole
    <3> QED
      BY <1>3, <3>1 DEF RetryInv, Typed
  <2>3. counts' \in [Keys -> Nat] /\ resent' \in [Keys -> Nat] /\ crashes' \in Nat
    BY <1>2, OneMore DEF RetryInv, Typed
  <2> QED
    BY <2>1, <2>2, <2>3 DEF RetryInv, Typed
<1>5. ASSUME NEW k \in Keys
      PROVE  /\ IsFiniteSet(Resending(k)')
             /\ resent'[k] + Cardinality(Resending(k)') <= MaxRetry * crashes' + counts'[k]
             /\ resent'[k] + Cardinality(Resending(k)') <= MaxRetry * crashes' + MaxRetry
  <2>1. /\ IsFiniteSet(Resending(k))
        /\ resent[k] + Cardinality(Resending(k)) <= MaxRetry * crashes + counts[k]
        /\ resent[k] + Cardinality(Resending(k)) <= MaxRetry * crashes + MaxRetry
    BY <1>5 DEF RetryInv, Counted
  <2>2. resent[k] \in Nat /\ counts[k] \in Nat /\ crashes \in Nat /\ MaxRetry \in Nat
    BY <1>5, DeliveryAssumption DEF RetryInv, Typed
  <2>3. MaxRetry * crashes \in Nat
    BY <2>2
  <2>4. Cardinality(Resending(k)) \in Nat
    BY <2>1, FS_CardinalityType
  <2>5. counts'[k] = IF k = key THEN counts[k] + 1 ELSE counts[k]
    BY <1>2, <1>5 DEF RetryInv, Typed
  <2>6. CASE k = key /\ v.step = "resend"
    <3>1. Resending(k)' \subseteq Resending(k) \cup {t}
      BY <1>3 DEF Resending
    <3>2. /\ IsFiniteSet(Resending(k) \cup {t})
          /\ Cardinality(Resending(k) \cup {t}) =
               IF t \in Resending(k) THEN Cardinality(Resending(k)) ELSE Cardinality(Resending(k)) + 1
      BY <2>1, FS_AddElement
    <3>3. /\ IsFiniteSet(Resending(k)')
          /\ Cardinality(Resending(k)') <= Cardinality(Resending(k) \cup {t})
      BY <3>1, <3>2, FS_Subset
    <3>4. Cardinality(Resending(k)') \in Nat /\ Cardinality(Resending(k) \cup {t}) \in Nat
      BY <3>2, <3>3, FS_CardinalityType
    <3>5. counts[k] + 1 <= MaxRetry
      BY <1>1, <2>2, <2>6
    <3> QED
      BY <2>1, <2>2, <2>3, <2>4, <2>5, <2>6, <3>2, <3>3, <3>4, <3>5
  <2>7. CASE k # key \/ v.step # "resend"
    <3>1. Resending(k)' \subseteq Resending(k)
      BY <1>1, <1>3, <2>7 DEF Resending
    <3>2. /\ IsFiniteSet(Resending(k)')
          /\ Cardinality(Resending(k)') <= Cardinality(Resending(k))
      BY <2>1, <3>1, FS_Subset
    <3>3. Cardinality(Resending(k)') \in Nat
      BY <3>2, FS_CardinalityType
    <3> QED
      BY <2>1, <2>2, <2>3, <2>4, <2>5, <3>2, <3>3
  <2> QED
    BY <2>6, <2>7
<1> QED
  BY <1>4, <1>5 DEF RetryInv, Counted

\* Who sends again has been counted already.
LEMMA ResendCounted ==
  ASSUME RetryInv, NEW t \in Readers, resend_message_for_retry(t)
  PROVE  RetryInv'
<1> DEFINE key == <<at[t].request.id, at[t].request.participant>>
           v == [at[t] EXCEPT !.step = "report"]
<1>1. /\ at[t] # None /\ at[t].step = "resend"
      /\ at' = [at EXCEPT ![t] = v]
      /\ resent' = [resent EXCEPT ![key] = @ + 1]
      /\ counts' = counts /\ crashes' = crashes
  BY DEF resend_message_for_retry, Step, Then
<1>2. Other(v)
  BY <1>1, StepTo
<1> HIDE DEF v
<1>3. \A u \in Readers : at'[u] = IF u = t THEN v ELSE at[u]
  BY <1>1 DEF RetryInv, Typed
<1>4. Typed'
  <2>1. DOMAIN at' = Readers /\ at' = [u \in Readers |-> at'[u]]
    BY <1>1 DEF RetryInv, Typed
  <2>2. \A u \in Readers : Whole(at'[u])
    <3>1. Whole(v)
      BY <1>2 DEF Whole, Other
    <3> QED
      BY <1>3, <3>1 DEF RetryInv, Typed
  <2>3. counts' \in [Keys -> Nat] /\ resent' \in [Keys -> Nat] /\ crashes' \in Nat
    BY <1>1, OneMore DEF RetryInv, Typed
  <2> QED
    BY <2>1, <2>2, <2>3 DEF RetryInv, Typed
<1>5. ASSUME NEW k \in Keys
      PROVE  /\ IsFiniteSet(Resending(k)')
             /\ resent'[k] + Cardinality(Resending(k)') <= MaxRetry * crashes' + counts'[k]
             /\ resent'[k] + Cardinality(Resending(k)') <= MaxRetry * crashes' + MaxRetry
  <2>1. /\ IsFiniteSet(Resending(k))
        /\ resent[k] + Cardinality(Resending(k)) <= MaxRetry * crashes + counts[k]
        /\ resent[k] + Cardinality(Resending(k)) <= MaxRetry * crashes + MaxRetry
    BY <1>5 DEF RetryInv, Counted
  <2>2. resent[k] \in Nat /\ counts[k] \in Nat /\ crashes \in Nat /\ MaxRetry \in Nat
    BY <1>5, DeliveryAssumption DEF RetryInv, Typed
  <2>3. MaxRetry * crashes \in Nat
    BY <2>2
  <2>4. Cardinality(Resending(k)) \in Nat
    BY <2>1, FS_CardinalityType
  <2>5. resent'[k] = IF k = key THEN resent[k] + 1 ELSE resent[k]
    BY <1>1, <1>5 DEF RetryInv, Typed
  <2>6. Resending(k)' \subseteq Resending(k) \ {t}
    BY <1>2, <1>3 DEF Resending, Other
  <2>7. k = key => t \in Resending(k)
    BY <1>1 DEF Resending
  <2>8. /\ IsFiniteSet(Resending(k) \ {t})
        /\ Cardinality(Resending(k) \ {t}) =
             IF t \in Resending(k) THEN Cardinality(Resending(k)) - 1 ELSE Cardinality(Resending(k))
    BY <2>1, FS_RemoveElement
  <2>9. /\ IsFiniteSet(Resending(k)')
        /\ Cardinality(Resending(k)') <= Cardinality(Resending(k) \ {t})
    BY <2>6, <2>8, FS_Subset
  <2>10. Cardinality(Resending(k)') \in Nat /\ Cardinality(Resending(k) \ {t}) \in Nat
    BY <2>8, <2>9, FS_CardinalityType
  <2> HIDE DEF key
  <2> QED
    BY <1>1, <2>1, <2>2, <2>3, <2>4, <2>5, <2>7, <2>8, <2>9, <2>10
<1> QED
  BY <1>4, <1>5 DEF RetryInv, Counted

\* The counts start again, for a life more.
LEMMA CrashCounted ==
  ASSUME RetryInv, NEW store, Crash(store)
  PROVE  RetryInv'
<1>1. /\ at' = [t \in Readers |-> None] /\ crashes' = crashes + 1
      /\ counts' = [k \in DOMAIN counts |-> 0] /\ resent' = resent
  BY DEF Crash
<1>2. Typed'
  BY <1>1 DEF RetryInv, Typed, Whole
<1>3. ASSUME NEW k \in Keys
      PROVE  /\ IsFiniteSet(Resending(k)')
             /\ resent'[k] + Cardinality(Resending(k)') <= MaxRetry * crashes' + counts'[k]
             /\ resent'[k] + Cardinality(Resending(k)') <= MaxRetry * crashes' + MaxRetry
  <2>1. /\ IsFiniteSet(Resending(k))
        /\ resent[k] + Cardinality(Resending(k)) <= MaxRetry * crashes + MaxRetry
    BY <1>3 DEF RetryInv, Counted
  <2>2. resent[k] \in Nat /\ crashes \in Nat /\ MaxRetry \in Nat /\ counts'[k] = 0
    BY <1>1, <1>3, DeliveryAssumption DEF RetryInv, Typed
  <2>3. Cardinality(Resending(k)) \in Nat
    BY <2>1, FS_CardinalityType
  <2>4. Resending(k)' = {}
    BY <1>1 DEF Resending
  <2>5. IsFiniteSet(Resending(k)') /\ Cardinality(Resending(k)') = 0
    BY <2>4, FS_EmptySet
  <2>6. MaxRetry * crashes' = MaxRetry * crashes + MaxRetry /\ MaxRetry * crashes \in Nat
    BY <1>1, <2>2
  <2> QED
    BY <1>1, <2>1, <2>2, <2>3, <2>5, <2>6
<1> QED
  BY <1>2, <1>3 DEF RetryInv, Counted

-----------------------------------------------------------------------------
\* A call of send_message counts no requests.
LEMMA CallerCounts ==
  ASSUME RetryInv, NEW c \in Callers, Caller(c)
  PROVE  RetryInv'
<1> SUFFICES at' = at /\ counts' = counts /\ resent' = resent /\ crashes' = crashes
  BY SameResending
<1>1. ASSUME NEW send, send_message(c, send) PROVE at' = at /\ counts' = counts /\ resent' = resent /\ crashes' = crashes
  BY <1>1 DEF send_message, history
<1>2. ASSUME NEW listing, LookupAnswer(c, listing) PROVE at' = at /\ counts' = counts /\ resent' = resent /\ crashes' = crashes
  BY <1>2 DEF LookupAnswer, history
<1>3. ASSUME NEW answer, SessionsAnswer(c, answer) PROVE at' = at /\ counts' = counts /\ resent' = resent /\ crashes' = crashes
  BY <1>3 DEF SessionsAnswer
<1>4. CASE Committed(c)
  BY <1>4 DEF Committed, history
<1>5. CASE QueryFails(c)
  BY <1>5 DEF QueryFails, history
<1>6. CASE Sent(c)
  BY <1>6 DEF Sent, history
<1>7. CASE SendFails(c)
  BY <1>7 DEF SendFails, history
<1>8. CASE save_recent_outbound(c)
  BY <1>8 DEF save_recent_outbound, history
<1>9. CASE WaitTimeout(c)
  BY <1>9 DEF WaitTimeout, history
<1>10. CASE DriveTimeout(c)
  BY <1>10 DEF DriveTimeout, history
<1>11. CASE Heard(c)
  BY <1>11 DEF Heard, history
<1>12. CASE Recv(c)
  BY <1>12 DEF Recv, history
<1>13. CASE RecvClash(c)
  BY <1>13 DEF RecvClash, history
<1> QED
  BY <1>1, <1>2, <1>3, <1>4, <1>5, <1>6, <1>7, <1>8, <1>9, <1>10, <1>11, <1>12, <1>13 DEF Caller

\* Of what is received only a retry receipt is counted.
LEMMA ReceiveCounts ==
  ASSUME RetryInv, NEW t \in Readers, Receive(t)
  PROVE  RetryInv'
<1> DEFINE n == Head(inbox)
<1>1. resent' = resent /\ crashes' = crashes
  BY DEF Receive
<1>2. CASE DispatchAck(t, n)
  BY <1>1, <1>2, SameResending DEF DispatchAck
<1>3. CASE DispatchMessage(t, n)
  <2> DEFINE reads == n.readable /\ n.author \notin opened
             v == [node |-> n, step |-> IF reads THEN "ack" ELSE "ack500"]
  <2>1. at' = [at EXCEPT ![t] = v] /\ counts' = counts
    BY <1>3 DEF DispatchMessage
  <2>2. Other(v)
    BY DEF Other
  <2> QED
    BY <1>1, <2>1, <2>2, OtherStep
<1>4. CASE DispatchReceipt(n)
  BY <1>1, <1>4, SameResending DEF DispatchReceipt
<1>5. ASSUME NEW request, DispatchRetry(t, n, request)
      PROVE  RetryInv'
  BY <1>1, <1>5, RetryCounted
<1> QED
  BY <1>2, <1>3, <1>4, <1>5 DEF Receive

\* Whoever dispatches goes on to something else than sending again, or has counted it.
LEMMA DispatchCounts ==
  ASSUME RetryInv, NEW t \in Readers, Dispatch(t)
  PROVE  RetryInv'
<1>1. CASE Receive(t)
  BY <1>1, ReceiveCounts
<1>2. CASE resend_message_for_retry(t)
  BY <1>2, ResendCounted
<1>3. CASE ResendFails(t)
  <2> DEFINE w == [at[t] EXCEPT !.step = "report"]
             v == [w EXCEPT !.reason = "resend_error"]
  <2>1. /\ at[t] # None /\ at' = [at EXCEPT ![t] = v]
        /\ counts' = counts /\ resent' = resent /\ crashes' = crashes
    BY <1>3 DEF ResendFails, Step, history
  <2>2. Other(w)
    BY <2>1, StepTo
  <2>3. w = [f \in DOMAIN w |-> w[f]] /\ "step" \in DOMAIN w /\ w["step"] = "report"
    BY <2>1 DEF RetryInv, Typed, Whole
  <2> HIDE DEF w
  <2>4. v = [f \in DOMAIN v |-> v[f]] /\ "step" \in DOMAIN v /\ v["step"] = "report"
    BY <2>3
  <2> HIDE DEF v
  <2>5. Other(v)
    BY <2>4 DEF Other
  <2> QED
    BY <2>1, <2>5, OtherStep
<1>4. CASE ReportRetry(t)
  BY <1>4, OtherStep DEF ReportRetry, Dispatched, Other, history
<1>5. ASSUME NEW ok \in BOOLEAN, send_ack(t, ok)
      PROVE  RetryInv'
  <2>1. /\ at[t] # None /\ at' = [at EXCEPT ![t] = [at[t] EXCEPT !.step = "upsert"]]
        /\ counts' = counts /\ resent' = resent /\ crashes' = crashes
    BY <1>5 DEF send_ack, Step, Then
  <2>2. Other([at[t] EXCEPT !.step = "upsert"])
    BY <2>1, StepTo
  <2> QED
    BY <2>1, <2>2, OtherStep
<1>6. CASE DecryptError(t)
  BY <1>6, OtherStep DEF DecryptError, Dispatched, Other, history
<1>7. CASE Upsert(t)
  BY <1>7, OtherStep DEF Upsert, Dispatched, Other
<1>8. CASE UpsertRaises(t)
  BY <1>8, OtherStep DEF UpsertRaises, Dispatched, Other
<1> QED
  BY <1>1, <1>2, <1>3, <1>4, <1>5, <1>6, <1>7, <1>8 DEF Dispatch

\* The server, time and the stores count nothing; a crash starts again.
LEMMA EnvironmentCounts ==
  ASSUME RetryInv, Environment
  PROVE  RetryInv'
<1>1. ASSUME NEW c, NEW kind, ServerAcks(c, kind) PROVE RetryInv'
  BY <1>1, SameResending DEF ServerAcks, client
<1>2. ASSUME NEW c, NEW copy, NEW keys, NEW ours, ServerRetries(c, copy, keys, ours) PROVE RetryInv'
  BY <1>2, SameResending DEF ServerRetries, client
<1>3. ASSUME NEW c, NEW copy, NEW type, ServerReceipts(c, copy, type) PROVE RetryInv'
  BY <1>3, SameResending DEF ServerReceipts, client
<1>4. ASSUME NEW i, NEW readable, ServerDelivers(i, readable) PROVE RetryInv'
  BY <1>4, SameResending DEF ServerDelivers, client
<1>5. ASSUME NEW c, Expire(c) PROVE RetryInv'
  BY <1>5, SameResending DEF Expire, client
<1>6. CASE Prune
  BY <1>6, SameResending DEF Prune, history
<1>7. ASSUME NEW store, Crash(store) PROVE RetryInv'
  BY <1>7, CrashCounted
<1> QED
  BY <1>1, <1>2, <1>3, <1>4, <1>5, <1>6, <1>7 DEF Environment

-----------------------------------------------------------------------------
LEMMA RetryInvInit == Init => RetryInv
<1> SUFFICES ASSUME Init PROVE RetryInv
  OBVIOUS
<1>1. Typed
  BY DEF Init, Typed, Keys, Whole
<1>2. ASSUME NEW k \in Keys
      PROVE  /\ IsFiniteSet(Resending(k))
             /\ resent[k] + Cardinality(Resending(k)) <= MaxRetry * crashes + counts[k]
             /\ resent[k] + Cardinality(Resending(k)) <= MaxRetry * crashes + MaxRetry
  <2>1. Resending(k) = {}
    BY DEF Init, Resending
  <2>2. IsFiniteSet(Resending(k)) /\ Cardinality(Resending(k)) = 0
    BY <2>1, FS_EmptySet
  <2>3. resent[k] = 0 /\ counts[k] = 0 /\ crashes = 0 /\ MaxRetry \in Nat
    BY <1>2, DeliveryAssumption DEF Init, Keys
  <2> QED
    BY <2>2, <2>3
<1> QED
  BY <1>1, <1>2 DEF RetryInv, Counted

\* However many devices and readers ask, and however often the process stops.
THEOREM RetryInvariant == Spec => []RetryInv
<1>1. RetryInv /\ [Next]_vars => RetryInv'
  <2> SUFFICES ASSUME RetryInv, [Next]_vars PROVE RetryInv'
    OBVIOUS
  <2>1. CASE UNCHANGED vars
    BY <2>1, SameResending DEF vars, client, history
  <2>2. ASSUME NEW c \in Callers, Caller(c) PROVE RetryInv'
    BY <2>2, CallerCounts
  <2>3. ASSUME NEW t \in Readers, Dispatch(t) PROVE RetryInv'
    BY <2>3, DispatchCounts
  <2>4. CASE Environment
    BY <2>4, EnvironmentCounts
  <2> QED
    BY <2>1, <2>2, <2>3, <2>4 DEF Next
<1> QED
  BY <1>1, RetryInvInit, PTL DEF Spec

\* A message is sent again at most max_msg_retry_count times to each device that asks, in
\* every life of the process (_increment_retry_count, resend_message_for_retry).
THEOREM RetriesLimited == Spec => []RetryLimit
<1>1. RetryInv => RetryLimit
  <2> SUFFICES ASSUME RetryInv, NEW k \in Keys
               PROVE  resent[k] <= MaxRetry * (crashes + 1)
    BY DEF RetryInv, Typed, RetryLimit
  <2>1. /\ IsFiniteSet(Resending(k))
        /\ resent[k] + Cardinality(Resending(k)) <= MaxRetry * crashes + MaxRetry
    BY DEF RetryInv, Counted
  <2>2. Cardinality(Resending(k)) \in Nat
    BY <2>1, FS_CardinalityType
  <2>3. resent[k] \in Nat /\ crashes \in Nat /\ MaxRetry \in Nat
    BY DeliveryAssumption DEF RetryInv, Typed
  <2>4. MaxRetry * (crashes + 1) = MaxRetry * crashes + MaxRetry /\ MaxRetry * crashes \in Nat
    BY <2>3
  <2> QED
    BY <2>1, <2>2, <2>3, <2>4
<1> QED
  BY <1>1, RetryInvariant, PTL

-----------------------------------------------------------------------------
(* What is refused as unavailable was never saved, or its time is over.      *)

Fields == {"pc", "chat", "content", "direct", "wait", "own", "others", "work", "copies", "ack", "result"}
CallTyped ==
  /\ call = [c \in Callers |-> call[c]]
  /\ \A c \in Callers : call[c] = [f \in Fields |-> call[c][f]]

\* No copy exists before the devices have their sessions.
Unbuilt == \A c \in Callers : call[c].pc \in {"idle", "lookup", "sessions", "committed"} => call[c].copies = << >>

\* A failed send is over.
FailedEnded == \A c \in Callers : call[c].result = "send" => call[c].pc = "done"

\* What has been sent is in the store, was once, or is about to be saved.
OutKept == \A c \in Callers : IsOut(c) => c \in recent \cup expired \/ call[c].pc \in {"saving", "dead"}

\* A caller reads, or dispatches what it has read, only while it waits: never between the
\* send and the save.
Busy(c) == reader = c \/ at[c] # None
WaitsReading ==
  \A c \in Callers : Busy(c) =>
    ~loop /\ call[c].pc \in {"lookup", "sessions", "drive", "done"} /\ call[c].result # "send"
OneStep == \A c \in Callers : reader = c => at[c] = None

\* Receipts come for what has been sent.
Expected(n) == n.tag = "receipt" => n.id \in Callers /\ IsOut(n.id) /\ n.more = << >>
InboxExpected == \E S : inbox \in Seq(S) /\ \A n \in S : Expected(n)

ServedInv ==
  /\ plan \in Plans /\ CallTyped /\ Unbuilt /\ FailedEnded /\ OutKept /\ WaitsReading /\ OneStep /\ InboxExpected

LEMMA GoesTo ==
  ASSUME CallTyped, NEW c \in Callers, NEW fields, Goes(c, fields)
  PROVE  /\ CallTyped'
         /\ \A d \in Callers \ {c} : call'[d] = call[d]
         /\ \A f \in Fields : call'[c][f] = IF f \in DOMAIN fields THEN fields[f] ELSE call[c][f]
<1> DEFINE v == With(fields, call[c])
<1>1. call' = [call EXCEPT ![c] = v]
  BY DEF Goes
<1>2. v = [f \in Fields |-> IF f \in DOMAIN fields THEN fields[f] ELSE call[c][f]]
  BY DEF CallTyped, With
<1> HIDE DEF v
<1>3. call'[c] = v /\ \A d \in Callers \ {c} : call'[d] = call[d]
  BY <1>1 DEF CallTyped
<1>4. call' = [d \in Callers |-> call'[d]]
  BY <1>1 DEF CallTyped
<1>5. \A f \in Fields : call'[c][f] = IF f \in DOMAIN fields THEN fields[f] ELSE call[c][f]
  BY <1>2, <1>3
<1>6. \A d \in Callers : call'[d] = [f \in Fields |-> call'[d][f]]
  BY <1>2, <1>3 DEF CallTyped
<1> QED
  BY <1>3, <1>4, <1>5, <1>6 DEF CallTyped

LEMMA EndsTo ==
  ASSUME CallTyped, NEW c \in Callers, NEW why, Ends(c, why)
  PROVE  /\ CallTyped' /\ \A d \in Callers \ {c} : call'[d] = call[d]
         /\ call'[c].pc = "done" /\ call'[c].result = why /\ call'[c].copies = call[c].copies
<1> DEFINE fields == [pc |-> "done", result |-> why]
<1>1. Goes(c, fields)
  BY DEF Ends
<1>2. DOMAIN fields = {"pc", "result"} /\ fields["pc"] = "done" /\ fields["result"] = why
  OBVIOUS
<1> HIDE DEF fields
<1> QED
  BY <1>1, <1>2, GoesTo DEF Fields

LEMMA GoesOn ==
  ASSUME CallTyped, NEW c \in Callers, NEW p, Goes(c, [pc |-> p])
  PROVE  /\ CallTyped' /\ \A d \in Callers \ {c} : call'[d] = call[d]
         /\ call'[c].pc = p /\ call'[c].result = call[c].result /\ call'[c].copies = call[c].copies
<1> DEFINE fields == [pc |-> p]
<1>1. DOMAIN fields = {"pc"} /\ fields["pc"] = p
  OBVIOUS
<1>2. Goes(c, fields)
  OBVIOUS
<1> HIDE DEF fields
<1> QED
  BY <1>1, <1>2, GoesTo DEF Fields

\* A call in the making, with no copies yet.
Unsent(to) == DOMAIN to = Fields /\ to.copies = << >> /\ to.result # "send"

LEMMA GoesWhole ==
  ASSUME CallTyped, NEW c \in Callers, NEW to, DOMAIN to = Fields, Goes(c, to)
  PROVE  /\ CallTyped' /\ \A d \in Callers \ {c} : call'[d] = call[d]
         /\ call'[c].pc = to.pc /\ call'[c].result = to.result /\ call'[c].copies = to.copies
  BY GoesTo DEF Fields

\* Why a node is not built.
LEMMA BuildError ==
  ASSUME NEW table, NEW chat, NEW content, NEW direct, NEW own, NEW others,
         build_proto_message_node(table, chat, content, direct, own, others).error # None
  PROVE  build_proto_message_node(table, chat, content, direct, own, others).error \in {"content", "sessions"}
  BY DEF build_proto_message_node

LEMMA BuildTo ==
  ASSUME CallTyped, NEW c \in Callers, NEW to, Unsent(to), NEW table, Build(c, to, table)
  PROVE  /\ CallTyped' /\ \A d \in Callers \ {c} : call'[d] = call[d]
         /\ call'[c].pc \in {"done", "sending"} /\ call'[c].result # "send"
         /\ call'[c].pc = "done" => call'[c].copies = << >>
<1> DEFINE node == build_proto_message_node(table, to.chat, to.content, to.direct, to.own, to.others)
           why == node.error
           ended == [to EXCEPT !.pc = "done", !.result = why]
           built == [to EXCEPT !.pc = "sending", !.copies = node.copies]
<1>1. CASE node.error # None
  <2>1. Goes(c, ended)
    BY <1>1 DEF Build
  <2>2. DOMAIN ended = Fields /\ ended.pc = "done" /\ ended.result = why /\ ended.copies = << >>
    <3>1. DOMAIN ended = Fields /\ ended["pc"] = "done" /\ ended["result"] = why /\ ended["copies"] = << >>
      BY DEF Unsent, Fields
    <3> QED
      BY <3>1
  <2>3. why # "send"
    BY <1>1, BuildError
  <2> HIDE DEF ended, why
  <2> QED
    BY <2>1, <2>2, <2>3, GoesWhole
<1>2. CASE node.error = None
  <2>1. Goes(c, built)
    BY <1>2 DEF Build
  <2>2. DOMAIN built = Fields /\ built.pc = "sending" /\ built.result = to.result
    <3>1. DOMAIN built = Fields /\ built["pc"] = "sending" /\ built["result"] = to["result"]
      BY DEF Unsent, Fields
    <3> QED
      BY <3>1
  <2>3. to.result # "send"
    BY DEF Unsent
  <2> HIDE DEF built
  <2> QED
    BY <2>1, <2>2, <2>3, GoesWhole
<1> QED
  BY <1>1, <1>2

LEMMA AssertTo ==
  ASSUME CallTyped, NEW c \in Callers, NEW to, Unsent(to), NEW jids, NEW force,
         AssertSessions(c, to, jids, force)
  PROVE  /\ CallTyped' /\ \A d \in Callers \ {c} : call'[d] = call[d]
         /\ call'[c].pc \in {"done", "sending", "sessions"} /\ call'[c].result # "send"
         /\ call'[c].pc # "sending" => call'[c].copies = << >>
<1>1. CASE Build(c, to, sessions)
  BY <1>1, BuildTo
<1>2. CASE Goes(c, [to EXCEPT !.pc = "sessions", !.work = sessions])
  <2> DEFINE asked == [to EXCEPT !.pc = "sessions", !.work = sessions]
  <2>1. DOMAIN asked = Fields /\ asked["pc"] = "sessions" /\ asked["result"] = to["result"] /\ asked["copies"] = to["copies"]
    BY DEF Unsent, Fields
  <2>2. DOMAIN asked = Fields /\ asked.pc = "sessions" /\ asked.result = to.result /\ asked.copies = to.copies
    BY <2>1
  <2>3. Goes(c, asked)
    BY <1>2
  <2> HIDE DEF asked
  <2> QED
    BY <2>2, <2>3, GoesWhole DEF Unsent
<1> QED
  BY <1>1, <1>2 DEF AssertSessions

-----------------------------------------------------------------------------
\* What has been sent stays sent, so that receipts for it stay expected.
LEMMA InboxKept ==
  ASSUME InboxExpected, \A c \in Callers : IsOut(c) => IsOut(c)',
         inbox' = inbox \/ inbox' = << >> \/ (inbox # << >> /\ inbox' = Tail(inbox))
  PROVE  InboxExpected'
<1>1. PICK S : inbox \in Seq(S) /\ \A n \in S : Expected(n)
  BY DEF InboxExpected
<1>2. inbox' \in Seq(S)
  <2>1. CASE inbox' = inbox
    BY <1>1, <2>1
  <2>2. CASE inbox' = << >>
    BY <2>2
  <2>3. CASE inbox # << >> /\ inbox' = Tail(inbox)
    <3>1. Tail(inbox) \in Seq(S)
      BY <1>1, <2>3, HeadTailProperties
    <3> QED
      BY <2>3, <3>1
  <2> QED
    BY <2>1, <2>2, <2>3
<1>3. \A n \in S : Expected(n)'
  BY <1>1 DEF Expected
<1> QED
  BY <1>2, <1>3 DEF InboxExpected

LEMMA InboxGrows ==
  ASSUME InboxExpected, call' = call, NEW n, Expected(n), inbox' = Append(inbox, n)
  PROVE  InboxExpected'
<1>1. PICK S : inbox \in Seq(S) /\ \A m \in S : Expected(m)
  BY DEF InboxExpected
<1>2. inbox \in Seq(S \cup {n})
  BY <1>1
<1>3. inbox' \in Seq(S \cup {n})
  BY <1>2
<1>4. \A m \in S \cup {n} : Expected(m)'
  BY <1>1 DEF Expected, IsOut
<1> QED
  BY <1>3, <1>4 DEF InboxExpected

LEMMA HeadExpected ==
  ASSUME InboxExpected, inbox # << >>
  PROVE  Expected(Head(inbox))
  BY DEF InboxExpected

\* One call goes a step.
LEMMA CallerStep ==
  ASSUME ServedInv, NEW c \in Callers, CallTyped', \A d \in Callers \ {c} : call'[d] = call[d],
         UNCHANGED fixed, reader' \in {reader, None}, expired' = expired, recent \subseteq recent', inbox' = inbox,
         \A d \in Callers : at'[d] # None => at'[d] = at[d],
         Busy(c)' => ~loop /\ call'[c].pc \in {"lookup", "sessions", "drive", "done"} /\ call'[c].result # "send",
         call'[c].pc \in {"idle", "lookup", "sessions", "committed"} => call'[c].copies = << >>,
         call'[c].result = "send" => call'[c].pc = "done",
         IsOut(c) => IsOut(c)',
         IsOut(c)' => c \in recent' \cup expired \/ call'[c].pc \in {"saving", "dead"}
  PROVE  ServedInv'
<1>1. None \notin Callers
  BY DeliveryAssumption
<1>2. Unbuilt' /\ FailedEnded'
  BY DEF ServedInv, Unbuilt, FailedEnded
<1>3. OutKept'
  BY DEF ServedInv, OutKept, IsOut
<1>4. WaitsReading'
  BY <1>1 DEF ServedInv, WaitsReading, Busy, fixed
<1>5. OneStep'
  BY <1>1 DEF ServedInv, OneStep
<1>6. InboxExpected'
  BY InboxKept DEF ServedInv, IsOut
<1> QED
  BY <1>2, <1>3, <1>4, <1>5, <1>6 DEF ServedInv, fixed

\* A step that changes no call but for the acks that reach it.
Calm ==
  /\ CallTyped'
  /\ \A c \in Callers : call'[c].pc = call[c].pc /\ call'[c].result = call[c].result /\ call'[c].copies = call[c].copies
  /\ UNCHANGED fixed
  /\ recent \cup expired \subseteq recent' \cup expired'
  /\ \A c \in Callers : Busy(c)' => Busy(c) \/ Drives(c)
  /\ \A c \in Callers : reader' = c => at'[c] = None

LEMMA CalmStep ==
  ASSUME ServedInv, Calm, InboxExpected'
  PROVE  ServedInv'
<1>1. Unbuilt' /\ FailedEnded' /\ OneStep'
  BY DEF ServedInv, Calm, Unbuilt, FailedEnded, OneStep
<1>2. OutKept'
  BY DEF ServedInv, Calm, OutKept, IsOut
<1>3. WaitsReading'
  BY DEF ServedInv, Calm, WaitsReading, FailedEnded, Drives, fixed
<1> QED
  BY <1>1, <1>2, <1>3 DEF ServedInv, Calm, fixed

-----------------------------------------------------------------------------
\* Nobody starts to dispatch: nothing is refused.
LEMMA NobodyStarts ==
  ASSUME \A t \in Readers : at'[t] # None => at[t] # None
  PROVE  RefusedRightly
  BY DEF RefusedRightly

\* A call goes a step by itself, with no part in the reading.
LEMMA AloneStep ==
  ASSUME ServedInv, NEW c \in Callers, CallTyped', \A d \in Callers \ {c} : call'[d] = call[d],
         UNCHANGED fixed, reader' = reader \/ reader' = None, expired' = expired, recent \subseteq recent', inbox' = inbox,
         at' = at, ~Busy(c)',
         call'[c].pc \in {"idle", "lookup", "sessions", "committed"} => call'[c].copies = << >>,
         call'[c].result = "send" => call'[c].pc = "done",
         IsOut(c) => IsOut(c)',
         IsOut(c)' => c \in recent' \cup expired \/ call'[c].pc \in {"saving", "dead"}
  PROVE  ServedInv' /\ RefusedRightly
<1>1. ServedInv'
  BY CallerStep
<1>2. RefusedRightly
  BY NobodyStarts
<1> QED
  BY <1>1, <1>2

\* A caller that awaits an answer of the server, or has one, reads no longer.
LEMMA AnsweredReads ==
  ASSUME ServedInv, NEW c \in Callers, Answers(c), LetGo(c), at' = at
  PROVE  ~Busy(c)' /\ (reader' = reader \/ reader' = None)
  BY DeliveryAssumption DEF ServedInv, Answers, LetGo, WaitsReading, OneStep, Busy

LEMMA NotReading ==
  ASSUME ServedInv, NEW c \in Callers, call[c].pc \notin {"lookup", "sessions", "drive", "done"},
         reader' = reader, at' = at
  PROVE  ~Busy(c)'
  BY DEF ServedInv, WaitsReading, Busy

\* The making of a message, up to the send: nothing of it is out.
LEMMA MakingStep ==
  ASSUME ServedInv, NEW c \in Callers,
         call[c].pc \in {"idle", "lookup", "sessions", "committed"},
         CallTyped', \A d \in Callers \ {c} : call'[d] = call[d],
         UNCHANGED <<fixed, recent, expired, inbox, at>>, reader' = reader \/ reader' = None, ~Busy(c)',
         call'[c].pc \in {"lookup", "sessions", "committed", "sending", "done"}, call'[c].result # "send",
         call'[c].pc # "sending" => call'[c].copies = << >>
  PROVE  ServedInv' /\ RefusedRightly
<1>1. call[c].copies = << >>
  BY DEF ServedInv, Unbuilt
<1>2. ~IsOut(c) /\ ~IsOut(c)'
  BY <1>1 DEF IsOut
<1> QED
  BY <1>2, AloneStep

LEMMA ServedMaking ==
  ASSUME ServedInv, NEW c \in Callers,
         \/ \E send \in plan.sends : send_message(c, send)
         \/ \E listing : LookupAnswer(c, listing)
         \/ \E answer : SessionsAnswer(c, answer)
         \/ Committed(c) \/ QueryFails(c)
  PROVE  ServedInv' /\ RefusedRightly
<1>0. CallTyped
  BY DEF ServedInv
<1>1. ASSUME NEW send \in plan.sends, send_message(c, send) PROVE ServedInv' /\ RefusedRightly
  <2> DEFINE to == With(send, Idle)
             first == <<jid_encode(send.chat.user, send.chat.server, 0, None)>>
             looks == [to EXCEPT !.pc = "lookup"]
             one == [to EXCEPT !.others = first]
  <2>1. DOMAIN send = {"chat", "content", "direct", "wait"} /\ None \notin Results
    BY DeliveryAssumption DEF ServedInv
  <2>2. /\ DOMAIN to = Fields /\ to["copies"] = << >> /\ to["result"] = None
        /\ to = [f \in Fields |-> to[f]]
    BY <2>1 DEF With, Idle, Fields
  <2>3. None # "send"
    BY <2>1 DEF Results
  <2>4. Unsent(to)
    BY <2>2, <2>3 DEF Unsent
  <2> HIDE DEF to
  <2>5. Unsent(one)
    <3>1. DOMAIN one = Fields /\ one["copies"] = << >> /\ one["result"] = None
      BY <2>2 DEF Fields
    <3> QED
      BY <3>1, <2>3 DEF Unsent
  <2>6. /\ DOMAIN looks = Fields /\ looks.pc = "lookup"
        /\ looks.result # "send" /\ looks.copies = << >>
    <3>1. DOMAIN looks = Fields /\ looks["pc"] = "lookup" /\ looks["result"] = None /\ looks["copies"] = << >>
      BY <2>2 DEF Fields
    <3> QED
      BY <3>1, <2>3
  <2> HIDE DEF one, looks
  <2>7. \/ Goes(c, looks) \/ Build(c, to, sessions) \/ AssertSessions(c, one, first, FALSE)
    BY <1>1 DEF send_message, to, one, looks
  <2> HIDE DEF first
  <2>8. /\ CallTyped' /\ \A d \in Callers \ {c} : call'[d] = call[d]
        /\ call'[c].pc \in {"lookup", "sessions", "sending", "done"} /\ call'[c].result # "send"
        /\ call'[c].pc # "sending" => call'[c].copies = << >>
    <3>1. CASE Goes(c, looks)
      BY <1>0, <3>1, <2>6, GoesWhole
    <3>2. CASE Build(c, to, sessions)
      BY <1>0, <3>2, <2>4, BuildTo
    <3>3. CASE AssertSessions(c, one, first, FALSE)
      BY <1>0, <3>3, <2>5, AssertTo
    <3> QED
      BY <2>7, <3>1, <3>2, <3>3
  <2>9. /\ call[c].pc = "idle" /\ UNCHANGED <<fixed, recent, expired, inbox, at>> /\ reader' = reader
    BY <1>1 DEF send_message, history
  <2> QED
    BY <2>8, <2>9, NotReading, MakingStep
<1>2. ASSUME NEW listing, LookupAnswer(c, listing) PROVE ServedInv' /\ RefusedRightly
  <2> DEFINE split == Targets(call[c].chat, Listed(call[c].chat, listing))
             own == split.own
             others == split.others
             to == [call[c] EXCEPT !.own = own, !.others = others]
  <2>1. AssertSessions(c, to, own \o others, FALSE)
    BY <1>2 DEF LookupAnswer
  <2>2. /\ call[c].pc = "lookup" /\ Answers(c) /\ LetGo(c)
        /\ UNCHANGED <<fixed, recent, expired, inbox, at>>
    BY <1>2 DEF LookupAnswer, history
  <2>3. call[c].copies = << >> /\ call[c].result # "send"
    BY <2>2 DEF ServedInv, Unbuilt, FailedEnded
  <2>4. call[c] = [f \in Fields |-> call[c][f]]
    BY DEF ServedInv, CallTyped
  <2> HIDE DEF split
  <2> HIDE DEF own, others
  <2>5. Unsent(to)
    <3>1. DOMAIN to = Fields /\ to["copies"] = call[c]["copies"] /\ to["result"] = call[c]["result"]
      BY <2>4 DEF Fields
    <3> QED
      BY <3>1, <2>3 DEF Unsent
  <2> HIDE DEF to
  <2>6. /\ CallTyped' /\ \A d \in Callers \ {c} : call'[d] = call[d]
        /\ call'[c].pc \in {"done", "sending", "sessions"} /\ call'[c].result # "send"
        /\ call'[c].pc # "sending" => call'[c].copies = << >>
    BY <1>0, <2>1, <2>5, AssertTo
  <2> QED
    BY <2>2, <2>6, AnsweredReads, MakingStep
<1>3. ASSUME NEW answer, SessionsAnswer(c, answer) PROVE ServedInv' /\ RefusedRightly
  <2>1. /\ Ends(c, "query") \/ Goes(c, [pc |-> "committed"])
        /\ call[c].pc = "sessions" /\ Answers(c) /\ LetGo(c)
        /\ UNCHANGED <<fixed, recent, expired, inbox, at>>
    BY <1>3 DEF SessionsAnswer
  <2>2. call[c].copies = << >> /\ call[c].result # "send"
    BY <2>1 DEF ServedInv, Unbuilt, FailedEnded
  <2>3. /\ CallTyped' /\ \A d \in Callers \ {c} : call'[d] = call[d]
        /\ call'[c].pc \in {"done", "committed"} /\ call'[c].result # "send" /\ call'[c].copies = << >>
    BY <1>0, <2>1, <2>2, EndsTo, GoesOn
  <2> QED
    BY <2>1, <2>3, AnsweredReads, MakingStep
<1>4. CASE Committed(c)
  <2>1. /\ Build(c, call[c], sessions) /\ call[c].pc = "committed"
        /\ UNCHANGED <<fixed, recent, expired, inbox, at, reader>>
    BY <1>4 DEF Committed, history
  <2>2. Unsent(call[c])
    BY <2>1 DEF ServedInv, Unbuilt, FailedEnded, CallTyped, Unsent
  <2>3. /\ CallTyped' /\ \A d \in Callers \ {c} : call'[d] = call[d]
        /\ call'[c].pc \in {"done", "sending"} /\ call'[c].result # "send"
        /\ call'[c].pc = "done" => call'[c].copies = << >>
    BY <1>0, <2>1, <2>2, BuildTo
  <2> QED
    BY <2>1, <2>3, NotReading, MakingStep
<1>5. CASE QueryFails(c)
  <2>1. /\ Ends(c, "query") /\ call[c].pc \in {"lookup", "sessions"} /\ LetGo(c)
        /\ UNCHANGED <<fixed, recent, expired, inbox, at>>
    BY <1>5 DEF QueryFails, history
  <2>2. call[c].copies = << >>
    BY <2>1 DEF ServedInv, Unbuilt
  <2>3. /\ CallTyped' /\ \A d \in Callers \ {c} : call'[d] = call[d]
        /\ call'[c].pc = "done" /\ call'[c].result = "query" /\ call'[c].copies = << >>
    BY <1>0, <2>1, <2>2, EndsTo
  <2>4. Busy(c)' => Busy(c)
    BY <2>1 DEF LetGo, Busy
  <2>5. Busy(c)' => ~loop
    BY <2>4 DEF ServedInv, WaitsReading
  <2>6. reader' \in {reader, None}
    BY <2>1 DEF LetGo
  <2>7. ~IsOut(c) /\ ~IsOut(c)'
    BY <2>2, <2>3 DEF IsOut
  <2>8. ServedInv'
    BY <2>1, <2>3, <2>5, <2>6, <2>7, CallerStep
  <2> QED
    BY <2>1, <2>8, NobodyStarts
<1> QED
  BY <1>1, <1>2, <1>3, <1>4, <1>5

\* The send, the save and the wait: what is out is in the store, or about to be saved.
LEMMA ServedSending ==
  ASSUME ServedInv, NEW c \in Callers,
         \/ Sent(c) \/ SendFails(c) \/ save_recent_outbound(c) \/ WaitTimeout(c) \/ DriveTimeout(c)
         \/ Heard(c) \/ Recv(c) \/ RecvClash(c)
  PROVE  ServedInv' /\ RefusedRightly
<1>0. CallTyped
  BY DEF ServedInv
<1>1. call[c].result = "send" => call[c].pc = "done"
  BY DEF ServedInv, FailedEnded
<1>2. IsOut(c) => c \in recent \cup expired \/ call[c].pc \in {"saving", "dead"}
  BY DEF ServedInv, OutKept
<1>3. CASE Sent(c)
  <2>1. /\ Goes(c, [pc |-> "saving"]) /\ call[c].pc = "sending"
        /\ UNCHANGED <<fixed, recent, expired, inbox, at, reader>>
    BY <1>3 DEF Sent, history
  <2>2. /\ CallTyped' /\ \A d \in Callers \ {c} : call'[d] = call[d]
        /\ call'[c].pc = "saving" /\ call'[c].result = call[c].result /\ call'[c].copies = call[c].copies
    BY <1>0, <2>1, GoesOn
  <2>3. ~IsOut(c)
    BY <2>1 DEF IsOut
  <2> QED
    BY <1>1, <2>1, <2>2, <2>3, NotReading, AloneStep
<1>4. CASE SendFails(c)
  <2>1. /\ Ends(c, "send") /\ call[c].pc = "sending"
        /\ UNCHANGED <<fixed, recent, expired, inbox, at, reader>>
    BY <1>4 DEF SendFails, history
  <2>2. /\ CallTyped' /\ \A d \in Callers \ {c} : call'[d] = call[d]
        /\ call'[c].pc = "done" /\ call'[c].result = "send" /\ call'[c].copies = call[c].copies
    BY <1>0, <2>1, EndsTo
  <2>3. ~IsOut(c) /\ ~IsOut(c)'
    BY <2>1, <2>2 DEF IsOut
  <2> QED
    BY <2>1, <2>2, <2>3, NotReading, AloneStep
<1>5. CASE save_recent_outbound(c)
  <2> DEFINE next == IF loop THEN "wait" ELSE "drive"
  <2>1. /\ Goes(c, [pc |-> next]) \/ Ends(c, "unacked")
        /\ call[c].pc = "saving" /\ recent' = recent \cup {c}
        /\ UNCHANGED <<fixed, expired, inbox, at, reader>>
    BY <1>5 DEF save_recent_outbound, Saved, history
  <2>2. next \in {"wait", "drive"}
    OBVIOUS
  <2> HIDE DEF next
  <2>3. /\ CallTyped' /\ \A d \in Callers \ {c} : call'[d] = call[d]
        /\ call'[c].pc \in {"wait", "drive", "done"} /\ call'[c].result \in {call[c].result, "unacked"}
        /\ call'[c].copies = call[c].copies
    BY <1>0, <2>1, <2>2, GoesOn, EndsTo
  <2>4. call[c].result # "send" /\ call'[c].result # "send"
    BY <1>1, <2>1, <2>3
  <2>5. IsOut(c) => IsOut(c)'
    BY <2>1, <2>3, <2>4 DEF IsOut
  <2> QED
    BY <2>1, <2>3, <2>4, <2>5, NotReading, AloneStep
<1>6. CASE WaitTimeout(c)
  <2>1. /\ Ends(c, "unacked") /\ call[c].pc = "wait"
        /\ UNCHANGED <<fixed, recent, expired, inbox, at, reader>>
    BY <1>6 DEF WaitTimeout, history
  <2>2. /\ CallTyped' /\ \A d \in Callers \ {c} : call'[d] = call[d]
        /\ call'[c].pc = "done" /\ call'[c].result = "unacked" /\ call'[c].copies = call[c].copies
    BY <1>0, <2>1, EndsTo
  <2>3. call[c].result # "send" /\ (IsOut(c) <=> IsOut(c)')
    BY <1>1, <2>1, <2>2 DEF IsOut
  <2> QED
    BY <1>2, <2>1, <2>2, <2>3, NotReading, AloneStep
<1>7. CASE DriveTimeout(c)
  <2>1. /\ Ends(c, "attribute") /\ call[c].pc = "drive" /\ at[c] = None /\ LetGo(c)
        /\ UNCHANGED <<fixed, recent, expired, inbox, at>>
    BY <1>7 DEF DriveTimeout, history
  <2>2. /\ CallTyped' /\ \A d \in Callers \ {c} : call'[d] = call[d]
        /\ call'[c].pc = "done" /\ call'[c].result = "attribute" /\ call'[c].copies = call[c].copies
    BY <1>0, <2>1, EndsTo
  <2>3. call[c].result # "send" /\ (IsOut(c) <=> IsOut(c)')
    BY <1>1, <2>1, <2>2 DEF IsOut
  <2>4. ~Busy(c)' /\ (reader' = reader \/ reader' = None)
    BY <2>1, DeliveryAssumption DEF LetGo, Busy
  <2> QED
    BY <1>2, <2>1, <2>2, <2>3, <2>4, AloneStep
<1>8. CASE Heard(c)
  <2> DEFINE told == IF call[c].ack = "ok" THEN "acked" ELSE "refused"
  <2>1. /\ Ends(c, told) /\ call[c].pc \in {"wait", "drive"}
        /\ UNCHANGED <<fixed, recent, expired, inbox, at, reader>>
    BY <1>8 DEF Heard, history
  <2>2. told # "send"
    OBVIOUS
  <2> HIDE DEF told
  <2>3. /\ CallTyped' /\ \A d \in Callers \ {c} : call'[d] = call[d]
        /\ call'[c].pc = "done" /\ call'[c].result # "send" /\ call'[c].copies = call[c].copies
    BY <1>0, <2>1, <2>2, EndsTo
  <2>4. call[c].result # "send" /\ (IsOut(c) <=> IsOut(c)')
    BY <1>1, <2>1, <2>3 DEF IsOut
  <2>5. Busy(c)' => ~loop
    BY <2>1 DEF ServedInv, WaitsReading, Busy
  <2>6. ServedInv'
    BY <1>2, <2>1, <2>3, <2>4, <2>5, CallerStep
  <2> QED
    BY <2>1, <2>6, NobodyStarts
<1>9. CASE Recv(c)
  <2>1. /\ Drives(c) /\ reader' = c
        /\ UNCHANGED <<fixed, recent, expired, inbox, at, call>>
    BY <1>9 DEF Recv, history
  <2>2. CallTyped'
    BY <1>0, <2>1 DEF CallTyped
  <2>3. \A d \in Callers : Busy(d)' => Busy(d) \/ Drives(d)
    BY <2>1 DEF Busy
  <2>4. \A d \in Callers : reader' = d => at'[d] = None
    BY <2>1 DEF Drives
  <2>5. Calm
    BY <2>1, <2>2, <2>3, <2>4 DEF Calm
  <2>6. InboxExpected'
    BY <2>1, InboxKept DEF ServedInv, IsOut
  <2> QED
    BY <2>1, <2>5, <2>6, CalmStep, NobodyStarts
<1>10. CASE RecvClash(c)
  <2>1. /\ Ends(c, "clash") /\ Drives(c) /\ reader # c
        /\ UNCHANGED <<fixed, recent, expired, inbox, at, reader>>
    BY <1>10 DEF RecvClash, history
  <2>2. /\ CallTyped' /\ \A d \in Callers \ {c} : call'[d] = call[d]
        /\ call'[c].pc = "done" /\ call'[c].result = "clash" /\ call'[c].copies = call[c].copies
    BY <1>0, <2>1, EndsTo
  <2>3. call[c].result # "send" /\ (IsOut(c) <=> IsOut(c)')
    BY <1>1, <2>1, <2>2 DEF IsOut, Drives
  <2>4. ~Busy(c)'
    BY <2>1 DEF Busy, Drives
  <2>5. IsOut(c)' => c \in recent' \cup expired
    BY <1>2, <2>1, <2>3 DEF Drives
  <2> QED
    BY <2>1, <2>2, <2>3, <2>4, <2>5, AloneStep
<1> QED
  BY <1>3, <1>4, <1>5, <1>6, <1>7, <1>8, <1>9, <1>10

LEMMA ServedCaller ==
  ASSUME ServedInv, NEW c \in Callers, Caller(c)
  PROVE  ServedInv' /\ RefusedRightly
<1>1. \/ \E send \in plan.sends : send_message(c, send)
      \/ \E listing : LookupAnswer(c, listing)
      \/ \E answer : SessionsAnswer(c, answer)
      \/ Committed(c) \/ QueryFails(c)
      \/ Sent(c) \/ SendFails(c) \/ save_recent_outbound(c) \/ WaitTimeout(c) \/ DriveTimeout(c)
      \/ Heard(c) \/ Recv(c) \/ RecvClash(c)
  BY DEF Caller
<1> QED
  BY <1>1, ServedMaking, ServedSending

-----------------------------------------------------------------------------
\* A reader goes on with what it dispatches.
LEMMA OnwardStep ==
  ASSUME ServedInv, RetryInv, NEW t \in Readers, at[t] # None, NEW v, at' = [at EXCEPT ![t] = v],
         UNCHANGED <<fixed, call, reader, inbox, recent, expired>>
  PROVE  ServedInv' /\ RefusedRightly
<1>1. \A u \in Readers : at'[u] = IF u = t THEN v ELSE at[u]
  BY DEF RetryInv, Typed
<1>2. CallTyped'
  BY DEF ServedInv, CallTyped
<1>3. \A c \in Callers : Busy(c)' => Busy(c)
  BY <1>1 DEF Busy, Readers
<1>4. \A c \in Callers : reader' = c => at'[c] = None
  BY <1>1 DEF ServedInv, OneStep, Readers
<1>5. Calm
  BY <1>2, <1>3, <1>4 DEF Calm
<1>6. InboxExpected'
  BY InboxKept DEF ServedInv, IsOut
<1> QED
  BY <1>1, <1>5, <1>6, CalmStep, NobodyStarts

\* An ack that is told changes nothing else of a call.
LEMMA AckTo ==
  ASSUME CallTyped, NEW d, NEW x, call' = [call EXCEPT ![d].ack = x]
  PROVE  /\ CallTyped'
         /\ \A c \in Callers : call'[c].pc = call[c].pc /\ call'[c].result = call[c].result /\ call'[c].copies = call[c].copies
<1>1. \A c \in Callers : call'[c] = IF c = d THEN [call[c] EXCEPT !.ack = x] ELSE call[c]
  BY DEF CallTyped
<1>2. \A c \in Callers : call[c] = [f \in Fields |-> call[c][f]]
  BY DEF CallTyped
<1>3. \A c \in Callers : call'[c] = [f \in Fields |-> IF c = d /\ f = "ack" THEN x ELSE call[c][f]]
  BY <1>1, <1>2
<1>4. ASSUME NEW c \in Callers PROVE call'[c] = [f \in Fields |-> call'[c][f]]
  <2> DEFINE g == [f \in Fields |-> IF c = d /\ f = "ack" THEN x ELSE call[c][f]]
  <2>1. call'[c] = g
    BY <1>3
  <2>2. g = [f \in Fields |-> g[f]]
    OBVIOUS
  <2> HIDE DEF g
  <2> QED
    BY <2>1, <2>2
<1>5. \A c \in Callers : /\ call'[c]["pc"] = call[c]["pc"] /\ call'[c]["result"] = call[c]["result"]
                         /\ call'[c]["copies"] = call[c]["copies"]
  BY <1>3 DEF Fields
<1>6. call' = [c \in Callers |-> call'[c]]
  BY DEF CallTyped
<1> QED
  BY <1>4, <1>5, <1>6 DEF CallTyped

\* What a reader takes from the inbox.
LEMMA ReceiveStep ==
  ASSUME ServedInv, RetryInv, NEW t \in Readers, Receives(t), inbox # << >>, inbox' = Tail(inbox),
         UNCHANGED <<fixed, expired>>, IF t = Loop THEN UNCHANGED reader ELSE reader' = None,
         recent \subseteq recent' \cup expired,
         CallTyped', \A c \in Callers : /\ call'[c].pc = call[c].pc /\ call'[c].result = call[c].result
                                        /\ call'[c].copies = call[c].copies,
         \A u \in Readers \ {t} : at'[u] = at[u]
  PROVE  ServedInv'
<1>1. Loop \notin Callers /\ None \notin Callers
  BY DeliveryAssumption
<1>2. \A c \in Callers : Busy(c)' => Busy(c)
  BY <1>1 DEF Busy, Receives, Readers
<1>3. \A c \in Callers : reader' = c => at'[c] = None
  BY <1>1 DEF ServedInv, OneStep, Readers
<1>4. Calm
  BY <1>2, <1>3 DEF Calm
<1>5. InboxExpected'
  BY InboxKept DEF ServedInv, IsOut
<1> QED
  BY <1>4, <1>5, CalmStep

\* A request that is refused as unavailable found nothing in the store.
LEMMA RetryRefusedRightly ==
  ASSUME ServedInv, RetryInv, NEW t \in Readers, inbox # << >>, Head(inbox).tag = "receipt",
         R!parse_retry_request(Head(inbox)) # None,
         DispatchRetry(t, Head(inbox), R!parse_retry_request(Head(inbox)))
  PROVE  RefusedRightly /\ (\A u \in Readers \ {t} : at'[u] = at[u])
<1> DEFINE n == Head(inbox)
           request == R!parse_retry_request(n)
           c == n.id
<1>1. Expected(n)
  BY HeadExpected DEF ServedInv
<1>2. c \in Callers /\ IsOut(c) /\ n.more = << >> /\ None \notin Callers
  BY <1>1, DeliveryAssumption DEF Expected
<1>3. request.id = c
  <2>1. R!receipt_message_ids(n) = <<c>>
    <3>1. <<c>> \in Seq({c}) /\ <<c>> \o << >> = <<c>>
      BY ConcatEmptySeq
    <3>2. R!receipt_message_ids(n) = <<c>> \o << >>
      BY <1>2 DEF R!receipt_message_ids
    <3> QED
      BY <3>1, <3>2
  <2>2. request = [remote_jid |-> R!RemoteJid(n), id |-> R!receipt_message_ids(n)[1], from_me |-> R!FromMe(n),
                   participant |-> R!Sender(n), keys |-> n.keys]
    BY DEF R!parse_retry_request
  <2> QED
    BY <2>1, <2>2
<1>4. DispatchRetry(t, n, request)
  OBVIOUS
<1> HIDE DEF request
<1> DEFINE live == Found(recent, expired, request.id)
           refuses == ~request.from_me \/ counts[<<request.id, request.participant>>] + 1 > MaxRetry
           reason == IF ~request.from_me THEN "not_from_me"
                     ELSE IF refuses THEN "max_retries_exceeded"
                     ELSE IF live THEN "resent" ELSE "message_unavailable"
           v == [node |-> n, request |-> request, reason |-> reason,
                 step |-> IF reason = "resent" THEN "resend" ELSE "report"]
<1>5. at' = [at EXCEPT ![t] = v]
  BY <1>4 DEF DispatchRetry
<1>6. reason = "message_unavailable" => ~live
  OBVIOUS
<1>7. v.request.id = c /\ v.reason = reason
  BY <1>3
<1> HIDE DEF v
<1>8. \A u \in Readers : at'[u] = IF u = t THEN v ELSE at[u]
  BY <1>5 DEF RetryInv, Typed
<1>9. reason = "message_unavailable" => c \in expired \/ call[c].pc = "saving" \/ (call[c].pc = "dead" /\ c \notin recent)
  BY <1>2, <1>3, <1>6 DEF Found, ServedInv, OutKept
<1> HIDE DEF reason
<1>10. RefusedRightly
  <2> SUFFICES ASSUME NEW u \in Readers, at[u] = None, at'[u] # None,
                      at'[u].reason = "message_unavailable"
               PROVE  LET d == at'[u].request.id
                      IN d \in expired \/ call[d].pc = "saving" \/ (call[d].pc = "dead" /\ d \notin recent)
    BY DEF RefusedRightly
  <2>1. at'[u] = v
    BY <1>8
  <2> QED
    BY <1>7, <1>9, <2>1
<1> QED
  BY <1>8, <1>10

LEMMA ServedReceive ==
  ASSUME ServedInv, RetryInv, NEW t \in Readers, Receive(t)
  PROVE  ServedInv' /\ RefusedRightly
<1> DEFINE n == Head(inbox)
<1>1. /\ Receives(t) /\ inbox # << >> /\ inbox' = Tail(inbox) /\ UNCHANGED <<fixed, expired>>
      /\ IF t = Loop THEN UNCHANGED reader ELSE reader' = None
  BY DEF Receive
<1>2. CallTyped
  BY DEF ServedInv
<1>3. call' = call => CallTyped' /\ \A c \in Callers : /\ call'[c].pc = call[c].pc /\ call'[c].result = call[c].result
                                                      /\ call'[c].copies = call[c].copies
  BY <1>2 DEF CallTyped
<1>4. CASE DispatchAck(t, n)
  <2>1. at' = at /\ recent' = recent
    BY <1>4 DEF DispatchAck
  <2>2. CallTyped' /\ \A c \in Callers : /\ call'[c].pc = call[c].pc /\ call'[c].result = call[c].result
                                         /\ call'[c].copies = call[c].copies
    <3>1. call' = call \/ call' = [call EXCEPT ![n.id].ack = n.error]
      BY <1>4 DEF DispatchAck
    <3> QED
      BY <1>2, <1>3, <3>1, AckTo
  <2>3. ServedInv'
    BY <1>1, <2>1, <2>2, ReceiveStep
  <2> QED
    BY <2>1, <2>3, NobodyStarts
<1>5. CASE DispatchMessage(t, n)
  <2> DEFINE v == [node |-> n, step |-> IF n.readable /\ n.author \notin opened THEN "ack" ELSE "ack500"]
  <2>1. at' = [at EXCEPT ![t] = v] /\ recent' = recent /\ call' = call
    BY <1>5 DEF DispatchMessage
  <2> DEFINE w == IF n.readable /\ n.author \notin opened THEN "ack" ELSE "ack500"
  <2>2. \A u \in Readers \ {t} : at'[u] = at[u]
    BY <2>1 DEF RetryInv, Typed
  <2>3. ServedInv'
    BY <1>1, <1>3, <2>1, <2>2, ReceiveStep
  <2>4. at'[t].step # "report"
    <3>1. at'[t] = v
      BY <2>1 DEF RetryInv, Typed
    <3>2. v.step # "report"
      OBVIOUS
    <3> QED
      BY <3>1, <3>2
  <2>5. RefusedRightly
    BY <2>2, <2>4 DEF RefusedRightly
  <2> QED
    BY <2>3, <2>5
<1>6. CASE DispatchReceipt(n)
  <2>1. at' = at /\ recent' = recent /\ call' = call
    BY <1>6 DEF DispatchReceipt
  <2>2. ServedInv'
    BY <1>1, <1>3, <2>1, ReceiveStep
  <2> QED
    BY <2>1, <2>2, NobodyStarts
<1>7. CASE n.tag = "receipt" /\ R!parse_retry_request(n) # None /\ DispatchRetry(t, n, R!parse_retry_request(n))
  <2>1. RefusedRightly /\ \A u \in Readers \ {t} : at'[u] = at[u]
    BY <1>1, <1>7, RetryRefusedRightly
  <2>2. call' = call /\ recent \subseteq recent' \cup expired
    BY <1>7 DEF DispatchRetry, AfterLoad
  <2>3. ServedInv'
    BY <1>1, <1>3, <2>1, <2>2, ReceiveStep
  <2> QED
    BY <2>1, <2>3
<1> QED
  BY <1>4, <1>5, <1>6, <1>7 DEF Receive

LEMMA ServedDispatch ==
  ASSUME ServedInv, RetryInv, NEW t \in Readers, Dispatch(t)
  PROVE  ServedInv' /\ RefusedRightly
<1>1. CASE Receive(t)
  BY <1>1, ServedReceive
<1>2. CASE resend_message_for_retry(t)
  BY <1>2, OnwardStep DEF resend_message_for_retry, Step, Then
<1>3. CASE ResendFails(t)
  <2> DEFINE v == [at[t] EXCEPT !.step = "report", !.reason = "resend_error"]
  <2>1. /\ at[t] # None /\ at' = [at EXCEPT ![t] = v]
        /\ UNCHANGED <<fixed, call, reader, inbox, recent, expired>>
    BY <1>3 DEF ResendFails, Step, history
  <2> HIDE DEF v
  <2> QED
    BY <2>1, OnwardStep
<1>4. CASE ReportRetry(t)
  BY <1>4, OnwardStep DEF ReportRetry, Step, Dispatched, history
<1>5. ASSUME NEW ok \in BOOLEAN, send_ack(t, ok)
      PROVE  ServedInv' /\ RefusedRightly
  BY <1>5, OnwardStep DEF send_ack, Step, Then
<1>6. CASE DecryptError(t)
  BY <1>6, OnwardStep DEF DecryptError, Step, Dispatched, history
<1>7. CASE Upsert(t)
  BY <1>7, OnwardStep DEF Upsert, Step, Dispatched
<1>8. CASE UpsertRaises(t)
  <2>1. /\ at[t] # None /\ at' = [at EXCEPT ![t] = None]
        /\ UNCHANGED <<fixed, reader, inbox, recent, expired>>
        /\ IF t = Loop THEN UNCHANGED call ELSE Ends(t, "handler")
    BY <1>8 DEF UpsertRaises, Step, Dispatched
  <2>2. CASE t = Loop
    BY <2>1, <2>2, OnwardStep
  <2>3. CASE t # Loop
    <3>1. t \in Callers /\ None \notin Callers
      BY <2>3, DeliveryAssumption DEF Readers
    <3>2. ~loop /\ call[t].pc \in {"lookup", "sessions", "drive", "done"} /\ call[t].result # "send"
      BY <2>1, <3>1 DEF ServedInv, WaitsReading, Busy
    <3>3. /\ CallTyped' /\ \A d \in Callers \ {t} : call'[d] = call[d]
          /\ call'[t].pc = "done" /\ call'[t].result = "handler" /\ call'[t].copies = call[t].copies
      BY <2>1, <2>3, <3>1, EndsTo DEF ServedInv
    <3>4. (IsOut(t) <=> IsOut(t)') /\ (IsOut(t) => t \in recent \cup expired)
      BY <3>1, <3>2, <3>3 DEF IsOut, ServedInv, OutKept
    <3>5. \A u \in Readers : at'[u] # None => at'[u] = at[u]
      BY <2>1 DEF RetryInv, Typed
    <3>6. ServedInv'
      BY <2>1, <3>1, <3>2, <3>3, <3>4, <3>5, CallerStep DEF Readers
    <3> QED
      BY <3>5, <3>6, NobodyStarts
  <2> QED
    BY <2>2, <2>3
<1> QED
  BY <1>1, <1>2, <1>3, <1>4, <1>5, <1>6, <1>7, <1>8 DEF Dispatch

-----------------------------------------------------------------------------
\* The server sends: receipts for what is out.
LEMMA ServerStep ==
  ASSUME ServedInv, NEW n, Expected(n), OnWire(n), UNCHANGED <<fixed, client, expired>>
  PROVE  ServedInv' /\ RefusedRightly
<1>1. CallTyped' /\ at' = at /\ reader' = reader
  BY DEF ServedInv, CallTyped, client
<1>2. Calm
  BY <1>1 DEF Calm, client, Busy, ServedInv, OneStep
<1>3. InboxExpected'
  BY InboxGrows DEF OnWire, ServedInv, client
<1> QED
  BY <1>1, <1>2, <1>3, CalmStep, NobodyStarts

\* Time takes nothing from the store that it is not over for.
LEMMA StoreStep ==
  ASSUME ServedInv, UNCHANGED <<fixed, call, reader, at, inbox>>,
         recent \cup expired \subseteq recent' \cup expired'
  PROVE  ServedInv' /\ RefusedRightly
<1>1. CallTyped'
  BY DEF ServedInv, CallTyped
<1>2. Calm
  BY <1>1 DEF Calm, Busy, ServedInv, OneStep
<1>3. InboxExpected'
  BY InboxKept DEF ServedInv, IsOut
<1> QED
  BY <1>2, <1>3, CalmStep, NobodyStarts

LEMMA ServedCrash ==
  ASSUME ServedInv, NEW store, Crash(store)
  PROVE  ServedInv' /\ RefusedRightly
<1> DEFINE over(c) == call[c].pc \in {"idle", "done"}
<1>1. /\ call' = [c \in Callers |-> IF over(c) THEN call[c] ELSE [call[c] EXCEPT !.pc = "dead"]]
      /\ reader' = None /\ at' = [t \in Readers |-> None] /\ inbox' = << >> /\ UNCHANGED fixed
      /\ recent \cup expired \subseteq recent' \cup expired'
  BY DEF Crash
<1>2. None \notin Callers /\ plan' \in Plans
  BY <1>1, DeliveryAssumption DEF ServedInv, fixed
<1>3. ASSUME NEW c \in Callers
      PROVE  /\ call'[c] = [f \in Fields |-> call'[c][f]]
             /\ call'[c].pc = IF over(c) THEN call[c].pc ELSE "dead"
             /\ call'[c].result = call[c].result /\ call'[c].copies = call[c].copies
  <2>1. call[c] = [f \in Fields |-> call[c][f]]
    BY DEF ServedInv, CallTyped
  <2>2. CASE over(c)
    BY <1>1, <2>1, <2>2
  <2>3. CASE ~over(c)
    <3> DEFINE g == [call[c] EXCEPT !.pc = "dead"]
    <3>1. call'[c] = g
      BY <1>1, <2>3
    <3>2. /\ g = [f \in Fields |-> g[f]] /\ g["pc"] = "dead"
          /\ g["result"] = call[c]["result"] /\ g["copies"] = call[c]["copies"]
      BY <2>1 DEF Fields
    <3> HIDE DEF g
    <3> QED
      BY <2>3, <3>1, <3>2
  <2> QED
    BY <2>2, <2>3
<1>4. CallTyped'
  BY <1>1, <1>3 DEF CallTyped
<1> HIDE DEF over
<1>5. Unbuilt' /\ FailedEnded'
  BY <1>3 DEF ServedInv, Unbuilt, FailedEnded, over
<1>6. OutKept'
  BY <1>1, <1>3 DEF ServedInv, Unbuilt, OutKept, IsOut, over
<1>7. WaitsReading' /\ OneStep'
  BY <1>1, <1>2 DEF WaitsReading, OneStep, Busy, Readers
<1>8. InboxExpected'
  <2>1. inbox' \in Seq({})
    BY <1>1
  <2> QED
    BY <2>1 DEF InboxExpected
<1>9. RefusedRightly
  BY <1>1, NobodyStarts
<1> QED
  BY <1>2, <1>4, <1>5, <1>6, <1>7, <1>8, <1>9 DEF ServedInv

LEMMA ServedEnvironment ==
  ASSUME ServedInv, Environment
  PROVE  ServedInv' /\ RefusedRightly
<1>1. ASSUME NEW c \in Callers, NEW kind, ServerAcks(c, kind) PROVE ServedInv' /\ RefusedRightly
  <2> DEFINE n == [tag |-> "ack", id |-> c, error |-> kind]
  <2>1. OnWire(n) /\ UNCHANGED <<fixed, client, expired>>
    BY <1>1 DEF ServerAcks
  <2>2. Expected(n)
    BY DEF Expected
  <2> HIDE DEF n
  <2> QED
    BY <2>1, <2>2, ServerStep
<1>2. ASSUME NEW c \in Callers, NEW copy, NEW keys, NEW ours, ServerRetries(c, copy, keys, ours)
      PROVE  ServedInv' /\ RefusedRightly
  <2> DEFINE r == ReceiptOf(c, copy, "retry", keys)
             n == [r EXCEPT !.recipient = IF ours THEN @ ELSE MeId]
  <2>1. OnWire(n) /\ IsOut(c) /\ UNCHANGED <<fixed, client, expired>>
    BY <1>2 DEF ServerRetries
  <2>2. n["id"] = c /\ n["more"] = << >>
    BY DEF ReceiptOf
  <2>3. Expected(n)
    BY <2>1, <2>2 DEF Expected
  <2> HIDE DEF n
  <2> QED
    BY <2>1, <2>3, ServerStep
<1>3. ASSUME NEW c \in Callers, NEW copy, NEW type, ServerReceipts(c, copy, type)
      PROVE  ServedInv' /\ RefusedRightly
  <2> DEFINE n == ReceiptOf(c, copy, type, None)
  <2>1. OnWire(n) /\ IsOut(c) /\ UNCHANGED <<fixed, client, expired>>
    BY <1>3 DEF ServerReceipts
  <2>2. n["id"] = c /\ n["more"] = << >>
    BY DEF ReceiptOf
  <2>3. Expected(n)
    BY <2>1, <2>2 DEF Expected
  <2> HIDE DEF n
  <2> QED
    BY <2>1, <2>3, ServerStep
<1>4. ASSUME NEW i, NEW readable, ServerDelivers(i, readable) PROVE ServedInv' /\ RefusedRightly
  <2> DEFINE n == MessageOf(i, readable)
  <2>1. OnWire(n) /\ UNCHANGED <<fixed, client, expired>>
    BY <1>4 DEF ServerDelivers
  <2>2. Expected(n)
    BY DEF Expected, MessageOf
  <2> HIDE DEF n
  <2> QED
    BY <2>1, <2>2, ServerStep
<1>5. ASSUME NEW c \in Callers, Expire(c) PROVE ServedInv' /\ RefusedRightly
  BY <1>5, StoreStep DEF Expire, client
<1>6. CASE Prune
  BY <1>6, StoreStep DEF Prune, Pruned, history
<1>7. ASSUME NEW store, Crash(store) PROVE ServedInv' /\ RefusedRightly
  BY <1>7, ServedCrash
<1> QED
  BY <1>1, <1>2, <1>3, <1>4, <1>5, <1>6, <1>7 DEF Environment

-----------------------------------------------------------------------------
LEMMA ServedInvInit == Init => ServedInv
<1> SUFFICES ASSUME Init PROVE ServedInv
  OBVIOUS
<1>1. plan \in Plans /\ reader = None /\ at = [t \in Readers |-> None] /\ inbox = << >>
      /\ call = [c \in Callers |-> Idle]
  BY DEF Init
<1>2. \A c \in Callers : call[c] = Idle
  BY <1>1
<1>3. /\ Idle = [f \in Fields |-> Idle[f]]
      /\ Idle.pc = "idle" /\ Idle.copies = << >> /\ Idle.result = None
  BY DEF Idle, Fields
<1> HIDE DEF Idle
<1>4. CallTyped
  BY <1>1, <1>2, <1>3 DEF CallTyped
<1>5. None \notin Callers /\ None # "send"
  BY DeliveryAssumption DEF Results
<1>6. Unbuilt /\ FailedEnded /\ OutKept
  BY <1>2, <1>3, <1>5 DEF Unbuilt, FailedEnded, OutKept, IsOut
<1>7. WaitsReading /\ OneStep
  BY <1>1, <1>5 DEF WaitsReading, OneStep, Busy, Readers
<1>8. InboxExpected
  <2>1. inbox \in Seq({})
    BY <1>1
  <2> QED
    BY <2>1 DEF InboxExpected
<1> QED
  BY <1>1, <1>4, <1>6, <1>7, <1>8 DEF ServedInv

\* Every step.
LEMMA ServedNext == ServedInv /\ RetryInv /\ [Next]_vars => ServedInv' /\ [RefusedRightly]_vars
<1> SUFFICES ASSUME ServedInv, RetryInv, [Next]_vars PROVE ServedInv' /\ [RefusedRightly]_vars
  OBVIOUS
<1>1. CASE UNCHANGED vars
  BY <1>1, StoreStep DEF vars, client, history
<1>2. ASSUME NEW c \in Callers, Caller(c) PROVE ServedInv' /\ RefusedRightly
  BY <1>2, ServedCaller
<1>3. ASSUME NEW t \in Readers, Dispatch(t) PROVE ServedInv' /\ RefusedRightly
  BY <1>3, ServedDispatch
<1>4. CASE Environment
  BY <1>4, ServedEnvironment
<1> QED
  BY <1>1, <1>2, <1>3, <1>4 DEF Next

\* For any calls, plans, readers and crashes.
THEOREM ServedInvariant == Spec => []ServedInv
  BY ServedNext, ServedInvInit, RetryInvariant, PTL DEF Spec

\* A device that asks for a message of ours again is told that there is none only when its
\* time in the replay store is over, or its sender has not come to save it
\* (relay_message's save_recent_outbound, handle_retry_receipt, load_recent_outbound).
THEOREM RetriesServed == Spec => RetryServed
  BY ServedNext, ServedInvariant, RetryInvariant, PTL DEF Spec, RetryServed

-----------------------------------------------------------------------------
(* What a caller is told of its message's ack.                               *)

Told(c) == heard[c] = "waiting"

\* An ack is kept in the call it was told to, which waited then and has not gone back.
AcksKept ==
  \A c \in Callers :
    /\ Told(c) <=> call[c].ack # None
    /\ Told(c) => c \in answered /\ call[c].pc \in {"wait", "drive", "done", "dead"}
    /\ c \notin answered => heard[c] = "no"
    /\ call[c].pc # "done" => call[c].result = None

\* The server acks a message once.
Acked(k) == k \in DOMAIN inbox /\ inbox[k].tag = "ack"
AcksOnce ==
  \A k \in DOMAIN inbox : Acked(k) =>
    /\ inbox[k].id \in Callers /\ inbox[k].id \in answered /\ heard[inbox[k].id] = "no"
    /\ inbox[k].error \in AckKinds
    /\ \A j \in DOMAIN inbox : Acked(j) /\ inbox[j].id = inbox[k].id => j = k

HeardTyped == heard = [c \in Callers |-> heard[c]] 
AckInv == HeardTyped /\ AcksKept /\ AckTold /\ AcksOnce

\* What becomes of a call that goes a step: the fields that are not set are kept.
LEMMA BuildKeeps ==
  ASSUME CallTyped, NEW c \in Callers, NEW to, DOMAIN to = Fields, NEW table, Build(c, to, table)
  PROVE  /\ CallTyped' /\ \A d \in Callers \ {c} : call'[d] = call[d]
         /\ \A f \in Fields \ {"pc", "result", "copies"} : call'[c][f] = to[f]
         /\ \/ call'[c].pc = "done" /\ call'[c].result \in {"content", "sessions"}
            \/ call'[c].pc = "sending" /\ call'[c].result = to.result
<1> DEFINE node == build_proto_message_node(table, to.chat, to.content, to.direct, to.own, to.others)
           why == node.error
           ended == [to EXCEPT !.pc = "done", !.result = why]
           built == [to EXCEPT !.pc = "sending", !.copies = node.copies]
<1>1. CASE node.error # None
  <2>1. Goes(c, ended)
    BY <1>1 DEF Build
  <2>2. /\ DOMAIN ended = Fields /\ ended["pc"] = "done" /\ ended["result"] = why
        /\ \A f \in Fields \ {"pc", "result", "copies"} : ended[f] = to[f]
    BY DEF Fields
  <2>3. why \in {"content", "sessions"}
    BY <1>1, BuildError
  <2> HIDE DEF ended, why
  <2>4. \A f \in Fields : call'[c][f] = ended[f]
    BY <2>1, <2>2, GoesTo
  <2> QED
    BY <2>1, <2>2, <2>3, <2>4, GoesTo DEF Fields
<1>2. CASE node.error = None
  <2>1. Goes(c, built)
    BY <1>2 DEF Build
  <2>2. /\ DOMAIN built = Fields /\ built["pc"] = "sending" /\ built["result"] = to["result"]
        /\ \A f \in Fields \ {"pc", "result", "copies"} : built[f] = to[f]
    BY DEF Fields
  <2> HIDE DEF built
  <2>4. \A f \in Fields : call'[c][f] = built[f]
    BY <2>1, <2>2, GoesTo
  <2> QED
    BY <2>1, <2>2, <2>4, GoesTo DEF Fields
<1> QED
  BY <1>1, <1>2

\* Nor are those of a call that asks for sessions.
LEMMA AssertKeeps ==
  ASSUME CallTyped, NEW c \in Callers, NEW to, DOMAIN to = Fields, NEW jids, NEW force,
         AssertSessions(c, to, jids, force)
  PROVE  /\ CallTyped' /\ \A d \in Callers \ {c} : call'[d] = call[d]
         /\ \A f \in Fields \ {"pc", "result", "copies", "work"} : call'[c][f] = to[f]
         /\ \/ call'[c].pc = "done" /\ call'[c].result \in {"content", "sessions"}
            \/ call'[c].pc \in {"sending", "sessions"} /\ call'[c].result = to.result
<1>1. CASE Build(c, to, sessions)
  BY <1>1, BuildKeeps
<1>2. CASE Goes(c, [to EXCEPT !.pc = "sessions", !.work = sessions])
  <2> DEFINE asked == [to EXCEPT !.pc = "sessions", !.work = sessions]
  <2>1. /\ DOMAIN asked = Fields /\ asked["pc"] = "sessions" /\ asked["result"] = to["result"]
        /\ \A f \in Fields \ {"pc", "result", "copies", "work"} : asked[f] = to[f]
    BY DEF Fields
  <2>2. Goes(c, asked)
    BY <1>2
  <2> HIDE DEF asked
  <2>3. \A f \in Fields : call'[c][f] = asked[f]
    BY <2>1, <2>2, GoesTo
  <2> QED
    BY <2>1, <2>2, <2>3, GoesTo DEF Fields
<1> QED
  BY <1>1, <1>2 DEF AssertSessions

\* An end keeps all but the label and the result.
LEMMA EndsKeeps ==
  ASSUME CallTyped, NEW c \in Callers, NEW why, Ends(c, why)
  PROVE  /\ CallTyped' /\ \A d \in Callers \ {c} : call'[d] = call[d]
         /\ call'[c].pc = "done" /\ call'[c].result = why
         /\ \A f \in Fields \ {"pc", "result"} : call'[c][f] = call[c][f]
<1> DEFINE fields == [pc |-> "done", result |-> why]
<1>1. Goes(c, fields)
  BY DEF Ends
<1>2. DOMAIN fields = {"pc", "result"} /\ fields["pc"] = "done" /\ fields["result"] = why
  OBVIOUS
<1> HIDE DEF fields
<1> QED
  BY <1>1, <1>2, GoesTo DEF Fields

\* A step that sets the label keeps the rest.
LEMMA GoesOnKeeps ==
  ASSUME CallTyped, NEW c \in Callers, NEW p, Goes(c, [pc |-> p])
  PROVE  /\ CallTyped' /\ \A d \in Callers \ {c} : call'[d] = call[d]
         /\ call'[c].pc = p
         /\ \A f \in Fields \ {"pc"} : call'[c][f] = call[c][f]
<1> DEFINE fields == [pc |-> p]
<1>1. DOMAIN fields = {"pc"} /\ fields["pc"] = p
  OBVIOUS
<1>2. Goes(c, fields)
  OBVIOUS
<1> HIDE DEF fields
<1> QED
  BY <1>1, <1>2, GoesTo DEF Fields

\* A step of a call by itself: what it is told and how it ends, by where it is.
LEMMA CallerTells ==
  ASSUME ServedInv, AckInv, NEW c \in Callers, Caller(c)
  PROVE  /\ \A d \in Callers \ {c} : call'[d] = call[d]
         /\ call'[c].ack = call[c].ack
         /\ UNCHANGED <<heard, answered, inbox>>
         /\ \/ call'[c].pc = call[c].pc /\ call'[c].result = call[c].result
            \/ /\ call[c].pc \in {"idle", "lookup", "sessions", "committed", "sending", "saving"}
               /\ \/ /\ call'[c].pc \in {"lookup", "sessions", "committed", "sending", "saving", "wait", "drive"}
                     /\ call'[c].result = None
                  \/ call'[c].pc = "done" /\ call'[c].result \notin {"acked", "refused"}
            \/ /\ call[c].pc \in {"lookup", "sessions", "wait", "drive"} /\ call[c].ack = None
               /\ call'[c].pc = "done" /\ call'[c].result \notin {"acked", "refused"}
            \/ /\ call[c].pc \in {"wait", "drive"} /\ call[c].ack # None
               /\ call'[c].pc = "done"
               /\ call'[c].result = IF call[c].ack = "ok" THEN "acked" ELSE "refused"
<1>0. CallTyped /\ plan \in Plans
  BY DEF ServedInv
<1>r. call[c].pc # "done" => call[c].result = None
  BY DEF AckInv, AcksKept
<1>n. None \notin Results
  BY DeliveryAssumption
<1>f. DOMAIN call[c] = Fields /\ \A f \in Fields : f \in DOMAIN call[c]
  BY <1>0 DEF CallTyped
<1> DEFINE goal ==
      /\ \A d \in Callers \ {c} : call'[d] = call[d]
      /\ call'[c].ack = call[c].ack
      /\ UNCHANGED <<heard, answered, inbox>>
      /\ \/ call'[c].pc = call[c].pc /\ call'[c].result = call[c].result
         \/ /\ call[c].pc \in {"idle", "lookup", "sessions", "committed", "sending", "saving"}
            /\ \/ /\ call'[c].pc \in {"lookup", "sessions", "committed", "sending", "saving", "wait", "drive"}
                  /\ call'[c].result = None
               \/ call'[c].pc = "done" /\ call'[c].result \notin {"acked", "refused"}
         \/ /\ call[c].pc \in {"lookup", "sessions", "wait", "drive"} /\ call[c].ack = None
            /\ call'[c].pc = "done" /\ call'[c].result \notin {"acked", "refused"}
         \/ /\ call[c].pc \in {"wait", "drive"} /\ call[c].ack # None
            /\ call'[c].pc = "done"
            /\ call'[c].result = IF call[c].ack = "ok" THEN "acked" ELSE "refused"
<1>1. ASSUME NEW send \in plan.sends, send_message(c, send) PROVE goal
  <2> DEFINE to == With(send, Idle)
             first == <<jid_encode(send.chat.user, send.chat.server, 0, None)>>
             looks == [to EXCEPT !.pc = "lookup"]
             one == [to EXCEPT !.others = first]
  <2>1. DOMAIN send = {"chat", "content", "direct", "wait"}
    BY <1>0, DeliveryAssumption DEF ServedInv
  <2>2. /\ DOMAIN to = Fields /\ to["ack"] = None /\ to["result"] = None
    BY <2>1 DEF With, Idle, Fields
  <2> HIDE DEF to
  <2>5. DOMAIN one = Fields /\ one["ack"] = None /\ one["result"] = None
    BY <2>2 DEF Fields
  <2>6. DOMAIN looks = Fields /\ looks["pc"] = "lookup" /\ looks["ack"] = None /\ looks["result"] = None
    BY <2>2 DEF Fields
  <2> HIDE DEF one, looks
  <2>7. \/ Goes(c, looks) \/ Build(c, to, sessions) \/ AssertSessions(c, one, first, FALSE)
    BY <1>1 DEF send_message, to, one, looks
  <2> HIDE DEF first
  <2>8. /\ \A d \in Callers \ {c} : call'[d] = call[d]
        /\ call'[c].ack = None
        /\ \/ call'[c].pc \in {"lookup", "sessions", "sending"} /\ call'[c].result = None
           \/ call'[c].pc = "done" /\ call'[c].result \in {"content", "sessions"}
    <3>1. CASE Goes(c, looks)
      BY <1>0, <3>1, <2>6, GoesTo DEF Fields
    <3>2. CASE Build(c, to, sessions)
      BY <1>0, <3>2, <2>2, BuildKeeps DEF Fields
    <3>3. CASE AssertSessions(c, one, first, FALSE)
      <4>1. /\ CallTyped' /\ \A d \in Callers \ {c} : call'[d] = call[d]
            /\ \A f \in Fields \ {"pc", "result", "copies", "work"} : call'[c][f] = one[f]
            /\ \/ call'[c].pc = "done" /\ call'[c].result \in {"content", "sessions"}
               \/ call'[c].pc \in {"sending", "sessions"} /\ call'[c].result = one.result
        BY <1>0, <3>3, <2>5, AssertKeeps
      <4> QED
        BY <4>1, <2>5 DEF Fields
    <3> QED
      BY <2>7, <3>1, <3>2, <3>3
  <2>9. /\ call[c].pc = "idle" /\ UNCHANGED <<heard, answered, inbox>>
    BY <1>1 DEF send_message, history
  <2>10. call[c].ack = None
    BY <2>9 DEF AckInv, AcksKept
  <2> QED
    BY <2>8, <2>9, <2>10
<1>2. ASSUME NEW listing, LookupAnswer(c, listing) PROVE goal
  <2> DEFINE split == Targets(call[c].chat, Listed(call[c].chat, listing))
             own == split.own
             others == split.others
             to == [call[c] EXCEPT !.own = own, !.others = others]
  <2>1. AssertSessions(c, to, own \o others, FALSE)
    BY <1>2 DEF LookupAnswer
  <2>2. call[c].pc = "lookup" /\ UNCHANGED <<heard, answered, inbox>>
    BY <1>2 DEF LookupAnswer, history
  <2> HIDE DEF split
  <2> HIDE DEF own, others
  <2>5. DOMAIN to = Fields /\ to["ack"] = call[c]["ack"] /\ to["result"] = call[c]["result"]
    BY <1>f DEF Fields
  <2> HIDE DEF to
  <2>6. /\ CallTyped' /\ \A d \in Callers \ {c} : call'[d] = call[d]
        /\ \A f \in Fields \ {"pc", "result", "copies", "work"} : call'[c][f] = to[f]
        /\ \/ call'[c].pc = "done" /\ call'[c].result \in {"content", "sessions"}
           \/ call'[c].pc \in {"sending", "sessions"} /\ call'[c].result = to.result
    BY <1>0, <2>1, <2>5, AssertKeeps
  <2> QED
    BY <1>r, <2>2, <2>5, <2>6 DEF Fields
<1>3. ASSUME NEW answer, SessionsAnswer(c, answer) PROVE goal
  <2>1. /\ Ends(c, "query") \/ Goes(c, [pc |-> "committed"])
        /\ call[c].pc = "sessions" /\ UNCHANGED <<heard, answered, inbox>>
    BY <1>3 DEF SessionsAnswer
  <2> QED
    BY <1>0, <1>r, <2>1, EndsKeeps, GoesOnKeeps DEF Fields
<1>4. CASE Committed(c)
  <2>1. /\ Build(c, call[c], sessions) /\ call[c].pc = "committed" /\ UNCHANGED <<heard, answered, inbox>>
    BY <1>4 DEF Committed, history
  <2> QED
    BY <1>0, <1>f, <1>r, <2>1, BuildKeeps DEF Fields
<1>5. CASE QueryFails(c)
  BY <1>5, <1>0, <1>r, EndsKeeps DEF QueryFails, history, Fields
<1>6. CASE Sent(c)
  BY <1>6, <1>0, <1>r, GoesOnKeeps DEF Sent, history, Fields
<1>7. CASE SendFails(c)
  BY <1>7, <1>0, <1>r, EndsKeeps DEF SendFails, history, Fields
<1>8. CASE save_recent_outbound(c)
  <2> DEFINE next == IF loop THEN "wait" ELSE "drive"
  <2>1. /\ Goes(c, [pc |-> next]) \/ Ends(c, "unacked")
        /\ call[c].pc = "saving" /\ UNCHANGED <<heard, answered, inbox>>
    BY <1>8 DEF save_recent_outbound, Saved, history
  <2>2. next \in {"wait", "drive"}
    OBVIOUS
  <2> HIDE DEF next
  <2> QED
    BY <1>0, <1>r, <2>1, <2>2, EndsKeeps, GoesOnKeeps DEF Fields
<1>9. CASE WaitTimeout(c)
  BY <1>9, <1>0, EndsKeeps DEF WaitTimeout, history, Fields
<1>10. CASE DriveTimeout(c)
  BY <1>10, <1>0, EndsKeeps DEF DriveTimeout, history, Fields
<1>11. CASE Heard(c)
  <2> DEFINE told == IF call[c].ack = "ok" THEN "acked" ELSE "refused"
  <2>1. Ends(c, told) /\ call[c].pc \in {"wait", "drive"} /\ call[c].ack # None /\ UNCHANGED <<heard, answered, inbox>>
    BY <1>11 DEF Heard, history
  <2> HIDE DEF told
  <2>2. /\ \A d \in Callers \ {c} : call'[d] = call[d]
        /\ call'[c].ack = call[c].ack /\ call'[c].pc = "done" /\ call'[c].result = told
    BY <1>0, <2>1, EndsKeeps DEF Fields
  <2> QED
    BY <2>1, <2>2 DEF told
<1>12. CASE Recv(c)
  BY <1>12 DEF Recv, history
<1>13. CASE RecvClash(c)
  BY <1>13, <1>0, EndsKeeps DEF RecvClash, Drives, history, Fields
<1> QED
  BY <1>1, <1>2, <1>3, <1>4, <1>5, <1>6, <1>7, <1>8, <1>9, <1>10, <1>11, <1>12, <1>13 DEF Caller

\* The acks left when one node was received, or when nothing of them changed.
LEMMA AcksTaken ==
  ASSUME InboxExpected, AcksOnce, inbox # << >>, inbox' = Tail(inbox), answered' = answered,
         \A c \in Callers : heard'[c] = heard[c] \/ (Acked(1) /\ inbox[1].id = c)
  PROVE  AcksOnce'
<1>1. PICK S : inbox \in Seq(S)
  BY DEF InboxExpected
<1>2. /\ Len(inbox) \in Nat \ {0} /\ DOMAIN inbox = 1 .. Len(inbox)
      /\ DOMAIN inbox' = 1 .. (Len(inbox) - 1)
      /\ \A k \in DOMAIN inbox' : k + 1 \in DOMAIN inbox /\ k + 1 # 1 /\ inbox'[k] = inbox[k + 1]
  BY <1>1
<1>3. \A k : Acked(k)' => k \in Nat /\ Acked(k + 1) /\ k + 1 # 1 /\ inbox'[k] = inbox[k + 1]
  BY <1>2 DEF Acked
<1>4. SUFFICES ASSUME NEW k \in DOMAIN inbox', Acked(k)'
               PROVE  /\ inbox'[k].id \in Callers /\ inbox'[k].id \in answered' /\ heard'[inbox'[k].id] = "no"
                      /\ inbox'[k].error \in AckKinds
                      /\ \A j \in DOMAIN inbox' : Acked(j)' /\ inbox'[j].id = inbox'[k].id => j = k
  BY DEF AcksOnce
<1>5. Acked(k + 1) /\ k + 1 # 1 /\ inbox'[k] = inbox[k + 1] /\ k \in Nat
  BY <1>3, <1>4
<1>6. /\ inbox[k + 1].id \in Callers /\ inbox[k + 1].id \in answered /\ heard[inbox[k + 1].id] = "no"
      /\ inbox[k + 1].error \in AckKinds
      /\ \A j : Acked(j) /\ inbox[j].id = inbox[k + 1].id => j = k + 1
  BY <1>5 DEF AcksOnce, Acked
<1>7. heard'[inbox[k + 1].id] = heard[inbox[k + 1].id]
  BY <1>5, <1>6
<1>8. ASSUME NEW j \in DOMAIN inbox', Acked(j)', inbox'[j].id = inbox'[k].id PROVE j = k
  <2>1. Acked(j + 1) /\ inbox'[j] = inbox[j + 1] /\ j \in Nat
    BY <1>3, <1>8
  <2>2. j + 1 = k + 1
    BY <2>1, <1>5, <1>6, <1>8
  <2> QED
    BY <2>1, <2>2, <1>5
<1> QED
  BY <1>5, <1>6, <1>7, <1>8

\* A node joins: an ack for a message that was not acked, or no ack.
LEMMA AcksGrow ==
  ASSUME InboxExpected, AcksOnce, AcksKept, NEW n, inbox' = Append(inbox, n), heard' = heard,
         \/ n.tag # "ack" /\ answered' = answered
         \/ n.id \in Callers \ answered /\ answered' = answered \cup {n.id} /\ n.error \in AckKinds
  PROVE  AcksOnce'
<1>1. PICK S : inbox \in Seq(S)
  BY DEF InboxExpected
<1>2. /\ Len(inbox) \in Nat /\ DOMAIN inbox = 1 .. Len(inbox)
      /\ DOMAIN inbox' = 1 .. (Len(inbox) + 1)
      /\ \A k \in DOMAIN inbox : inbox'[k] = inbox[k]
      /\ inbox'[Len(inbox) + 1] = n
  <2>1. inbox \in Seq(S \cup {n})
    BY <1>1
  <2> QED
    BY <1>1, <2>1
<1>3. \A k \in DOMAIN inbox' : k \in DOMAIN inbox \/ (k = Len(inbox) + 1 /\ k \notin DOMAIN inbox)
  BY <1>2
<1>4. \A k \in DOMAIN inbox' : Acked(k)' => \/ Acked(k) /\ inbox'[k] = inbox[k]
                                            \/ k = Len(inbox) + 1 /\ inbox'[k] = n /\ n.tag = "ack"
  BY <1>2, <1>3 DEF Acked
<1>5. n.tag = "ack" => heard[n.id] = "no" /\ \A k : Acked(k) => inbox[k].id # n.id
  BY DEF AcksKept, AcksOnce, Acked
<1>6. answered \subseteq answered'
  OBVIOUS
<1>7. ASSUME NEW k \in DOMAIN inbox', Acked(k)'
      PROVE  /\ inbox'[k].id \in Callers /\ inbox'[k].id \in answered' /\ heard'[inbox'[k].id] = "no"
             /\ inbox'[k].error \in AckKinds
             /\ \A j \in DOMAIN inbox' : Acked(j)' /\ inbox'[j].id = inbox'[k].id => j = k
  <2>1. CASE Acked(k) /\ inbox'[k] = inbox[k]
    <3>1. /\ inbox[k].id \in Callers /\ inbox[k].id \in answered /\ heard[inbox[k].id] = "no"
          /\ inbox[k].error \in AckKinds
          /\ \A j : Acked(j) /\ inbox[j].id = inbox[k].id => j = k
      BY <2>1 DEF AcksOnce, Acked
    <3>2. n.tag = "ack" => inbox[k].id # n.id
      BY <1>5, <2>1
    <3>3. \A j \in DOMAIN inbox' : Acked(j)' /\ inbox'[j].id = inbox'[k].id => j = k
      BY <1>4, <2>1, <3>1, <3>2
    <3> QED
      BY <1>6, <2>1, <3>1, <3>3
  <2>2. CASE k = Len(inbox) + 1 /\ inbox'[k] = n /\ n.tag = "ack"
    <3>1. n.id \in Callers /\ n.id \in answered' /\ n.error \in AckKinds
      BY <2>2
    <3>2. \A j \in DOMAIN inbox' : Acked(j)' /\ inbox'[j].id = inbox'[k].id => j = k
      BY <1>4, <1>5, <2>2
    <3> QED
      BY <1>5, <2>2, <3>1, <3>2
  <2> QED
    BY <1>4, <1>7, <2>1, <2>2
<1> QED
  BY <1>7 DEF AcksOnce

\* Nothing of the acks changes.
LEMMA AcksSame ==
  ASSUME AcksOnce, UNCHANGED <<inbox, answered, heard>>
  PROVE  AcksOnce'
  BY DEF AcksOnce, Acked

\* A call ends as acked or refused only with the ack, and without it only before one is there.
LEMMA AckCaller ==
  ASSUME ServedInv, AckInv, NEW c \in Callers, Caller(c)
  PROVE  AckInv'
<1>1. /\ \A d \in Callers \ {c} : call'[d] = call[d]
      /\ call'[c].ack = call[c].ack
      /\ UNCHANGED <<heard, answered, inbox>>
      /\ \/ call'[c].pc = call[c].pc /\ call'[c].result = call[c].result
         \/ /\ call[c].pc \in {"idle", "lookup", "sessions", "committed", "sending", "saving"}
            /\ \/ /\ call'[c].pc \in {"lookup", "sessions", "committed", "sending", "saving", "wait", "drive"}
                  /\ call'[c].result = None
               \/ call'[c].pc = "done" /\ call'[c].result \notin {"acked", "refused"}
         \/ /\ call[c].pc \in {"lookup", "sessions", "wait", "drive"} /\ call[c].ack = None
            /\ call'[c].pc = "done" /\ call'[c].result \notin {"acked", "refused"}
         \/ /\ call[c].pc \in {"wait", "drive"} /\ call[c].ack # None
            /\ call'[c].pc = "done"
            /\ call'[c].result = IF call[c].ack = "ok" THEN "acked" ELSE "refused"
  BY CallerTells
<1>2. None \notin Results
  BY DeliveryAssumption
<1>3. AcksOnce' /\ HeardTyped'
  BY <1>1, AcksSame DEF AckInv, HeardTyped
<1>4. AcksKept'
  BY <1>1, <1>2 DEF AckInv, AcksKept, Told
<1>5. AckTold'
  BY <1>1, <1>2 DEF AckInv, AcksKept, Told, AckTold, Results
<1> QED
  BY <1>3, <1>4, <1>5 DEF AckInv

\* Nothing that a caller is told of changes.
LEMMA AckQuiet ==
  ASSUME AckInv, UNCHANGED <<call, heard, answered>>, AcksOnce'
  PROVE  AckInv'
  BY DEF AckInv, AcksKept, AckTold, Told, HeardTyped

\* An ack is told to who waits, and there is no other ack for the message.
LEMMA AckReceive ==
  ASSUME ServedInv, AckInv, NEW t \in Readers, Receive(t)
  PROVE  AckInv'
<1> DEFINE n == Head(inbox)
<1>1. inbox # << >> /\ inbox' = Tail(inbox) /\ answered' = answered /\ n = inbox[1] /\ 1 \in DOMAIN inbox
  <2>1. PICK S : inbox \in Seq(S)
    BY DEF ServedInv, InboxExpected
  <2> QED
    BY <2>1 DEF Receive
<1>2. InboxExpected /\ AcksOnce /\ CallTyped
  BY DEF ServedInv, AckInv
<1>3. ASSUME UNCHANGED <<call, heard>> PROVE AckInv'
  BY <1>1, <1>2, <1>3, AcksTaken, AckQuiet
<1>4. CASE n.tag = "ack" /\ DispatchAck(t, n)
  <2> DEFINE c == n.id
             told == Listens(c) \/ (c = t /\ call[c].pc = "drive")
             how == IF told THEN "waiting" ELSE IF call[c].pc \in {"sending", "saving"} THEN "early" ELSE "stray"
  <2>1. Acked(1) /\ inbox[1].id = c
    BY <1>1, <1>4 DEF Acked
  <2>2. c \in Callers /\ c \in answered /\ heard[c] = "no" /\ n.error \in AckKinds
    BY <1>1, <1>2, <2>1 DEF AcksOnce
  <2>3. /\ call' = IF told THEN [call EXCEPT ![c].ack = n.error] ELSE call
        /\ heard' = [heard EXCEPT ![c] = how]
    BY <1>4 DEF DispatchAck
  <2>4. told => call[c].pc \in {"wait", "drive"}
    BY DEF Listens
  <2>5. how = "waiting" <=> told
    OBVIOUS
  <2> HIDE DEF told, how
  <2>6. heard'[c] = how /\ \A d \in Callers \ {c} : heard'[d] = heard[d]
    BY <2>2, <2>3 DEF AckInv, HeardTyped
  <2>7. /\ \A d \in Callers : call'[d].pc = call[d].pc /\ call'[d].result = call[d].result
        /\ \A d \in Callers \ {c} : call'[d] = call[d]
        /\ call'[c].ack = IF told THEN n.error ELSE call[c].ack
    <3>1. CASE ~told
      BY <3>1, <2>3
    <3>2. CASE told
      <4>1. call' = [call EXCEPT ![c].ack = n.error]
        BY <3>2, <2>3
      <4>2. \A d \in Callers \ {c} : call'[d] = call[d]
        BY <4>1, <1>2 DEF CallTyped
      <4>3. call'[c] = [call[c] EXCEPT !.ack = n.error]
        BY <4>1, <2>2, <1>2 DEF CallTyped
      <4>4. call'[c]["ack"] = n.error
        BY <4>3, <2>2, <1>2 DEF CallTyped, Fields
      <4> QED
        BY <3>2, <4>1, <4>2, <4>4, <1>2, AckTo
    <3> QED
      BY <3>1, <3>2
  <2>8. None \notin AckKinds
    BY DeliveryAssumption
  <2>9. AcksOnce'
    BY <1>1, <1>2, <2>1, <2>6, AcksTaken
  <2>10. heard' = [d \in Callers |-> heard'[d]]
    BY <2>3 DEF AckInv, HeardTyped
  <2>11. ~Told(c) /\ call[c].ack = None
    BY <2>2 DEF AckInv, AcksKept, Told
  <2>12. AcksKept'
    BY <1>1, <2>2, <2>4, <2>5, <2>6, <2>7, <2>8, <2>11 DEF AckInv, AcksKept, Told
  <2>13. AckTold'
    BY <1>1, <2>2, <2>4, <2>5, <2>6, <2>7, <2>8, <2>11, DeliveryAssumption DEF AckInv, AcksKept, Told, AckTold, Results
  <2> QED
    BY <2>9, <2>10, <2>12, <2>13 DEF AckInv, HeardTyped
<1>5. CASE DispatchMessage(t, n)
  BY <1>3, <1>5 DEF DispatchMessage
<1>6. CASE DispatchReceipt(n)
  BY <1>3, <1>6 DEF DispatchReceipt
<1>7. ASSUME NEW request, DispatchRetry(t, n, request) PROVE AckInv'
  BY <1>3, <1>7 DEF DispatchRetry
<1> QED
  BY <1>4, <1>5, <1>6, <1>7 DEF Receive

\* Only a handler that raises ends a call, and it says so.
LEMMA AckDispatch ==
  ASSUME ServedInv, AckInv, NEW t \in Readers, Dispatch(t)
  PROVE  AckInv'
<1>0. AcksOnce /\ CallTyped
  BY DEF AckInv, ServedInv
<1>1. CASE Receive(t)
  BY <1>1, AckReceive
<1>2. CASE resend_message_for_retry(t)
  BY <1>0, <1>2, AcksSame, AckQuiet DEF resend_message_for_retry
<1>3. CASE ResendFails(t)
  BY <1>0, <1>3, AcksSame, AckQuiet DEF ResendFails, history
<1>4. CASE ReportRetry(t)
  BY <1>0, <1>4, AcksSame, AckQuiet DEF ReportRetry, history
<1>5. ASSUME NEW ok \in BOOLEAN, send_ack(t, ok) PROVE AckInv'
  BY <1>0, <1>5, AcksSame, AckQuiet DEF send_ack
<1>6. CASE DecryptError(t)
  BY <1>0, <1>6, AcksSame, AckQuiet DEF DecryptError, history
<1>7. CASE Upsert(t)
  BY <1>0, <1>7, AcksSame, AckQuiet DEF Upsert
<1>8. CASE UpsertRaises(t)
  <2>1. AcksOnce' /\ UNCHANGED <<heard, answered, inbox>>
    BY <1>0, <1>8, AcksSame DEF UpsertRaises
  <2>2. CASE t = Loop
    BY <1>8, <2>1, <2>2, AckQuiet DEF UpsertRaises
  <2>3. CASE t # Loop
    <3>1. t \in Callers /\ None \notin Callers
      BY <2>3, DeliveryAssumption DEF Readers
    <3>2. call[t].pc \in {"lookup", "sessions", "drive", "done"}
      BY <1>8, <3>1 DEF UpsertRaises, Step, ServedInv, WaitsReading, Busy
    <3>3. Ends(t, "handler")
      BY <1>8, <2>3 DEF UpsertRaises
    <3>4. /\ \A d \in Callers \ {t} : call'[d] = call[d]
          /\ call'[t].pc = "done" /\ call'[t].result = "handler" /\ call'[t].ack = call[t].ack
      BY <1>0, <3>1, <3>3, EndsKeeps DEF Fields
    <3>5. AcksKept'
      BY <2>1, <3>1, <3>2, <3>4 DEF AckInv, AcksKept, Told
    <3>6. AckTold'
      BY <2>1, <3>1, <3>2, <3>4 DEF AckInv, AckTold
    <3> QED
      BY <2>1, <3>5, <3>6 DEF AckInv, HeardTyped
  <2> QED
    BY <2>2, <2>3
<1> QED
  BY <1>1, <1>2, <1>3, <1>4, <1>5, <1>6, <1>7, <1>8 DEF Dispatch

\* The server acks what was not acked; a crash ends the calls without a result.
LEMMA AckEnvironment ==
  ASSUME ServedInv, AckInv, Environment
  PROVE  AckInv'
<1>0. AcksOnce /\ AcksKept /\ InboxExpected
  BY DEF AckInv, ServedInv
<1>1. ASSUME NEW c \in Callers, NEW kind \in AckKinds, ServerAcks(c, kind) PROVE AckInv'
  <2> DEFINE n == [tag |-> "ack", id |-> c, error |-> kind]
  <2>1. /\ inbox' = Append(inbox, n) /\ c \notin answered /\ answered' = answered \cup {c} /\ heard' = heard
        /\ call' = call
    BY <1>1 DEF ServerAcks, OnWire, client
  <2>2. n.id = c /\ n.error = kind
    OBVIOUS
  <2> HIDE DEF n
  <2>3. AcksOnce'
    BY <1>0, <1>1, <2>1, <2>2, AcksGrow
  <2> QED
    BY <2>1, <2>3 DEF AckInv, AcksKept, AckTold, Told, HeardTyped
<1>2. ASSUME NEW n, n.tag # "ack", OnWire(n), UNCHANGED <<call, heard, answered>> PROVE AckInv'
  BY <1>0, <1>2, AcksGrow, AckQuiet DEF OnWire
<1>3. ASSUME NEW c \in Callers, NEW copy, NEW keys, NEW ours, ServerRetries(c, copy, keys, ours) PROVE AckInv'
  <2> DEFINE r == ReceiptOf(c, copy, "retry", keys)
             n == [r EXCEPT !.recipient = IF ours THEN @ ELSE MeId]
  <2>1. OnWire(n) /\ UNCHANGED <<call, heard, answered>>
    BY <1>3 DEF ServerRetries, client
  <2>2. n["tag"] = "receipt"
    BY DEF ReceiptOf
  <2> HIDE DEF n
  <2> QED
    BY <1>2, <2>1, <2>2
<1>4. ASSUME NEW c \in Callers, NEW copy, NEW type, ServerReceipts(c, copy, type) PROVE AckInv'
  <2> DEFINE n == ReceiptOf(c, copy, type, None)
  <2>1. OnWire(n) /\ UNCHANGED <<call, heard, answered>>
    BY <1>4 DEF ServerReceipts, client
  <2>2. n["tag"] = "receipt"
    BY DEF ReceiptOf
  <2> HIDE DEF n
  <2> QED
    BY <1>2, <2>1, <2>2
<1>5. ASSUME NEW i, NEW readable, ServerDelivers(i, readable) PROVE AckInv'
  <2> DEFINE n == MessageOf(i, readable)
  <2>1. OnWire(n) /\ UNCHANGED <<call, heard, answered>>
    BY <1>5 DEF ServerDelivers, client
  <2>2. n["tag"] = "message"
    BY DEF MessageOf
  <2> HIDE DEF n
  <2> QED
    BY <1>2, <2>1, <2>2
<1>6. ASSUME NEW c \in Callers, Expire(c) PROVE AckInv'
  BY <1>0, <1>6, AcksSame, AckQuiet DEF Expire, client
<1>7. CASE Prune
  BY <1>0, <1>7, AcksSame, AckQuiet DEF Prune, history
<1>8. ASSUME NEW store, Crash(store) PROVE AckInv'
  <2> DEFINE over(c) == call[c].pc \in {"idle", "done"}
  <2>1. /\ call' = [c \in Callers |-> IF over(c) THEN call[c] ELSE [call[c] EXCEPT !.pc = "dead"]]
        /\ inbox' = << >> /\ UNCHANGED <<heard, answered>>
    BY <1>8 DEF Crash
  <2>2. \A c \in Callers : call'[c] = IF over(c) THEN call[c] ELSE [call[c] EXCEPT !.pc = "dead"]
    BY <2>1
  <2>3. \A c \in Callers : call[c] = [f \in Fields |-> call[c][f]]
    BY DEF ServedInv, CallTyped
  <2>4. \A c \in Callers : /\ call'[c].pc = (IF over(c) THEN call[c].pc ELSE "dead")
                           /\ call'[c].result = call[c].result /\ call'[c].ack = call[c].ack
    <3> SUFFICES ASSUME NEW c \in Callers
                 PROVE  /\ call'[c]["pc"] = (IF over(c) THEN call[c].pc ELSE "dead")
                        /\ call'[c]["result"] = call[c]["result"] /\ call'[c]["ack"] = call[c]["ack"]
      OBVIOUS
    <3>1. CASE over(c)
      BY <3>1, <2>2
    <3>2. CASE ~over(c)
      BY <3>2, <2>2, <2>3 DEF Fields
    <3> QED
      BY <3>1, <3>2
  <2>5. AcksOnce'
    BY <2>1 DEF AcksOnce, Acked
  <2>6. AcksKept'
    BY <2>1, <2>4, <1>0 DEF AcksKept, Told
  <2>7. AckTold'
    BY <2>1, <2>4 DEF AckInv, AckTold
  <2> QED
    BY <2>1, <2>5, <2>6, <2>7 DEF AckInv, HeardTyped
<1> QED
  BY <1>1, <1>3, <1>4, <1>5, <1>6, <1>7, <1>8 DEF Environment

\* At first no message is acked.
LEMMA AckInvInit == Init => AckInv
<1> SUFFICES ASSUME Init PROVE AckInv
  OBVIOUS
<1>1. /\ call = [c \in Callers |-> Idle] /\ heard = [c \in Callers |-> "no"] /\ answered = {} /\ inbox = << >>
  BY DEF Init
<1>2. \A c \in Callers : call[c].pc = "idle" /\ call[c].result = None /\ call[c].ack = None
  BY <1>1 DEF Idle
<1>3. None \notin Results
  BY DeliveryAssumption
<1>4. AcksOnce
  BY <1>1 DEF AcksOnce
<1> QED
  BY <1>1, <1>2, <1>3, <1>4 DEF AckInv, HeardTyped, AcksKept, AckTold, Told, Results

\* A caller hears of its ack what the server said, if the ack was dispatched while it waited
\* (wait_for_ack, _drive_until, dispatch_ack_node), for any calls, readers and crashes.
THEOREM AcksTold == Spec => []AckTold
<1>1. ServedInv /\ AckInv /\ [Next]_vars => AckInv'
  <2> SUFFICES ASSUME ServedInv, AckInv, [Next]_vars PROVE AckInv'
    OBVIOUS
  <2>1. CASE UNCHANGED vars
    BY <2>1, AcksSame, AckQuiet DEF vars, client, history, AckInv
  <2>2. ASSUME NEW c \in Callers, Caller(c) PROVE AckInv'
    BY <2>2, AckCaller
  <2>3. ASSUME NEW t \in Readers, Dispatch(t) PROVE AckInv'
    BY <2>3, AckDispatch
  <2>4. CASE Environment
    BY <2>4, AckEnvironment
  <2> QED
    BY <2>1, <2>2, <2>3, <2>4 DEF Next
<1>2. AckInv => AckTold
  BY DEF AckInv
<1> QED
  BY <1>1, <1>2, AckInvInit, ServedInvariant, PTL DEF Spec

-----------------------------------------------------------------------------
(* A message whose key is used up reaches the application.                   *)

\* What a reader dispatches is one of the server's messages, or a retry receipt.
Handling(t) == at[t] # None /\ at[t].node.tag = "message"
Retrying(v) == v = [f \in {"node", "request", "reason", "step"} |-> v[f]] /\ v.node.tag # "message"
Dispatching == \A t \in Readers : at[t] \in {None} \cup Dispatches \/ Retrying(at[t])

\* One message is on its way, or dispatched, at a time.
Coming(k) == k \in DOMAIN inbox /\ inbox[k].tag = "message"
OneMessage ==
  /\ \A k \in DOMAIN inbox : Coming(k) =>
       /\ \E i \in Authors, readable \in BOOLEAN : inbox[k] = MessageOf(i, readable)
       /\ \A t \in Readers : ~Handling(t)
       /\ \A j \in DOMAIN inbox : Coming(j) => j = k
  /\ \A t, u \in Readers : Handling(t) /\ Handling(u) => t = u

\* A message that cannot be read again has been told, or was lost.
ReadOnce ==
  \A t \in Readers : Handling(t) /\ at[t].step = "ack500" /\ at[t].node.author \in opened =>
    at[t].node.author \in emitted \cup lost

InboundInv == Dispatching /\ OneMessage /\ ReadOnce /\ InboundKept

\* The readers of messages stay where they are, and no message comes.
LEMMA InboundStill ==
  ASSUME ServedInv, InboundInv, Dispatching', opened' = opened,
         \A u \in Readers : (Handling(u)' <=> Handling(u)) /\ (Handling(u) => at'[u] = at[u]), emitted \subseteq emitted', lost \subseteq lost',
         \/ inbox' = inbox
         \/ inbox # << >> /\ inbox' = Tail(inbox)
         \/ \E n : n.tag # "message" /\ inbox' = Append(inbox, n)
  PROVE  InboundInv'
<1>1. PICK S : inbox \in Seq(S)
  BY DEF ServedInv, InboxExpected
<1>2. PICK d \in {0, 1} : \A k : Coming(k)' => k \in Nat /\ Coming(k + d) /\ inbox'[k] = inbox[k + d]
  <2>1. CASE inbox' = inbox
    BY <1>1, <2>1 DEF Coming
  <2>2. CASE inbox # << >> /\ inbox' = Tail(inbox)
    <3>1. /\ DOMAIN inbox' = 1 .. (Len(inbox) - 1) /\ Len(inbox) \in Nat /\ DOMAIN inbox = 1 .. Len(inbox)
          /\ \A k \in DOMAIN inbox' : inbox'[k] = inbox[k + 1]
      BY <1>1, <2>2
    <3>2. \A k \in DOMAIN inbox' : k \in Nat /\ k + 1 \in DOMAIN inbox
      <4>1. \A m \in Nat : \A k \in 1 .. (m - 1) : k \in Nat /\ k + 1 \in 1 .. m
        OBVIOUS
      <4> QED
        BY <3>1, <4>1
    <3> QED
      BY <3>1, <3>2 DEF Coming
  <2>3. CASE \E n : n.tag # "message" /\ inbox' = Append(inbox, n)
    <3>1. PICK n : n.tag # "message" /\ inbox' = Append(inbox, n)
      BY <2>3
    <3>2. inbox \in Seq(S \cup {n})
      BY <1>1
    <3>3. /\ Len(inbox) \in Nat /\ DOMAIN inbox = 1 .. Len(inbox) /\ DOMAIN inbox' = 1 .. (Len(inbox) + 1)
          /\ \A k \in DOMAIN inbox : inbox'[k] = inbox[k]
          /\ inbox'[Len(inbox) + 1] = n
      BY <3>1, <3>2
    <3>a. \A m \in Nat : \A k \in 1 .. (m + 1) : k \in Nat /\ k + 0 = k /\ (k \in 1 .. m \/ k = m + 1)
      OBVIOUS
    <3>4. \A k \in DOMAIN inbox' : k \in DOMAIN inbox \/ inbox'[k] = n
      BY <3>a, <3>3
    <3>5. \A k \in DOMAIN inbox' : k \in Nat /\ k + 0 = k
      BY <3>a, <3>3
    <3> QED
      BY <3>1, <3>3, <3>4, <3>5 DEF Coming
  <2> QED
    BY <2>1, <2>2, <2>3
<1>3. \A t \in Readers : Handling(t)' <=> Handling(t)
  OBVIOUS
<1>5. OneMessage'
  <2>1. ASSUME NEW k, Coming(k)'
        PROVE  /\ \E i \in Authors, readable \in BOOLEAN : inbox'[k] = MessageOf(i, readable)
               /\ \A t \in Readers : ~Handling(t)'
               /\ \A j \in DOMAIN inbox' : Coming(j)' => j = k
    <3>1. k \in Nat /\ Coming(k + d) /\ inbox'[k] = inbox[k + d]
      BY <1>2, <2>1
    <3>2. /\ \E i \in Authors, readable \in BOOLEAN : inbox[k + d] = MessageOf(i, readable)
          /\ \A t \in Readers : ~Handling(t)
          /\ \A j : Coming(j) => j = k + d
      BY <3>1 DEF InboundInv, OneMessage, Coming
    <3>3. \A j : Coming(j)' => j = k
      <4> SUFFICES ASSUME NEW j, Coming(j)' PROVE j = k
        OBVIOUS
      <4>1. j \in Nat /\ j + d = k + d
        BY <1>2, <3>2
      <4> QED
        BY <3>1, <4>1
    <3> QED
      BY <1>3, <3>1, <3>2, <3>3
  <2> QED
    BY <1>3, <2>1 DEF InboundInv, OneMessage
<1>6. ReadOnce'
  BY <1>3 DEF InboundInv, ReadOnce
<1>7. InboundKept'
  BY <1>3 DEF InboundInv, InboundKept, Handling
<1> QED
  BY <1>5, <1>6, <1>7 DEF InboundInv

\* No reader moves, and no message comes.
LEMMA InboundQuiet ==
  ASSUME ServedInv, InboundInv, at' = at, opened' = opened, emitted \subseteq emitted', lost \subseteq lost',
         \/ inbox' = inbox
         \/ inbox # << >> /\ inbox' = Tail(inbox)
         \/ \E n : n.tag # "message" /\ inbox' = Append(inbox, n)
  PROVE  InboundInv'
<1>1. Dispatching' /\ \A u \in Readers : (Handling(u)' <=> Handling(u)) /\ (Handling(u) => at'[u] = at[u])
  BY DEF InboundInv, Dispatching, Handling
<1> QED
  BY <1>1, InboundStill

\* A reader that has no message goes on with what it dispatches, or starts to.
LEMMA RetryOn ==
  ASSUME ServedInv, InboundInv, RetryInv, NEW t \in Readers, ~Handling(t), NEW v, v = None \/ Retrying(v),
         at' = [at EXCEPT ![t] = v], inbox' = inbox \/ (inbox # << >> /\ inbox' = Tail(inbox)), opened' = opened,
         emitted \subseteq emitted', lost \subseteq lost'
  PROVE  InboundInv'
<1>1. \A u \in Readers : at'[u] = IF u = t THEN v ELSE at[u]
  BY DEF RetryInv, Typed
<1>2. \A u \in Readers : Handling(u)' <=> Handling(u)
  BY <1>1 DEF Handling, Retrying
<1>3. \A u \in Readers : Handling(u) => at'[u] = at[u]
  BY <1>1
<1>4. Dispatching'
  BY <1>1 DEF InboundInv, Dispatching, Retrying
<1> QED
  BY <1>2, <1>3, <1>4, InboundStill

\* A reader goes on with its message.
LEMMA MessageOn ==
  ASSUME InboundInv, RetryInv, NEW t \in Readers, Handling(t), NEW v, v = None \/ v \in Dispatches,
         at' = [at EXCEPT ![t] = v], UNCHANGED <<inbox, opened>>,
         emitted \subseteq emitted', lost \subseteq lost',
         v # None => v.node = at[t].node /\ v.step # "ack500",
         v = None => at[t].node.author \in emitted' \cup lost' \/ at[t].step = "ack500"
  PROVE  InboundInv'
<1>1. \A u \in Readers : at'[u] = IF u = t THEN v ELSE at[u]
  BY DEF RetryInv, Typed
<1>2. /\ \A u \in Readers : Handling(u)' => Handling(u)
      /\ \A u \in Readers \ {t} : ~Handling(u)
  BY <1>1 DEF Handling, InboundInv, OneMessage
<1>3. Dispatching'
  BY <1>1 DEF InboundInv, Dispatching, Retrying
<1>4. OneMessage'
  BY <1>2 DEF InboundInv, OneMessage, Coming
<1>5. ReadOnce'
  BY <1>1, <1>2 DEF ReadOnce, Handling
<1>6. InboundKept'
  <2> SUFFICES ASSUME NEW i \in opened
               PROVE  i \in emitted' \cup lost' \/ \E u \in Readers : Handling(u)' /\ at'[u].node.author = i
    BY DEF InboundKept, Handling
  <2>1. i \in emitted \cup lost \/ \E u \in Readers : Handling(u) /\ at[u].node.author = i
    BY DEF InboundInv, InboundKept, Handling
  <2>2. CASE i \in emitted \cup lost
    BY <2>2
  <2>3. CASE at[t].node.author = i
    <3>1. CASE v = None
      <4>1. at[t].step = "ack500" => i \in emitted \cup lost
        BY <2>3 DEF InboundInv, ReadOnce
      <4> QED
        BY <2>3, <3>1, <4>1
    <3>2. CASE v # None
      <4>1. Handling(t)' /\ at'[t].node.author = i
        BY <1>1, <2>3, <3>2 DEF Handling
      <4> QED
        BY <4>1
    <3> QED
      BY <3>1, <3>2
  <2> QED
    BY <1>2, <2>1, <2>2, <2>3
<1> QED
  BY <1>3, <1>4, <1>5, <1>6 DEF InboundInv

\* A message that a reader dispatches, as a record.
LEMMA HandlingRecord ==
  ASSUME InboundInv, NEW t \in Readers, Handling(t)
  PROVE  \E i \in Authors, readable \in BOOLEAN, s \in {"ack", "ack500", "upsert"} :
           at[t] = [node |-> MessageOf(i, readable), step |-> s]
<1>1. at[t] \in Dispatches
  BY DEF InboundInv, Dispatching, Handling, Retrying
<1> QED
  BY <1>1 DEF Dispatches

\* What is not a message is sent again or reported; a message is acked and told.
LEMMA StepsApart ==
  ASSUME InboundInv, NEW t \in Readers, at[t] # None
  PROVE  /\ Handling(t) => at[t].step \in {"ack", "ack500", "upsert"}
         /\ ~Handling(t) => Retrying(at[t])
<1>1. Handling(t) => at[t].step \in {"ack", "ack500", "upsert"}
  <2> SUFFICES ASSUME Handling(t) PROVE at[t].step \in {"ack", "ack500", "upsert"}
    OBVIOUS
  <2>1. PICK i \in Authors, readable \in BOOLEAN, s \in {"ack", "ack500", "upsert"} :
          at[t] = [node |-> MessageOf(i, readable), step |-> s]
    BY HandlingRecord
  <2> QED
    BY <2>1
<1>2. at[t] \in Dispatches => Handling(t)
  BY DEF Dispatches, MessageOf, Handling
<1> QED
  BY <1>1, <1>2 DEF InboundInv, Dispatching

\* A step that a reader's record is put to.
LEMMA RecordStep ==
  ASSUME InboundInv, NEW t \in Readers, at[t] # None, NEW s \in {"report", "upsert"}
  PROVE  /\ ~Handling(t) => Retrying([at[t] EXCEPT !.step = s])
         /\ Handling(t) /\ s = "upsert" =>
              /\ [at[t] EXCEPT !.step = s] \in Dispatches
              /\ [at[t] EXCEPT !.step = s].node = at[t].node
              /\ [at[t] EXCEPT !.step = s].step = s
<1> DEFINE v == [at[t] EXCEPT !.step = s]
<1>1. ASSUME ~Handling(t) PROVE Retrying(v)
  <2>1. Retrying(at[t])
    BY <1>1, StepsApart
  <2>2. v = [f \in {"node", "request", "reason", "step"} |-> v[f]] /\ v["node"] = at[t]["node"]
    BY <2>1 DEF Retrying
  <2> HIDE DEF v
  <2> QED
    BY <2>1, <2>2 DEF Retrying
<1>2. ASSUME Handling(t), s = "upsert" PROVE v \in Dispatches /\ v.node = at[t].node /\ v.step = s
  <2>1. PICK i \in Authors, readable \in BOOLEAN, p \in {"ack", "ack500", "upsert"} :
          at[t] = [node |-> MessageOf(i, readable), step |-> p]
    BY <1>2, HandlingRecord
  <2> DEFINE m == MessageOf(i, readable)
  <2>2. m = MessageOf(i, readable)
    OBVIOUS
  <2> HIDE DEF m
  <2>3. v = [node |-> m, step |-> "upsert"] /\ at[t].node = m
    BY <1>2, <2>1, <2>2
  <2> HIDE DEF v
  <2>4. v \in Dispatches
    BY <2>2, <2>3 DEF Dispatches
  <2> QED
    BY <1>2, <2>3, <2>4
<1> QED
  BY <1>1, <1>2

\* A message that is received is dispatched by nobody else, and read once.
LEMMA InboundMessage ==
  ASSUME ServedInv, RetryInv, InboundInv, NEW t \in Readers, Receives(t), inbox # << >>, inbox' = Tail(inbox),
         Head(inbox).tag = "message", DispatchMessage(t, Head(inbox)), UNCHANGED <<emitted, lost>>
  PROVE  InboundInv'
<1> DEFINE n == Head(inbox)
           i == n.author
           reads == n.readable /\ i \notin opened
           s == IF reads THEN "ack" ELSE "ack500"
           v == [node |-> n, step |-> s]
<1>1. PICK S : inbox \in Seq(S)
  BY DEF ServedInv, InboxExpected
<1>2. /\ n = inbox[1] /\ Coming(1) /\ Len(inbox) \in Nat /\ DOMAIN inbox' = 1 .. (Len(inbox) - 1)
      /\ DOMAIN inbox = 1 .. Len(inbox)
      /\ \A k \in DOMAIN inbox' : inbox'[k] = inbox[k + 1]
  BY <1>1 DEF Coming
<1>3. /\ \E a \in Authors, readable \in BOOLEAN : n = MessageOf(a, readable)
      /\ \A u \in Readers : ~Handling(u)
      /\ \A j \in DOMAIN inbox : Coming(j) => j = 1
  BY <1>2 DEF InboundInv, OneMessage, Coming
<1>4. \A k : ~Coming(k)'
  <2>1. \A m \in Nat : \A k \in 1 .. (m - 1) : k + 1 \in 1 .. m /\ k + 1 # 1
    OBVIOUS
  <2> QED
    BY <1>2, <1>3, <2>1 DEF Coming
<1>5. v \in Dispatches /\ v # None /\ n.tag = "message"
  <2>1. v \in Dispatches
    BY <1>3 DEF Dispatches
  <2> QED
    BY <2>1, DeliveryAssumption
<1>6. at' = [at EXCEPT ![t] = v] /\ opened' = IF reads THEN opened \cup {i} ELSE opened
  BY DEF DispatchMessage
<1>7. v.node = n /\ v.step = s /\ (reads => s = "ack") /\ (s = "ack500" => ~reads)
  OBVIOUS
<1> HIDE DEF v, s, reads, n
<1>8. \A u \in Readers : at'[u] = IF u = t THEN v ELSE at[u]
  BY <1>6 DEF RetryInv, Typed
<1>9. \A u \in Readers : Handling(u)' <=> u = t
  BY <1>3, <1>5, <1>7, <1>8 DEF Handling
<1>10. Dispatching'
  BY <1>5, <1>8 DEF InboundInv, Dispatching, Retrying
<1>11. OneMessage'
  BY <1>4, <1>9 DEF OneMessage
<1>12. \A a \in opened : a \in emitted \cup lost
  BY <1>3 DEF InboundInv, InboundKept, Handling
<1>13. ReadOnce'
  <2> SUFFICES ASSUME NEW u \in Readers, Handling(u)', at'[u].step = "ack500", at'[u].node.author \in opened'
               PROVE  at'[u].node.author \in emitted \cup lost
    BY DEF ReadOnce
  <2>1. at'[u] = v /\ ~reads
    BY <1>7, <1>8, <1>9
  <2> QED
    BY <1>6, <1>12, <2>1
<1>14. InboundKept'
  <2>1. Handling(t)' /\ at'[t].node.author = i
    BY <1>7, <1>8, <1>9
  <2> QED
    BY <1>6, <1>12, <2>1 DEF InboundKept, Handling
<1> QED
  BY <1>10, <1>11, <1>13, <1>14 DEF InboundInv

\* What a reader takes from the inbox.
LEMMA InboundReceive ==
  ASSUME ServedInv, RetryInv, InboundInv, NEW t \in Readers, Receive(t)
  PROVE  InboundInv'
<1> DEFINE n == Head(inbox)
<1>1. Receives(t) /\ inbox # << >> /\ inbox' = Tail(inbox) /\ UNCHANGED <<emitted, lost>>
  BY DEF Receive
<1>2. CASE DispatchAck(t, n)
  BY <1>1, <1>2, InboundQuiet DEF DispatchAck
<1>3. CASE n.tag = "message" /\ DispatchMessage(t, n)
  BY <1>1, <1>3, InboundMessage
<1>4. CASE DispatchReceipt(n)
  BY <1>1, <1>4, InboundQuiet DEF DispatchReceipt
<1>5. ASSUME NEW request, n.tag = "receipt", DispatchRetry(t, n, request) PROVE InboundInv'
  <2> DEFINE live == Found(recent, expired, request.id)
             refuses == ~request.from_me \/ counts[<<request.id, request.participant>>] + 1 > MaxRetry
             reason == IF ~request.from_me THEN "not_from_me"
                       ELSE IF refuses THEN "max_retries_exceeded"
                       ELSE IF live THEN "resent" ELSE "message_unavailable"
             v == [node |-> n, request |-> request, reason |-> reason,
                   step |-> IF reason = "resent" THEN "resend" ELSE "report"]
  <2>1. at' = [at EXCEPT ![t] = v] /\ opened' = opened
    BY <1>5 DEF DispatchRetry
  <2> HIDE DEF reason
  <2>2. Retrying(v)
    <3>1. v = [f \in {"node", "request", "reason", "step"} |-> v[f]] /\ v.node = n
      OBVIOUS
    <3> QED
      BY <1>5, <3>1 DEF Retrying
  <2> HIDE DEF v
  <2>3. at[t] = None
    BY <1>1 DEF Receives, ServedInv, OneStep, Readers
  <2>4. ~Handling(t)
    BY <2>3 DEF Handling
  <2> QED
    BY <1>1, <2>1, <2>2, <2>4, RetryOn
<1> QED
  BY <1>2, <1>3, <1>4, <1>5 DEF Receive

\* A message that was opened is told, or its handler raised, or it was told before.
LEMMA InboundDispatch ==
  ASSUME ServedInv, RetryInv, InboundInv, NEW t \in Readers, Dispatch(t)
  PROVE  InboundInv'
<1>1. CASE Receive(t)
  BY <1>1, InboundReceive
<1>2. ASSUME NEW s \in {"report", "upsert"}, at[t] # None, Then(t, s), UNCHANGED <<inbox, opened, emitted, lost>>,
             Handling(t) => s = "upsert"
      PROVE  InboundInv'
  <2> DEFINE v == [at[t] EXCEPT !.step = s]
  <2>1. at' = [at EXCEPT ![t] = v]
    BY <1>2 DEF Then
  <2>2. /\ ~Handling(t) => Retrying(v)
        /\ Handling(t) => v \in Dispatches /\ v.node = at[t].node /\ v.step = s
    BY <1>2, RecordStep
  <2>3. None \notin Dispatches
    BY DeliveryAssumption
  <2> HIDE DEF v
  <2>4. CASE Handling(t)
    BY <1>2, <2>1, <2>2, <2>3, <2>4, MessageOn
  <2>5. CASE ~Handling(t)
    BY <1>2, <2>1, <2>2, <2>5, RetryOn
  <2> QED
    BY <2>4, <2>5
<1>3. CASE resend_message_for_retry(t)
  <2>1. at[t] # None /\ at[t].step = "resend" /\ Then(t, "report") /\ UNCHANGED <<inbox, opened, emitted, lost>>
    BY <1>3 DEF resend_message_for_retry, Step
  <2>2. ~Handling(t)
    BY <2>1, StepsApart
  <2> QED
    BY <1>2, <2>1, <2>2
<1>4. CASE ResendFails(t)
  <2> DEFINE v == [at[t] EXCEPT !.step = "report", !.reason = "resend_error"]
  <2>1. /\ at[t] # None /\ at[t].step = "resend" /\ at' = [at EXCEPT ![t] = v]
        /\ UNCHANGED <<inbox, opened, emitted, lost>>
    BY <1>4 DEF ResendFails, Step, history
  <2>2. ~Handling(t) /\ Retrying(at[t])
    BY <2>1, StepsApart
  <2>3. v = [f \in {"node", "request", "reason", "step"} |-> v[f]] /\ v["node"] = at[t]["node"]
    BY <2>2 DEF Retrying
  <2> HIDE DEF v
  <2>4. Retrying(v)
    BY <2>2, <2>3 DEF Retrying
  <2> QED
    BY <2>1, <2>2, <2>4, RetryOn
<1>5. ASSUME at[t] # None, at' = [at EXCEPT ![t] = None], UNCHANGED <<inbox, opened>>,
             emitted \subseteq emitted', lost \subseteq lost',
             Handling(t) => at[t].node.author \in emitted' \cup lost' \/ at[t].step = "ack500"
      PROVE  InboundInv'
  <2>1. CASE Handling(t)
    BY <1>5, <2>1, MessageOn
  <2>2. CASE ~Handling(t)
    BY <1>5, <2>2, RetryOn
  <2> QED
    BY <2>1, <2>2
<1>6. CASE ReportRetry(t)
  <2>1. /\ at[t] # None /\ at[t].step = "report" /\ at' = [at EXCEPT ![t] = None]
        /\ UNCHANGED <<inbox, opened, emitted, lost>>
    BY <1>6 DEF ReportRetry, Step, Dispatched, history
  <2>2. ~Handling(t)
    BY <2>1, StepsApart
  <2> QED
    BY <1>5, <2>1, <2>2
<1>7. ASSUME NEW ok \in BOOLEAN, send_ack(t, ok) PROVE InboundInv'
  <2>1. at[t] # None /\ Then(t, "upsert") /\ UNCHANGED <<inbox, opened, emitted, lost>>
    BY <1>7 DEF send_ack, Step
  <2> QED
    BY <1>2, <2>1
<1>8. CASE DecryptError(t)
  <2>1. /\ at[t] # None /\ at[t].step = "ack500" /\ at' = [at EXCEPT ![t] = None]
        /\ UNCHANGED <<inbox, opened, emitted, lost>>
    BY <1>8 DEF DecryptError, Step, Dispatched, history
  <2> QED
    BY <1>5, <2>1
<1>9. CASE Upsert(t)
  <2>1. /\ at[t] # None /\ at' = [at EXCEPT ![t] = None]
        /\ UNCHANGED <<inbox, opened, lost>> /\ emitted' = emitted \cup {at[t].node.author}
    BY <1>9 DEF Upsert, Step, Dispatched
  <2> QED
    BY <1>5, <2>1
<1>10. CASE UpsertRaises(t)
  <2>1. /\ at[t] # None /\ at' = [at EXCEPT ![t] = None]
        /\ UNCHANGED <<inbox, opened, emitted>> /\ lost' = lost \cup {at[t].node.author}
    BY <1>10 DEF UpsertRaises, Step, Dispatched
  <2> QED
    BY <1>5, <2>1
<1> QED
  BY <1>1, <1>3, <1>4, <1>6, <1>7, <1>8, <1>9, <1>10 DEF Dispatch

\* A call of send_message has no part in it.
LEMMA InboundCaller ==
  ASSUME ServedInv, InboundInv, NEW c \in Callers, Caller(c)
  PROVE  InboundInv'
<1>1. UNCHANGED <<at, inbox, opened, emitted, lost>>
  BY DEF Caller, send_message, LookupAnswer, SessionsAnswer, Committed, QueryFails, Sent, SendFails,
         save_recent_outbound, WaitTimeout, DriveTimeout, Heard, Recv, RecvClash, history
<1> QED
  BY <1>1, InboundQuiet

\* The server delivers one message at a time; a crash loses what was dispatched.
LEMMA InboundEnvironment ==
  ASSUME ServedInv, InboundInv, Environment
  PROVE  InboundInv'
<1>1. ASSUME NEW n, n.tag # "message", OnWire(n), UNCHANGED <<at, opened, emitted, lost>> PROVE InboundInv'
  BY <1>1, InboundQuiet DEF OnWire
<1>2. ASSUME NEW c \in Callers, NEW kind, ServerAcks(c, kind) PROVE InboundInv'
  <2> DEFINE n == [tag |-> "ack", id |-> c, error |-> kind]
  <2>1. OnWire(n) /\ UNCHANGED <<at, opened, emitted, lost>>
    BY <1>2 DEF ServerAcks, client
  <2>2. n.tag = "ack"
    OBVIOUS
  <2> HIDE DEF n
  <2> QED
    BY <1>1, <2>1, <2>2
<1>3. ASSUME NEW c \in Callers, NEW copy, NEW keys, NEW ours, ServerRetries(c, copy, keys, ours) PROVE InboundInv'
  <2> DEFINE r == ReceiptOf(c, copy, "retry", keys)
             n == [r EXCEPT !.recipient = IF ours THEN @ ELSE MeId]
  <2>1. OnWire(n) /\ UNCHANGED <<at, opened, emitted, lost>>
    BY <1>3 DEF ServerRetries, client
  <2>2. n["tag"] = "receipt"
    BY DEF ReceiptOf
  <2> HIDE DEF n
  <2> QED
    BY <1>1, <2>1, <2>2
<1>4. ASSUME NEW c \in Callers, NEW copy, NEW type, ServerReceipts(c, copy, type) PROVE InboundInv'
  <2> DEFINE n == ReceiptOf(c, copy, type, None)
  <2>1. OnWire(n) /\ UNCHANGED <<at, opened, emitted, lost>>
    BY <1>4 DEF ServerReceipts, client
  <2>2. n["tag"] = "receipt"
    BY DEF ReceiptOf
  <2> HIDE DEF n
  <2> QED
    BY <1>1, <2>1, <2>2
<1>5. ASSUME NEW i \in Authors, NEW readable \in BOOLEAN, ServerDelivers(i, readable) PROVE InboundInv'
  <2> DEFINE n == MessageOf(i, readable)
  <2>1. /\ inbox' = Append(inbox, n) /\ UNCHANGED <<at, opened, emitted, lost>>
        /\ \A k \in DOMAIN inbox : inbox[k].tag # "message"
        /\ \A t \in Readers : at[t] # None => at[t].node.tag # "message"
    BY <1>5 DEF ServerDelivers, OnWire, client
  <2>2. n = MessageOf(i, readable)
    OBVIOUS
  <2> HIDE DEF n
  <2>3. PICK S : inbox \in Seq(S)
    BY DEF ServedInv, InboxExpected
  <2>4. inbox \in Seq(S \cup {n})
    BY <2>3
  <2>5. /\ Len(inbox) \in Nat /\ DOMAIN inbox = 1 .. Len(inbox) /\ DOMAIN inbox' = 1 .. (Len(inbox) + 1)
        /\ \A k \in DOMAIN inbox : inbox'[k] = inbox[k]
        /\ inbox'[Len(inbox) + 1] = n
    BY <2>1, <2>4
  <2>6. \A m \in Nat : \A k \in 1 .. (m + 1) : k \in 1 .. m \/ k = m + 1
    OBVIOUS
  <2>7. \A k \in DOMAIN inbox' : Coming(k)' => k = Len(inbox) + 1 /\ inbox'[k] = n
    BY <2>1, <2>5, <2>6 DEF Coming
  <2>8. \A t \in Readers : ~Handling(t) /\ ~Handling(t)'
    BY <2>1 DEF Handling
  <2>9. OneMessage'
    BY <2>2, <2>7, <2>8 DEF OneMessage
  <2>10. Dispatching' /\ ReadOnce' /\ InboundKept'
    BY <2>1, <2>8 DEF InboundInv, Dispatching, ReadOnce, InboundKept, Handling
  <2> QED
    BY <2>9, <2>10 DEF InboundInv
<1>6. ASSUME NEW c \in Callers, Expire(c) PROVE InboundInv'
  BY <1>6, InboundQuiet DEF Expire, client
<1>7. CASE Prune
  BY <1>7, InboundQuiet DEF Prune, history
<1>8. ASSUME NEW store, Crash(store) PROVE InboundInv'
  <2>1. /\ at' = [t \in Readers |-> None] /\ inbox' = << >> /\ UNCHANGED <<opened, emitted>>
        /\ lost' = lost \cup ({i \in opened : \E t \in Readers : Handling(t) /\ at[t].node.author = i} \ emitted)
    BY <1>8 DEF Crash, Handling
  <2>2. \A t \in Readers : at'[t] = None /\ ~Handling(t)'
    BY <2>1 DEF Handling
  <2>3. Dispatching' /\ ReadOnce'
    BY <2>2 DEF Dispatching, ReadOnce
  <2>4. OneMessage'
    BY <2>1, <2>2 DEF OneMessage
  <2>5. InboundKept'
    BY <2>1 DEF InboundInv, InboundKept, Handling
  <2> QED
    BY <2>3, <2>4, <2>5 DEF InboundInv
<1> QED
  BY <1>2, <1>3, <1>4, <1>5, <1>6, <1>7, <1>8 DEF Environment

\* At first nothing was read.
LEMMA InboundInvInit == Init => InboundInv
  BY DEF Init, InboundInv, Dispatching, OneMessage, ReadOnce, InboundKept, Handling

\* A message whose key is used up is told to the application, but for a crash or a handler
\* that raises between the two (dispatch_message_node).
THEOREM OpenedReaches == Spec => []InboundKept
<1>1. ServedInv /\ RetryInv /\ InboundInv /\ [Next]_vars => InboundInv'
  <2> SUFFICES ASSUME ServedInv, RetryInv, InboundInv, [Next]_vars PROVE InboundInv'
    OBVIOUS
  <2>1. CASE UNCHANGED vars
    BY <2>1, InboundQuiet DEF vars, client, history
  <2>2. ASSUME NEW c \in Callers, Caller(c) PROVE InboundInv'
    BY <2>2, InboundCaller
  <2>3. ASSUME NEW t \in Readers, Dispatch(t) PROVE InboundInv'
    BY <2>3, InboundDispatch
  <2>4. CASE Environment
    BY <2>4, InboundEnvironment
  <2> QED
    BY <2>1, <2>2, <2>3, <2>4 DEF Next
<1>2. InboundInv => InboundKept
  BY DEF InboundInv
<1> QED
  BY <1>1, <1>2, InboundInvInit, ServedInvariant, RetryInvariant, PTL DEF Spec

-----------------------------------------------------------------------------
(* Who gets a copy: what is picked from a list, and the lists of devices.    *)

\* A set of numbers that is not empty has a least one.
LEMMA Least ==
  ASSUME NEW T \in SUBSET Nat, T # {}
  PROVE  \E x \in T : \A y \in T : x <= y
<1>1. PICK x \in T : \A y \in T : ~(<<y, x>> \in OpToRel(<, Nat))
  BY NatLessThanWellFounded, WFMin
<1>2. \A y \in T : ~(y < x)
  BY <1>1 DEF OpToRel
<1> QED
  BY <1>2

\* f is what Picked makes of the first 0 to n elements of s.
IsPick(s, kept, n, f) ==
  f = [i \in 0 .. n |-> IF i = 0 THEN << >> ELSE IF i \in kept THEN Append(f[i - 1], s[i]) ELSE f[i - 1]]

\* The recursive function of Picked exists, for as long a list as is wanted.
LEMMA PickExists ==
  ASSUME NEW s, NEW kept, NEW n \in Nat
  PROVE  \E f : IsPick(s, kept, n, f)
<1> DEFINE T == {m \in Nat : ~\E f : IsPick(s, kept, m, f)}
<1> SUFFICES ASSUME T # {} PROVE FALSE
  OBVIOUS
<1>1. PICK m \in T : \A y \in T : m <= y
  BY Least
<1>2. CASE m = 0
  <2> DEFINE g == [i \in 0 .. 0 |-> << >>]
  <2>1. \A i \in 0 .. 0 : g[i] = IF i = 0 THEN << >> ELSE IF i \in kept THEN Append(g[i - 1], s[i]) ELSE g[i - 1]
    OBVIOUS
  <2>2. g = [i \in 0 .. 0 |-> g[i]]
    OBVIOUS
  <2> HIDE DEF g
  <2>3. IsPick(s, kept, 0, g)
    BY <2>1, <2>2 DEF IsPick
  <2> QED
    BY <1>2, <2>3
<1>3. CASE m # 0
  <2>1. m - 1 \in Nat /\ ~(m <= m - 1)
    BY <1>3
  <2>2. PICK f : IsPick(s, kept, m - 1, f)
    BY <1>1, <2>1
  <2> DEFINE g == [i \in 0 .. m |-> IF i = m THEN IF i \in kept THEN Append(f[i - 1], s[i]) ELSE f[i - 1] ELSE f[i]]
  <2>3. ASSUME NEW i \in 0 .. m
        PROVE  g[i] = IF i = 0 THEN << >> ELSE IF i \in kept THEN Append(g[i - 1], s[i]) ELSE g[i - 1]
    <3>1. CASE i = 0
      BY <1>3, <2>2, <3>1 DEF IsPick
    <3>2. CASE i # 0
      <4>1. i - 1 \in 0 .. (m - 1) /\ i - 1 # m /\ i - 1 \in 0 .. m
        BY <3>2
      <4>2. g[i - 1] = f[i - 1]
        BY <4>1
      <4>3. CASE i = m
        BY <3>2, <4>2, <4>3
      <4>4. CASE i # m
        <5>1. i \in 0 .. (m - 1)
          BY <4>4
        <5>2. f[i] = IF i \in kept THEN Append(f[i - 1], s[i]) ELSE f[i - 1]
          BY <2>2, <3>2, <5>1 DEF IsPick
        <5> QED
          BY <3>2, <4>2, <4>4, <5>2
      <4> QED
        BY <4>3, <4>4
    <3> QED
      BY <3>1, <3>2
  <2>4. IsPick(s, kept, m, g)
    <3> HIDE DEF g
    <3>1. g = [i \in 0 .. m |-> g[i]]
      BY DEF g
    <3> QED
      BY <2>3, <3>1 DEF IsPick
  <2> QED
    BY <1>1, <2>4
<1> QED
  BY <1>2, <1>3

\* t is picked from the first n elements of s: it holds those that are kept, and no two of
\* them are the same if they are not in s.
PickedOf(S, s, kept, n, t) ==
  /\ t \in Seq(S)
  /\ \A k \in DOMAIN t : \E i \in kept : i <= n /\ t[k] = s[i]
  /\ \A i \in kept : i <= n => \E k \in DOMAIN t : t[k] = s[i]
  /\ (\A i, k \in kept : s[i] = s[k] => i = k) => \A i, k \in DOMAIN t : t[i] = t[k] => i = k

\* One element more.
LEMMA PickedMore ==
  ASSUME NEW S, NEW s \in Seq(S), NEW kept \in SUBSET DOMAIN s, NEW n \in DOMAIN s, NEW t,
         PickedOf(S, s, kept, n - 1, t)
  PROVE  PickedOf(S, s, kept, n, IF n \in kept THEN Append(t, s[n]) ELSE t)
<1>1. n \in Nat \ {0} /\ kept \subseteq Nat /\ s[n] \in S /\ t \in Seq(S)
  BY DEF PickedOf
<1>2. \A i \in kept : i <= n - 1 \/ i = n \/ ~(i <= n)
  BY <1>1
<1>3. CASE n \notin kept
  <2>1. \A i \in kept : i <= n <=> i <= n - 1
    BY <1>1, <1>2, <1>3
  <2> QED
    BY <1>3, <2>1 DEF PickedOf
<1>4. CASE n \in kept
  <2> DEFINE u == Append(t, s[n])
             m == Len(t)
  <2>1. u \in Seq(S) /\ m \in Nat /\ DOMAIN t = 1 .. m /\ DOMAIN u = 1 .. (m + 1) /\ u[m + 1] = s[n]
        /\ \A k \in 1 .. m : u[k] = t[k]
    BY <1>1
  <2> HIDE DEF u, m
  <2>2. \A k \in DOMAIN u : \E i \in kept : i <= n /\ u[k] = s[i]
    <3>1. TAKE k \in DOMAIN u
    <3>2. CASE k = m + 1
      BY <1>1, <1>4, <2>1, <3>2
    <3>3. CASE k # m + 1
      <4>1. k \in 1 .. m
        BY <2>1, <3>3
      <4>2. PICK i \in kept : i <= n - 1 /\ t[k] = s[i]
        BY <2>1, <4>1 DEF PickedOf
      <4>3. i <= n
        BY <1>1, <4>2
      <4> QED
        BY <2>1, <4>1, <4>2, <4>3
    <3> QED
      BY <3>2, <3>3
  <2>3. \A i \in kept : i <= n => \E k \in DOMAIN u : u[k] = s[i]
    <3>1. SUFFICES ASSUME NEW i \in kept, i <= n PROVE \E k \in DOMAIN u : u[k] = s[i]
      OBVIOUS
    <3>2. CASE i = n
      <4>1. m + 1 \in DOMAIN u
        BY <2>1
      <4> QED
        BY <2>1, <3>2, <4>1
    <3>3. CASE i # n
      <4>1. i <= n - 1
        BY <1>2, <3>1, <3>3
      <4>2. PICK k \in DOMAIN t : t[k] = s[i]
        BY <4>1 DEF PickedOf
      <4>3. k \in 1 .. m /\ k \in 1 .. (m + 1)
        BY <2>1, <4>2
      <4> QED
        BY <2>1, <4>2, <4>3
    <3> QED
      BY <3>2, <3>3
  <2>4. (\A i, k \in kept : s[i] = s[k] => i = k) => \A i, k \in DOMAIN u : u[i] = u[k] => i = k
    <3>1. SUFFICES ASSUME \A i, k \in kept : s[i] = s[k] => i = k, NEW i \in DOMAIN u, NEW k \in DOMAIN u, u[i] = u[k]
                   PROVE  i = k
      OBVIOUS
    <3>2. \A j \in 1 .. m : u[j] # u[m + 1]
      <4>1. SUFFICES ASSUME NEW j \in 1 .. m, u[j] = u[m + 1] PROVE FALSE
        OBVIOUS
      <4>2. PICK l \in kept : l <= n - 1 /\ t[j] = s[l]
        BY <2>1, <4>1 DEF PickedOf
      <4>3. l = n
        BY <1>4, <2>1, <3>1, <4>1, <4>2
      <4> QED
        BY <1>1, <4>2, <4>3
    <3>3. \A j, l \in 1 .. m : u[j] = u[l] => j = l
      BY <2>1, <3>1 DEF PickedOf
    <3>4. (i \in 1 .. m \/ i = m + 1) /\ (k \in 1 .. m \/ k = m + 1)
      BY <2>1, <3>1
    <3> QED
      BY <3>1, <3>2, <3>3, <3>4
  <2>5. PickedOf(S, s, kept, n, u)
    BY <2>1, <2>2, <2>3, <2>4 DEF PickedOf
  <2> QED
    BY <1>4, <2>5 DEF u
<1> QED
  BY <1>3, <1>4

\* What Picked looks up at the end of s.
LEMMA PickedLast ==
  ASSUME NEW S, NEW s \in Seq(S), NEW kept
  PROVE  \E f : IsPick(s, kept, Len(s), f) /\ Picked(s, kept) = f[Len(s)]
<1> DEFINE f == CHOOSE g : IsPick(s, kept, Len(s), g)
<1>1. IsPick(s, kept, Len(s), f)
  BY PickExists
<1>2. f = CHOOSE g : g = [i \in 0 .. Len(s) |-> IF i = 0 THEN << >> ELSE IF i \in kept THEN Append(g[i - 1], s[i]) ELSE g[i - 1]]
  BY DEF IsPick
<1> HIDE DEF f
<1>3. Picked(s, kept) = f[Len(s)]
  BY <1>2 DEF Picked
<1> QED
  BY <1>1, <1>3

\* What Picked returns.
LEMMA PickedIs ==
  ASSUME NEW S, NEW s \in Seq(S), NEW kept \in SUBSET DOMAIN s
  PROVE  PickedOf(S, s, kept, Len(s), Picked(s, kept))
<1>1. Len(s) \in Nat /\ DOMAIN s = 1 .. Len(s)
  OBVIOUS
<1>2. PICK f : IsPick(s, kept, Len(s), f) /\ Picked(s, kept) = f[Len(s)]
  BY PickedLast
<1> DEFINE T == {n \in 0 .. Len(s) : ~PickedOf(S, s, kept, n, f[n])}
<1>3. SUFFICES ASSUME T # {} PROVE FALSE
  BY <1>1, <1>2
<1>4. PICK n \in T : \A m \in T : n <= m
  <2>1. T \in SUBSET Nat
    BY <1>1
  <2> QED
    BY <1>3, <2>1, Least
<1>5. CASE n = 0
  <2>1. f[0] = << >>
    BY <1>1, <1>2 DEF IsPick
  <2>2. \A i \in kept : ~(i <= 0)
    BY <1>1
  <2>3. PickedOf(S, s, kept, 0, << >>)
    BY <2>2 DEF PickedOf
  <2> QED
    BY <1>5, <2>1, <2>3
<1>6. CASE n # 0
  <2>1. n \in DOMAIN s /\ n - 1 \in 0 .. Len(s) /\ ~(n <= n - 1)
    BY <1>1, <1>6
  <2>2. PickedOf(S, s, kept, n - 1, f[n - 1])
    BY <1>4, <2>1
  <2>3. f[n] = IF n \in kept THEN Append(f[n - 1], s[n]) ELSE f[n - 1]
    BY <1>2, <1>6 DEF IsPick
  <2> QED
    BY <2>1, <2>2, <2>3, PickedMore
<1> QED
  BY <1>5, <1>6

\* Picking every element leaves the list as it is.
LEMMA PickedAll ==
  ASSUME NEW S, NEW s \in Seq(S), NEW kept, DOMAIN s \subseteq kept
  PROVE  Picked(s, kept) = s
<1>1. Len(s) \in Nat /\ DOMAIN s = 1 .. Len(s)
  OBVIOUS
<1>2. PICK f : IsPick(s, kept, Len(s), f) /\ Picked(s, kept) = f[Len(s)]
  BY PickedLast
<1> DEFINE T == {n \in 0 .. Len(s) : f[n] # SubSeq(s, 1, n)}
<1>3. SUFFICES ASSUME T # {} PROVE FALSE
  <2>1. SubSeq(s, 1, Len(s)) = s
    OBVIOUS
  <2> QED
    BY <1>1, <1>2, <2>1
<1>4. PICK n \in T : \A m \in T : n <= m
  <2>1. T \in SUBSET Nat
    BY <1>1
  <2> QED
    BY <1>3, <2>1, Least
<1>5. CASE n = 0
  <2>1. f[0] = << >>
    BY <1>1, <1>2 DEF IsPick
  <2>2. SubSeq(s, 1, 0) = << >>
    BY SubSeqEmpty
  <2> QED
    BY <1>5, <2>1, <2>2
<1>6. CASE n # 0
  <2>1. n \in DOMAIN s /\ n - 1 \in 0 .. Len(s) /\ ~(n <= n - 1)
    BY <1>1, <1>6
  <2>2. f[n - 1] = SubSeq(s, 1, n - 1)
    BY <1>4, <2>1
  <2>3. f[n] = Append(f[n - 1], s[n])
    BY <1>2, <1>6, <2>1 DEF IsPick
  <2>4. Append(SubSeq(s, 1, n - 1), s[n]) = SubSeq(s, 1, n)
    BY <1>1, <2>1
  <2> QED
    BY <2>2, <2>3, <2>4
<1> QED
  BY <1>5, <1>6

-----------------------------------------------------------------------------
\* FlattenSeq of one list, and of two.
IsFlat(s, f) == f = [i \in 1 .. Len(s) |-> IF i = 1 THEN s[i] ELSE f[i - 1] \o s[i]]

LEMMA FlattenIs ==
  ASSUME NEW s, s # << >>, \E f : IsFlat(s, f)
  PROVE  \E f : IsFlat(s, f) /\ FlattenSeq(s) = f[Len(s)]
<1> DEFINE f == CHOOSE g : IsFlat(s, g)
<1>1. IsFlat(s, f)
  OBVIOUS
<1>2. f = CHOOSE g : g = [i \in 1 .. Len(s) |-> IF i = 1 THEN s[i] ELSE g[i - 1] \o s[i]]
  BY DEF IsFlat
<1> HIDE DEF f
<1>3. FlattenSeq(s) = f[Len(s)]
  BY <1>2 DEF FlattenSeq
<1> QED
  BY <1>1, <1>3

LEMMA FlattenOne ==
  ASSUME NEW s, Len(s) = 1, s # << >>
  PROVE  FlattenSeq(s) = s[1]
<1> DEFINE g == [i \in 1 .. 1 |-> s[1]]
<1>1. g = [i \in 1 .. 1 |-> IF i = 1 THEN s[i] ELSE g[i - 1] \o s[i]]
  OBVIOUS
<1>2. IsFlat(s, g)
  BY <1>1 DEF IsFlat
<1>3. PICK f : IsFlat(s, f) /\ FlattenSeq(s) = f[Len(s)]
  BY <1>2, FlattenIs
<1> QED
  BY <1>3 DEF IsFlat

LEMMA FlattenTwo ==
  ASSUME NEW s, Len(s) = 2, s # << >>
  PROVE  FlattenSeq(s) = s[1] \o s[2]
<1> DEFINE g == [i \in 1 .. 2 |-> IF i = 1 THEN s[1] ELSE s[1] \o s[2]]
<1>1. g = [i \in 1 .. 2 |-> IF i = 1 THEN s[i] ELSE g[i - 1] \o s[i]]
  <2>1. \A i \in 1 .. 2 : i = 1 \/ i = 2
    OBVIOUS
  <2>2. g[1] = s[1] /\ g[2] = s[1] \o s[2]
    OBVIOUS
  <2>3. \A i \in 1 .. 2 : g[i] = IF i = 1 THEN s[i] ELSE g[i - 1] \o s[i]
    BY <2>1, <2>2
  <2>4. g = [i \in 1 .. 2 |-> g[i]]
    OBVIOUS
  <2> HIDE DEF g
  <2> QED
    BY <2>3, <2>4
<1> HIDE DEF g
<1>2. IsFlat(s, g)
  BY <1>1 DEF IsFlat
<1>3. PICK f : IsFlat(s, f) /\ FlattenSeq(s) = f[Len(s)]
  BY <1>2, FlattenIs
<1>4. f[2] = f[1] \o s[2] /\ f[1] = s[1]
  BY <1>3 DEF IsFlat
<1> QED
  BY <1>3, <1>4

\* What is picked from a list comes from it, once if the list has everything once.
LEMMA PickedKeeps ==
  ASSUME NEW S, NEW s \in Seq(S), NEW kept \in SUBSET DOMAIN s
  PROVE  /\ Picked(s, kept) \in Seq(S)
         /\ \A k \in DOMAIN Picked(s, kept) : \E i \in kept : Picked(s, kept)[k] = s[i]
         /\ \A i \in kept : \E k \in DOMAIN Picked(s, kept) : Picked(s, kept)[k] = s[i]
         /\ (\A i, k \in kept : s[i] = s[k] => i = k) => IsInjective(Picked(s, kept))
<1>1. PickedOf(S, s, kept, Len(s), Picked(s, kept))
  BY PickedIs
<1>2. \A i \in kept : i <= Len(s)
  OBVIOUS
<1> QED
  BY <1>1, <1>2 DEF PickedOf, IsInjective

-----------------------------------------------------------------------------
\* The devices of a user, each once, by the address it has, and, unless the user is the
\* account, the first.
DevicesOf(u, id, D) ==
  /\ D \in Seq(Addresses) /\ IsInjective(D)
  /\ \A k \in DOMAIN D : /\ D[k].user = u /\ D[k].agent = None
                         /\ D[k].server \in {id.server, server_for_device(id.server, TRUE)}
  /\ u \notin MeUsers => \E k \in DOMAIN D : D[k].device = None

\* The lookup of a user who is asked about.
Lookup(listing, u, id) == device_jids([id |-> id, devices |-> parse_devices(listing[u])])

LEMMA DeviceJids ==
  ASSUME NEW listing \in Listings, NEW u \in Asked, NEW id, id.user = u, id.server \in Servers
  PROVE  DevicesOf(u, id, Lookup(listing, u, id))
<1> DEFINE D == Lookup(listing, u, id)
           nodes == listing[u]
           S == ToSet(nodes)
           named == {i \in DOMAIN nodes : nodes[i].id # None}
           parsed == parse_devices(nodes)
           vouched == {i \in DOMAIN parsed : Extracted(u, parsed[i])}
           kept == Picked(parsed, vouched)
           jid(d) == jid_encode(u, server_for_device(id.server, d.is_hosted), d.id, None)
<1>1. /\ nodes \in Seq(S) /\ \E i \in DOMAIN nodes : nodes[i].id = 0
      /\ \A i, k \in DOMAIN nodes : nodes[i].id = nodes[k].id /\ nodes[i].id # None => i = k
  BY AddressAssumption
<1>2. \A i \in DOMAIN nodes : nodes[i].id \in Devices
  <2>1. TAKE i \in DOMAIN nodes
  <2>2. nodes[i] \in S
    BY DEF ToSet
  <2>3. u \in DOMAIN listing
    BY AddressAssumption
  <2> QED
    BY <2>2, <2>3 DEF Devices
<1>3. /\ parsed \in Seq(S)
      /\ \A k \in DOMAIN parsed : \E i \in named : parsed[k] = nodes[i]
      /\ \A i \in named : \E k \in DOMAIN parsed : parsed[k] = nodes[i]
      /\ IsInjective(parsed)
  <2>1. \A i, k \in named : nodes[i] = nodes[k] => i = k
    BY <1>1
  <2>2. parsed = Picked(nodes, named) /\ named \in SUBSET DOMAIN nodes
    BY DEF parse_devices
  <2> HIDE DEF named, parsed, nodes, S
  <2> QED
    BY <1>1, <2>1, <2>2, PickedKeeps
<1> HIDE DEF parsed
<1>4. /\ kept \in Seq(S)
      /\ \A k \in DOMAIN kept : \E i \in vouched : kept[k] = parsed[i]
      /\ \A i \in vouched : \E k \in DOMAIN kept : kept[k] = parsed[i]
      /\ IsInjective(kept)
  <2>1. \A i, k \in vouched : parsed[i] = parsed[k] => i = k
    BY <1>3 DEF IsInjective
  <2>2. vouched \in SUBSET DOMAIN parsed
    OBVIOUS
  <2>3. parsed \in Seq(S)
    BY <1>3
  <2> HIDE DEF vouched, S, nodes, named, D
  <2> QED
    BY <2>1, <2>2, <2>3, PickedKeeps
<1>5. D = [k \in DOMAIN kept |-> jid(kept[k])]
  BY DEF device_jids, parsed, Lookup
<1> HIDE DEF kept, D
<1>6. \A k \in DOMAIN kept : \E i \in named : kept[k] = nodes[i]
  BY <1>3, <1>4
<1>7. \A i, k \in DOMAIN kept : kept[i].id = kept[k].id => i = k
  <2>1. SUFFICES ASSUME NEW i \in DOMAIN kept, NEW k \in DOMAIN kept, kept[i].id = kept[k].id PROVE i = k
    OBVIOUS
  <2>2. PICK a \in named, b \in named : kept[i] = nodes[a] /\ kept[k] = nodes[b]
    BY <1>6, <2>1
  <2>3. a = b
    BY <1>1, <2>1, <2>2
  <2> QED
    BY <1>4, <2>1, <2>2, <2>3 DEF IsInjective
<1>8. \A k \in DOMAIN kept : kept[k].id # None /\ kept[k].id \in Devices
  BY <1>2, <1>6
<1>9. \A d : /\ jid(d).user = u /\ jid(d).agent = None /\ jid(d).server = server_for_device(id.server, d.is_hosted)
             /\ jid(d).device = IF d.id \in {None, 0} THEN None ELSE d.id
  BY DEF jid_encode
<1>10. \A d : server_for_device(id.server, d.is_hosted) \in {id.server, server_for_device(id.server, TRUE)}
  BY DEF server_for_device
<1>11. \A d : d.id \in Devices => jid(d) \in Addresses
  <2>1. u \in MeUsers \cup {chat.user : chat \in Chats}
    BY DEF Asked
  <2>2. \A d : server_for_device(id.server, d.is_hosted) \in Servers
    BY DEF server_for_device, Servers
  <2> QED
    BY <2>1, <2>2 DEF Addresses
<1> HIDE DEF jid
<1>12. Len(kept) \in Nat /\ DOMAIN kept = 1 .. Len(kept)
  BY <1>4
<1>13. D \in Seq(Addresses)
  <2>1. \A k \in 1 .. Len(kept) : D[k] \in Addresses
    BY <1>5, <1>8, <1>11, <1>12
  <2> QED
    BY <1>5, <1>12, <2>1, SeqDef
<1>14. IsInjective(D)
  <2>1. SUFFICES ASSUME NEW i \in DOMAIN kept, NEW k \in DOMAIN kept, jid(kept[i]) = jid(kept[k]) PROVE i = k
    BY <1>5 DEF IsInjective
  <2>2. kept[i].id = kept[k].id
    BY <1>8, <1>9, <2>1
  <2> QED
    BY <1>7, <2>2
<1>15. ASSUME u \notin MeUsers PROVE \E k \in DOMAIN D : D[k].device = None
  <2>1. PICK n \in DOMAIN nodes : nodes[n].id = 0
    BY <1>1
  <2>2. 0 # None
    BY AddressAssumption
  <2>3. PICK i \in DOMAIN parsed : parsed[i] = nodes[n]
    BY <1>3, <2>1, <2>2
  <2>4. Extracted(u, parsed[i])
    BY <1>15, <2>1, <2>3 DEF Extracted, IsOwnDevice
  <2>5. PICK k \in DOMAIN kept : kept[k] = parsed[i]
    BY <1>4, <2>4
  <2>6. jid(kept[k]).device = None
    BY <1>9, <2>1, <2>3, <2>5
  <2> QED
    BY <1>5, <2>6
<1>16. \A k \in DOMAIN D : /\ D[k].user = u /\ D[k].agent = None
                            /\ D[k].server \in {id.server, server_for_device(id.server, TRUE)}
  BY <1>5, <1>9, <1>10
<1> QED
  BY <1>13, <1>14, <1>15, <1>16 DEF DevicesOf, D

\* An address of the account: by its LID, or by its number.
OwnAddress(j) ==
  /\ ~is_jid_group(j)
  /\ IF is_lid(j) THEN MeLid # None /\ j.user = MeLid.user ELSE j.user = MeId.user

\* The devices that are found for a chat: our own, and those of the chat, the first among
\* them, unless it is ours or a group.
FoundFor(chat, D) ==
  /\ D \in Seq(Addresses) /\ IsInjective(D)
  /\ \A k \in DOMAIN D : \/ D[k].agent = None /\ D[k].user \in MeUsers /\ OwnAddress(D[k])
                         \/ /\ chat.user \notin MeUsers /\ ~is_jid_group(chat)
                            /\ D[k].agent = None /\ D[k].user = chat.user
  /\ chat.user \notin MeUsers /\ ~is_jid_group(chat) => \E k \in DOMAIN D : D[k].user = chat.user /\ D[k].device = None

LEMMA ListedJids ==
  ASSUME NEW chat \in Chats, NEW listing \in Listings
  PROVE  FoundFor(chat, extract_device_jids(parse_usync_result(Listed(chat, listing))))
<1> DEFINE ids == conversation_identities(chat)
           user(i) == [id |-> ids[i], devices |-> listing[ids[i].user]]
           users == Listed(chat, listing)
           parsed(i) == [id |-> ids[i], devices |-> parse_devices(listing[ids[i].user])]
           D(i) == device_jids(parsed(i))
           result == parse_usync_result(users)
           lists == [i \in DOMAIN result |-> device_jids(result[i])]
           two == ~(ids[2].user = ids[1].user \/ is_jid_group(chat))
<1> SUFFICES FoundFor(chat, extract_device_jids(result))
  OBVIOUS
<1>1. /\ ids[1].user \in MeUsers /\ ids[1].server \in {"lid", "s.whatsapp.net"}
      /\ ids[1].server = "lid" => MeLid # None /\ ids[1].user = MeLid.user
      /\ ids[1].server # "lid" => ids[1].user = MeId.user
      /\ ids[1] # None
  <2>1. ids[1] = IF chat.server = "lid" /\ MeLid # None THEN jid_encode(MeLid.user, "lid", None, None)
                 ELSE jid_encode(MeId.user, "s.whatsapp.net", None, None)
    BY DEF conversation_identities
  <2>2. MeId.user \in MeUsers /\ (MeLid # None => MeLid.user \in MeUsers)
    BY DEF MeUsers
  <2>3. \A u \in MeUsers, server \in Servers : jid_encode(u, server, None, None) \in Addresses
    <3>1. \A u, server : jid_encode(u, server, None, None) = jid_encode(u, server, 0, None)
      BY DEF jid_encode
    <3>2. 0 \in Devices
      BY DEF Devices
    <3> QED
      BY <3>1, <3>2 DEF Addresses
  <2>4. ids[1] \in Addresses
    BY <2>1, <2>2, <2>3 DEF Servers
  <2>5. ids[1] # None
    BY <2>4, AddressAssumption
  <2> QED
    BY <2>1, <2>2, <2>5 DEF jid_encode
<1>2. ids[2].user = chat.user /\ ids[2].server \in Servers /\ ids[2] # None
  <2>1. ids[2] = jid_encode(chat.user, IF chat.server = "c.us" THEN "s.whatsapp.net" ELSE chat.server, 0, chat.agent)
    BY DEF conversation_identities, jid_normalized_user, jid_encode
  <2>2. (IF chat.server = "c.us" THEN "s.whatsapp.net" ELSE chat.server) \in Servers
    BY DEF Servers
  <2>3. 0 \in Devices
    BY DEF Devices
  <2>4. ids[2] \in Addresses
    BY <2>1, <2>2, <2>3 DEF Addresses
  <2>5. ids[2] # None
    BY <2>4, AddressAssumption
  <2> QED
    BY <2>1, <2>2, <2>5 DEF jid_encode
<1>3. two <=> chat.user \notin MeUsers /\ ~is_jid_group(chat)
  <2>1. chat.user \in MeUsers /\ chat.server = "lid" => ids[1].user = chat.user
    <3>1. SUFFICES ASSUME chat.user \in MeUsers, chat.server = "lid" PROVE ids[1].user = chat.user
      OBVIOUS
    <3>2. MeLid # None /\ chat.user = MeLid.user
      BY <3>1, AddressAssumption
    <3> QED
      BY <3>1, <3>2 DEF conversation_identities, jid_encode
  <2>2. chat.user \in MeUsers /\ chat.server # "lid" => ids[1].user = chat.user
    <3>1. SUFFICES ASSUME chat.user \in MeUsers, chat.server # "lid" PROVE ids[1].user = chat.user
      OBVIOUS
    <3>2. chat.user = MeId.user
      BY <3>1, AddressAssumption
    <3> QED
      BY <3>1, <3>2 DEF conversation_identities, jid_encode
  <2> QED
    BY <1>1, <1>2, <2>1, <2>2
<1>4. users = IF two THEN <<user(1), user(2)>> ELSE <<user(1)>>
  BY DEF Listed
<1> HIDE DEF ids, users
<1>5. \A i \in 1 .. 2 : (i = 2 => two) => listing[ids[i].user] # None
  <2>1. ids[1].user \in Asked /\ (two => ids[2].user \in Asked)
    BY <1>1, <1>2, <1>3 DEF Asked
  <2> QED
    BY <2>1, AddressAssumption
<1>6. result = IF two THEN <<parsed(1), parsed(2)>> ELSE <<parsed(1)>>
  <2> DEFINE n == IF two THEN 2 ELSE 1
             S == {user(1), user(2)}
             all == {i \in DOMAIN users : users[i].id # None}
  <2>1. users \in Seq(S) /\ DOMAIN users = 1 .. n /\ \A i \in 1 .. n : users[i] = user(i)
    <3> HIDE DEF user
    <3>1. CASE two
      BY <1>4, <3>1
    <3>2. CASE ~two
      BY <1>4, <3>2
    <3> QED
      BY <3>1, <3>2
  <2>2. DOMAIN users \subseteq all
    BY <1>1, <1>2, <2>1
  <2>3. Picked(users, all) = users
    BY <2>1, <2>2, PickedAll
  <2>4. result = [i \in DOMAIN users |-> [id |-> users[i].id,
                   devices |-> IF users[i].devices = None THEN << >> ELSE parse_devices(users[i].devices)]]
    BY <2>3 DEF parse_usync_result
  <2>5. \A i \in 1 .. n : [id |-> users[i].id,
                   devices |-> IF users[i].devices = None THEN << >> ELSE parse_devices(users[i].devices)] = parsed(i)
    <3>1. TAKE i \in 1 .. n
    <3>2. users[i].id = ids[i] /\ users[i].devices = listing[ids[i].user]
      <4>1. users[i] = user(i)
        BY <2>1
      <4>2. user(i).id = ids[i] /\ user(i).devices = listing[ids[i].user]
        OBVIOUS
      <4> HIDE DEF user
      <4> QED
        BY <4>1, <4>2
    <3>3. listing[ids[i].user] # None
      <4>1. i \in 1 .. 2 /\ (i = 2 => two)
        OBVIOUS
      <4> QED
        BY <1>5, <4>1
    <3> QED
      BY <3>2, <3>3
  <2>6. result = [i \in 1 .. n |-> parsed(i)]
    BY <2>1, <2>4, <2>5
  <2> HIDE DEF parsed, result
  <2> QED
    BY <2>6
<1> HIDE DEF result
<1>7. extract_device_jids(result) = IF two THEN D(1) \o D(2) ELSE D(1)
  <2>1. CASE two
    <3>1. lists = <<D(1), D(2)>>
      BY <1>6, <2>1
    <3>2. FlattenSeq(lists) = D(1) \o D(2)
      BY <3>1, FlattenTwo
    <3> QED
      BY <2>1, <3>2 DEF extract_device_jids
  <2>2. CASE ~two
    <3>1. lists = <<D(1)>>
      BY <1>6, <2>2
    <3>2. FlattenSeq(lists) = D(1)
      BY <3>1, FlattenOne
    <3> QED
      BY <2>2, <3>2 DEF extract_device_jids
  <2> QED
    BY <2>1, <2>2
<1>8. /\ D(1) \in Seq(Addresses) /\ IsInjective(D(1))
      /\ \A k \in DOMAIN D(1) : D(1)[k].agent = None /\ D(1)[k].user \in MeUsers /\ OwnAddress(D(1)[k])
  <2> DEFINE E == D(1)
  <2>1. ids[1].user \in Asked /\ ids[1].server \in Servers
    BY <1>1 DEF Asked, Servers
  <2>2. /\ E \in Seq(Addresses) /\ IsInjective(E)
        /\ \A k \in DOMAIN E : /\ E[k].user = ids[1].user /\ E[k].agent = None
                               /\ E[k].server \in {ids[1].server, server_for_device(ids[1].server, TRUE)}
    <3> DEFINE id == ids[1]
               u == id.user
    <3>1. E = Lookup(listing, u, id) /\ id.user = u
      BY DEF Lookup
    <3>2. u \in Asked /\ id.server \in Servers
      BY <1>2, <2>1
    <3> HIDE DEF E, id, u
    <3>3. DevicesOf(u, id, E)
      BY <3>1, <3>2, DeviceJids
    <3> QED
      BY <3>3 DEF id, u, DevicesOf
  <2> HIDE DEF E
  <2>3. \A k \in DOMAIN E : OwnAddress(E[k])
    BY <1>1, <2>2 DEF OwnAddress, server_for_device, is_lid, is_jid_group
  <2> QED
    BY <1>1, <2>2, <2>3 DEF E
<1>9. CASE ~two
  BY <1>3, <1>7, <1>8, <1>9 DEF FoundFor
<1>10. CASE two
  <2> DEFINE E == D(1)
             F == D(2)
             m == Len(E)
             n == Len(F)
  <2>1. ids[2].user \in Asked
    BY <1>2, <1>3, <1>10 DEF Asked
  <2>2. /\ F \in Seq(Addresses) /\ IsInjective(F)
        /\ \A k \in DOMAIN F : F[k].agent = None /\ F[k].user = chat.user
        /\ \E k \in DOMAIN F : F[k].device = None
    <3> DEFINE id == ids[2]
               u == id.user
    <3>1. F = Lookup(listing, u, id) /\ id.user = u
      BY DEF Lookup
    <3>2. u \in Asked /\ id.server \in Servers
      BY <1>2, <2>1
    <3> HIDE DEF F, id, u
    <3>3. DevicesOf(u, id, F)
      BY <3>1, <3>2, DeviceJids
    <3> QED
      BY <1>2, <1>3, <1>10, <3>3 DEF id, u, DevicesOf
  <2>3. E \in Seq(Addresses) /\ IsInjective(E) /\ \A k \in DOMAIN E : E[k].user \in MeUsers
    BY <1>8
  <2> HIDE DEF E, F
  <2>4. /\ E \o F \in Seq(Addresses) /\ DOMAIN (E \o F) = 1 .. (m + n) /\ m \in Nat /\ n \in Nat
        /\ DOMAIN E = 1 .. m /\ DOMAIN F = 1 .. n
        /\ \A k \in 1 .. m : (E \o F)[k] = E[k]
        /\ \A k \in 1 .. n : (E \o F)[m + k] = F[k]
    BY <2>2, <2>3
  <2>5. \A k \in 1 .. (m + n) : k \in 1 .. m \/ \E l \in 1 .. n : k = m + l
    <3>1. TAKE k \in 1 .. (m + n)
    <3>2. k \notin 1 .. m => k - m \in 1 .. n /\ k = m + (k - m)
      BY <2>4
    <3> QED
      BY <3>2
  <2> DEFINE G == E \o F
  <2> HIDE DEF G, m, n
  <2>10. \A k \in 1 .. m : G[k] = E[k] /\ k \in DOMAIN E
    BY <2>4 DEF G
  <2>11. \A l \in 1 .. n : G[m + l] = F[l] /\ l \in DOMAIN F
    BY <2>4 DEF G
  <2>12. \A k \in 1 .. m : G[k].user \in MeUsers
    BY <2>3, <2>10
  <2>13. \A l \in 1 .. n : G[m + l].agent = None /\ G[m + l].user = chat.user
    <3>1. TAKE l \in 1 .. n
    <3>2. G[m + l] = F[l] /\ l \in DOMAIN F
      BY <2>11
    <3>3. F[l].agent = None /\ F[l].user = chat.user
      BY <2>2, <3>2
    <3> QED
      BY <3>2, <3>3
  <2>14. \A k \in 1 .. (m + n) : k \notin 1 .. m => G[k].user = chat.user
    BY <2>5, <2>13
  <2>6. IsInjective(G)
    <3>1. SUFFICES ASSUME NEW i \in 1 .. (m + n), NEW k \in 1 .. (m + n), G[i] = G[k] PROVE i = k
      BY <2>4 DEF G, IsInjective
    <3>2. CASE i \in 1 .. m /\ k \in 1 .. m
      BY <2>3, <2>4, <3>1, <3>2 DEF G, IsInjective
    <3>3. CASE i \in 1 .. m /\ k \notin 1 .. m
      <4>1. G[i].user \in MeUsers /\ G[k].user = chat.user
        BY <2>12, <2>14, <3>3
      <4> QED
        BY <1>3, <1>10, <3>1, <4>1
    <3>4. CASE i \notin 1 .. m /\ k \in 1 .. m
      <4>1. G[k].user \in MeUsers /\ G[i].user = chat.user
        BY <2>12, <2>14, <3>4
      <4> QED
        BY <1>3, <1>10, <3>1, <4>1
    <3>5. CASE i \notin 1 .. m /\ k \notin 1 .. m
      <4>1. PICK a \in 1 .. n, b \in 1 .. n : i = m + a /\ k = m + b
        BY <2>5, <3>5
      <4>2. F[a] = F[b]
        BY <2>4, <3>1, <4>1 DEF G
      <4> QED
        BY <2>2, <2>4, <4>1, <4>2 DEF IsInjective
    <3> QED
      BY <3>2, <3>3, <3>4, <3>5
  <2>7. \A k \in DOMAIN G : \/ G[k].agent = None /\ G[k].user \in MeUsers /\ OwnAddress(G[k])
                            \/ G[k].agent = None /\ G[k].user = chat.user
    <3>1. \A k \in DOMAIN E : E[k].agent = None /\ E[k].user \in MeUsers /\ OwnAddress(E[k])
      BY <1>8 DEF E
    <3>2. \A k \in 1 .. m : G[k] = E[k] /\ k \in DOMAIN E
      BY <2>4 DEF G
    <3>4. DOMAIN G = 1 .. (m + n)
      BY <2>4 DEF G
    <3> QED
      BY <2>5, <2>13, <3>1, <3>2, <3>4
  <2>8. \E k \in DOMAIN G : G[k].user = chat.user /\ G[k].device = None
    <3>1. PICK l \in DOMAIN F : F[l].device = None
      BY <2>2
    <3>2. m + l \in DOMAIN G /\ G[m + l] = F[l]
      BY <2>4, <3>1 DEF G
    <3> QED
      BY <2>2, <3>1, <3>2
  <2>9. extract_device_jids(result) = G
    BY <1>7, <1>10 DEF G, E, F
  <2> QED
    <3>1. G \in Seq(Addresses)
      BY <2>4 DEF G
    <3> QED
      BY <1>3, <1>10, <2>6, <2>7, <2>8, <2>9, <3>1 DEF FoundFor
<1> QED
  BY <1>9, <1>10

\* The first device of a chat.
FirstOf(chat) == jid_encode(chat.user, chat.server, 0, None)

\* The targets of a message: each once, not this device; the chat's are the chat's user's,
\* and its first device is one of them unless it is a group.
Own(own) ==
  /\ own \in Seq(Addresses) /\ IsInjective(own)
  /\ \A k \in DOMAIN own : own[k].agent = None /\ own[k].user \in MeUsers /\ OwnAddress(own[k]) /\ own[k] # MeId
Others(chat, others) ==
  /\ others \in Seq(Addresses) /\ IsInjective(others)
  /\ \A k \in DOMAIN others : others[k].agent = None /\ others[k].user = chat.user /\ others[k] # MeId
  /\ \A k \in DOMAIN others : chat.user \in MeUsers => others[k] = FirstOf(chat)
  /\ ~is_jid_group(chat) => \E k \in DOMAIN others : others[k].device = None

LEMMA FirstAlone ==
  ASSUME NEW chat \in Chats
  PROVE  Others(chat, <<FirstOf(chat)>>)
<1> DEFINE first == FirstOf(chat)
<1>1. first.agent = None /\ first.user = chat.user /\ first.device = None
  BY DEF FirstOf, jid_encode
<1>2. first # MeId
  BY <1>1, AddressAssumption
<1>3. first \in Addresses
  BY DEF FirstOf, Addresses, Devices, Servers
<1> HIDE DEF first
<1>4. Others(chat, <<first>>)
  <2> DEFINE s == <<first>>
  <2>1. s \in Seq(Addresses) /\ DOMAIN s = {1} /\ s[1] = first
    BY <1>3
  <2> HIDE DEF s
  <2>2. first = FirstOf(chat)
    BY DEF first
  <2> QED
    BY <1>1, <1>2, <2>1, <2>2 DEF Others, IsInjective, s
<1> QED
  BY <1>4 DEF first

LEMMA TargetsFine ==
  ASSUME NEW chat \in Chats, NEW listing \in Listings, NEW split, split = Targets(chat, Listed(chat, listing))
  PROVE  Own(split.own) /\ Others(chat, split.others) /\ DOMAIN split = {"own", "others"}
<1> DEFINE D == extract_device_jids(parse_usync_result(Listed(chat, listing)))
           rest == OtherDevices(D)
           kept == {i \in DOMAIN D : D[i] \notin {MeId, MeLid}}
           own == OfUsers(rest, MeUsers)
           ours == {i \in DOMAIN rest : rest[i].user \in MeUsers}
           others == NotOfUsers(rest, MeUsers)
           theirs == {i \in DOMAIN rest : rest[i].user \notin MeUsers}
<1>1. FoundFor(chat, D)
  BY ListedJids
<1>2. split = IF others = << >> /\ ~is_jid_group(chat) THEN [own |-> own, others |-> <<FirstOf(chat)>>]
              ELSE [own |-> own, others |-> others]
  BY DEF Targets, split_own_and_other_devices, FirstOf
<1>3. rest = Picked(D, kept) /\ own = Picked(rest, ours) /\ others = Picked(rest, theirs)
  BY DEF OtherDevices, OfUsers, NotOfUsers
<1> HIDE DEF D, rest, own, others
<1>4. /\ rest \in Seq(Addresses) /\ IsInjective(rest)
      /\ \A k \in DOMAIN rest : \E i \in kept : rest[k] = D[i]
      /\ \A i \in kept : \E k \in DOMAIN rest : rest[k] = D[i]
  <2>1. D \in Seq(Addresses) /\ kept \in SUBSET DOMAIN D
    BY <1>1 DEF FoundFor
  <2>2. \A i, k \in kept : D[i] = D[k] => i = k
    BY <1>1 DEF FoundFor, IsInjective
  <2> HIDE DEF kept
  <2> QED
    BY <1>3, <2>1, <2>2, PickedKeeps
<1>5. /\ own \in Seq(Addresses) /\ IsInjective(own)
      /\ \A k \in DOMAIN own : \E i \in ours : own[k] = rest[i]
  <2>1. ours \in SUBSET DOMAIN rest
    OBVIOUS
  <2>2. \A i, k \in ours : rest[i] = rest[k] => i = k
    BY <1>4 DEF IsInjective
  <2>3. rest \in Seq(Addresses) /\ own = Picked(rest, ours)
    BY <1>3, <1>4
  <2> HIDE DEF ours, kept
  <2> QED
    BY <2>1, <2>2, <2>3, PickedKeeps
<1>6. /\ others \in Seq(Addresses) /\ IsInjective(others)
      /\ \A k \in DOMAIN others : \E i \in theirs : others[k] = rest[i]
      /\ \A i \in theirs : \E k \in DOMAIN others : others[k] = rest[i]
  <2>1. theirs \in SUBSET DOMAIN rest
    OBVIOUS
  <2>2. \A i, k \in theirs : rest[i] = rest[k] => i = k
    BY <1>4 DEF IsInjective
  <2>3. rest \in Seq(Addresses) /\ others = Picked(rest, theirs)
    BY <1>3, <1>4
  <2> HIDE DEF theirs, kept
  <2> QED
    BY <2>1, <2>2, <2>3, PickedKeeps
<1>7. Own(own)
  <2>1. \A k \in DOMAIN own : own[k].agent = None /\ own[k].user \in MeUsers /\ OwnAddress(own[k]) /\ own[k] # MeId
    <3>1. TAKE k \in DOMAIN own
    <3>2. PICK j \in ours : own[k] = rest[j]
      BY <1>5
    <3>3. PICK i \in kept : rest[j] = D[i]
      BY <1>4, <3>2
    <3> QED
      BY <1>1, <3>2, <3>3 DEF FoundFor
  <2> QED
    BY <1>5, <2>1 DEF Own
<1>8. \A k \in DOMAIN others : /\ others[k].agent = None /\ others[k].user = chat.user /\ others[k] # MeId
                               /\ chat.user \notin MeUsers /\ ~is_jid_group(chat)
  <2>1. TAKE k \in DOMAIN others
  <2>2. PICK j \in theirs : others[k] = rest[j]
    BY <1>6
  <2>3. PICK i \in kept : rest[j] = D[i]
    BY <1>4, <2>2
  <2> QED
    BY <1>1, <2>2, <2>3 DEF FoundFor
<1>9. CASE others = << >> /\ ~is_jid_group(chat)
  BY <1>2, <1>7, <1>9, FirstAlone
<1>10. CASE ~(others = << >> /\ ~is_jid_group(chat))
  <2>1. ~is_jid_group(chat) => \E k \in DOMAIN others : others[k].device = None
    <3>1. SUFFICES ASSUME ~is_jid_group(chat) PROVE \E k \in DOMAIN others : others[k].device = None
      OBVIOUS
    <3>2. chat.user \notin MeUsers
      <4>1. others # << >>
        BY <1>10, <3>1
      <4>2. 1 \in DOMAIN others
        BY <1>6, <4>1
      <4> QED
        BY <1>8, <4>2
    <3>3. PICK i \in DOMAIN D : D[i].user = chat.user /\ D[i].device = None
      BY <1>1, <3>1, <3>2 DEF FoundFor
    <3>4. i \in kept
      <4>1. MeId.device # None
        BY AddressAssumption
      <4>2. MeLid # None => MeLid.user \in MeUsers
        BY DEF MeUsers
      <4>3. D[i] \in Addresses
        BY <1>1, <3>3 DEF FoundFor
      <4>4. D[i] # None
        BY <4>3, AddressAssumption
      <4> QED
        BY <3>2, <3>3, <4>1, <4>2, <4>4
    <3>5. PICK j \in DOMAIN rest : rest[j] = D[i]
      BY <1>4, <3>4
    <3>6. j \in theirs
      BY <3>2, <3>3, <3>5
    <3>7. PICK k \in DOMAIN others : others[k] = rest[j]
      BY <1>6, <3>6
    <3> QED
      BY <3>3, <3>5, <3>7
  <2>2. Others(chat, others)
    BY <1>6, <1>8, <2>1 DEF Others
  <2>3. split = [own |-> own, others |-> others]
    BY <1>2, <1>10
  <2> QED
    BY <1>7, <2>2, <2>3
<1> QED
  BY <1>9, <1>10

-----------------------------------------------------------------------------
(* The copies of a message, and the sessions they are encrypted under.       *)

\* No device is left out by missing_session_jids that has no session.
LEMMA NoneMissing ==
  ASSUME NEW S, NEW jids \in Seq(S), NEW table, missing_session_jids_from_credentials(table, jids) = << >>
  PROVE  \A k \in DOMAIN jids : session_key_for_jid(jids[k]) \in table
<1> DEFINE first == {i \in DOMAIN jids : \A k \in 1 .. (i - 1) : jids[k] # jids[i]}
           once == dedupe_jids(jids)
           missing == {i \in DOMAIN once : session_key_for_jid(once[i]) \notin table}
<1>1. once \in Seq(S) /\ \A i \in first : \E k \in DOMAIN once : once[k] = jids[i]
  <2>1. first \in SUBSET DOMAIN jids /\ once = Picked(jids, first)
    BY DEF dedupe_jids
  <2> HIDE DEF first, once
  <2> QED
    BY <2>1, PickedKeeps
<1>2. Picked(once, missing) = << >>
  BY DEF missing_session_jids_from_credentials
<1> HIDE DEF once
<1>3. missing = {}
  <2>1. missing \in SUBSET DOMAIN once
    OBVIOUS
  <2>2. \A i \in missing : \E k \in DOMAIN Picked(once, missing) : TRUE
    <3> HIDE DEF missing
    <3> QED
      BY <1>1, <2>1, PickedKeeps
  <2> QED
    BY <1>2, <2>2
<1>4. \A k \in DOMAIN jids : \E i \in first : jids[i] = jids[k]
  <2>1. SUFFICES ASSUME NEW k \in DOMAIN jids PROVE \E i \in first : jids[i] = jids[k]
    OBVIOUS
  <2> DEFINE T == {i \in DOMAIN jids : jids[i] = jids[k]}
  <2>2. T \in SUBSET Nat /\ k \in T
    BY <2>1
  <2>3. PICK i \in T : \A j \in T : i <= j
    BY <2>2, Least
  <2>4. \A j \in 1 .. (i - 1) : jids[j] # jids[i]
    <3>1. SUFFICES ASSUME NEW j \in 1 .. (i - 1), jids[j] = jids[i] PROVE FALSE
      OBVIOUS
    <3>2. j \in T /\ ~(i <= j)
      BY <2>2, <3>1
    <3> QED
      BY <2>3, <3>2
  <2> QED
    BY <2>3, <2>4
<1> QED
  BY <1>1, <1>3, <1>4

-----------------------------------------------------------------------------
\* The copies of a message: none for this device, the chat's are its user's, and each
\* device has one unless the chat is with ourselves.
CopyFine(chat, copy) ==
  /\ copy.jid \in Addresses /\ copy.jid # MeId
  /\ copy.jid.user \in MeUsers => OwnAddress(copy.jid)
  /\ copy.jid.user \notin MeUsers => ~copy.wrapped
  /\ ~copy.wrapped => copy.jid.user = chat.user
CopiesFine(chat, direct, copies) ==
  /\ \A i \in DOMAIN copies : CopyFine(chat, copies[i])
  /\ chat.user \notin MeUsers =>
       /\ \A i, k \in DOMAIN copies : copies[i].jid = copies[k].jid => i = k
       /\ ~direct => \A i \in DOMAIN copies : copies[i].wrapped <=> copies[i].jid.user \in MeUsers

\* The address of a device, taken apart and put together again.
LEMMA EncodedAnew ==
  ASSUME NEW j \in Addresses, j.agent = None
  PROVE  jid_encode(j.user, j.server, jid_decode(j).device, None) = j
<1>1. PICK u, server, d, agent : j = jid_encode(u, server, d, agent)
  BY DEF Addresses
<1>2. /\ j = [user |-> j.user, agent |-> j.agent, server |-> j.server, device |-> j.device]
      /\ j.device # 0
  <2>1. None # 0
    BY AddressAssumption
  <2> QED
    BY <1>1, <2>1 DEF jid_encode
<1>3. (IF (IF j.device = None THEN 0 ELSE j.device) \in {None, 0} THEN None ELSE (IF j.device = None THEN 0 ELSE j.device)) = j.device
  BY <1>2
<1> QED
  BY <1>2, <1>3 DEF jid_encode, jid_decode

LEMMA FirstFine ==
  ASSUME NEW chat \in Chats
  PROVE  /\ FirstOf(chat) \in Addresses /\ FirstOf(chat) # MeId
         /\ FirstOf(chat).user = chat.user /\ FirstOf(chat).agent = None /\ FirstOf(chat).device = None
         /\ chat.user \in MeUsers => OwnAddress(FirstOf(chat))
<1>1. /\ FirstOf(chat) \in Addresses /\ FirstOf(chat) # MeId
      /\ FirstOf(chat).agent = None /\ FirstOf(chat).user = chat.user
  <2> DEFINE s == <<FirstOf(chat)>>
  <2>1. s[1] = FirstOf(chat) /\ 1 \in DOMAIN s /\ Others(chat, s)
    BY FirstAlone
  <2>2. s \in Seq(Addresses)
    BY <2>1 DEF Others
  <2>3. s[1] \in Addresses
    BY <2>1, <2>2
  <2> QED
    BY <2>1, <2>3 DEF Others
<1>2. FirstOf(chat).device = None /\ FirstOf(chat).server = chat.server
  BY DEF FirstOf, jid_encode
<1>3. chat.user \in MeUsers => OwnAddress(FirstOf(chat))
  BY <1>1, <1>2, AddressAssumption DEF OwnAddress, is_lid, is_jid_group
<1> QED
  BY <1>1, <1>2, <1>3

\* The copies for fine targets.
LEMMA BuiltCopies ==
  ASSUME NEW chat \in Chats, NEW direct, NEW own, NEW others, ~direct => Own(own) /\ Others(chat, others)
  PROVE  CopiesFine(chat, direct, message_copies(chat, direct, own, others))
<1> DEFINE first == FirstOf(chat)
           plain(j) == [jid |-> j, wrapped |-> FALSE, to |-> chat]
           ownDevices == [i \in DOMAIN own |-> jid_encode(own[i].user, own[i].server, jid_decode(own[i]).device, None)]
           theirs == [i \in DOMAIN others |-> plain(others[i])]
           ours == [i \in DOMAIN own |-> device_sent_message(ownDevices[i], chat)]
           copies == IF direct THEN <<plain(first)>> ELSE theirs \o ours
<1>1. message_copies(chat, direct, own, others) = copies
  BY DEF message_copies, FirstOf
<1>2. CASE direct
  <2>1. copies = <<plain(first)>>
    BY <1>2
  <2>2. plain(first).jid = first /\ plain(first).wrapped = FALSE
    OBVIOUS
  <2>3. CopyFine(chat, plain(first))
    BY <2>2, FirstFine DEF CopyFine
  <2> HIDE DEF plain, copies
  <2> QED
    BY <1>1, <1>2, <2>1, <2>3 DEF CopiesFine
<1>3. CASE ~direct
  <2> DEFINE m == Len(others)
             n == Len(own)
             copy == {plain(j) : j \in Addresses} \cup {device_sent_message(j, chat) : j \in Addresses}
  <2>1. Own(own) /\ Others(chat, others)
    BY <1>3
  <2>2. /\ own \in Seq(Addresses) /\ others \in Seq(Addresses) /\ m \in Nat /\ n \in Nat
        /\ DOMAIN others = 1 .. m /\ DOMAIN own = 1 .. n
    BY <2>1 DEF Own, Others
  <2>3. \A i \in DOMAIN own : ownDevices[i] = own[i]
    BY <2>1, <2>2, EncodedAnew DEF Own
  <2> HIDE DEF ownDevices, m, n
  <2>4. /\ theirs \in Seq(copy) /\ ours \in Seq(copy) /\ Len(theirs) = m /\ Len(ours) = n
        /\ \A i \in 1 .. m : theirs[i] = plain(others[i])
        /\ \A i \in 1 .. n : ours[i] = device_sent_message(own[i], chat)
    <3>5. (\A i \in 1 .. m : others[i] \in Addresses) /\ \A i \in 1 .. n : own[i] \in Addresses
      BY <2>2
    <3>6. \A j \in Addresses : plain(j) \in copy /\ device_sent_message(j, chat) \in copy
      OBVIOUS
    <3>7. ours = [i \in 1 .. n |-> device_sent_message(own[i], chat)]
      BY <2>2, <2>3
    <3>8. theirs = [i \in 1 .. m |-> plain(others[i])]
      BY <2>2
    <3> HIDE DEF copy, plain, theirs, ours
    <3>1. theirs = [i \in 1 .. m |-> plain(others[i])] /\ \A i \in 1 .. m : plain(others[i]) \in copy
      BY <3>5, <3>6, <3>8
    <3>2. ours = [i \in 1 .. n |-> device_sent_message(own[i], chat)] /\ \A i \in 1 .. n : device_sent_message(own[i], chat) \in copy
      BY <3>5, <3>6, <3>7
    <3> HIDE DEF copy, plain, theirs, ours
    <3>3. theirs \in Seq(copy) /\ Len(theirs) = m
      BY <2>2, <3>1
    <3>4. ours \in Seq(copy) /\ Len(ours) = n
      BY <2>2, <3>2
    <3> QED
      BY <3>1, <3>2, <3>3, <3>4
  <2>5. copies = theirs \o ours
    BY <1>3
  <2> HIDE DEF copies, theirs, ours, copy
  <2>6. /\ DOMAIN copies = 1 .. (m + n)
        /\ \A i \in 1 .. m : copies[i] = plain(others[i])
        /\ \A i \in 1 .. n : copies[m + i] = device_sent_message(own[i], chat)
    <3> HIDE DEF plain
    <3>1. DOMAIN (theirs \o ours) = 1 .. (m + n)
      BY <2>2, <2>4
    <3>2. \A i \in 1 .. m : (theirs \o ours)[i] = theirs[i]
      BY <2>2, <2>4
    <3>3. \A i \in 1 .. n : (theirs \o ours)[m + i] = ours[i]
      BY <2>2, <2>4
    <3> QED
      BY <2>4, <2>5, <3>1, <3>2, <3>3
  <2>7. \A k \in 1 .. (m + n) : k \in 1 .. m \/ \E l \in 1 .. n : k = m + l
    <3>1. TAKE k \in 1 .. (m + n)
    <3>2. k \notin 1 .. m => k - m \in 1 .. n /\ k = m + (k - m)
      BY <2>2
    <3> QED
      BY <3>2
  <2>8. \A i \in 1 .. m : /\ copies[i].jid = others[i] /\ ~copies[i].wrapped /\ copies[i].jid \in Addresses
                          /\ copies[i].jid # MeId /\ copies[i].jid.user = chat.user
                          /\ chat.user \in MeUsers => OwnAddress(copies[i].jid)
    <3>1. TAKE i \in 1 .. m
    <3>2. copies[i].jid = others[i] /\ copies[i].wrapped = FALSE
      <4>1. copies[i] = plain(others[i])
        BY <2>6
      <4>2. plain(others[i]).jid = others[i] /\ plain(others[i]).wrapped = FALSE
        OBVIOUS
      <4> HIDE DEF plain
      <4> QED
        BY <4>1, <4>2
    <3>3. others[i] \in Addresses /\ others[i] # MeId /\ others[i].user = chat.user
      BY <2>1, <2>2 DEF Others
    <3>4. chat.user \in MeUsers => OwnAddress(others[i])
      BY <2>1, <2>2, FirstFine DEF Others
    <3> QED
      BY <3>2, <3>3, <3>4
  <2>9. \A i \in 1 .. n : /\ copies[m + i].jid = own[i] /\ copies[m + i].wrapped /\ copies[m + i].jid \in Addresses
                          /\ copies[m + i].jid # MeId /\ copies[m + i].jid.user \in MeUsers /\ OwnAddress(copies[m + i].jid)
    <3>1. TAKE i \in 1 .. n
    <3>2. copies[m + i].jid = own[i] /\ copies[m + i].wrapped = TRUE
      <4>1. copies[m + i] = device_sent_message(own[i], chat)
        BY <2>6
      <4>2. device_sent_message(own[i], chat).jid = own[i] /\ device_sent_message(own[i], chat).wrapped = TRUE
        BY DEF device_sent_message
      <4> QED
        BY <4>1, <4>2
    <3>3. own[i] \in Addresses /\ own[i] # MeId /\ own[i].user \in MeUsers /\ OwnAddress(own[i])
      BY <2>1, <2>2 DEF Own
    <3> QED
      BY <3>2, <3>3
  <2>10. \A k \in DOMAIN copies : CopyFine(chat, copies[k])
    <3>1. SUFFICES ASSUME NEW k \in 1 .. (m + n) PROVE CopyFine(chat, copies[k])
      BY <2>6
    <3>2. CASE k \in 1 .. m
      BY <2>8, <3>2 DEF CopyFine
    <3>3. CASE k \notin 1 .. m
      <4>1. PICK l \in 1 .. n : k = m + l
        BY <2>7, <3>3
      <4> QED
        BY <2>9, <4>1 DEF CopyFine
    <3> QED
      BY <3>2, <3>3
  <2>11. ASSUME chat.user \notin MeUsers
         PROVE  /\ \A i, k \in DOMAIN copies : copies[i].jid = copies[k].jid => i = k
                /\ \A i \in DOMAIN copies : copies[i].wrapped <=> copies[i].jid.user \in MeUsers
    <3>1. \A i \in 1 .. m : ~copies[i].wrapped /\ copies[i].jid.user \notin MeUsers
      BY <2>8, <2>11
    <3>2. \A k \in 1 .. (m + n) : k \notin 1 .. m => copies[k].wrapped /\ copies[k].jid.user \in MeUsers
      BY <2>7, <2>9
    <3>3. \A i, k \in 1 .. (m + n) : copies[i].jid = copies[k].jid => i = k
      <4>1. SUFFICES ASSUME NEW i \in 1 .. (m + n), NEW k \in 1 .. (m + n), copies[i].jid = copies[k].jid PROVE i = k
        OBVIOUS
      <4>2. i \in 1 .. m <=> k \in 1 .. m
        BY <3>1, <3>2, <4>1
      <4>3. CASE i \in 1 .. m
        <5>1. others[i] = others[k] /\ i \in DOMAIN others /\ k \in DOMAIN others
          BY <2>2, <2>8, <4>1, <4>2, <4>3
        <5> QED
          BY <2>1, <5>1 DEF Others, IsInjective
      <4>4. CASE i \notin 1 .. m
        <5>1. PICK a \in 1 .. n, b \in 1 .. n : i = m + a /\ k = m + b
          BY <2>7, <4>2, <4>4
        <5>2. own[a] = own[b] /\ a \in DOMAIN own /\ b \in DOMAIN own
          BY <2>2, <2>9, <4>1, <5>1
        <5>3. a = b
          BY <2>1, <5>2 DEF Own, IsInjective
        <5> QED
          BY <5>1, <5>3
      <4> QED
        BY <4>3, <4>4
    <3> QED
      BY <2>6, <3>1, <3>2, <3>3
  <2> QED
    BY <1>1, <1>3, <2>10, <2>11 DEF CopiesFine
<1> QED
  BY <1>2, <1>3

\* Every target has a session.
HasAll(table, own, others) ==
  /\ \A k \in DOMAIN own : session_key_for_jid(own[k]) \in table
  /\ \A k \in DOMAIN others : session_key_for_jid(others[k]) \in table

\* The address of a session, by which it is looked for, is the one it is stored under.
LEMMA SessionKey ==
  ASSUME NEW j, j.agent = None
  PROVE  protocol_address(j) = session_key_for_jid(j)
  BY DEF protocol_address, session_key_for_jid

\* Then only the content can be refused.
LEMMA BuiltWith ==
  ASSUME NEW chat \in Chats, ~is_jid_group(chat), NEW table, NEW content, NEW direct, NEW own, NEW others,
         Own(own), Others(chat, others), HasAll(table, own, others)
  PROVE  build_proto_message_node(table, chat, content, direct, own, others).error # "sessions"
<1> DEFINE first == FirstOf(chat)
           copies == message_copies(chat, direct, own, others)
           encrypted == {first} \cup {copies[i].jid : i \in DOMAIN copies}
<1>1. SUFFICES \A j \in encrypted : encrypt_for_recipient(table, j)
  <2> DEFINE node == build_proto_message_node(table, chat, content, direct, own, others)
             type == normalize_message_content(content)
             none == \E j \in encrypted : ~encrypt_for_recipient(table, j)
  <2>1. node = [type |-> type, copies |-> copies,
                error |-> IF type = None THEN "content" ELSE IF none THEN "sessions" ELSE None]
    BY DEF build_proto_message_node, FirstOf
  <2> HIDE DEF type, none, node
  <2>2. node.error = IF type = None THEN "content" ELSE IF none THEN "sessions" ELSE None
    BY <2>1
  <2>3. None # "sessions"
    BY DeliveryAssumption DEF Results
  <2>4. node.error = "sessions" => none
    BY <2>2, <2>3
  <2> QED
    BY <2>4 DEF none, node
<1>2. encrypt_for_recipient(table, first)
  <2>1. PICK k \in DOMAIN others : others[k].device = None
    BY DEF Others
  <2>2. session_key_for_jid(others[k]) \in table /\ others[k].agent = None /\ others[k].user = chat.user
    BY <2>1 DEF Others, HasAll
  <2>3. first.user = chat.user /\ first.device = None
    BY FirstFine
  <2>4. protocol_address(first) = session_key_for_jid(others[k])
    BY <2>1, <2>2, <2>3 DEF protocol_address, session_key_for_jid, jid_decode
  <2> QED
    BY <2>2, <2>4 DEF encrypt_for_recipient
<1>3. \A k \in DOMAIN copies : copies[k].jid = first \/ (\E i \in DOMAIN others : copies[k].jid = others[i])
                               \/ \E i \in DOMAIN own : copies[k].jid = own[i]
  <2> DEFINE plain(j) == [jid |-> j, wrapped |-> FALSE, to |-> chat]
             ownDevices == [i \in DOMAIN own |-> jid_encode(own[i].user, own[i].server, jid_decode(own[i]).device, None)]
             theirs == [i \in DOMAIN others |-> plain(others[i])]
             ours == [i \in DOMAIN own |-> device_sent_message(ownDevices[i], chat)]
  <2>1. copies = IF direct THEN <<plain(first)>> ELSE theirs \o ours
    BY DEF message_copies, FirstOf
  <2>2. CASE direct
    <3>1. DOMAIN copies = {1} /\ copies[1] = plain(first)
      BY <2>1, <2>2
    <3>2. plain(first).jid = first
      OBVIOUS
    <3> HIDE DEF plain, copies, first
    <3> QED
      BY <3>1, <3>2
  <2>3. CASE ~direct
    <3>1. own \in Seq(Addresses) /\ others \in Seq(Addresses)
      BY DEF Own, Others
    <3>2. DOMAIN theirs = DOMAIN others /\ DOMAIN ours = DOMAIN own
      OBVIOUS
    <3>3. \A i \in DOMAIN others : theirs[i].jid = others[i]
      OBVIOUS
    <3>4. \A i \in DOMAIN own : ours[i].jid = own[i]
      BY <3>1, EncodedAnew DEF Own, device_sent_message
    <3>5. \E S : theirs \in Seq(S) /\ ours \in Seq(S)
      <4> DEFINE copy == {theirs[i] : i \in DOMAIN others} \cup {ours[i] : i \in DOMAIN own}
      <4>1. DOMAIN theirs = 1 .. Len(others) /\ DOMAIN ours = 1 .. Len(own) /\ Len(others) \in Nat /\ Len(own) \in Nat
        BY <3>1, <3>2
      <4>2. (\A i \in DOMAIN theirs : theirs[i] \in copy) /\ \A i \in DOMAIN ours : ours[i] \in copy
        BY <3>2
      <4>3. theirs = [i \in DOMAIN theirs |-> theirs[i]] /\ ours = [i \in DOMAIN ours |-> ours[i]]
        OBVIOUS
      <4> HIDE DEF theirs, ours, copy
      <4>4. theirs \in Seq(copy)
        BY <4>1, <4>2, <4>3
      <4>5. ours \in Seq(copy)
        BY <4>1, <4>2, <4>3
      <4> QED
        BY <4>4, <4>5
    <3> HIDE DEF theirs, ours
    <3>6. PICK S : theirs \in Seq(S) /\ ours \in Seq(S)
      BY <3>5
    <3>7. copies = theirs \o ours
      BY <2>1, <2>3
    <3>8. \A k \in DOMAIN copies : (k \in DOMAIN theirs /\ copies[k] = theirs[k])
                                   \/ \E i \in DOMAIN ours : copies[k] = ours[i]
      <4> HIDE DEF copies
      <4>1. TAKE k \in DOMAIN copies
      <4>2. k \in 1 .. Len(theirs) + Len(ours) /\ Len(theirs) \in Nat /\ Len(ours) \in Nat
            /\ DOMAIN theirs = 1 .. Len(theirs) /\ DOMAIN ours = 1 .. Len(ours)
        BY <3>6, <3>7
      <4>3. CASE k <= Len(theirs)
        BY <3>6, <3>7, <4>2, <4>3
      <4>4. CASE ~(k <= Len(theirs))
        <5>1. k - Len(theirs) \in DOMAIN ours /\ copies[k] = ours[k - Len(theirs)]
          BY <3>6, <3>7, <4>2, <4>4
        <5> QED
          BY <5>1
      <4> QED
        BY <4>3, <4>4
    <3> QED
      BY <3>2, <3>3, <3>4, <3>8
  <2> QED
    BY <2>2, <2>3
<1> HIDE DEF copies, first
<1>4. \A i \in DOMAIN others : encrypt_for_recipient(table, others[i])
  BY SessionKey DEF Others, HasAll, encrypt_for_recipient
<1>5. \A i \in DOMAIN own : encrypt_for_recipient(table, own[i])
  BY SessionKey DEF Own, HasAll, encrypt_for_recipient
<1> QED
  BY <1>2, <1>3, <1>4, <1>5

-----------------------------------------------------------------------------
(* What a call of send_message has chosen, until it ends.                    *)

\* A call whose new sessions were dropped or not, and the session table: what is looked up
\* is found for its chat; who has committed has a session for each device, unless another
\* commit dropped them; and the lack of one is told of a group or after such a commit.
Chosen(v, dropped, table) ==
  /\ v.pc \in {"lookup", "sessions", "committed"} => v.chat \in Chats
  /\ v.pc \in {"sessions", "committed"} => Own(v.own) /\ Others(v.chat, v.others)
  /\ v.pc = "committed" => dropped \/ HasAll(table, v.own, v.others)
  /\ v.copies # << >> => v.chat \in Chats /\ CopiesFine(v.chat, v.direct, v.copies)
  /\ v.result = "sessions" => is_jid_group(v.chat) \/ dropped

FanInv == \A c \in Callers : Chosen(call[c], c \in undone, sessions)

\* A call that goes on with what it has chosen.
LEMMA ChosenOn ==
  ASSUME NEW v, NEW dropped, NEW table, Chosen(v, dropped, table), NEW w, NEW next,
         w.chat = v.chat, w.direct = v.direct, w.copies = v.copies, w.result \in {v.result} \/ w.result # "sessions",
         \/ w.pc = v.pc /\ w.own = v.own /\ w.others = v.others /\ (table \subseteq next \/ w.pc # "committed")
         \/ w.pc \notin {"lookup", "sessions", "committed"}
  PROVE  Chosen(w, dropped, next)
  BY DEF Chosen, HasAll

\* One call goes a step; a commit that drops sessions is marked for the others.
LEMMA FanStep ==
  ASSUME FanInv, NEW c \in Callers, \A d \in Callers \ {c} : call'[d] = call[d],
         \A d \in Callers \ {c} : d \in undone => d \in undone',
         \A d \in Callers \ {c} : call[d].pc = "committed" => d \in undone' \/ sessions \subseteq sessions',
         Chosen(call'[c], c \in undone', sessions')
  PROVE  FanInv'
<1>1. ASSUME NEW d \in Callers \ {c} PROVE Chosen(call[d], d \in undone', sessions')
  <2>1. Chosen(call[d], d \in undone, sessions)
    BY DEF FanInv
  <2>2. d \in undone => d \in undone'
    OBVIOUS
  <2>3. call[d].pc = "committed" => d \in undone' \/ sessions \subseteq sessions'
    OBVIOUS
  <2> QED
    BY <2>1, <2>2, <2>3 DEF Chosen, HasAll
<1>2. \A d \in Callers : Chosen(call'[d], d \in undone', sessions')
  BY <1>1
<1> QED
  BY <1>2 DEF FanInv

LEMMA BuildChosen ==
  ASSUME CallTyped, NEW c \in Callers, NEW to, DOMAIN to = Fields, NEW table, Build(c, to, table),
         to.chat \in Chats, to.copies = << >>, NEW dropped,
         to.result = "sessions" => is_jid_group(to.chat) \/ dropped,
         ~to.direct => Own(to.own) /\ Others(to.chat, to.others),
         \/ is_jid_group(to.chat) \/ dropped
         \/ Own(to.own) /\ Others(to.chat, to.others) /\ HasAll(table, to.own, to.others),
         NEW next
  PROVE  Chosen(call'[c], dropped, next)
<1> DEFINE node == build_proto_message_node(table, to.chat, to.content, to.direct, to.own, to.others)
           why == node.error
           copies == node.copies
           ended == [to EXCEPT !.pc = "done", !.result = why]
           built == [to EXCEPT !.pc = "sending", !.copies = copies]
<1>1. CASE node.error # None
  <2>1. Goes(c, ended)
    BY <1>1 DEF Build
  <2>2. /\ DOMAIN ended = Fields /\ ended["pc"] = "done" /\ ended["result"] = why
        /\ \A f \in Fields \ {"pc", "result"} : ended[f] = to[f]
    BY DEF Fields
  <2>3. why = "sessions" => is_jid_group(to.chat) \/ dropped
    BY BuiltWith
  <2> HIDE DEF ended, why
  <2>4. \A f \in Fields : call'[c][f] = ended[f]
    BY <2>1, <2>2, GoesTo
  <2>5. /\ call'[c].pc = "done" /\ call'[c].result = why /\ call'[c].copies = << >> /\ call'[c].chat = to.chat
    BY <2>2, <2>4 DEF Fields
  <2> QED
    BY <2>3, <2>5 DEF Chosen
<1>2. CASE node.error = None
  <2>1. Goes(c, built)
    BY <1>2 DEF Build
  <2>2. /\ DOMAIN built = Fields /\ built["pc"] = "sending" /\ built["copies"] = copies
        /\ \A f \in Fields \ {"pc", "copies"} : built[f] = to[f]
    BY DEF Fields
  <2>3. CopiesFine(to.chat, to.direct, copies)
    <3>1. copies = message_copies(to.chat, to.direct, to.own, to.others)
      BY DEF build_proto_message_node
    <3> HIDE DEF copies
    <3> QED
      BY <3>1, BuiltCopies
  <2> HIDE DEF built, copies
  <2>4. \A f \in Fields : call'[c][f] = built[f]
    BY <2>1, <2>2, GoesTo
  <2>5. /\ call'[c].pc = "sending" /\ call'[c].result = to.result /\ call'[c].copies = copies
        /\ call'[c].chat = to.chat /\ call'[c].direct = to.direct
    BY <2>2, <2>4 DEF Fields
  <2> QED
    BY <2>3, <2>5 DEF Chosen
<1> QED
  BY <1>1, <1>2

\* The targets are in the list that sessions are asked for.
Covers(jids, own, others) ==
  /\ jids \in Seq(Addresses)
  /\ \A k \in DOMAIN own : \E i \in DOMAIN jids : jids[i] = own[k]
  /\ \A k \in DOMAIN others : \E i \in DOMAIN jids : jids[i] = others[k]

LEMMA CoversBoth ==
  ASSUME NEW chat, NEW own, NEW others, Own(own), Others(chat, others)
  PROVE  Covers(own \o others, own, others)
<1>1. own \in Seq(Addresses) /\ others \in Seq(Addresses)
  BY DEF Own, Others
<1> DEFINE jids == own \o others
<1>2. jids \in Seq(Addresses) /\ Len(jids) = Len(own) + Len(others) /\ Len(own) \in Nat /\ Len(others) \in Nat
  BY <1>1
<1>3. \A k \in DOMAIN own : k \in DOMAIN jids /\ jids[k] = own[k]
  BY <1>1, <1>2
<1>4. \A k \in DOMAIN others : Len(own) + k \in DOMAIN jids /\ jids[Len(own) + k] = others[k]
  BY <1>1, <1>2
<1> HIDE DEF jids
<1>5. Covers(jids, own, others)
  BY <1>2, <1>3, <1>4 DEF Covers
<1> QED
  BY <1>5 DEF jids

LEMMA NothingMissing ==
  ASSUME NEW jids, NEW own, NEW others, Covers(jids, own, others), NEW table,
         missing_session_jids_from_credentials(table, jids) = << >>
  PROVE  HasAll(table, own, others)
<1>1. \A k \in DOMAIN jids : session_key_for_jid(jids[k]) \in table
  BY NoneMissing DEF Covers
<1> QED
  BY <1>1 DEF Covers, HasAll

LEMMA AssertChosen ==
  ASSUME CallTyped, NEW c \in Callers, NEW to, DOMAIN to = Fields, NEW jids,
         AssertSessions(c, to, jids, FALSE), Covers(jids, to.own, to.others),
         to.chat \in Chats, to.copies = << >>, NEW dropped,
         to.result = "sessions" => is_jid_group(to.chat) \/ dropped,
         Own(to.own), Others(to.chat, to.others), NEW next
  PROVE  Chosen(call'[c], dropped, next)
<1>1. CASE missing_session_jids_from_credentials(sessions, jids) = << >>
  <2>1. Build(c, to, sessions)
    BY <1>1 DEF AssertSessions, missing_session_jids
  <2>2. HasAll(sessions, to.own, to.others)
    BY <1>1, NothingMissing
  <2> QED
    BY <2>1, <2>2, BuildChosen
<1>2. CASE missing_session_jids_from_credentials(sessions, jids) # << >>
  <2> DEFINE asked == [to EXCEPT !.pc = "sessions", !.work = sessions]
  <2>1. /\ DOMAIN asked = Fields /\ asked["pc"] = "sessions"
        /\ \A f \in Fields \ {"pc", "work"} : asked[f] = to[f]
    BY DEF Fields
  <2>2. Goes(c, asked)
    BY <1>2 DEF AssertSessions, missing_session_jids
  <2> HIDE DEF asked
  <2>3. \A f \in Fields : call'[c][f] = asked[f]
    BY <2>1, <2>2, GoesTo
  <2>4. /\ call'[c].pc = "sessions" /\ call'[c].chat = to.chat /\ call'[c].own = to.own
        /\ call'[c].others = to.others /\ call'[c].copies = << >> /\ call'[c].result = to.result
    BY <2>1, <2>3 DEF Fields
  <2> QED
    BY <2>4 DEF Chosen
<1> QED
  BY <1>1, <1>2

\* The lookup, the sessions and the node of a call.
LEMMA FanMaking ==
  ASSUME ServedInv, FanInv, NEW c \in Callers,
         \/ \E send \in plan.sends : send_message(c, send)
         \/ \E listing \in Listings : LookupAnswer(c, listing)
         \/ \E answer : SessionsAnswer(c, answer)
         \/ Committed(c) \/ QueryFails(c)
  PROVE  FanInv'
<1>0. CallTyped /\ plan \in Plans /\ None \notin Callers \cup Results
  BY DeliveryAssumption DEF ServedInv
<1>f. DOMAIN call[c] = Fields
  BY <1>0 DEF CallTyped
<1>c. Chosen(call[c], c \in undone, sessions)
  BY DEF FanInv
<1>e. call[c].pc \in {"idle", "lookup", "sessions", "committed"} => call[c].copies = << >>
  BY DEF ServedInv, Unbuilt
<1>s. ASSUME UNCHANGED <<sessions, undone>>, \A d \in Callers \ {c} : call'[d] = call[d],
             Chosen(call'[c], c \in undone, sessions)
      PROVE  FanInv'
  BY <1>s, FanStep
<1>1. ASSUME NEW send \in plan.sends, send_message(c, send) PROVE FanInv'
  <2> DEFINE to == With(send, Idle)
             chat == send.chat
             first == <<FirstOf(chat)>>
             looks == [to EXCEPT !.pc = "lookup"]
             one == [to EXCEPT !.others = first]
  <2>1. DOMAIN send = {"chat", "content", "direct", "wait"} /\ chat \in Chats /\ None # "sessions"
    BY <1>0, DeliveryAssumption DEF Chats, Results
  <2>2. /\ DOMAIN to = Fields /\ to["copies"] = << >> /\ to["result"] = None /\ to["chat"] = chat
        /\ to["direct"] = send.direct /\ to["own"] = << >>
    BY <2>1 DEF With, Idle, Fields
  <2>3. UNCHANGED <<sessions, undone>>
    BY <1>1 DEF send_message, history
  <2>4. \/ ~send.direct /\ Goes(c, looks)
        \/ send.direct /\ is_jid_group(chat) /\ Build(c, to, sessions)
        \/ send.direct /\ AssertSessions(c, one, first, FALSE)
    BY <1>1 DEF send_message, FirstOf
  <2> HIDE DEF to
  <2>5. /\ DOMAIN one = Fields /\ one["copies"] = << >> /\ one["result"] = None /\ one["chat"] = chat
        /\ one["direct"] = send.direct /\ one["own"] = << >> /\ one["others"] = first
    BY <2>2 DEF Fields
  <2>6. /\ DOMAIN looks = Fields /\ looks["pc"] = "lookup" /\ looks["copies"] = << >> /\ looks["result"] = None
        /\ looks["chat"] = chat
    BY <2>2 DEF Fields
  <2> HIDE DEF one, looks
  <2>7. Own(<< >>) /\ Others(chat, first)
    BY <2>1, FirstAlone DEF Own, IsInjective
  <2>8. Covers(first, << >>, first)
    <3>1. first \in Seq(Addresses)
      BY <2>7 DEF Others
    <3> QED
      BY <3>1 DEF Covers
  <2> HIDE DEF first, chat
  <2>9. CASE ~send.direct /\ Goes(c, looks)
    <3>1. \A f \in Fields : call'[c][f] = looks[f]
      BY <1>0, <2>6, <2>9, GoesTo
    <3>2. Chosen(call'[c], c \in undone, sessions)
      BY <2>1, <2>6, <3>1 DEF Chosen, Fields
    <3> QED
      BY <1>0, <1>s, <2>3, <2>9, <3>2, GoesTo
  <2>10. CASE send.direct /\ is_jid_group(chat) /\ Build(c, to, sessions)
    <3>1. Chosen(call'[c], c \in undone, sessions)
      BY <1>0, <2>1, <2>2, <2>10, BuildChosen
    <3>2. \A d \in Callers \ {c} : call'[d] = call[d]
      BY <1>0, <2>2, <2>10, BuildKeeps
    <3> QED
      BY <1>s, <2>3, <3>1, <3>2
  <2>11. CASE send.direct /\ AssertSessions(c, one, first, FALSE)
    <3>1. Chosen(call'[c], c \in undone, sessions)
      BY <1>0, <2>1, <2>5, <2>7, <2>8, <2>11, AssertChosen
    <3>2. \A d \in Callers \ {c} : call'[d] = call[d]
      BY <1>0, <2>5, <2>11, AssertKeeps
    <3> QED
      BY <1>s, <2>3, <3>1, <3>2
  <2> QED
    BY <2>4, <2>9, <2>10, <2>11
<1>2. ASSUME NEW listing \in Listings, LookupAnswer(c, listing) PROVE FanInv'
  <2> DEFINE chat == call[c].chat
             split == Targets(chat, Listed(chat, listing))
             own == split.own
             others == split.others
             to == [call[c] EXCEPT !.own = own, !.others = others]
  <2>1. AssertSessions(c, to, own \o others, FALSE)
    BY <1>2 DEF LookupAnswer
  <2>2. call[c].pc = "lookup" /\ UNCHANGED <<sessions, undone>>
    BY <1>2 DEF LookupAnswer, history
  <2>3. chat \in Chats
    BY <1>c, <2>2 DEF Chosen
  <2>4. Own(own) /\ Others(chat, others)
    <3>1. split = Targets(chat, Listed(chat, listing))
      OBVIOUS
    <3> HIDE DEF split, chat
    <3> QED
      BY <2>3, <3>1, TargetsFine
  <2> HIDE DEF own, others
  <2>5. /\ DOMAIN to = Fields /\ to["copies"] = call[c]["copies"] /\ to["result"] = call[c]["result"]
        /\ to["chat"] = chat /\ to["own"] = own /\ to["others"] = others
    BY <1>f DEF Fields
  <2> HIDE DEF to
  <2>6. Covers(own \o others, own, others)
    BY <2>4, CoversBoth
  <2>7. to.result = "sessions" => is_jid_group(to.chat) \/ c \in undone
    BY <1>c, <2>5 DEF Chosen
  <2> DEFINE jids == own \o others
  <2> HIDE DEF chat, jids
  <2>8. AssertSessions(c, to, jids, FALSE) /\ Covers(jids, to.own, to.others)
    BY <2>1, <2>5, <2>6 DEF jids
  <2>9. Chosen(call'[c], c \in undone, sessions)
    BY <1>0, <1>e, <2>2, <2>3, <2>4, <2>5, <2>7, <2>8, AssertChosen
  <2>10. \A d \in Callers \ {c} : call'[d] = call[d]
    BY <1>0, <2>5, <2>8, AssertKeeps
  <2> QED
    BY <1>s, <2>2, <2>9, <2>10
<1>3. ASSUME NEW answer, SessionsAnswer(c, answer) PROVE FanInv'
  <2> DEFINE own == call[c].own
             others == call[c].others
             jids == own \o others
             injected == inject_sessions(call[c].work, answer)
  <2>1. /\ call[c].pc = "sessions"
        /\ \/ Ends(c, "query") /\ UNCHANGED <<sessions, disk, undone>>
           \/ /\ missing_session_jids_from_credentials(injected.sessions, jids) = << >>
              /\ Goes(c, [pc |-> "committed"])
              /\ sessions' = injected.sessions
              /\ undone' = undone \cup {d \in Callers \ {c} : call[d].pc = "committed"
                                                              /\ ~(sessions \subseteq sessions')}
    BY <1>3 DEF SessionsAnswer
  <2>2. call[c].chat \in Chats /\ Own(own) /\ Others(call[c].chat, others) /\ call[c].copies = << >>
    BY <1>c, <1>e, <2>1 DEF Chosen
  <2>3. CASE Ends(c, "query") /\ UNCHANGED <<sessions, disk, undone>>
    <3>1. /\ call'[c].pc = "done" /\ call'[c].result = "query"
          /\ \A f \in Fields \ {"pc", "result"} : call'[c][f] = call[c][f]
          /\ \A d \in Callers \ {c} : call'[d] = call[d]
      BY <1>0, <2>3, EndsKeeps
    <3>2. Chosen(call'[c], c \in undone, sessions)
      BY <1>c, <3>1, ChosenOn DEF Fields
    <3> QED
      BY <1>s, <2>3, <3>1, <3>2
  <2>4. CASE /\ missing_session_jids_from_credentials(injected.sessions, jids) = << >>
             /\ Goes(c, [pc |-> "committed"])
             /\ sessions' = injected.sessions
             /\ undone' = undone \cup {d \in Callers \ {c} : call[d].pc = "committed"
                                                             /\ ~(sessions \subseteq sessions')}
    <3>1. /\ call'[c].pc = "committed"
          /\ \A f \in Fields \ {"pc"} : call'[c][f] = call[c][f]
          /\ \A d \in Callers \ {c} : call'[d] = call[d]
      BY <1>0, <2>4, GoesOnKeeps
    <3>2. Covers(jids, own, others)
      BY <2>2, CoversBoth
    <3> HIDE DEF jids, injected, own, others
    <3>3. HasAll(sessions', own, others)
      BY <2>4, <3>2, NothingMissing
    <3>4. Chosen(call'[c], c \in undone', sessions')
      BY <1>c, <2>2, <2>4, <3>1, <3>3 DEF Chosen, Fields, own, others
    <3> QED
      BY <2>4, <3>1, <3>4, FanStep
  <2> QED
    BY <2>1, <2>3, <2>4
<1>4. CASE Committed(c)
  <2>1. /\ Build(c, call[c], sessions) /\ call[c].pc = "committed"
        /\ UNCHANGED <<sessions, undone>>
    BY <1>4 DEF Committed, history
  <2>2. /\ call[c].chat \in Chats /\ Own(call[c].own) /\ Others(call[c].chat, call[c].others)
        /\ c \in undone \/ HasAll(sessions, call[c].own, call[c].others)
        /\ call[c].result = "sessions" => is_jid_group(call[c].chat) \/ c \in undone
    BY <1>c, <2>1 DEF Chosen
  <2>3. Chosen(call'[c], c \in undone, sessions)
    BY <1>0, <1>e, <1>f, <2>1, <2>2, BuildChosen
  <2>4. \A d \in Callers \ {c} : call'[d] = call[d]
    BY <1>0, <1>f, <2>1, BuildKeeps
  <2> QED
    BY <1>s, <2>1, <2>3, <2>4
<1>5. CASE QueryFails(c)
  <2>1. Ends(c, "query") /\ UNCHANGED <<sessions, undone>>
    BY <1>5 DEF QueryFails, history
  <2>2. /\ call'[c].pc = "done" /\ call'[c].result = "query"
        /\ \A f \in Fields \ {"pc", "result"} : call'[c][f] = call[c][f]
        /\ \A d \in Callers \ {c} : call'[d] = call[d]
    BY <1>0, <2>1, EndsKeeps
  <2>3. Chosen(call'[c], c \in undone, sessions)
    BY <1>c, <2>2, ChosenOn DEF Fields
  <2> QED
    BY <1>s, <2>1, <2>2, <2>3
<1> QED
  BY <1>1, <1>2, <1>3, <1>4, <1>5

\* The send, the save and the wait change nothing of what was chosen.
LEMMA FanSending ==
  ASSUME ServedInv, FanInv, NEW c \in Callers,
         \/ Sent(c) \/ SendFails(c) \/ save_recent_outbound(c) \/ WaitTimeout(c) \/ DriveTimeout(c)
         \/ Heard(c) \/ Recv(c) \/ RecvClash(c)
  PROVE  FanInv'
<1>0. CallTyped
  BY DEF ServedInv
<1>1. UNCHANGED <<sessions, undone>>
  BY DEF Sent, SendFails, save_recent_outbound, WaitTimeout, DriveTimeout, Heard, Recv, RecvClash, history
<1>2. PICK p, why : /\ p \in {"saving", "wait", "drive"} /\ why # "sessions"
                    /\ call' = call \/ Goes(c, [pc |-> p]) \/ Ends(c, why)
  <2> DEFINE next == IF loop THEN "wait" ELSE "drive"
             told == IF call[c].ack = "ok" THEN "acked" ELSE "refused"
  <2>1. next \in {"saving", "wait", "drive"} /\ told # "sessions"
    OBVIOUS
  <2>2. Heard(c) => Ends(c, told)
    BY DEF Heard
  <2>3. save_recent_outbound(c) => Goes(c, [pc |-> next]) \/ Ends(c, "unacked")
    BY DEF save_recent_outbound
  <2>4. Sent(c) => Goes(c, [pc |-> "saving"])
    BY DEF Sent
  <2>5. /\ SendFails(c) => Ends(c, "send")
        /\ WaitTimeout(c) => Ends(c, "unacked")
        /\ DriveTimeout(c) => Ends(c, "attribute")
        /\ Recv(c) => call' = call
        /\ RecvClash(c) => Ends(c, "clash")
    BY DEF SendFails, WaitTimeout, DriveTimeout, Recv, RecvClash
  <2> HIDE DEF next, told
  <2> QED
    BY <2>1, <2>2, <2>3, <2>4, <2>5
<1>3. CASE call' = call
  BY <1>1, <1>3 DEF FanInv
<1>4. CASE Goes(c, [pc |-> p]) \/ Ends(c, why)
  <2>1. /\ \A d \in Callers \ {c} : call'[d] = call[d]
        /\ call'[c].pc \in {p, "done"} /\ call'[c].result \in {call[c].result, why}
        /\ \A f \in Fields \ {"pc", "result"} : call'[c][f] = call[c][f]
    BY <1>0, <1>4, EndsKeeps, GoesOnKeeps DEF Fields
  <2>2. Chosen(call[c], c \in undone, sessions)
    BY DEF FanInv
  <2>3. Chosen(call'[c], c \in undone, sessions)
    BY <1>2, <2>1, <2>2, ChosenOn DEF Fields
  <2> QED
    BY <1>1, <2>1, <2>3, FanStep
<1> QED
  BY <1>2, <1>3, <1>4

\* What a reader and the environment do to calls.
Spares ==
  \A c \in Callers :
    /\ \A f \in {"chat", "direct", "own", "others", "copies"} : call'[c][f] = call[c][f]
    /\ call'[c].pc = call[c].pc \/ call'[c].pc \in {"done", "dead"}
    /\ call'[c].result = call[c].result \/ call'[c].result = "handler"

LEMMA FanSpares ==
  ASSUME FanInv, Spares, undone' = undone, sessions \subseteq sessions' \/ \A c \in Callers : call'[c].pc # "committed"
  PROVE  FanInv'
<1>1. ASSUME NEW c \in Callers PROVE Chosen(call'[c], c \in undone', sessions')
  <2>1. Chosen(call[c], c \in undone, sessions)
    BY DEF FanInv
  <2>2. /\ call'[c]["chat"] = call[c]["chat"] /\ call'[c]["direct"] = call[c]["direct"]
        /\ call'[c]["own"] = call[c]["own"] /\ call'[c]["others"] = call[c]["others"]
        /\ call'[c]["copies"] = call[c]["copies"]
        /\ call'[c].pc = call[c].pc \/ call'[c].pc \in {"done", "dead"}
        /\ call'[c].result = call[c].result \/ call'[c].result = "handler"
    BY DEF Spares
  <2>3. sessions \subseteq sessions' \/ call'[c].pc # "committed"
    OBVIOUS
  <2> QED
    BY <2>1, <2>2, <2>3, ChosenOn
<1> QED
  BY <1>1 DEF FanInv

LEMMA DispatchSpares ==
  ASSUME ServedInv, NEW t \in Readers, Dispatch(t)
  PROVE  Spares /\ undone' = undone /\ sessions \subseteq sessions'
<1>0. CallTyped
  BY DEF ServedInv
<1>1. ASSUME call' = call PROVE Spares
  BY <1>1 DEF Spares
<1>2. CASE Receive(t)
  <2> DEFINE n == Head(inbox)
  <2>1. undone' = undone
    BY <1>2 DEF Receive
  <2>2. CASE DispatchAck(t, n)
    <3>1. sessions' = sessions /\ (call' = call \/ call' = [call EXCEPT ![n.id].ack = n.error])
      BY <2>2 DEF DispatchAck
    <3> HIDE DEF n
    <3>2. CASE call' = [call EXCEPT ![n.id].ack = n.error]
      <4>1. \A c \in Callers : call'[c] = IF c = n.id THEN [call[c] EXCEPT !.ack = n.error] ELSE call[c]
        BY <1>0, <3>2 DEF CallTyped
      <4>2. \A c \in Callers : call[c] = [f \in Fields |-> call[c][f]]
        BY <1>0 DEF CallTyped
      <4>3. \A c \in Callers : \A f \in Fields \ {"ack"} : call'[c][f] = call[c][f]
        BY <4>1, <4>2
      <4> QED
        BY <2>1, <3>1, <4>3 DEF Spares, Fields
    <3> QED
      BY <1>1, <2>1, <3>1, <3>2
  <2>3. CASE DispatchMessage(t, n)
    BY <1>1, <2>1, <2>3 DEF DispatchMessage
  <2>4. CASE DispatchReceipt(n)
    BY <1>1, <2>1, <2>4 DEF DispatchReceipt
  <2>5. ASSUME NEW request, DispatchRetry(t, n, request) PROVE Spares /\ undone' = undone /\ sessions \subseteq sessions'
    BY <1>1, <2>1, <2>5 DEF DispatchRetry, R!inject_retry_session_from_receipt
  <2> QED
    BY <1>2, <2>2, <2>3, <2>4, <2>5 DEF Receive
<1>3. CASE resend_message_for_retry(t)
  BY <1>1, <1>3 DEF resend_message_for_retry
<1>4. CASE ResendFails(t)
  BY <1>1, <1>4 DEF ResendFails, history
<1>5. CASE ReportRetry(t)
  BY <1>1, <1>5 DEF ReportRetry, history
<1>6. ASSUME NEW ok \in BOOLEAN, send_ack(t, ok) PROVE Spares /\ undone' = undone /\ sessions \subseteq sessions'
  BY <1>1, <1>6 DEF send_ack
<1>7. CASE DecryptError(t)
  BY <1>1, <1>7 DEF DecryptError, history
<1>8. CASE Upsert(t)
  BY <1>1, <1>8 DEF Upsert
<1>9. CASE UpsertRaises(t)
  <2>1. sessions' = sessions /\ undone' = undone /\ (call' = call \/ (t \in Callers /\ Ends(t, "handler")))
    BY <1>9 DEF UpsertRaises, Readers
  <2>2. CASE t \in Callers /\ Ends(t, "handler")
    <3>1. /\ call'[t].pc = "done" /\ call'[t].result = "handler" /\ \A d \in Callers \ {t} : call'[d] = call[d]
          /\ \A f \in Fields \ {"pc", "result"} : call'[t][f] = call[t][f]
      BY <1>0, <2>2, EndsKeeps
    <3> QED
      BY <2>1, <3>1 DEF Spares, Fields
  <2> QED
    BY <1>1, <2>1, <2>2
<1> QED
  BY <1>2, <1>3, <1>4, <1>5, <1>6, <1>7, <1>8, <1>9 DEF Dispatch

LEMMA EnvironmentSpares ==
  ASSUME ServedInv, Environment
  PROVE  Spares /\ undone' = undone /\ (sessions' = sessions \/ \A c \in Callers : call'[c].pc # "committed")
<1>1. ASSUME call' = call PROVE Spares
  BY <1>1 DEF Spares
<1>2. ASSUME NEW c, NEW kind, ServerAcks(c, kind) PROVE call' = call /\ undone' = undone /\ sessions' = sessions
  BY <1>2 DEF ServerAcks, client
<1>3. ASSUME NEW c, NEW copy, NEW keys, NEW ours, ServerRetries(c, copy, keys, ours)
      PROVE call' = call /\ undone' = undone /\ sessions' = sessions
  BY <1>3 DEF ServerRetries, client
<1>4. ASSUME NEW c, NEW copy, NEW type, ServerReceipts(c, copy, type)
      PROVE call' = call /\ undone' = undone /\ sessions' = sessions
  BY <1>4 DEF ServerReceipts, client
<1>5. ASSUME NEW i, NEW readable, ServerDelivers(i, readable) PROVE call' = call /\ undone' = undone /\ sessions' = sessions
  BY <1>5 DEF ServerDelivers, client
<1>6. ASSUME NEW c, Expire(c) PROVE call' = call /\ undone' = undone /\ sessions' = sessions
  BY <1>6 DEF Expire, client
<1>7. CASE Prune
  BY <1>1, <1>7 DEF Prune, history
<1>8. ASSUME NEW store, Crash(store) PROVE Spares /\ undone' = undone /\ \A c \in Callers : call'[c].pc # "committed"
  <2> DEFINE over(c) == call[c].pc \in {"idle", "done"}
  <2>1. /\ call' = [c \in Callers |-> IF over(c) THEN call[c] ELSE [call[c] EXCEPT !.pc = "dead"]]
        /\ undone' = undone
    BY <1>8 DEF Crash
  <2>2. \A c \in Callers : call'[c] = IF over(c) THEN call[c] ELSE [call[c] EXCEPT !.pc = "dead"]
    BY <2>1
  <2>3. \A c \in Callers : call[c] = [f \in Fields |-> call[c][f]]
    BY DEF ServedInv, CallTyped
  <2>4. \A c \in Callers : /\ \A f \in Fields \ {"pc"} : call'[c][f] = call[c][f]
                           /\ call'[c].pc = IF over(c) THEN call[c].pc ELSE "dead"
    <3> SUFFICES ASSUME NEW c \in Callers
                 PROVE  /\ \A f \in Fields \ {"pc"} : call'[c][f] = call[c][f]
                        /\ call'[c]["pc"] = IF over(c) THEN call[c].pc ELSE "dead"
      OBVIOUS
    <3>1. CASE over(c)
      BY <3>1, <2>2
    <3>2. CASE ~over(c)
      BY <3>2, <2>2, <2>3 DEF Fields
    <3> QED
      BY <3>1, <3>2
  <2> QED
    BY <2>1, <2>4 DEF Spares, Fields
<1> QED
  BY <1>1, <1>2, <1>3, <1>4, <1>5, <1>6, <1>7, <1>8 DEF Environment

LEMMA FanNext == ServedInv /\ FanInv /\ [Next]_vars => FanInv'
<1> SUFFICES ASSUME ServedInv, FanInv, [Next]_vars PROVE FanInv'
  OBVIOUS
<1>1. CASE UNCHANGED vars
  BY <1>1 DEF FanInv, vars, client, history
<1>2. ASSUME NEW c \in Callers, Caller(c) PROVE FanInv'
  <2>1. \/ \E send \in plan.sends : send_message(c, send)
        \/ \E listing \in Listings : LookupAnswer(c, listing)
        \/ \E answer : SessionsAnswer(c, answer)
        \/ Committed(c) \/ QueryFails(c)
        \/ Sent(c) \/ SendFails(c) \/ save_recent_outbound(c) \/ WaitTimeout(c) \/ DriveTimeout(c)
        \/ Heard(c) \/ Recv(c) \/ RecvClash(c)
    BY <1>2 DEF Caller
  <2> QED
    BY <2>1, FanMaking, FanSending
<1>3. ASSUME NEW t \in Readers, Dispatch(t) PROVE FanInv'
  BY <1>3, DispatchSpares, FanSpares
<1>4. CASE Environment
  BY <1>4, EnvironmentSpares, FanSpares
<1> QED
  BY <1>1, <1>2, <1>3, <1>4 DEF Next

LEMMA FanInit == Init => FanInv
<1> SUFFICES ASSUME Init, NEW c \in Callers PROVE Chosen(call[c], c \in undone, sessions)
  BY DEF FanInv
<1>1. call[c].pc = "idle" /\ call[c].copies = << >> /\ call[c].result = None
  BY DEF Init, Idle
<1>2. None # "sessions"
  BY DeliveryAssumption DEF Results
<1> QED
  BY <1>1, <1>2 DEF Chosen

\* Whatever the server lists and answers, and whatever runs between the steps.
THEOREM FanInvariant == Spec => []FanInv
  BY FanInit, FanNext, ServedInvariant, PTL DEF Spec

\* A send fails for the lack of a session only if it is for a group, or if another commit
\* dropped those it had (_assert_sessions, _build_outbound_message).
THEOREM SessionsStay == Spec => []SessionsKept
<1>1. FanInv => SessionsKept
  BY DEF FanInv, Chosen, SessionsKept
<1> QED
  BY <1>1, FanInvariant, PTL

\* Each device gets one copy, this one none, our others the wrapped one
\* (_prepare_usync_fanout, build_participant_proto_message_node).
THEOREM CopiesRight == Spec => []OneCopyEach
<1>1. FanInv => OneCopyEach
  <2> SUFFICES ASSUME FanInv, NEW c \in Callers
               PROVE  LET copies == call[c].copies IN
                        /\ \A i \in DOMAIN copies : copies[i].jid # MeId
                        /\ call[c].chat # None /\ call[c].chat.user \notin MeUsers =>
                             /\ \A i, k \in DOMAIN copies : copies[i].jid = copies[k].jid => i = k
                             /\ ~call[c].direct => \A i \in DOMAIN copies : copies[i].wrapped <=> copies[i].jid.user \in MeUsers
    BY DEF OneCopyEach
  <2>1. CASE call[c].copies = << >>
    BY <2>1
  <2>2. CASE call[c].copies # << >>
    BY <2>2 DEF FanInv, Chosen, CopiesFine, CopyFine
  <2> QED
    BY <2>1, <2>2
<1> QED
  BY <1>1, FanInvariant, PTL

-----------------------------------------------------------------------------
(* The receipts of the devices that got a copy.                              *)

\* A receipt on its way is for a message of ours, and names the chat it was for.
Ours(n) ==
  n.tag = "receipt" /\ n.type # "retry" =>
    R!FromMe(n) /\ are_jids_same_user(R!RemoteJid(n), call[n.id].chat)
InboxOurs == \E S : inbox \in Seq(S) /\ \A n \in S : Expected(n) /\ Ours(n)

\* What was announced is of a message that is out, whose chat stays.
UpdatesOurs ==
  \A u \in updates : /\ u.id \in Callers /\ IsOut(u.id)
                     /\ u.from_me /\ are_jids_same_user(u.remote_jid, call[u.id].chat)

ReceiptInv == InboxOurs /\ UpdatesOurs

\* What is out stays out, for its chat.
Stays == \A c \in Callers : IsOut(c) => IsOut(c)' /\ call'[c].chat = call[c].chat

LEMMA SparesStay ==
  ASSUME Spares
  PROVE  Stays
<1> SUFFICES ASSUME NEW c \in Callers, IsOut(c) PROVE IsOut(c)' /\ call'[c].chat = call[c].chat
  BY DEF Stays
<1>1. /\ call'[c]["chat"] = call[c]["chat"] /\ call'[c]["copies"] = call[c]["copies"]
      /\ call'[c].pc = call[c].pc \/ call'[c].pc \in {"done", "dead"}
      /\ call'[c].result = call[c].result \/ call'[c].result = "handler"
  BY DEF Spares
<1> QED
  BY <1>1 DEF IsOut

LEMMA CallerStays ==
  ASSUME ServedInv, NEW c \in Callers, Caller(c)
  PROVE  Stays
<1>0. CallTyped
  BY DEF ServedInv
<1>1. CASE \/ \E send \in plan.sends : send_message(c, send)
           \/ \E listing \in Listings : LookupAnswer(c, listing)
           \/ \E answer : SessionsAnswer(c, answer)
           \/ Committed(c) \/ QueryFails(c) \/ Sent(c) \/ SendFails(c)
  <2>1. call[c].pc \in {"idle", "lookup", "sessions", "committed", "sending"}
    BY <1>1 DEF send_message, LookupAnswer, SessionsAnswer, Committed, QueryFails, Sent, SendFails
  <2>2. ~IsOut(c)
    BY <2>1 DEF IsOut, ServedInv, Unbuilt
  <2>3. \E fields : Goes(c, fields)
    BY <1>1 DEF send_message, LookupAnswer, SessionsAnswer, Committed, QueryFails, Sent, SendFails,
                Ends, Build, AssertSessions
  <2>4. \A d \in Callers \ {c} : call'[d] = call[d]
    BY <1>0, <2>3, GoesTo
  <2> QED
    BY <2>2, <2>4 DEF Stays, IsOut
<1>2. CASE \/ save_recent_outbound(c) \/ WaitTimeout(c) \/ DriveTimeout(c)
           \/ Heard(c) \/ Recv(c) \/ RecvClash(c)
  <2>1. PICK p, why : /\ p \in {"wait", "drive"} /\ why # "send"
                      /\ call' = call \/ Goes(c, [pc |-> p]) \/ Ends(c, why)
    <3> DEFINE next == IF loop THEN "wait" ELSE "drive"
               told == IF call[c].ack = "ok" THEN "acked" ELSE "refused"
    <3>1. next \in {"wait", "drive"} /\ told # "send"
      OBVIOUS
    <3>2. Heard(c) => Ends(c, told)
      BY DEF Heard
    <3>3. save_recent_outbound(c) => Goes(c, [pc |-> next]) \/ Ends(c, "unacked")
      BY DEF save_recent_outbound
    <3>4. /\ WaitTimeout(c) => Ends(c, "unacked")
          /\ DriveTimeout(c) => Ends(c, "attribute")
          /\ Recv(c) => call' = call
          /\ RecvClash(c) => Ends(c, "clash")
      BY DEF WaitTimeout, DriveTimeout, Recv, RecvClash
    <3> HIDE DEF next, told
    <3> QED
      BY <1>2, <3>1, <3>2, <3>3, <3>4
  <2>2. CASE call' = call
    BY <2>2 DEF Stays, IsOut
  <2>3. CASE Goes(c, [pc |-> p]) \/ Ends(c, why)
    <3>1. /\ \A d \in Callers \ {c} : call'[d] = call[d]
          /\ call'[c].pc \in {p, "done"} /\ call'[c].result \in {call[c].result, why}
          /\ \A f \in Fields \ {"pc", "result"} : call'[c][f] = call[c][f]
      BY <1>0, <2>3, EndsKeeps, GoesOnKeeps DEF Fields
    <3>2. call'[c].chat = call[c].chat /\ call'[c].copies = call[c].copies
      BY <3>1 DEF Fields
    <3> QED
      BY <2>1, <3>1, <3>2 DEF Stays, IsOut
  <2> QED
    BY <2>1, <2>2, <2>3
<1> QED
  BY <1>1, <1>2 DEF Caller

\* What was on its way, or announced, stays so.
LEMMA OursKept ==
  ASSUME InboxOurs, Stays,
         inbox' = inbox \/ inbox' = << >> \/ (inbox # << >> /\ inbox' = Tail(inbox))
  PROVE  InboxOurs'
<1>1. PICK S : inbox \in Seq(S) /\ \A n \in S : Expected(n) /\ Ours(n)
  BY DEF InboxOurs
<1>2. inbox' \in Seq(S)
  <2>1. CASE inbox # << >> /\ inbox' = Tail(inbox)
    <3>1. Tail(inbox) \in Seq(S)
      BY <1>1, <2>1, HeadTailProperties
    <3> QED
      BY <2>1, <3>1
  <2>2. CASE inbox' = inbox
    BY <1>1, <2>2
  <2>3. CASE inbox' = << >>
    BY <2>3
  <2> QED
    BY <2>1, <2>2, <2>3
<1>3. ASSUME NEW n \in S PROVE Expected(n)' /\ Ours(n)'
  <2>1. Expected(n) /\ Ours(n)
    BY <1>1
  <2>2. n.tag = "receipt" => n.id \in Callers /\ IsOut(n.id) /\ n.more = << >>
    BY <2>1 DEF Expected
  <2>3. n.tag = "receipt" => IsOut(n.id)' /\ call'[n.id].chat = call[n.id].chat
    BY <2>2 DEF Stays
  <2> QED
    BY <2>1, <2>2, <2>3 DEF Expected, Ours
<1> QED
  BY <1>2, <1>3 DEF InboxOurs

LEMMA UpdatesKept ==
  ASSUME UpdatesOurs, Stays, updates' = updates
  PROVE  UpdatesOurs'
  BY DEF UpdatesOurs, Stays

LEMMA OursGrow ==
  ASSUME ReceiptInv, call' = call, NEW n, Expected(n), Ours(n), inbox' = Append(inbox, n), updates' = updates
  PROVE  ReceiptInv'
<1>1. PICK S : inbox \in Seq(S) /\ \A m \in S : Expected(m) /\ Ours(m)
  BY DEF ReceiptInv, InboxOurs
<1>2. inbox' \in Seq(S \cup {n})
  <2>1. inbox \in Seq(S \cup {n})
    BY <1>1
  <2> QED
    BY <2>1
<1>3. \A m \in S \cup {n} : Expected(m)' /\ Ours(m)'
  BY <1>1 DEF Expected, IsOut, Ours
<1>4. InboxOurs'
  BY <1>2, <1>3 DEF InboxOurs
<1> QED
  BY <1>4 DEF ReceiptInv, UpdatesOurs, IsOut

\* The receipt of a device that got a copy.
LEMMA CopyOurs ==
  ASSUME FanInv, NEW c \in Callers, IsOut(c), NEW copy, copy \in ToSet(call[c].copies), NEW type,
         type \in (IF copy.jid.user \in MeUsers THEN {"sender"} ELSE {None, "read", "inactive"})
  PROVE  Expected(ReceiptOf(c, copy, type, None)) /\ Ours(ReceiptOf(c, copy, type, None))
<1> DEFINE chat == call[c].chat
           grouped == is_jid_group(chat) /\ ~copy.wrapped
           n == ReceiptOf(c, copy, type, None)
<1>1. chat \in Chats /\ CopyFine(chat, copy)
  <2>1. call[c].copies # << >>
    BY DEF IsOut
  <2>2. CopiesFine(chat, call[c].direct, call[c].copies)
    BY <2>1 DEF FanInv, Chosen
  <2>3. PICK i \in DOMAIN call[c].copies : copy = call[c].copies[i]
    BY DEF ToSet
  <2> QED
    BY <2>1, <2>2, <2>3 DEF FanInv, Chosen, CopiesFine
<1>2. /\ n.tag = "receipt" /\ n.type = type /\ n.id = c /\ n.more = << >>
      /\ n.from = (IF grouped THEN chat ELSE copy.jid)
      /\ n.participant = (IF grouped THEN copy.jid ELSE None)
      /\ n.recipient = IF copy.jid.user \in MeUsers THEN chat ELSE None
  BY DEF ReceiptOf
<1>3. Expected(n)
  BY <1>2 DEF Expected
<1>4. chat # None /\ copy.jid # None /\ MeId # None
  BY <1>1, AddressAssumption DEF CopyFine
<1>5. R!Sender(n) = copy.jid
  BY <1>2, <1>4 DEF R!Sender
<1> HIDE DEF n
<1>6. CASE copy.jid.user \in MeUsers
  <2>1. OwnAddress(copy.jid) /\ n.type = "sender" /\ n.recipient = chat
    BY <1>1, <1>2, <1>6 DEF CopyFine
  <2>2. ~grouped => n.from = copy.jid /\ ~is_jid_group(copy.jid)
    BY <1>2, <2>1 DEF OwnAddress
  <2>3. CASE ~grouped
    <3>1. R!IsNodeFromMe(n)
      BY <1>4, <1>5, <2>1, <2>2, <2>3 DEF R!IsNodeFromMe, R!OwnJid, OwnAddress, are_jids_same_user, is_lid, R!is_lid, R!are_jids_same_user
    <3>2. R!FromMe(n) /\ R!RemoteJid(n) = chat
      BY <2>1, <2>2, <2>3, <3>1 DEF R!FromMe, R!RemoteJid, R!IsSafeGroup, is_jid_group, R!is_jid_group
    <3> QED
      BY <1>2, <1>3, <1>4, <3>2 DEF Ours, are_jids_same_user, n
  <2>4. CASE grouped
    <3>1. chat.user \in MeUsers
      BY <1>1, <1>6, <2>4 DEF CopyFine
    <3> QED
      BY <1>1, <2>4, <3>1, AddressAssumption
  <2> QED
    BY <2>3, <2>4
<1>7. CASE copy.jid.user \notin MeUsers
  <2>1. copy.jid.user = chat.user /\ n.recipient = None /\ ~copy.wrapped
    BY <1>1, <1>2, <1>7 DEF CopyFine
  <2>2. ~R!IsNodeFromMe(n)
    BY <1>5, <1>7 DEF R!IsNodeFromMe, R!OwnJid, MeUsers, are_jids_same_user, R!are_jids_same_user
  <2>3. R!FromMe(n) /\ R!RemoteJid(n) = n.from
    BY <2>1, <2>2 DEF R!FromMe, R!RemoteJid
  <2> QED
    BY <1>2, <1>3, <1>4, <2>1, <2>3 DEF Ours, are_jids_same_user, n
<1> QED
  BY <1>6, <1>7 DEF n

\* Announced of a receipt that is ours.
LEMMA AnnouncedOurs ==
  ASSUME NEW n, n.tag = "receipt", Expected(n), Ours(n), NEW u \in Announced(n)
  PROVE  u.id \in Callers /\ IsOut(u.id) /\ u.from_me /\ are_jids_same_user(u.remote_jid, call[u.id].chat)
<1> DEFINE info == R!parse_receipt_info(n)
           ids == R!receipt_message_ids(n)
           update(i) == [remote_jid |-> info.remote_jid, id |-> i, from_me |-> info.from_me,
                         by |-> IF info.is_group_or_status /\ info.user_jid # None /\ info.timestamp_key # None
                                THEN info.user_jid ELSE None]
<1>1. n.id \in Callers /\ IsOut(n.id) /\ n.more = << >> /\ None \notin Callers
  BY DeliveryAssumption DEF Expected
<1>2. info # None
  BY DEF Announced
<1>3. n.type # "retry"
  BY <1>2 DEF R!parse_receipt_info
<1>4. R!FromMe(n) /\ are_jids_same_user(R!RemoteJid(n), call[n.id].chat)
  BY <1>3 DEF Ours
<1>5. ids = <<n.id>>
  <2>1. <<n.id>> \in Seq({n.id}) /\ <<n.id>> \o << >> = <<n.id>>
    BY ConcatEmptySeq
  <2>2. ids = <<n.id>> \o << >>
    BY <1>1 DEF R!receipt_message_ids
  <2> QED
    BY <2>1, <2>2
<1>6. info["remote_jid"] = R!RemoteJid(n) /\ info["ids"] = ids /\ info["from_me"] = R!FromMe(n)
  BY <1>2 DEF R!parse_receipt_info
<1>7. u \in {update(i) : i \in ToSet(info.ids)}
  BY <1>2 DEF Announced
<1> HIDE DEF info, ids
<1>8. PICK i \in ToSet(ids) : u = update(i)
  BY <1>6, <1>7
<1>9. i = n.id
  BY <1>5, <1>8 DEF ToSet
<1>10. update(i)["id"] = i /\ update(i)["remote_jid"] = info["remote_jid"] /\ update(i)["from_me"] = info["from_me"]
  OBVIOUS
<1> HIDE DEF update
<1> QED
  BY <1>1, <1>4, <1>6, <1>8, <1>9, <1>10

LEMMA ReceiptDispatch ==
  ASSUME ServedInv, ReceiptInv, NEW t \in Readers, Dispatch(t)
  PROVE  ReceiptInv'
<1>1. Stays
  BY DispatchSpares, SparesStay
<1>2. InboxOurs'
  <2>1. inbox' = inbox \/ (inbox # << >> /\ inbox' = Tail(inbox))
    BY DEF Dispatch, Receive, resend_message_for_retry, ResendFails, ReportRetry, send_ack, DecryptError, Upsert,
           UpsertRaises
  <2> QED
    BY <1>1, <2>1, OursKept DEF ReceiptInv
<1>3. CASE updates' = updates
  BY <1>1, <1>2, <1>3, UpdatesKept DEF ReceiptInv
<1>4. CASE inbox # << >> /\ Head(inbox).tag = "receipt" /\ DispatchReceipt(Head(inbox))
  <2> DEFINE n == Head(inbox)
  <2>1. Expected(n) /\ Ours(n)
    <3>1. PICK S : inbox \in Seq(S) /\ \A m \in S : Expected(m) /\ Ours(m)
      BY DEF ReceiptInv, InboxOurs
    <3>2. n \in S
      BY <1>4, <3>1
    <3> QED
      BY <3>1, <3>2
  <2>2. updates' = updates \cup Announced(n) /\ call' = call
    BY <1>4 DEF DispatchReceipt
  <2> HIDE DEF n
  <2>3. n.tag = "receipt"
    BY <1>4 DEF n
  <2>4. \A u \in updates' : /\ u.id \in Callers /\ IsOut(u.id)
                            /\ u.from_me /\ are_jids_same_user(u.remote_jid, call[u.id].chat)
    BY <2>1, <2>2, <2>3, AnnouncedOurs DEF ReceiptInv, UpdatesOurs
  <2> QED
    BY <1>2, <2>2, <2>4 DEF ReceiptInv, UpdatesOurs, IsOut
<1>5. updates' = updates \/ (inbox # << >> /\ Head(inbox).tag = "receipt" /\ DispatchReceipt(Head(inbox)))
  BY DEF Dispatch, Receive, resend_message_for_retry, ResendFails, ReportRetry, send_ack, DecryptError, Upsert,
         UpsertRaises, history
<1> QED
  BY <1>3, <1>4, <1>5

LEMMA ReceiptEnvironment ==
  ASSUME ServedInv, FanInv, ReceiptInv, Environment
  PROVE  ReceiptInv'
<1>0. Stays
  BY EnvironmentSpares, SparesStay
<1>1. ASSUME UNCHANGED <<inbox, updates>> \/ (inbox' = << >> /\ updates' = updates) PROVE ReceiptInv'
  BY <1>0, <1>1, OursKept, UpdatesKept DEF ReceiptInv
<1>2. ASSUME NEW n, OnWire(n), call' = call, updates' = updates, Expected(n), Ours(n) PROVE ReceiptInv'
  BY <1>2, OursGrow DEF OnWire
<1>3. ASSUME NEW n, n.tag # "receipt", OnWire(n), call' = call, updates' = updates PROVE ReceiptInv'
  BY <1>2, <1>3 DEF Expected, Ours
<1>4. ASSUME NEW c \in Callers, NEW kind, ServerAcks(c, kind) PROVE ReceiptInv'
  <2> DEFINE n == [tag |-> "ack", id |-> c, error |-> kind]
  <2>1. OnWire(n) /\ call' = call /\ updates' = updates
    BY <1>4 DEF ServerAcks, client
  <2>2. n["tag"] = "ack"
    OBVIOUS
  <2> HIDE DEF n
  <2> QED
    BY <1>3, <2>1, <2>2
<1>5. ASSUME NEW c \in Callers, NEW copy, NEW keys, NEW ours, ServerRetries(c, copy, keys, ours) PROVE ReceiptInv'
  <2> DEFINE r == ReceiptOf(c, copy, "retry", keys)
             n == [r EXCEPT !.recipient = IF ours THEN @ ELSE MeId]
  <2>1. OnWire(n) /\ call' = call /\ updates' = updates /\ IsOut(c)
    BY <1>5 DEF ServerRetries, client
  <2>2. n["tag"] = "receipt" /\ n["type"] = "retry" /\ n["id"] = c /\ n["more"] = << >>
    BY DEF ReceiptOf
  <2> HIDE DEF n
  <2>3. Expected(n) /\ Ours(n)
    BY <2>1, <2>2 DEF Expected, Ours
  <2> QED
    BY <1>2, <2>1, <2>3
<1>6. ASSUME NEW c \in Callers, NEW copy \in ToSet(call[c].copies), NEW type, ServerReceipts(c, copy, type)
      PROVE ReceiptInv'
  <2> DEFINE n == ReceiptOf(c, copy, type, None)
  <2>1. /\ OnWire(n) /\ call' = call /\ updates' = updates /\ IsOut(c)
        /\ type \in (IF copy.jid.user \in MeUsers THEN {"sender"} ELSE {None, "read", "inactive"})
    BY <1>6 DEF ServerReceipts, client
  <2>2. Expected(n) /\ Ours(n)
    BY <1>6, <2>1, CopyOurs
  <2> HIDE DEF n
  <2> QED
    BY <1>2, <2>1, <2>2
<1>7. ASSUME NEW i, NEW readable, ServerDelivers(i, readable) PROVE ReceiptInv'
  <2> DEFINE n == MessageOf(i, readable)
  <2>1. OnWire(n) /\ call' = call /\ updates' = updates
    BY <1>7 DEF ServerDelivers, client
  <2>2. n["tag"] = "message"
    BY DEF MessageOf
  <2> HIDE DEF n
  <2> QED
    BY <1>3, <2>1, <2>2
<1>8. ASSUME NEW c, Expire(c) PROVE ReceiptInv'
  BY <1>1, <1>8 DEF Expire
<1>9. CASE Prune
  BY <1>1, <1>9 DEF Prune, history
<1>10. ASSUME NEW store, Crash(store) PROVE ReceiptInv'
  BY <1>1, <1>10 DEF Crash
<1> QED
  BY <1>4, <1>5, <1>6, <1>7, <1>8, <1>9, <1>10 DEF Environment

LEMMA ReceiptNext == ServedInv /\ FanInv /\ ReceiptInv /\ [Next]_vars => ReceiptInv'
<1> SUFFICES ASSUME ServedInv, FanInv, ReceiptInv, [Next]_vars PROVE ReceiptInv'
  OBVIOUS
<1>1. CASE UNCHANGED vars
  BY <1>1 DEF ReceiptInv, InboxOurs, UpdatesOurs, Expected, Ours, IsOut, vars, client, history
<1>2. ASSUME NEW c \in Callers, Caller(c) PROVE ReceiptInv'
  <2>1. Stays
    BY <1>2, CallerStays
  <2>2. inbox' = inbox /\ updates' = updates
    BY <1>2 DEF Caller, send_message, LookupAnswer, SessionsAnswer, Committed, QueryFails, Sent, SendFails,
                save_recent_outbound, WaitTimeout, DriveTimeout, Heard, Recv, RecvClash, history
  <2> QED
    BY <2>1, <2>2, OursKept, UpdatesKept DEF ReceiptInv
<1>3. ASSUME NEW t \in Readers, Dispatch(t) PROVE ReceiptInv'
  BY <1>3, ReceiptDispatch
<1>4. CASE Environment
  BY <1>4, ReceiptEnvironment
<1> QED
  BY <1>1, <1>2, <1>3, <1>4 DEF Next

LEMMA ReceiptInit == Init => ReceiptInv
<1> SUFFICES ASSUME Init PROVE ReceiptInv
  OBVIOUS
<1>1. inbox \in Seq({}) /\ updates = {}
  BY DEF Init
<1> QED
  BY <1>1 DEF ReceiptInv, InboxOurs, UpdatesOurs

\* A receipt for a message of ours is announced under the key the message has, whichever
\* device it is from (parse_receipt_info).
THEOREM ReceiptsTold == Spec => []ReceiptsOurs
<1>1. ReceiptInv => ReceiptsOurs
  BY DEF ReceiptInv, UpdatesOurs, ReceiptsOurs
<1> QED
  BY <1>1, ReceiptInit, ReceiptNext, ServedInvariant, FanInvariant, PTL DEF Spec
=============================================================================
