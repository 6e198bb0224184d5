------------------------- MODULE CredentialsProofs -------------------------
(***************************************************************************)
(* Proofs about module Credentials.  CredInv adds to WindowOK that the     *)
(* server gives a key away once (GivenOnce) and that only given keys come  *)
(* back in messages (InboundGiven): so a key that a message consumes was   *)
(* published, and Consumed stays true of its id.                           *)
(* ReuseInv and KnownInv, below, carry what is said of the states of the   *)
(* session and of the keys that the server holds.                          *)
(***************************************************************************)
EXTENDS Credentials, TLAPS

GivenOnce == \A id \in Ids : server[id] # 0 => <<id, server[id]>> \notin given
InboundGiven == inbound \subseteq given

CredInv ==
  /\ GivenOnce
  /\ InboundGiven
  /\ WindowOK

-----------------------------------------------------------------------------
(* Type correctness                                                        *)

\* The credentials of a pairing.
LEMMA PairedType ==
  ASSUME NEW n \in Nat \ {0}
  PROVE  Paired(n) \in Creds
BY CredentialsAssumption DEF Paired, Creds, Ticks, Ids

\* The types hold at first.
LEMMA InitType == Init => TypeOK
<1> USE CredentialsAssumption
<1> SUFFICES ASSUME Init PROVE TypeOK
  OBVIOUS
<1>1. mem \in Creds /\ disk \in Creds /\ Blank \in Creds
  BY PairedType DEF Init, Blank
<1>2. work \in [Callers -> Creds]
  BY <1>1 DEF Init
<1>3. 0 \in Ticks /\ 1 \in Ticks
  BY DEF Ticks
<1>4. /\ pc \in [Callers -> {"idle", "upload", "rotate", "assert", "answered", "draining"}]
      /\ asked \in [Callers -> SUBSET Ids]
      /\ fresh \in [Callers -> Ticks]
      /\ server \in [Ids -> Ticks]
  BY <1>3 DEF Init
<1>5. /\ stale \in BOOLEAN /\ dirty \in BOOLEAN
      /\ rolledBack \in BOOLEAN /\ refused \in BOOLEAN
  BY Zenon DEF Init
<1>6. QED
  BY <1>1, <1>2, <1>3, <1>4, <1>5 DEF Init, TypeOK

\* generate_or_get_pre_keys keeps the types of the credentials.
LEMMA GenerateType ==
  ASSUME NEW cr \in Creds, NEW count \in Counts, NEW v \in Ticks
  PROVE  Generate(cr, count, v) \in Creds
<1>1. count \in Nat /\ count >= 1
  BY CredentialsAssumption
<1>2. Larger(Last(cr, count) + 1, cr.next) \in Nat \ {0}
  BY <1>1 DEF Larger, Last, Creds
<1>3. Larger(cr.first, Last(cr, count) + 1) \in Nat \ {0}
  BY <1>1 DEF Larger, Last, Creds
<1>4. [id \in Ids |-> IF id \in cr.next..Last(cr, count) THEN v ELSE cr.keys[id]] \in [Ids -> Ticks]
  BY DEF Creds
<1>5. QED
  BY <1>2, <1>3, <1>4 DEF Generate, Creds

\* What is forgotten is blank.
LEMMA ForgetType ==
  ASSUME TypeOK, NEW S, Forget(S)
  PROVE  /\ pc' \in [Callers -> {"idle", "upload", "rotate", "assert", "answered", "draining"}]
         /\ work' \in [Callers -> Creds]
         /\ asked' \in [Callers -> SUBSET Ids]
         /\ fresh' \in [Callers -> Ticks]
<1>1. Blank \in Creds
  BY PairedType DEF Blank
<1>2. 0 \in Ticks
  BY CredentialsAssumption DEF Ticks
<1>3. QED
  BY <1>1, <1>2 DEF TypeOK, Forget

\* The clock stays a number within its bound.
LEMMA TickType ==
  ASSUME TypeOK, Tick
  PROVE  clock' \in Ticks /\ clock' # 0
BY CredentialsAssumption DEF TypeOK, Tick, Ticks

\* _commit_credentials keeps the types.
LEMMA CommitType ==
  ASSUME TypeOK, NEW c \in Callers, NEW cr \in Creds, _commit_credentials(c, cr), clock' \in Ticks
  PROVE  TypeOK'
<1>1. Forget({c})
  BY DEF _commit_credentials
<1>2. /\ mem' \in Creds /\ disk' \in Creds
      /\ conn' = conn /\ dirty' \in BOOLEAN
      /\ server' = server /\ given' = given /\ inbound' = inbound /\ signed' = signed
      /\ used' = used /\ orphans' = orphans
      /\ rolledBack' = rolledBack /\ refused' = refused
  BY DEF _commit_credentials, serverVars
<1>3. stale' \in BOOLEAN /\ touched' \in SUBSET Callers
  BY DEF _commit_credentials, Touch, TypeOK
<1>4. QED
  BY <1>1, <1>2, <1>3, ForgetType DEF TypeOK

\* The maintenance of the prekeys is an upload of one of the counts.
LEMMA MaintainUploads ==
  ASSUME NEW c \in Callers, NEW held \in 0..MaxId, maintain_pre_keys(c, held)
  PROVE  \E n \in Counts : upload_pre_keys(c, n)
  BY CredentialsAssumption DEF maintain_pre_keys, UploadCount

\* The steps of a caller keep the types.
LEMMA CallerType ==
  ASSUME TypeOK, NEW c \in Callers, CallerStep(c)
  PROVE  TypeOK'
<1> USE DEF client, serverVars, history
<1>1. ASSUME NEW n \in Counts, upload_pre_keys(c, n) PROVE TypeOK'
  <2>1. clock' \in Ticks
    BY <1>1, TickType DEF upload_pre_keys
  <2>2. Generate(mem, n, clock') \in Creds
    BY <2>1, GenerateType DEF TypeOK
  <2>3. mem.first..Last(mem, n) \in SUBSET Ids
    BY <1>1, CredentialsAssumption DEF upload_pre_keys, TypeOK, Creds, Last, Ids
  <2>4. QED
    BY <1>1, <2>1, <2>2, <2>3 DEF upload_pre_keys, Goto, TypeOK
<1>2. CASE rotate_signed_pre_key(c)
  <2>1. clock' \in Ticks
    BY <1>2, TickType DEF rotate_signed_pre_key
  <2>2. [mem EXCEPT !.signed = clock'] \in Creds
    BY <2>1 DEF TypeOK, Creds
  <2>3. QED
    BY <1>2, <2>1, <2>2 DEF rotate_signed_pre_key, Goto, TypeOK
<1>3. CASE assert_sessions(c)
  BY <1>3 DEF assert_sessions, Goto, TypeOK
<1>4. CASE ServerStores(c)
  <2>1. server' \in [Ids -> Ticks] /\ signed' \in Ticks
    <3>1. work[c].keys \in [Ids -> Ticks] /\ work[c].signed \in Ticks
      BY DEF TypeOK, Creds
    <3>2. signed \in Ticks /\ server \in [Ids -> Ticks]
      BY DEF TypeOK
    <3>3. CASE server' = server /\ signed' = work[c].signed
      BY <3>1, <3>2, <3>3
    <3>4. CASE signed' = signed /\ server' # server
      BY <1>4, <3>1, <3>2, <3>4 DEF ServerStores
    <3>5. CASE signed' = signed /\ server' = server
      BY <3>2, <3>5
    <3>6. QED
      BY <1>4, <3>3, <3>4, <3>5 DEF ServerStores
  <2>2. QED
    BY <1>4, <2>1 DEF ServerStores, Goto, TypeOK
<1>5. CASE ServerRefuses(c)
  BY <1>5 DEF ServerRefuses, Goto, TypeOK
<1>6. CASE RetryUpload(c)
  BY <1>6 DEF RetryUpload, Goto, TypeOK
<1>7. CASE CommitKeys(c)
  BY <1>7, CommitType DEF CommitKeys, TypeOK
<1>8. CASE CommitSession(c)
  <2>1. clock' \in Ticks
    BY <1>8, TickType DEF CommitSession
  <2>2. [work[c] EXCEPT !.sess = clock'] \in Creds
    BY <2>1 DEF TypeOK, Creds
  <2>3. QED
    BY <1>8, <2>1, <2>2, CommitType DEF CommitSession
<1>9. CASE OperationFails(c)
  BY <1>9, ForgetType DEF OperationFails, TypeOK
<1>10. CASE relay_message(c)
  <2>1. clock' \in Ticks /\ mem.sess \in Ticks
    BY <1>10, TickType DEF relay_message, TypeOK, Creds
  <2>2. [mem EXCEPT !.sess = clock'] \in Creds
    BY <2>1 DEF TypeOK, Creds
  <2>3. QED
    BY <1>10, <2>1, <2>2 DEF relay_message, Goto, Touch, TypeOK
<1>11. CASE SendDone(c)
  BY <1>11, ForgetType DEF SendDone, TypeOK
<1>12. CASE SendFails(c)
  BY <1>12, ForgetType DEF SendFails, TypeOK
<1>13. CASE SendUnconnected(c)
  <2>1. clock' \in Ticks
    BY <1>13, TickType DEF SendUnconnected
  <2>2. [mem EXCEPT !.sess = clock'] \in Creds
    BY <2>1 DEF TypeOK, Creds
  <2>3. QED
    BY <1>13, <2>1, <2>2 DEF SendUnconnected, Touch, TypeOK
<1>14. ASSUME NEW held \in 0..MaxId, maintain_pre_keys(c, held) PROVE TypeOK'
  BY <1>1, <1>14, MaintainUploads
<1>15. QED
  BY <1>1, <1>2, <1>3, <1>4, <1>5, <1>6, <1>7, <1>8, <1>9, <1>10, <1>11, <1>12, <1>13, <1>14
  DEF CallerStep

\* So do the steps of a received message,
LEMMA DecryptedType ==
  ASSUME TypeOK, NEW cr \in Creds, Decrypted(cr), clock' \in Ticks, inbound' \subseteq inbound
  PROVE  TypeOK'
<1>1. mem' \in Creds /\ disk' \in Creds /\ dirty' \in BOOLEAN
  BY DEF Decrypted, TypeOK
<1>2. touched' \in SUBSET Callers
  BY DEF Decrypted, TypeOK
<1>3. QED
  BY <1>1, <1>2 DEF Decrypted, TypeOK

\* a disconnection, a connection, a logout,
LEMMA InterruptType ==
  ASSUME TypeOK, NEW S \in SUBSET Callers, Interrupt(S), mem' \in Creds,
         dirty' \in BOOLEAN, rolledBack' \in BOOLEAN
  PROVE  TypeOK'
<1>1. Forget(S)
  BY DEF Interrupt
<1>2. touched' \in SUBSET Callers /\ conn' = "down"
  BY DEF Interrupt, TypeOK
<1>3. orphans' \in SUBSET Ticks
  BY DEF Interrupt, TypeOK
<1>4. QED
  BY <1>1, <1>2, <1>3, ForgetType DEF Interrupt, serverVars, TypeOK

\* and every other step.
LEMMA StepType == TypeOK /\ [Next]_vars => TypeOK'
<1> SUFFICES ASSUME TypeOK, [Next]_vars PROVE TypeOK'
  OBVIOUS
<1> USE DEF client, callerVars, serverVars, history
<1>1. ASSUME NEW c \in Callers, CallerStep(c) PROVE TypeOK'
  BY <1>1, CallerType
<1>2. CASE ReceiveMessage
  <2>1. clock' \in Ticks
    BY <1>2, TickType DEF ReceiveMessage
  <2>2. [mem EXCEPT !.sess = clock'] \in Creds
    BY <2>1 DEF TypeOK, Creds
  <2>3. QED
    BY <1>2, <2>1, <2>2, DecryptedType DEF ReceiveMessage
<1>3. ASSUME NEW id \in Ids, NEW v \in Ticks, ReceivePreKeyMessage(id, v) PROVE TypeOK'
  <2>1. clock' \in Ticks /\ 0 \in Ticks
    BY <1>3, TickType, CredentialsAssumption DEF ReceivePreKeyMessage, Ticks
  <2>2. [mem EXCEPT !.sess = clock', !.keys[id] = 0] \in Creds
    BY <2>1 DEF TypeOK, Creds
  <2>3. inbound' \subseteq inbound
    BY <1>3 DEF ReceivePreKeyMessage
  <2>4. QED
    BY <1>3, <2>1, <2>2, <2>3, DecryptedType DEF ReceivePreKeyMessage
<1>4. ASSUME NEW id \in Ids, NEW v \in Ticks, DecryptFails(id, v) PROVE TypeOK'
  BY <1>4 DEF DecryptFails, TypeOK
<1>5. ASSUME NEW id \in Ids, PeerFetchesKey(id) PROVE TypeOK'
  <2>1. 0 \in Ticks
    BY CredentialsAssumption DEF Ticks
  <2>2. server' \in [Ids -> Ticks] /\ given' \subseteq Ids \X Ticks /\ inbound' \subseteq Ids \X Ticks
    BY <1>5, <2>1 DEF PeerFetchesKey, TypeOK
  <2>3. QED
    BY <1>5, <2>2 DEF PeerFetchesKey, TypeOK
<1>6. CASE connect
  <2>1. rolledBack' \in BOOLEAN /\ touched' \in SUBSET Callers
    BY <1>6 DEF connect, Unsaved, TypeOK
  <2>2. QED
    BY <1>6, <2>1 DEF connect, TypeOK
<1>7. CASE Disconnected
  <2>1. mem' \in Creds /\ dirty' \in BOOLEAN /\ rolledBack' \in BOOLEAN
    BY <1>7 DEF Disconnected, Unsaved, TypeOK
  <2>2. QED
    BY <1>7, <2>1, InterruptType DEF Disconnected
<1>8. CASE Crash
  <2>1. mem' \in Creds /\ dirty' \in BOOLEAN /\ rolledBack' \in BOOLEAN
    BY <1>8 DEF Crash, Unsaved, TypeOK
  <2>2. QED
    BY <1>8, <2>1, InterruptType DEF Crash
<1>9. CASE UNCHANGED vars
  BY <1>9 DEF vars, TypeOK
<1>10. QED
  BY <1>1, <1>2, <1>3, <1>4, <1>5, <1>6, <1>7, <1>8, <1>9 DEF Next

\* The credentials, their copies and what is recorded of the server keep their types, for any
\* set of callers and any bounds: ids, keys and copies stay in range, whatever overlaps.
THEOREM CredentialsTypeOK == Spec => []TypeOK
<1>1. QED
  BY InitType, StepType, PTL DEF Spec

-----------------------------------------------------------------------------
(* The ids and their keys                                                  *)

\* Whatever was consumed stays consumed, so a record keeps its window.
LEMMA WindowKept ==
  ASSUME NEW cr, Window(cr), given \ inbound \subseteq given' \ inbound'
  PROVE  Window(cr)'
BY DEF Window, Consumed

\* A change of the session or the signed prekey leaves the window alone.
LEMMA WindowOfFields ==
  ASSUME NEW cr, NEW dr, Window(cr), dr.next = cr.next, dr.first = cr.first, dr.keys = cr.keys
  PROVE  Window(dr)
BY DEF Window

\* generate_or_get_pre_keys makes the keys of the ids it adds and drops the others from the
\* window from below.
LEMMA GenerateWindow ==
  ASSUME NEW cr \in Creds, Window(cr), NEW count \in Counts, NEW v \in Ticks \ {0}
  PROVE  Window(Generate(cr, count, v))
<1> DEFINE g == Generate(cr, count, v)
           l == Last(cr, count)
<1>1. cr.next \in Nat \ {0} /\ cr.first \in Nat \ {0} /\ count \in Nat \ {0}
  BY CredentialsAssumption DEF Creds
<1>2. l \in Nat /\ l >= cr.first
  BY <1>1 DEF Last
<1>3. /\ g.next = Larger(l + 1, cr.next)
      /\ g.first = Larger(cr.first, l + 1)
      /\ g.keys = [id \in Ids |-> IF id \in cr.next..l THEN v ELSE cr.keys[id]]
  BY DEF Generate, Creds
<1>4. g.first = l + 1
  BY <1>1, <1>2, <1>3 DEF Larger
<1>5. g.next >= l + 1 /\ g.next >= cr.next /\ g.next \in Nat
  BY <1>1, <1>2, <1>3 DEF Larger
<1>6. ASSUME NEW id \in Ids, id >= g.next PROVE g.keys[id] = 0
  <2>1. id \notin cr.next..l /\ id >= cr.next
    BY <1>1, <1>2, <1>5, <1>6 DEF Ids
  <2>2. QED
    BY <1>3, <2>1 DEF Window
<1>7. ASSUME NEW id \in Ids, id \in g.first..(g.next - 1) PROVE g.keys[id] # 0 \/ Consumed(id)
  <2>1. id \in Nat /\ id > l /\ id < g.next
    BY <1>2, <1>4, <1>5, <1>7 DEF Ids
  <2>2. id \notin cr.next..l
    BY <1>1, <1>2, <2>1
  <2>3. g.next = cr.next
    BY <1>1, <1>2, <1>3, <2>1 DEF Larger
  <2>4. id \in cr.first..(cr.next - 1)
    BY <1>1, <1>2, <2>1, <2>3
  <2>5. QED
    BY <1>3, <2>2, <2>4 DEF Window
<1>8. QED
  BY <1>2, <1>4, <1>5, <1>6, <1>7 DEF Window

\* A pairing begins with an empty one.
LEMMA PairedWindow ==
  ASSUME NEW n \in {1, 2}
  PROVE  Window(Paired(n))
BY DEF Window, Paired, Ids

\* The window holds at first.
LEMMA InitInv == Init => CredInv
<1> SUFFICES ASSUME Init PROVE CredInv
  OBVIOUS
<1>1. Window(mem) /\ Window(disk) /\ Window(Blank)
  BY PairedWindow DEF Init, Blank
<1>2. WindowOK
  BY <1>1 DEF Init, WindowOK
<1>3. GivenOnce /\ InboundGiven
  BY DEF Init, GivenOnce, InboundGiven
<1>4. QED
  BY <1>2, <1>3 DEF CredInv

\* A copy is dropped or stays as it is.
LEMMA ForgetWindow ==
  ASSUME NEW S, Forget(S), NEW c \in Callers
  PROVE  work'[c] = Blank \/ work'[c] = work[c]
BY DEF Forget

\* A step that gives no key away and takes no message: what is left is that each record
\* after it has a window.
LEMMA CredFrame ==
  ASSUME CredInv,
         \A id \in Ids : server'[id] # 0 => server'[id] = server[id] \/ <<id, server'[id]>> \notin given,
         given' = given, inbound' = inbound,
         Window(mem'), Window(disk'),
         \A c \in Callers : Window(work'[c])
  PROVE  CredInv'
<1>1. GivenOnce' /\ InboundGiven'
  BY DEF CredInv, GivenOnce, InboundGiven
<1>2. WindowOK'
  BY DEF WindowOK, Window, Consumed
<1>3. QED
  BY <1>1, <1>2 DEF CredInv

\* The steps of a caller keep it in every copy.
LEMMA CallerInv ==
  ASSUME TypeOK, CredInv, NEW c \in Callers, CallerStep(c)
  PROVE  CredInv'
<1> USE DEF client, serverVars, history
<1>0. Window(mem) /\ Window(disk) /\ Window(Blank) /\ \A d \in Callers : Window(work[d])
  BY PairedWindow DEF CredInv, WindowOK, Blank
<1>1. ASSUME NEW n \in Counts, upload_pre_keys(c, n) PROVE CredInv'
  <2>1. clock' \in Ticks \ {0}
    BY <1>1, TickType DEF upload_pre_keys
  <2>2. Window(Generate(mem, n, clock'))
    BY <1>0, <2>1, GenerateWindow DEF TypeOK
  <2>3. \A d \in Callers : work'[d] = work[d] \/ work'[d] = Generate(mem, n, clock')
    BY <1>1 DEF upload_pre_keys, TypeOK
  <2>4. mem' = mem /\ disk' = disk /\ server' = server /\ given' = given /\ inbound' = inbound
    BY <1>1 DEF upload_pre_keys
  <2>5. QED
    BY <1>0, <2>2, <2>3, <2>4, CredFrame
<1>2. CASE rotate_signed_pre_key(c)
  <2>1. Window([mem EXCEPT !.signed = clock'])
    BY <1>0, WindowOfFields DEF TypeOK, Creds
  <2>2. \A d \in Callers : work'[d] = work[d] \/ work'[d] = [mem EXCEPT !.signed = clock']
    BY <1>2 DEF rotate_signed_pre_key, TypeOK
  <2>3. mem' = mem /\ disk' = disk /\ server' = server /\ given' = given /\ inbound' = inbound
    BY <1>2 DEF rotate_signed_pre_key
  <2>4. QED
    BY <1>0, <2>1, <2>2, <2>3, CredFrame
<1>3. CASE assert_sessions(c)
  <2>1. \A d \in Callers : work'[d] = work[d] \/ work'[d] = mem
    BY <1>3 DEF assert_sessions, TypeOK
  <2>2. mem' = mem /\ disk' = disk /\ server' = server /\ given' = given /\ inbound' = inbound
    BY <1>3 DEF assert_sessions
  <2>3. QED
    BY <1>0, <2>1, <2>2, CredFrame
<1>4. CASE ServerStores(c)
  <2>1. \A id \in Ids : server'[id] = server[id] \/ <<id, server'[id]>> \notin given
    BY <1>4 DEF ServerStores, TypeOK
  <2>2. mem' = mem /\ disk' = disk /\ work' = work /\ given' = given /\ inbound' = inbound
    BY <1>4 DEF ServerStores
  <2>3. QED
    BY <1>0, <2>1, <2>2, CredFrame
<1>5. CASE ServerRefuses(c)
  BY <1>0, <1>5, CredFrame DEF ServerRefuses
<1>6. CASE RetryUpload(c)
  BY <1>0, <1>6, CredFrame DEF RetryUpload
<1>7. CASE CommitKeys(c)
  <2>1. \A d \in Callers : Window(work'[d])
    BY <1>0, <1>7, ForgetWindow DEF CommitKeys, _commit_credentials
  <2>2. QED
    BY <1>0, <1>7, <2>1, CredFrame DEF CommitKeys, _commit_credentials
<1>8. CASE CommitSession(c)
  <2>1. Window([work[c] EXCEPT !.sess = clock'])
    BY <1>0, WindowOfFields DEF TypeOK, Creds
  <2>2. \A d \in Callers : Window(work'[d])
    BY <1>0, <1>8, ForgetWindow DEF CommitSession, _commit_credentials
  <2>3. QED
    BY <1>8, <2>1, <2>2, CredFrame DEF CommitSession, _commit_credentials
<1>9. CASE OperationFails(c)
  <2>1. \A d \in Callers : Window(work'[d])
    BY <1>0, <1>9, ForgetWindow DEF OperationFails
  <2>2. QED
    BY <1>0, <1>9, <2>1, CredFrame DEF OperationFails
<1>10. CASE relay_message(c)
  <2>1. Window([mem EXCEPT !.sess = clock'])
    BY <1>0, WindowOfFields DEF TypeOK, Creds
  <2>2. QED
    BY <1>0, <1>10, <2>1, CredFrame DEF relay_message
<1>11. CASE SendDone(c)
  <2>1. \A d \in Callers : Window(work'[d])
    BY <1>0, <1>11, ForgetWindow DEF SendDone
  <2>2. QED
    BY <1>0, <1>11, <2>1, CredFrame DEF SendDone
<1>12. CASE SendFails(c)
  <2>1. \A d \in Callers : Window(work'[d])
    BY <1>0, <1>12, ForgetWindow DEF SendFails
  <2>2. QED
    BY <1>0, <1>12, <2>1, CredFrame DEF SendFails
<1>13. CASE SendUnconnected(c)
  <2>1. Window([mem EXCEPT !.sess = clock'])
    BY <1>0, WindowOfFields DEF TypeOK, Creds
  <2>2. QED
    BY <1>0, <1>13, <2>1, CredFrame DEF SendUnconnected
<1>14. ASSUME NEW held \in 0..MaxId, maintain_pre_keys(c, held) PROVE CredInv'
  BY <1>1, <1>14, MaintainUploads
<1>15. QED
  BY <1>1, <1>2, <1>3, <1>4, <1>5, <1>6, <1>7, <1>8, <1>9, <1>10, <1>11, <1>12, <1>13, <1>14
  DEF CallerStep

\* A message was taken: the windows of what did not change last because consumed ids stay so.
LEMMA MessageTaken ==
  ASSUME TypeOK, CredInv, NEW id \in Ids, NEW v \in Ticks, <<id, v>> \in inbound,
         inbound' = inbound \ {<<id, v>>}, given' = given, server' = server
  PROVE  /\ GivenOnce' /\ InboundGiven'
         /\ given \ inbound \subseteq given' \ inbound'
         /\ Consumed(id)'
BY DEF CredInv, GivenOnce, InboundGiven, Consumed

\* Every step keeps it.
LEMMA StepInv == TypeOK /\ CredInv /\ [Next]_vars => CredInv'
<1> SUFFICES ASSUME TypeOK, CredInv, [Next]_vars PROVE CredInv'
  OBVIOUS
<1> USE DEF client, callerVars, serverVars, history
<1>0. Window(mem) /\ Window(disk) /\ Window(Blank) /\ \A d \in Callers : Window(work[d])
  BY PairedWindow DEF CredInv, WindowOK, Blank
<1>1. ASSUME NEW c \in Callers, CallerStep(c) PROVE CredInv'
  BY <1>1, CallerInv
<1>2. CASE ReceiveMessage
  <2>1. Window([mem EXCEPT !.sess = clock'])
    BY <1>0, WindowOfFields DEF TypeOK, Creds
  <2>2. QED
    BY <1>0, <1>2, <2>1, CredFrame DEF ReceiveMessage, Decrypted
<1>3. ASSUME NEW id \in Ids, NEW v \in Ticks, ReceivePreKeyMessage(id, v) PROVE CredInv'
  <2> DEFINE cr == [mem EXCEPT !.sess = clock', !.keys[id] = 0]
  <2>1. /\ GivenOnce' /\ InboundGiven'
        /\ given \ inbound \subseteq given' \ inbound'
        /\ Consumed(id)'
    BY <1>3, MessageTaken DEF ReceivePreKeyMessage, Decrypted
  <2>2. /\ mem' = cr
        /\ disk' = cr \/ disk' = disk
        /\ work' = work
    BY <1>3 DEF ReceivePreKeyMessage, Decrypted
  <2>3. /\ cr.next = mem.next /\ cr.first = mem.first
        /\ cr.keys = [mem.keys EXCEPT ![id] = 0]
    BY DEF TypeOK, Creds
  <2>4. \A j \in Ids : cr.keys[j] = IF j = id THEN 0 ELSE mem.keys[j]
    BY <2>3 DEF TypeOK, Creds
  <2>5. \A j \in Ids : Consumed(j) => Consumed(j)'
    BY <2>1 DEF Consumed
  <2>6. Window(mem)'
    BY <1>0, <2>1, <2>2, <2>3, <2>4, <2>5 DEF Window
  <2>7. Window(disk)'
    BY <1>0, <2>2, <2>5, <2>6 DEF Window
  <2>8. \A d \in Callers : Window(work[d])'
    BY <1>0, <2>2, <2>5 DEF Window
  <2>9. QED
    BY <2>1, <2>6, <2>7, <2>8 DEF CredInv, WindowOK
<1>4. ASSUME NEW id \in Ids, NEW v \in Ticks, DecryptFails(id, v) PROVE CredInv'
  <2>1. /\ GivenOnce' /\ InboundGiven'
        /\ given \ inbound \subseteq given' \ inbound'
    BY <1>4, MessageTaken DEF DecryptFails
  <2>2. mem' = mem /\ disk' = disk /\ work' = work
    BY <1>4 DEF DecryptFails
  <2>3. WindowOK'
    BY <1>0, <2>1, <2>2 DEF WindowOK, Window, Consumed
  <2>4. QED
    BY <2>1, <2>3 DEF CredInv
<1>5. ASSUME NEW id \in Ids, PeerFetchesKey(id) PROVE CredInv'
  <2>1. <<id, server[id]>> \notin given
    BY <1>5 DEF PeerFetchesKey, CredInv, GivenOnce
  <2>2. InboundGiven' /\ given \ inbound \subseteq given' \ inbound'
    BY <1>5, <2>1 DEF PeerFetchesKey, CredInv, InboundGiven
  <2>3. GivenOnce'
    BY <1>5 DEF PeerFetchesKey, CredInv, GivenOnce, TypeOK
  <2>4. mem' = mem /\ disk' = disk /\ work' = work
    BY <1>5 DEF PeerFetchesKey
  <2>5. WindowOK'
    BY <1>0, <2>2, <2>4 DEF WindowOK, Window, Consumed
  <2>6. QED
    BY <2>2, <2>3, <2>5 DEF CredInv
<1>6. CASE connect
  BY <1>0, <1>6, CredFrame DEF connect
<1>7. CASE Disconnected
  <2>1. \A d \in Callers : Window(work'[d])
    BY <1>0, <1>7, ForgetWindow DEF Disconnected, Interrupt
  <2>2. QED
    BY <1>0, <1>7, <2>1, CredFrame DEF Disconnected, Interrupt
<1>8. CASE Crash
  <2>1. \A d \in Callers : Window(work'[d])
    BY <1>0, <1>8, ForgetWindow DEF Crash, Interrupt
  <2>2. QED
    BY <1>0, <1>8, <2>1, CredFrame DEF Crash, Interrupt
<1>9. CASE UNCHANGED vars
  BY <1>0, <1>9, CredFrame DEF vars
<1>10. QED
  BY <1>1, <1>2, <1>3, <1>4, <1>5, <1>6, <1>7, <1>8, <1>9 DEF Next

\* Whatever operations overlap, fail or are cut off: the ids not yet uploaded have their keys
\* and no later id has one, so an upload never publishes a key it does not keep, in memory,
\* in the file and in every copy.
THEOREM CredentialsWindowOK == Spec => []WindowOK
<1>1. CredInv => WindowOK
  BY DEF CredInv
<1>2. QED
  BY <1>1, InitType, StepType, InitInv, StepInv, PTL DEF Spec

-----------------------------------------------------------------------------
(* Memory and the file                                                     *)

\* At first the file has what the memory has.
LEMMA InitDisk == Init => DiskCurrent
BY DEF Init, DiskCurrent

\* A step of a caller that keeps memory and the file, and ends no draining send.
LEMMA DiskKept ==
  ASSUME DiskCurrent, mem' = mem, disk' = disk, conn' = conn, dirty' = dirty,
         \A c \in Callers : pc[c] = "draining" => pc'[c] = "draining"
  PROVE  DiskCurrent'
BY DEF DiskCurrent, Unsaved, At

\* The steps of a caller save what they change.
LEMMA CallerDisk ==
  ASSUME TypeOK, DiskCurrent, NEW c \in Callers, CallerStep(c)
  PROVE  DiskCurrent'
<1> USE DEF client, serverVars, history, At, Unsaved
<1>1. ASSUME NEW n \in Counts, upload_pre_keys(c, n) PROVE DiskCurrent'
  BY <1>1, DiskKept DEF upload_pre_keys, Goto, TypeOK
<1>2. CASE rotate_signed_pre_key(c)
  BY <1>2, DiskKept DEF rotate_signed_pre_key, Goto, TypeOK
<1>3. CASE assert_sessions(c)
  BY <1>3, DiskKept DEF assert_sessions, Goto, TypeOK
<1>4. CASE ServerStores(c)
  BY <1>4, DiskKept DEF ServerStores, Goto, TypeOK
<1>5. CASE ServerRefuses(c)
  BY <1>5, DiskKept DEF ServerRefuses, Goto, TypeOK
<1>6. CASE RetryUpload(c)
  BY <1>6, DiskKept DEF RetryUpload, Goto, TypeOK
<1>7. CASE CommitKeys(c)
  BY <1>7 DEF CommitKeys, _commit_credentials, DiskCurrent
<1>8. CASE CommitSession(c)
  BY <1>8 DEF CommitSession, _commit_credentials, DiskCurrent
<1>9. CASE OperationFails(c)
  BY <1>9, DiskKept DEF OperationFails, Forget, Waiting
<1>10. CASE relay_message(c)
  <2>1. pc'[c] = "draining"
    BY <1>10 DEF relay_message, Goto, TypeOK
  <2>2. QED
    BY <2>1 DEF DiskCurrent
<1>11. CASE SendDone(c)
  BY <1>11 DEF SendDone, DiskCurrent
<1>12. CASE SendFails(c)
  BY <1>12 DEF SendFails, DiskCurrent
<1>13. CASE SendUnconnected(c)
  BY <1>13 DEF SendUnconnected, DiskCurrent
<1>14. ASSUME NEW held \in 0..MaxId, maintain_pre_keys(c, held) PROVE DiskCurrent'
  BY <1>1, <1>14, MaintainUploads
<1>15. QED
  BY <1>1, <1>2, <1>3, <1>4, <1>5, <1>6, <1>7, <1>8, <1>9, <1>10, <1>11, <1>12, <1>13, <1>14
  DEF CallerStep

\* Every step keeps the file as current as it claims to be.
LEMMA StepDisk == TypeOK /\ DiskCurrent /\ [Next]_vars => DiskCurrent'
<1> SUFFICES ASSUME TypeOK, DiskCurrent, [Next]_vars PROVE DiskCurrent'
  OBVIOUS
<1> USE DEF client, callerVars, serverVars, history, Unsaved
<1>1. ASSUME NEW c \in Callers, CallerStep(c) PROVE DiskCurrent'
  BY <1>1, CallerDisk
<1>2. CASE ReceiveMessage
  BY <1>2 DEF ReceiveMessage, Decrypted, DiskCurrent
<1>3. ASSUME NEW id \in Ids, NEW v \in Ticks, ReceivePreKeyMessage(id, v) PROVE DiskCurrent'
  BY <1>3 DEF ReceivePreKeyMessage, Decrypted, DiskCurrent
<1>4. ASSUME NEW id \in Ids, NEW v \in Ticks, DecryptFails(id, v) PROVE DiskCurrent'
  BY <1>4, DiskKept DEF DecryptFails
<1>5. ASSUME NEW id \in Ids, PeerFetchesKey(id) PROVE DiskCurrent'
  BY <1>5, DiskKept DEF PeerFetchesKey
<1>6. CASE connect
  BY <1>6 DEF connect, DiskCurrent
<1>7. CASE Disconnected
  BY <1>7 DEF Disconnected, Interrupt, DiskCurrent
<1>8. CASE Crash
  BY <1>8 DEF Crash, Interrupt, DiskCurrent
<1>9. CASE UNCHANGED vars
  BY <1>9, DiskKept DEF vars
<1>10. QED
  BY <1>1, <1>2, <1>3, <1>4, <1>5, <1>6, <1>7, <1>8, <1>9 DEF Next

\* While connected, the file has what memory has unless a send is under way or failed or a
\* message did not parse: no commit, delivery or reconnection leaves a change to be lost.
THEOREM CredentialsDiskCurrent == Spec => []DiskCurrent
<1>1. QED
  BY InitType, StepType, InitDisk, StepDisk, PTL DEF Spec

-----------------------------------------------------------------------------
(* The history of a state                                                  *)

\* Everything in a record was made at or before tick t.
Old(cr, t) == cr.sess <= t /\ 0 < cr.signed /\ cr.signed <= t /\ \A id \in Ids : cr.keys[id] <= t

\* So was everything there is.
Dated ==
  /\ Old(mem, clock) /\ Old(disk, clock)
  /\ \A c \in Callers : Old(work[c], clock) /\ fresh[c] <= clock
  /\ \A v \in used : v <= clock
  /\ \A id \in Ids : server[id] <= clock
  /\ \A p \in given : p[2] <= clock
  /\ 0 < signed /\ signed <= clock

\* NoMessageKeyReuse, with what the file and the copies that are not out of date hold.
ReuseInv ==
  /\ mem = disk \/ Unsaved
  /\ \A c \in Callers : Waiting(c) /\ c \notin touched => work[c].sess = mem.sess
  /\ NoMessageKeyReuse

\* A caller that has made a key and not committed it: nobody else has it.
Makes(c) == Waiting(c) /\ fresh[c] # 0
Without(cr, v) == cr.signed # v /\ \A id \in Ids : cr.keys[id] # v

FreshInv ==
  /\ \A c \in Callers : pc[c] \in {"idle", "assert"} => fresh[c] = 0
  /\ \A c \in Callers : pc[c] = "rotate" => fresh[c] # 0 /\ work[c].signed = fresh[c]
  /\ \A c \in Callers : Makes(c) =>
       /\ fresh[c] > 1 /\ Without(mem, fresh[c]) /\ Without(disk, fresh[c])
       /\ \A d \in Callers \ {c} : Without(work[d], fresh[c]) /\ fresh[d] # fresh[c]

\* ServerKeysKnown but for commits out of date, with what makes it so: the file has what the
\* memory has; a copy has keys of its own, of the memory, or such as a peer has used since; one that
\* is not out of date lacks none; and what a caller made is in its copy wherever the server has it.
Known(cr, id, v) == cr.keys[id] = v \/ InFlight(v) \/ v \in orphans

HeldKnown ==
  \A id \in Ids, v \in Ticks \ {0} : server[id] = v \/ <<id, v>> \in inbound => Known(mem, id, v)
Explained(v) == InFlight(v) \/ v \in orphans \/ refused
SignedKnown == signed = mem.signed \/ Explained(signed)
DiskKnows ==
  /\ disk.signed = mem.signed
  /\ \A id \in Ids : mem.keys[id] # 0 => disk.keys[id] = mem.keys[id]
CopyKeys(c) ==
  \A id \in Ids : \/ work[c].keys[id] \in {0, fresh[c], mem.keys[id]}
                  \/ <<id, work[c].keys[id]>> \in given
Current(c) ==
  /\ \A id \in Ids : mem.keys[id] # 0 => work[c].keys[id] = mem.keys[id]
  /\ work[c].signed = mem.signed \/ (fresh[c] # 0 /\ work[c].signed = fresh[c])
  /\ work[c].signed # mem.signed => pc[c] = "rotate" \/ Explained(signed)
MadeHere(c) ==
  /\ \A id \in Ids : server[id] = fresh[c] \/ <<id, fresh[c]>> \in given => work[c].keys[id] = fresh[c]
  /\ signed = fresh[c] => work[c].signed = fresh[c]

KnownInv ==
  /\ HeldKnown /\ SignedKnown /\ DiskKnows
  /\ \A c \in Callers : Waiting(c) => CopyKeys(c)
  /\ \A c \in Callers : Waiting(c) /\ c \notin touched => Current(c)
  /\ \A c \in Callers : Makes(c) => MadeHere(c)

StaleOrKnown == stale \/ KnownInv

-----------------------------------------------------------------------------
(* Ticks                                                                   *)

\* What is no later than a tick is no later than the next.
LEMMA OldLater ==
  ASSUME NEW cr \in Creds, NEW t \in Nat, NEW u \in Nat, t <= u, Old(cr, t)
  PROVE  Old(cr, u)
BY DEF Old, Creds, Ticks

\* A pairing is as old as the clock.
LEMMA OldPaired ==
  ASSUME NEW n \in {1, 2}, NEW t \in Nat, t >= 1
  PROVE  Old(Paired(n), t)
BY DEF Old, Paired

\* Keys and session states are named by ticks that have been.
LEMMA InitDated == Init => Dated
<1> SUFFICES ASSUME Init PROVE Dated
  OBVIOUS
<1>1. Old(mem, clock) /\ Old(disk, clock) /\ Old(Blank, clock)
  BY OldPaired DEF Init, Blank
<1>2. QED
  BY <1>1 DEF Init, Dated

\* What is forgotten is older than everything.
LEMMA ForgetDated ==
  ASSUME TypeOK, Dated, NEW S, Forget(S), clock' \in Ticks, clock <= clock'
  PROVE  \A c \in Callers : Old(work'[c], clock') /\ fresh'[c] <= clock'
<1>1. clock \in Nat /\ clock' \in Nat /\ clock >= 1
  BY DEF TypeOK, Ticks, Dated
<1>2. Old(Blank, clock')
  BY <1>1, OldPaired DEF Blank
<1>3. \A c \in Callers : Old(work[c], clock') /\ fresh[c] <= clock'
  BY <1>1, OldLater DEF TypeOK, Dated, Ticks
<1>4. QED
  BY <1>1, <1>2, <1>3 DEF Forget

\* So they are after every step.
LEMMA CallerDated ==
  ASSUME TypeOK, TypeOK', Dated, NEW c \in Callers, CallerStep(c)
  PROVE  Dated'
<1> USE DEF client, serverVars, history
<1>0. /\ clock \in Nat /\ clock >= 1
      /\ mem \in Creds /\ disk \in Creds /\ \A d \in Callers : work[d] \in Creds
  BY DEF TypeOK, Ticks, Dated
<1>t. ASSUME Tick
      PROVE  /\ clock' \in Nat /\ clock' = clock + 1
             /\ Old(mem, clock') /\ Old(disk, clock')
             /\ \A d \in Callers : Old(work[d], clock') /\ fresh[d] <= clock'
  BY <1>t, <1>0, OldLater DEF Tick, Dated, TypeOK, Ticks
<1>1. ASSUME NEW n \in Counts, upload_pre_keys(c, n) PROVE Dated'
  <2>1. Tick
    BY <1>1 DEF upload_pre_keys
  <2>2. Old(Generate(mem, n, clock'), clock')
    BY <2>1, <1>t, <1>0 DEF Old, Generate, Creds
  <2>3. QED
    BY <1>1, <1>0, <2>1, <1>t, <2>2 DEF upload_pre_keys, Dated, TypeOK, Ticks
<1>2. CASE rotate_signed_pre_key(c)
  <2>1. Tick
    BY <1>2 DEF rotate_signed_pre_key
  <2>2. Old([mem EXCEPT !.signed = clock'], clock')
    BY <2>1, <1>t, <1>0 DEF Old, Creds
  <2>3. QED
    BY <1>2, <1>0, <2>1, <1>t, <2>2 DEF rotate_signed_pre_key, Dated, TypeOK, Ticks
<1>3. CASE assert_sessions(c)
  BY <1>3 DEF assert_sessions, Dated, TypeOK
<1>4. CASE ServerStores(c)
  BY <1>4, <1>0 DEF ServerStores, Dated, TypeOK, Old
<1>5. CASE ServerRefuses(c)
  BY <1>5 DEF ServerRefuses, Dated
<1>6. CASE RetryUpload(c)
  BY <1>6 DEF RetryUpload, Dated
<1>7. CASE CommitKeys(c)
  BY <1>7, <1>0, ForgetDated DEF CommitKeys, _commit_credentials, Dated, TypeOK
<1>8. CASE CommitSession(c)
  <2>1. Tick
    BY <1>8 DEF CommitSession
  <2>2. Old([work[c] EXCEPT !.sess = clock'], clock')
    BY <2>1, <1>t, <1>0 DEF Old, Creds
  <2>3. QED
    BY <1>8, <1>0, <2>1, <1>t, <2>2, ForgetDated DEF CommitSession, _commit_credentials, Dated, TypeOK, Ticks
<1>9. CASE OperationFails(c)
  BY <1>9, <1>0, ForgetDated DEF OperationFails, Dated, TypeOK
<1>10. CASE relay_message(c)
  <2>1. Tick
    BY <1>10 DEF relay_message
  <2>2. Old([mem EXCEPT !.sess = clock'], clock')
    BY <2>1, <1>t, <1>0 DEF Old, Creds
  <2>3. \A v \in used' : v <= clock'
    BY <1>10, <1>0, <2>1, <1>t DEF relay_message, Dated, Old, TypeOK, Ticks
  <2>4. QED
    BY <1>10, <1>0, <2>1, <1>t, <2>2, <2>3 DEF relay_message, Dated, TypeOK, Ticks
<1>11. CASE SendDone(c)
  BY <1>11, <1>0, ForgetDated DEF SendDone, Dated, TypeOK
<1>12. CASE SendFails(c)
  BY <1>12, <1>0, ForgetDated DEF SendFails, Dated, TypeOK
<1>13. CASE SendUnconnected(c)
  <2>1. Tick
    BY <1>13 DEF SendUnconnected
  <2>2. Old([mem EXCEPT !.sess = clock'], clock')
    BY <2>1, <1>t, <1>0 DEF Old, Creds
  <2>3. QED
    BY <1>13, <1>0, <2>1, <1>t, <2>2 DEF SendUnconnected, Dated, TypeOK, Ticks
<1>14. ASSUME NEW held \in 0..MaxId, maintain_pre_keys(c, held) PROVE Dated'
  BY <1>1, <1>14, MaintainUploads
<1>15. QED
  BY <1>1, <1>2, <1>3, <1>4, <1>5, <1>6, <1>7, <1>8, <1>9, <1>10, <1>11, <1>12, <1>13, <1>14
  DEF CallerStep

\* Every step names what it makes by a later tick.
LEMMA StepDated == TypeOK /\ TypeOK' /\ Dated /\ [Next]_vars => Dated'
<1> SUFFICES ASSUME TypeOK, TypeOK', Dated, [Next]_vars PROVE Dated'
  OBVIOUS
<1> USE DEF client, callerVars, serverVars, history
<1>0. /\ clock \in Nat /\ clock >= 1
      /\ mem \in Creds /\ disk \in Creds /\ \A d \in Callers : work[d] \in Creds
  BY DEF TypeOK, Ticks, Dated
<1>t. ASSUME Tick
      PROVE  /\ clock' \in Nat /\ clock' = clock + 1
             /\ Old(mem, clock') /\ Old(disk, clock')
             /\ \A d \in Callers : Old(work[d], clock') /\ fresh[d] <= clock'
  BY <1>t, <1>0, OldLater DEF Tick, Dated, TypeOK, Ticks
<1>1. ASSUME NEW c \in Callers, CallerStep(c) PROVE Dated'
  BY <1>1, CallerDated
<1>2. CASE ReceiveMessage
  <2>1. Tick
    BY <1>2 DEF ReceiveMessage
  <2>2. Old([mem EXCEPT !.sess = clock'], clock')
    BY <2>1, <1>t, <1>0 DEF Old, Creds
  <2>3. QED
    BY <1>2, <1>0, <2>1, <1>t, <2>2 DEF ReceiveMessage, Decrypted, Dated, TypeOK, Ticks
<1>3. ASSUME NEW id \in Ids, NEW v \in Ticks, ReceivePreKeyMessage(id, v) PROVE Dated'
  <2>1. Tick
    BY <1>3 DEF ReceivePreKeyMessage
  <2>2. Old([mem EXCEPT !.sess = clock', !.keys[id] = 0], clock')
    BY <2>1, <1>t, <1>0 DEF Old, Creds
  <2>3. QED
    BY <1>3, <1>0, <2>1, <1>t, <2>2 DEF ReceivePreKeyMessage, Decrypted, Dated, TypeOK, Ticks
<1>4. ASSUME NEW id \in Ids, NEW v \in Ticks, DecryptFails(id, v) PROVE Dated'
  BY <1>4 DEF DecryptFails, Dated
<1>5. ASSUME NEW id \in Ids, PeerFetchesKey(id) PROVE Dated'
  BY <1>5, <1>0 DEF PeerFetchesKey, Dated, TypeOK
<1>6. CASE connect
  BY <1>6 DEF connect, Dated
<1>7. CASE Disconnected
  BY <1>7, <1>0, ForgetDated DEF Disconnected, Interrupt, Dated, TypeOK
<1>8. CASE Crash
  BY <1>8, <1>0, ForgetDated DEF Crash, Interrupt, Dated, TypeOK
<1>9. CASE UNCHANGED vars
  BY <1>9 DEF vars, Dated
<1>10. QED
  BY <1>1, <1>2, <1>3, <1>4, <1>5, <1>6, <1>7, <1>8, <1>9 DEF Next

-----------------------------------------------------------------------------
(* The states of the session                                               *)

\* Nothing has encrypted at first.
LEMMA InitReuse == Init => ReuseInv
BY DEF Init, ReuseInv, NoMessageKeyReuse, Waiting

\* A step that leaves the session, the file and what encrypted alone.
LEMMA ReuseFrame ==
  ASSUME ReuseInv,
         mem' = mem /\ disk' = disk /\ (Unsaved => Unsaved'),
         used' = used, stale => stale', rolledBack => rolledBack',
         \A c \in Callers : Waiting(c)' /\ c \notin touched' =>
           \/ work'[c].sess = mem.sess
           \/ Waiting(c) /\ c \notin touched /\ work'[c] = work[c]
  PROVE  ReuseInv'
BY DEF ReuseInv, NoMessageKeyReuse

\* A send leaves the state that it used for a later one; a commit that is not out of date puts
\* back the state there is.
LEMMA CallerReuse ==
  ASSUME TypeOK, Dated, ReuseInv, NEW c \in Callers, CallerStep(c)
  PROVE  ReuseInv'
<1> USE DEF client, serverVars, history, At, Goto, Waiting
<1>0. /\ clock \in Nat /\ mem \in Creds
      /\ mem.sess <= clock /\ \A v \in used : v \in Nat /\ v <= clock
  <2>1. clock \in Nat /\ mem \in Creds /\ \A v \in used : v \in Nat
    BY DEF TypeOK, Ticks
  <2>2. mem.sess <= clock
    BY DEF Dated, Old
  <2>3. QED
    BY <2>1, <2>2 DEF Dated
<1>1. ASSUME NEW n \in Counts, upload_pre_keys(c, n) PROVE ReuseInv'
  <2>1. Generate(mem, n, clock').sess = mem.sess
    BY <1>0 DEF Generate, Creds
  <2>2. QED
    BY <1>1, <2>1, ReuseFrame DEF upload_pre_keys, Unsaved, TypeOK
<1>2. CASE rotate_signed_pre_key(c)
  <2>1. [mem EXCEPT !.signed = clock'].sess = mem.sess
    BY <1>0 DEF Creds
  <2>2. QED
    BY <1>2, <2>1, ReuseFrame DEF rotate_signed_pre_key, Unsaved, TypeOK
<1>3. CASE assert_sessions(c)
  BY <1>3, ReuseFrame DEF assert_sessions, Unsaved, TypeOK
<1>4. CASE ServerStores(c)
  BY <1>4, ReuseFrame DEF ServerStores, Unsaved, TypeOK
<1>5. CASE ServerRefuses(c)
  BY <1>5, ReuseFrame DEF ServerRefuses, Unsaved, TypeOK
<1>6. CASE RetryUpload(c)
  BY <1>6, ReuseFrame DEF RetryUpload, Unsaved, TypeOK
<1>7. CASE CommitKeys(c)
  <2>1. /\ mem' = work[c] /\ disk' = mem' /\ used' = used /\ rolledBack' = rolledBack
        /\ stale' = (stale \/ c \in touched)
    BY <1>7 DEF CommitKeys, _commit_credentials
  <2>2. NoMessageKeyReuse'
    BY <1>7, <2>1 DEF ReuseInv, NoMessageKeyReuse, CommitKeys
  <2>3. \A d \in Callers : Waiting(d)' => d \in touched'
    BY <1>7 DEF CommitKeys, _commit_credentials, Touch, Forget, TypeOK
  <2>4. QED
    BY <2>1, <2>2, <2>3 DEF ReuseInv
<1>8. CASE CommitSession(c)
  <2>1. /\ mem'.sess = clock' /\ disk' = mem' /\ used' = used
        /\ clock' = clock + 1
    BY <1>8 DEF CommitSession, _commit_credentials, Tick, TypeOK, Creds
  <2>2. NoMessageKeyReuse'
    BY <1>0, <2>1 DEF NoMessageKeyReuse
  <2>3. \A d \in Callers : Waiting(d)' => d \in touched'
    BY <1>8 DEF CommitSession, _commit_credentials, Touch, Forget, TypeOK
  <2>4. QED
    BY <2>1, <2>2, <2>3 DEF ReuseInv
<1>9. CASE OperationFails(c)
  BY <1>9, ReuseFrame DEF OperationFails, Forget, Unsaved, TypeOK
<1>10. CASE relay_message(c)
  <2>1. /\ mem'.sess = clock' /\ used' = used \cup {mem.sess}
        /\ clock' = clock + 1 /\ pc'[c] = "draining"
    BY <1>10 DEF relay_message, Tick, TypeOK, Creds
  <2>2. NoMessageKeyReuse'
    BY <1>0, <2>1 DEF NoMessageKeyReuse
  <2>3. \A d \in Callers : Waiting(d)' => d \in touched'
    BY <1>10 DEF relay_message, Touch, TypeOK
  <2>4. QED
    BY <2>1, <2>2, <2>3 DEF ReuseInv, Unsaved
<1>11. CASE SendDone(c)
  BY <1>11 DEF SendDone, Forget, ReuseInv, NoMessageKeyReuse, TypeOK
<1>12. CASE SendFails(c)
  BY <1>12 DEF SendFails, Forget, ReuseInv, NoMessageKeyReuse, Unsaved, TypeOK
<1>13. CASE SendUnconnected(c)
  <2>1. /\ mem'.sess = clock' /\ used' = used /\ dirty' = TRUE
        /\ clock' = clock + 1
    BY <1>13 DEF SendUnconnected, Tick, TypeOK, Creds
  <2>2. NoMessageKeyReuse'
    BY <1>0, <2>1 DEF NoMessageKeyReuse
  <2>3. \A d \in Callers : Waiting(d)' => d \in touched'
    BY <1>13 DEF SendUnconnected, Touch, TypeOK
  <2>4. QED
    BY <2>1, <2>2, <2>3 DEF ReuseInv, Unsaved
<1>14. ASSUME NEW held \in 0..MaxId, maintain_pre_keys(c, held) PROVE ReuseInv'
  BY <1>1, <1>14, MaintainUploads
<1>15. QED
  BY <1>1, <1>2, <1>3, <1>4, <1>5, <1>6, <1>7, <1>8, <1>9, <1>10, <1>11, <1>12, <1>13, <1>14
  DEF CallerStep

\* A message advances the session to a new state, and every copy is out of date.
LEMMA DecryptedReuse ==
  ASSUME TypeOK, Dated, NEW cr, cr.sess = clock', Tick, Decrypted(cr)
  PROVE  ReuseInv'
<1>1. /\ mem'.sess = clock' /\ used' = used /\ clock' = clock + 1
      /\ clock \in Nat /\ \A v \in used : v \in Nat /\ v <= clock
  BY DEF Decrypted, Tick, TypeOK, Ticks, Dated
<1>2. mem' = disk' \/ dirty'
  BY DEF Decrypted
<1>3. \A d \in Callers : Waiting(d)' => d \in touched'
  BY DEF Decrypted, Waiting
<1>4. QED
  BY <1>1, <1>2, <1>3 DEF ReuseInv, NoMessageKeyReuse, Unsaved

\* No step brings back a state of the session that was used.
LEMMA StepReuse == TypeOK /\ Dated /\ ReuseInv /\ [Next]_vars => ReuseInv'
<1> SUFFICES ASSUME TypeOK, Dated, ReuseInv, [Next]_vars PROVE ReuseInv'
  OBVIOUS
<1> USE DEF client, callerVars, serverVars, history, At, Waiting
<1>1. ASSUME NEW c \in Callers, CallerStep(c) PROVE ReuseInv'
  BY <1>1, CallerReuse
<1>2. CASE ReceiveMessage
  <2>1. [mem EXCEPT !.sess = clock'].sess = clock'
    BY DEF TypeOK, Creds
  <2>2. QED
    BY <1>2, <2>1, DecryptedReuse DEF ReceiveMessage
<1>3. ASSUME NEW id \in Ids, NEW v \in Ticks, ReceivePreKeyMessage(id, v) PROVE ReuseInv'
  <2>1. [mem EXCEPT !.sess = clock', !.keys[id] = 0].sess = clock'
    BY DEF TypeOK, Creds
  <2>2. QED
    BY <1>3, <2>1, DecryptedReuse DEF ReceivePreKeyMessage
<1>4. ASSUME NEW id \in Ids, NEW v \in Ticks, DecryptFails(id, v) PROVE ReuseInv'
  BY <1>4, ReuseFrame DEF DecryptFails, Unsaved
<1>5. ASSUME NEW id \in Ids, PeerFetchesKey(id) PROVE ReuseInv'
  BY <1>5, ReuseFrame DEF PeerFetchesKey, Unsaved
<1>6. CASE connect
  BY <1>6 DEF connect, ReuseInv, NoMessageKeyReuse
<1>7. CASE Disconnected
  BY <1>7, ReuseFrame DEF Disconnected, Interrupt, Forget, Unsaved, Uploading, TypeOK
<1>8. CASE Crash
  BY <1>8 DEF Crash, Interrupt, Forget, ReuseInv, NoMessageKeyReuse, TypeOK
<1>9. CASE UNCHANGED vars
  BY <1>9, ReuseFrame DEF vars, Unsaved
<1>10. QED
  BY <1>1, <1>2, <1>3, <1>4, <1>5, <1>6, <1>7, <1>8, <1>9 DEF Next

\* However sends, deliveries, commits, disconnections and crashes interleave: a state of the
\* session that encrypted a message is not the current one again, unless a reload dropped an
\* unsaved change or a copy out of date was committed.
THEOREM CredentialsNoReuse == Spec => []NoMessageKeyReuse
<1>1. ReuseInv => NoMessageKeyReuse
  BY DEF ReuseInv
<1>2. QED
  BY <1>1, InitType, StepType, InitDated, StepDated, InitReuse, StepReuse, PTL DEF Spec

-----------------------------------------------------------------------------
(* The keys under way                                                      *)

\* At first nothing is under way.
LEMMA InitFresh == Init => FreshInv
BY DEF Init, FreshInv, Makes, Waiting

\* What callers make is told apart from everything else: so it is after a step that makes
\* nothing, when a copy is what it was or blank and mem' and disk' come from what was there.
LEMMA FreshFrame ==
  ASSUME TypeOK, FreshInv,
         \A c \in Callers :
            \/ pc'[c] = "idle" /\ fresh'[c] = 0 /\ work'[c] = Blank
            \/ /\ fresh'[c] = fresh[c] /\ work'[c] = work[c]
               /\ pc'[c] = pc[c] \/ (Waiting(c) /\ pc'[c] = "answered")
                                 \/ (pc[c] = "answered" /\ pc'[c] = "upload"),
         \A c \in Callers : Makes(c) /\ Makes(c)' => Without(mem', fresh[c]) /\ Without(disk', fresh[c])
  PROVE  FreshInv'
<1>1. Blank.signed = 1 /\ \A id \in Ids : Blank.keys[id] = 0
  BY DEF Blank, Paired, Ids
<1>2. QED
  BY <1>1 DEF FreshInv, Makes, Waiting, Without

\* A step that lets c make v, later than all there is, in a copy cr of the credentials.
LEMMA FreshStarts ==
  ASSUME TypeOK, Dated, FreshInv, NEW c \in Callers, At(c, "idle"), Tick,
         NEW cr \in Creds, NEW label, label \in {"upload", "rotate", "draining"},
         label = "rotate" => cr.signed = clock',
         \A d \in Callers : Makes(d) => Without(cr, fresh[d]),
         fresh' = [fresh EXCEPT ![c] = clock'], Goto(c, label),
         work' = [work EXCEPT ![c] = cr] \/ (work' = work /\ label = "draining"),
         mem'.signed = mem.signed, mem'.keys = mem.keys, disk' = disk
  PROVE  FreshInv'
<1>1. clock \in Nat /\ clock' = clock + 1 /\ clock' > 1
  BY DEF TypeOK, Ticks, Dated, Old, Creds, Tick
<1>2. /\ Without(mem, clock') /\ Without(disk, clock')
      /\ \A d \in Callers : Without(work[d], clock') /\ fresh[d] # clock'
  BY <1>1 DEF Dated, Old, Without, TypeOK, Creds, Ticks
<1>3. \A d \in Callers \ {c} : fresh'[d] = fresh[d] /\ work'[d] = work[d] /\ pc'[d] = pc[d]
  BY DEF TypeOK, Goto
<1>4. fresh'[c] = clock' /\ pc'[c] = label /\ (label # "draining" => work'[c] = cr)
  BY DEF TypeOK, Goto
<1>5. \A d \in Callers : Makes(d)' => d = c \/ Makes(d)
  BY <1>3 DEF Makes, Waiting
<1>6. \A d \in Callers : Makes(d)' => Without(mem', fresh'[d]) /\ Without(disk', fresh'[d]) /\ fresh'[d] > 1
  BY <1>1, <1>2, <1>3, <1>4, <1>5 DEF FreshInv, Without
<1>7. ASSUME NEW d \in Callers, Makes(d)', NEW e \in Callers \ {d}
      PROVE  Without(work'[e], fresh'[d]) /\ fresh'[e] # fresh'[d]
  <2>1. CASE d = c
    BY <1>2, <1>3, <1>4, <2>1
  <2>2. CASE d # c /\ e # c
    BY <1>3, <1>5, <1>7, <2>2 DEF FreshInv
  <2>3. CASE d # c /\ e = c
    BY <1>2, <1>3, <1>4, <1>5, <1>7, <2>3 DEF FreshInv, TypeOK
  <2>4. QED
    BY <2>1, <2>2, <2>3
<1>8. \A d \in Callers : /\ pc'[d] \in {"idle", "assert"} => fresh'[d] = 0
                         /\ pc'[d] = "rotate" => fresh'[d] # 0 /\ work'[d].signed = fresh'[d]
  BY <1>1, <1>3, <1>4 DEF FreshInv
<1>9. QED
  BY <1>6, <1>7, <1>8 DEF FreshInv

\* The steps of a caller keep apart what the callers make.
LEMMA CallerFresh ==
  ASSUME TypeOK, Dated, FreshInv, NEW c \in Callers, CallerStep(c)
  PROVE  FreshInv'
<1> USE DEF client, serverVars, history, At
<1>0. /\ mem \in Creds
      /\ \A d \in Callers : Makes(d) => Without(mem, fresh[d])
      /\ \A d \in Callers : Makes(d) => Without(disk, fresh[d])
  BY DEF FreshInv, TypeOK
<1>1. ASSUME NEW n \in Counts, upload_pre_keys(c, n) PROVE FreshInv'
  <2> DEFINE g == Generate(mem, n, clock')
  <2>1. Tick /\ clock' \in Ticks
    BY <1>1, TickType DEF upload_pre_keys
  <2>2. g \in Creds
    BY <2>1, GenerateType DEF TypeOK
  <2>3. g.signed = mem.signed /\ \A id \in Ids : g.keys[id] \in {clock', mem.keys[id]}
    BY <1>0 DEF Generate, Creds
  <2>4. \A d \in Callers : fresh[d] # clock'
    BY <2>1 DEF Tick, TypeOK, Ticks, Dated
  <2>5. \A d \in Callers : Makes(d) => Without(g, fresh[d])
    BY <1>0, <2>3, <2>4 DEF Without
  <2>6. /\ At(c, "idle") /\ fresh' = [fresh EXCEPT ![c] = clock'] /\ Goto(c, "upload")
        /\ work' = [work EXCEPT ![c] = g] /\ mem' = mem /\ disk' = disk
    BY <1>1 DEF upload_pre_keys
  <2>7. QED
    BY <2>1, <2>2, <2>5, <2>6, FreshStarts
<1>2. CASE rotate_signed_pre_key(c)
  <2> DEFINE g == [mem EXCEPT !.signed = clock']
  <2>1. Tick /\ clock' \in Ticks
    BY <1>2, TickType DEF rotate_signed_pre_key
  <2>2. g \in Creds /\ g.signed = clock' /\ g.keys = mem.keys
    BY <2>1, <1>0 DEF Creds
  <2>4. \A d \in Callers : fresh[d] # clock'
    BY <2>1 DEF Tick, TypeOK, Ticks, Dated
  <2>5. \A d \in Callers : Makes(d) => Without(g, fresh[d])
    BY <1>0, <2>2, <2>4 DEF Without
  <2>6. /\ At(c, "idle") /\ fresh' = [fresh EXCEPT ![c] = clock'] /\ Goto(c, "rotate")
        /\ work' = [work EXCEPT ![c] = g] /\ mem' = mem /\ disk' = disk
    BY <1>2 DEF rotate_signed_pre_key
  <2>7. QED
    BY <2>1, <2>2, <2>5, <2>6, FreshStarts
<1>3. CASE assert_sessions(c)
  BY <1>3, <1>0 DEF assert_sessions, Goto, FreshInv, Makes, Waiting, TypeOK
<1>4. CASE ServerStores(c)
  <2>1. Waiting(c) /\ pc' = [pc EXCEPT ![c] = "answered"] /\ UNCHANGED <<mem, disk, work, fresh>>
    BY <1>4 DEF ServerStores, Goto, Waiting
  <2>2. QED
    BY <2>1, <1>0, FreshFrame DEF TypeOK
<1>5. CASE ServerRefuses(c)
  <2>1. Waiting(c) /\ pc' = [pc EXCEPT ![c] = "answered"] /\ UNCHANGED <<mem, disk, work, fresh>>
    BY <1>5 DEF ServerRefuses, Goto, Waiting
  <2>2. QED
    BY <2>1, <1>0, FreshFrame DEF TypeOK
<1>6. CASE RetryUpload(c)
  BY <1>6, <1>0, FreshFrame DEF RetryUpload, Goto, TypeOK
<1>7. CASE CommitKeys(c)
  <2>1. Forget({c}) /\ mem' = work[c] /\ disk' = work[c]
    BY <1>7 DEF CommitKeys, _commit_credentials
  <2>2. \A d \in Callers \ {c} : Makes(d) => Without(mem', fresh[d])
    BY <2>1 DEF FreshInv
  <2>3. ~Makes(c)'
    BY <2>1 DEF Forget, Makes, TypeOK
  <2>4. QED
    BY <2>1, <2>2, <2>3, FreshFrame DEF Forget
<1>8. CASE CommitSession(c)
  <2>1. Forget({c}) /\ mem' = [work[c] EXCEPT !.sess = clock'] /\ disk' = mem'
    BY <1>8 DEF CommitSession, _commit_credentials
  <2>2. mem'.signed = work[c].signed /\ mem'.keys = work[c].keys
    BY <2>1 DEF TypeOK, Creds
  <2>3. \A d \in Callers \ {c} : Makes(d) => Without(mem', fresh[d])
    BY <2>2 DEF FreshInv, Without
  <2>4. ~Makes(c)'
    BY <2>1 DEF Forget, Makes, TypeOK
  <2>5. QED
    BY <2>1, <2>3, <2>4, FreshFrame DEF Forget
<1>9. CASE OperationFails(c)
  BY <1>9, <1>0, FreshFrame DEF OperationFails, Forget
<1>10. CASE relay_message(c)
  <2>1. mem'.signed = mem.signed /\ mem'.keys = mem.keys
    BY <1>10 DEF relay_message, TypeOK, Creds
  <2>2. QED
    BY <1>10, <1>0, <2>1, FreshStarts DEF relay_message
<1>11. CASE SendDone(c)
  BY <1>11, <1>0, FreshFrame DEF SendDone, Forget
<1>12. CASE SendFails(c)
  BY <1>12, <1>0, FreshFrame DEF SendFails, Forget
<1>13. CASE SendUnconnected(c)
  <2>1. mem'.signed = mem.signed /\ mem'.keys = mem.keys
    BY <1>13 DEF SendUnconnected, TypeOK, Creds
  <2>2. QED
    BY <1>13, <1>0, <2>1, FreshFrame DEF SendUnconnected, Without
<1>14. ASSUME NEW held \in 0..MaxId, maintain_pre_keys(c, held) PROVE FreshInv'
  BY <1>1, <1>14, MaintainUploads
<1>15. QED
  BY <1>1, <1>2, <1>3, <1>4, <1>5, <1>6, <1>7, <1>8, <1>9, <1>10, <1>11, <1>12, <1>13, <1>14
  DEF CallerStep

\* So does every step: what is under way is nowhere but in its copy.
LEMMA StepFresh == TypeOK /\ Dated /\ FreshInv /\ [Next]_vars => FreshInv'
<1> SUFFICES ASSUME TypeOK, Dated, FreshInv, [Next]_vars PROVE FreshInv'
  OBVIOUS
<1> USE DEF client, callerVars, serverVars, history
<1>0. /\ mem \in Creds
      /\ \A d \in Callers : Makes(d) => Without(mem, fresh[d])
      /\ \A d \in Callers : Makes(d) => Without(disk, fresh[d])
  BY DEF FreshInv, TypeOK
<1>1. ASSUME NEW c \in Callers, CallerStep(c) PROVE FreshInv'
  BY <1>1, CallerFresh
<1>2. CASE ReceiveMessage
  <2>1. /\ mem'.signed = mem.signed /\ mem'.keys = mem.keys
        /\ disk' = mem' \/ disk' = disk
    BY <1>2, <1>0 DEF ReceiveMessage, Decrypted, Creds
  <2>2. \A d \in Callers : Makes(d) => Without(mem', fresh[d]) /\ Without(disk', fresh[d])
    BY <1>0, <2>1 DEF Without
  <2>3. QED
    BY <1>2, <2>2, FreshFrame DEF ReceiveMessage, Decrypted
<1>3. ASSUME NEW id \in Ids, NEW v \in Ticks, ReceivePreKeyMessage(id, v) PROVE FreshInv'
  <2>1. /\ mem'.signed = mem.signed /\ \A i \in Ids : mem'.keys[i] \in {0, mem.keys[i]}
        /\ disk' = mem' \/ disk' = disk
    BY <1>3, <1>0 DEF ReceivePreKeyMessage, Decrypted, Creds
  <2>2. \A d \in Callers : Makes(d) => Without(mem', fresh[d]) /\ Without(disk', fresh[d])
    BY <1>0, <2>1 DEF Without, Makes
  <2>3. QED
    BY <1>3, <2>2, FreshFrame DEF ReceivePreKeyMessage, Decrypted
<1>4. ASSUME NEW id \in Ids, NEW v \in Ticks, DecryptFails(id, v) PROVE FreshInv'
  BY <1>4, <1>0, FreshFrame DEF DecryptFails
<1>5. ASSUME NEW id \in Ids, PeerFetchesKey(id) PROVE FreshInv'
  BY <1>5, <1>0, FreshFrame DEF PeerFetchesKey
<1>6. CASE connect
  BY <1>6, <1>0, FreshFrame DEF connect
<1>7. CASE Disconnected
  BY <1>7, <1>0, FreshFrame DEF Disconnected, Interrupt, Forget
<1>8. CASE Crash
  BY <1>8, <1>0, FreshFrame DEF Crash, Interrupt, Forget
<1>9. CASE UNCHANGED vars
  BY <1>9, <1>0, FreshFrame DEF vars
<1>10. QED
  BY <1>1, <1>2, <1>3, <1>4, <1>5, <1>6, <1>7, <1>8, <1>9 DEF Next

-----------------------------------------------------------------------------
(* What the server holds                                                   *)

\* At first the server has the signed prekey alone.
LEMMA InitKnown == Init => StaleOrKnown
<1> SUFFICES ASSUME Init PROVE KnownInv
  BY DEF StaleOrKnown
<1>1. mem.signed = 1 /\ disk = mem /\ signed = 1
  BY DEF Init, Paired
<1>2. HeldKnown
  BY DEF Init, HeldKnown
<1>3. \A c \in Callers : ~Waiting(c)
  BY DEF Init, Waiting
<1>4. QED
  BY <1>1, <1>2, <1>3 DEF KnownInv, SignedKnown, DiskKnows, Makes

\* What was under way is under way still, or is left behind.
Remains == \A v \in Ticks \ {0} : InFlight(v) \/ v \in orphans => (InFlight(v) \/ v \in orphans)'

\* A step of which the server hears nothing, and that takes no key from the credentials: the
\* copies that go on are as they were.
LEMMA KnownFrame ==
  ASSUME TypeOK, Dated, KnownInv, Remains, refused => refused',
         server' = server, given' = given, inbound' \subseteq inbound, signed' = signed,
         mem'.signed = mem.signed, \A id \in Ids : mem.keys[id] # 0 => mem'.keys[id] = mem.keys[id],
         DiskKnows',
         \A c \in Callers : Waiting(c)' =>
           /\ Waiting(c) /\ work'[c] = work[c] /\ fresh'[c] = fresh[c]
           /\ c \notin touched' => c \notin touched /\ mem'.keys = mem.keys
           /\ pc'[c] = pc[c] \/ pc[c] # "rotate" \/ refused'
  PROVE  KnownInv'
<1>1. signed \in Ticks \ {0}
  BY DEF TypeOK, Dated, Ticks
<1>2. HeldKnown'
  BY DEF KnownInv, HeldKnown, Known, Remains
<1>3. Explained(signed) => Explained(signed)'
  BY <1>1 DEF Explained, Remains
<1>4. SignedKnown'
  BY <1>3 DEF KnownInv, SignedKnown, Explained
<1>5. ASSUME NEW c \in Callers, Waiting(c)'
      PROVE  CopyKeys(c)' /\ (c \notin touched' => Current(c)') /\ (Makes(c)' => MadeHere(c)')
  <2>1. CopyKeys(c) /\ (c \notin touched => Current(c)) /\ (Makes(c)' => MadeHere(c))
    BY <1>5 DEF KnownInv, Makes
  <2>2. CopyKeys(c)'
    BY <1>5, <2>1 DEF CopyKeys
  <2>3. c \notin touched' => Current(c)'
    BY <1>3, <1>5, <2>1 DEF Current, Explained
  <2>4. Makes(c)' => MadeHere(c)'
    BY <1>5, <2>1 DEF Makes, MadeHere
  <2>5. QED
    BY <2>2, <2>3, <2>4
<1>6. QED
  BY <1>2, <1>4, <1>5 DEF KnownInv, Makes

\* A step by which c starts to work on a copy cr, with what it makes, v, if it makes anything.
LEMMA KnownStarts ==
  ASSUME TypeOK, Dated, FreshInv, KnownInv, NEW c \in Callers, At(c, "idle"),
         NEW cr \in Creds, NEW v \in Nat, v = 0 \/ v > clock,
         NEW label \in {"upload", "rotate", "assert"}, Goto(c, label),
         work' = [work EXCEPT ![c] = cr], fresh' = [fresh EXCEPT ![c] = v],
         touched' = touched \ {c},
         \A id \in Ids : cr.keys[id] = mem.keys[id] \/ (mem.keys[id] = 0 /\ cr.keys[id] = v),
         cr.signed = mem.signed \/ (label = "rotate" /\ v # 0 /\ cr.signed = v),
         UNCHANGED <<mem, disk, server, given, inbound, signed, orphans, refused>>
  PROVE  KnownInv'
<1>1. \A d \in Callers \ {c} : /\ fresh'[d] = fresh[d] /\ work'[d] = work[d] /\ pc'[d] = pc[d]
                               /\ Waiting(d)' = Waiting(d)
  BY DEF TypeOK, Goto, Waiting
<1>2. fresh'[c] = v /\ work'[c] = cr /\ pc'[c] = label /\ ~Waiting(c)
  BY DEF TypeOK, Goto, Waiting, At
<1>3. \A u : InFlight(u) => InFlight(u)'
  BY <1>1, <1>2 DEF InFlight
<1>4. HeldKnown' /\ SignedKnown' /\ DiskKnows'
  BY <1>3 DEF KnownInv, HeldKnown, Known, SignedKnown, Explained, DiskKnows
<1>5. ASSUME NEW d \in Callers, Waiting(d)'
      PROVE  CopyKeys(d)' /\ (d \notin touched' => Current(d)') /\ (Makes(d)' => MadeHere(d)')
  <2>1. CASE d = c
    <3>1. CopyKeys(c)'
      BY <1>2 DEF CopyKeys
    <3>2. Current(c)'
      BY <1>2 DEF Current
    <3>3. v # 0 => /\ \A id \in Ids : server[id] # v /\ <<id, v>> \notin given
                   /\ signed # v
      BY DEF Dated, TypeOK, Ticks
    <3>4. Makes(c)' => MadeHere(c)'
      BY <1>2, <3>3 DEF Makes, MadeHere
    <3>5. QED
      BY <2>1, <3>1, <3>2, <3>4
  <2>2. CASE d # c
    <3>1. CopyKeys(d) /\ (d \notin touched => Current(d)) /\ (Makes(d) => MadeHere(d))
      BY <1>1, <1>5, <2>2 DEF KnownInv
    <3>2. CopyKeys(d)' /\ (d \notin touched' => Current(d)')
      BY <1>1, <1>3, <2>2, <3>1 DEF CopyKeys, Current, Explained
    <3>3. Makes(d)' => MadeHere(d)'
      BY <1>1, <2>2, <3>1 DEF Makes, MadeHere
    <3>4. QED
      BY <3>2, <3>3
  <2>3. QED
    BY <2>1, <2>2
<1>6. QED
  BY <1>4, <1>5 DEF KnownInv, Makes

\* The server takes what c sends it: the keys of c's copy are c's own, or known already.
LEMMA KnownStores ==
  ASSUME TypeOK, Dated, FreshInv, InboundGiven, KnownInv, NEW c \in Callers, ServerStores(c)
  PROVE  KnownInv'
<1> USE DEF At
<1>1. /\ Waiting(c) /\ pc'[c] = "answered" /\ \A d \in Callers \ {c} : pc'[d] = pc[d]
      /\ UNCHANGED <<mem, disk, work, asked, fresh, touched, given, inbound, orphans, refused>>
  BY DEF ServerStores, Goto, Waiting, TypeOK, client, history
<1>2. \A d \in Callers : Waiting(d)' = Waiting(d) /\ Makes(d)' = Makes(d)
  BY <1>1 DEF Waiting, Makes
<1>3. \A u : InFlight(u)' = InFlight(u)
  BY <1>1, <1>2 DEF InFlight
<1>4. \A id \in Ids : \/ server'[id] = server[id]
                      \/ /\ server'[id] = work[c].keys[id] /\ <<id, work[c].keys[id]>> \notin given
  BY DEF ServerStores, TypeOK
<1>5. signed' = signed \/ (signed' = work[c].signed /\ Makes(c) /\ signed' = fresh[c])
  BY <1>1 DEF ServerStores, FreshInv, Makes
<1>6. HeldKnown'
  <2>1. ASSUME NEW id \in Ids, NEW v \in Ticks \ {0}, server'[id] = v \/ <<id, v>> \in inbound
        PROVE  Known(mem, id, v)
    <3>1. CASE server[id] = v \/ <<id, v>> \in inbound
      BY <3>1 DEF KnownInv, HeldKnown
    <3>2. CASE v = work[c].keys[id] /\ <<id, v>> \notin given
      BY <1>1, <3>2 DEF KnownInv, CopyKeys, Known, InFlight
    <3>3. QED
      BY <1>4, <2>1, <3>1, <3>2
  <2>2. QED
    BY <1>1, <1>3, <2>1 DEF HeldKnown, Known
<1>7. SignedKnown' /\ DiskKnows'
  BY <1>1, <1>3, <1>5 DEF KnownInv, SignedKnown, DiskKnows, Explained, InFlight, Makes
<1>8. Explained(signed) => Explained(signed')
  BY <1>1, <1>5 DEF Explained, InFlight, Makes
<1>9. ASSUME NEW d \in Callers, Waiting(d)
      PROVE  CopyKeys(d)' /\ (d \notin touched' => Current(d)') /\ (Makes(d)' => MadeHere(d)')
  <2>1. CopyKeys(d) /\ (d \notin touched => Current(d)) /\ (Makes(d) => MadeHere(d))
    BY <1>9 DEF KnownInv
  <2>2. CopyKeys(d)'
    BY <1>1, <2>1 DEF CopyKeys
  <2>3. ASSUME d \notin touched PROVE Current(d)'
    <3>1. work[d].signed # mem.signed => pc'[d] = "rotate" \/ Explained(signed')
      <4>1. CASE d # c
        BY <1>1, <1>8, <2>1, <2>3, <4>1 DEF Current
      <4>2. CASE d = c /\ pc[c] = "rotate"
        BY <1>1, <4>2 DEF ServerStores, FreshInv, Explained, InFlight
      <4>3. CASE d = c /\ pc[c] = "upload"
        BY <1>1, <1>8, <2>1, <2>3, <4>3 DEF Current
      <4>4. QED
        BY <4>1, <4>2, <4>3 DEF ServerStores
    <3>2. QED
      BY <1>1, <1>3, <2>1, <2>3, <3>1 DEF Current, Explained
  <2>4. ASSUME Makes(d) PROVE MadeHere(d)'
    <3>1. d # c => Without(work[c], fresh[d]) /\ fresh[c] # fresh[d]
      BY <2>4 DEF FreshInv
    <3>2. QED
      BY <1>1, <1>4, <1>5, <2>1, <2>4, <3>1 DEF MadeHere, Without
  <2>5. QED
    BY <1>1, <1>2, <2>2, <2>3, <2>4
<1>10. QED
  BY <1>2, <1>6, <1>7, <1>9 DEF KnownInv, Makes

\* The commit of a copy that is not out of date: what c made is known from now on.
LEMMA KnownCommit ==
  ASSUME TypeOK, Dated, FreshInv, InboundGiven, KnownInv,
         NEW c \in Callers, Waiting(c), pc[c] # "rotate", c \notin touched,
         NEW cr \in Creds, cr.keys = work[c].keys, cr.signed = work[c].signed,
         _commit_credentials(c, cr)
  PROVE  KnownInv'
<1>1. /\ mem' = cr /\ disk' = cr
      /\ server' = server /\ given' = given /\ inbound' = inbound /\ signed' = signed
      /\ orphans' = orphans /\ refused' = refused
  BY DEF _commit_credentials, serverVars
<1>2. /\ \A d \in Callers \ {c} : pc'[d] = pc[d] /\ work'[d] = work[d] /\ fresh'[d] = fresh[d]
      /\ ~Waiting(c)'
  BY DEF _commit_credentials, Forget, Waiting
<1>3. \A u : InFlight(u) => InFlight(u)' \/ (u = fresh[c])
  BY <1>2 DEF InFlight, Waiting
<1>4. Current(c) /\ (Makes(c) => MadeHere(c))
  BY DEF KnownInv
<1>5. HeldKnown'
  <2>1. ASSUME NEW id \in Ids, NEW v \in Ticks \ {0}, server[id] = v \/ <<id, v>> \in inbound
        PROVE  Known(cr, id, v)'
    <3>1. CASE mem.keys[id] = v
      BY <1>4, <2>1, <3>1 DEF Current, Known
    <3>2. CASE v = fresh[c]
      BY <1>4, <2>1, <3>2 DEF Makes, MadeHere, InboundGiven, Known
    <3>3. CASE InFlight(v) /\ v # fresh[c]
      BY <1>3, <3>3 DEF Known
    <3>4. CASE v \in orphans
      BY <1>1, <3>4 DEF Known
    <3>5. QED
      BY <2>1, <3>1, <3>2, <3>3, <3>4 DEF KnownInv, HeldKnown, Known
  <2>2. QED
    BY <1>1, <2>1 DEF HeldKnown, Known
<1>6. SignedKnown'
  <2>1. signed # 0
    BY DEF Dated
  <2>2. signed = fresh[c] => signed = cr.signed
    BY <1>4, <2>1 DEF Makes, MadeHere
  <2>3. Explained(signed) => Explained(signed)' \/ signed = fresh[c]
    BY <1>1, <1>3 DEF Explained
  <2>4. signed = cr.signed \/ Explained(signed)
    BY <1>4 DEF KnownInv, SignedKnown, Current
  <2>5. QED
    BY <1>1, <2>2, <2>3, <2>4 DEF SignedKnown, Explained
<1>7. DiskKnows'
  BY <1>1 DEF DiskKnows
<1>8. ASSUME NEW d \in Callers, Waiting(d)'
      PROVE  CopyKeys(d)' /\ d \in touched' /\ (Makes(d)' => MadeHere(d)')
  <2>1. d # c /\ Waiting(d)
    BY <1>2, <1>8 DEF Waiting
  <2>2. d \in touched'
    BY <2>1 DEF _commit_credentials, Touch
  <2>3. CopyKeys(d)'
    BY <1>1, <1>2, <1>4, <2>1 DEF KnownInv, CopyKeys, Current
  <2>4. Makes(d)' => MadeHere(d)'
    BY <1>1, <1>2, <2>1 DEF KnownInv, Makes, MadeHere
  <2>5. QED
    BY <2>2, <2>3, <2>4
<1>9. QED
  BY <1>5, <1>6, <1>7, <1>8 DEF KnownInv, Makes

\* What Forget leaves.
LEMMA ForgetRemains ==
  ASSUME NEW S \in SUBSET Callers, Forget(S),
         orphans' = orphans \cup ({fresh[c] : c \in {d \in S : Waiting(d)}} \ {0})
  PROVE  Remains
<1>1. ASSUME NEW v \in Ticks \ {0}, InFlight(v) PROVE InFlight(v)' \/ v \in orphans'
  <2>1. PICK d \in Callers : Waiting(d) /\ fresh[d] = v
    BY <1>1 DEF InFlight
  <2>2. CASE d \in S
    BY <2>1, <2>2
  <2>3. CASE d \notin S
    BY <2>1, <2>3 DEF Forget, InFlight, Waiting
  <2>4. QED
    BY <2>2, <2>3
<1>2. QED
  BY <1>1 DEF Remains

\* The steps of a caller keep known what the server holds, while no commit is out of date.
LEMMA CallerKnown ==
  ASSUME TypeOK, TypeOK', Dated, FreshInv, CredInv, KnownInv, ~stale', NEW c \in Callers, CallerStep(c)
  PROVE  KnownInv'
<1> USE DEF client, serverVars, history, At
<1>0. mem \in Creds /\ InboundGiven /\ clock \in Nat
  BY DEF TypeOK, CredInv, Ticks
<1>1. ASSUME NEW n \in Counts, upload_pre_keys(c, n) PROVE KnownInv'
  <2> DEFINE g == Generate(mem, n, clock')
  <2>1. Tick /\ clock' \in Ticks /\ clock' \in Nat /\ clock' > clock
    BY <1>0, <1>1, TickType DEF upload_pre_keys, Tick
  <2>2. g \in Creds
    BY <2>1, GenerateType DEF TypeOK
  <2>3. g.signed = mem.signed
    BY <1>0 DEF Generate, Creds
  <2>4. \A id \in Ids : g.keys[id] = mem.keys[id] \/ (mem.keys[id] = 0 /\ g.keys[id] = clock')
    <3>1. g.keys = [id \in Ids |-> IF id \in mem.next..Last(mem, n) THEN clock' ELSE mem.keys[id]]
      BY <1>0 DEF Generate, Creds
    <3>2. \A id \in Ids : id \in mem.next..Last(mem, n) => mem.keys[id] = 0
      BY <1>0 DEF CredInv, WindowOK, Window, Creds, Ids
    <3>3. QED
      BY <3>1, <3>2
  <2>5. QED
    BY <1>1, <2>1, <2>2, <2>3, <2>4, KnownStarts DEF upload_pre_keys
<1>2. CASE rotate_signed_pre_key(c)
  <2> DEFINE g == [mem EXCEPT !.signed = clock']
  <2>1. Tick /\ clock' \in Ticks /\ clock' \in Nat /\ clock' > clock /\ clock' # 0
    BY <1>0, <1>2, TickType DEF rotate_signed_pre_key, Tick
  <2>2. g \in Creds /\ g.signed = clock' /\ g.keys = mem.keys
    BY <1>0, <2>1 DEF Creds
  <2>3. QED
    BY <1>2, <2>1, <2>2, KnownStarts DEF rotate_signed_pre_key
<1>3. CASE assert_sessions(c)
  <2>1. fresh[c] = 0 /\ fresh' = [fresh EXCEPT ![c] = 0]
    BY <1>3 DEF assert_sessions, FreshInv, TypeOK
  <2>2. /\ At(c, "idle") /\ Goto(c, "assert") /\ work' = [work EXCEPT ![c] = mem]
        /\ touched' = touched \ {c}
        /\ UNCHANGED <<mem, disk, server, given, inbound, signed, orphans, refused>>
    BY <1>3 DEF assert_sessions
  <2>3. 0 \in Nat /\ "assert" \in {"upload", "rotate", "assert"}
    OBVIOUS
  <2>4. QED
    BY <1>0, <2>1, <2>2, <2>3, KnownStarts
<1>4. CASE ServerStores(c)
  BY <1>0, <1>4, KnownStores
<1>5. CASE ServerRefuses(c)
  <2>1. \A u : InFlight(u) => InFlight(u)'
    BY <1>5 DEF ServerRefuses, Goto, InFlight, Waiting, TypeOK
  <2>2. Remains /\ DiskKnows'
    BY <1>5, <2>1 DEF ServerRefuses, Remains, KnownInv, DiskKnows
  <2>3. QED
    BY <1>5, <2>2, KnownFrame DEF ServerRefuses, Goto, Waiting, TypeOK
<1>6. CASE RetryUpload(c)
  <2>1. \A u : InFlight(u) => InFlight(u)'
    BY <1>6 DEF RetryUpload, Goto, InFlight, Waiting, TypeOK
  <2>2. Remains /\ DiskKnows'
    BY <1>6, <2>1 DEF RetryUpload, Remains, KnownInv, DiskKnows
  <2>3. QED
    BY <1>6, <2>2, KnownFrame DEF RetryUpload, Goto, Waiting, TypeOK
<1>7. CASE CommitKeys(c)
  BY <1>0, <1>7, KnownCommit DEF CommitKeys, _commit_credentials, Waiting, TypeOK
<1>8. CASE CommitSession(c)
  <2>1. clock' \in Ticks
    BY <1>8, TickType DEF CommitSession
  <2>2. [work[c] EXCEPT !.sess = clock'] \in Creds
    BY <2>1 DEF TypeOK, Creds
  <2>3. /\ [work[c] EXCEPT !.sess = clock'].keys = work[c].keys
        /\ [work[c] EXCEPT !.sess = clock'].signed = work[c].signed
    BY DEF TypeOK, Creds
  <2>4. c \notin touched
    BY <1>8 DEF CommitSession, _commit_credentials
  <2>5. QED
    BY <1>0, <1>8, <2>2, <2>3, <2>4, KnownCommit DEF CommitSession, Waiting
<1>9. CASE OperationFails(c)
  <2>1. Forget({c}) /\ DiskKnows'
    BY <1>9 DEF OperationFails, KnownInv, DiskKnows
  <2>2. Remains
    BY <1>9, <2>1 DEF OperationFails, Forget, Remains, InFlight, Waiting
  <2>3. QED
    BY <1>9, <2>1, <2>2, KnownFrame DEF OperationFails, Forget, Waiting
<1>10. CASE relay_message(c)
  <2>1. mem'.signed = mem.signed /\ mem'.keys = mem.keys /\ disk' = disk
    BY <1>10 DEF relay_message, TypeOK, Creds
  <2>2. /\ ~Waiting(c) /\ ~Waiting(c)'
        /\ \A d \in Callers \ {c} : Waiting(d)' = Waiting(d) /\ pc'[d] = pc[d] /\ fresh'[d] = fresh[d]
    BY <1>10 DEF relay_message, Goto, Waiting, TypeOK
  <2>3. Remains /\ DiskKnows'
    BY <1>10, <2>1, <2>2 DEF relay_message, Remains, InFlight, KnownInv, DiskKnows
  <2>4. \A d \in Callers : Waiting(d)' => d \in touched'
    BY <1>10, <2>2 DEF relay_message, Touch
  <2>5. QED
    BY <1>10, <2>1, <2>2, <2>3, <2>4, KnownFrame DEF relay_message
<1>11. CASE SendDone(c)
  <2>1. Forget({c}) /\ DiskKnows' /\ ~Waiting(c)
    BY <1>11 DEF SendDone, DiskKnows, Waiting
  <2>2. Remains
    BY <1>11, <2>1 DEF SendDone, Forget, Remains, InFlight, Waiting
  <2>3. QED
    BY <1>11, <2>1, <2>2, KnownFrame DEF SendDone, Forget, Waiting
<1>12. CASE SendFails(c)
  <2>1. Forget({c}) /\ DiskKnows' /\ ~Waiting(c)
    BY <1>12 DEF SendFails, KnownInv, DiskKnows, Waiting
  <2>2. Remains
    BY <1>12, <2>1 DEF SendFails, Forget, Remains, InFlight, Waiting
  <2>3. QED
    BY <1>12, <2>1, <2>2, KnownFrame DEF SendFails, Forget, Waiting
<1>13. CASE SendUnconnected(c)
  <2>1. mem'.signed = mem.signed /\ mem'.keys = mem.keys /\ disk' = disk
    BY <1>13 DEF SendUnconnected, TypeOK, Creds
  <2>2. Remains /\ DiskKnows'
    BY <1>13, <2>1 DEF SendUnconnected, Remains, InFlight, Waiting, KnownInv, DiskKnows
  <2>3. \A d \in Callers : Waiting(d)' = Waiting(d)
    BY <1>13 DEF SendUnconnected, Waiting
  <2>4. \A d \in Callers : Waiting(d) => d \in touched'
    BY <1>13 DEF SendUnconnected, Touch, Waiting
  <2>5. QED
    BY <1>13, <2>1, <2>2, <2>3, <2>4, KnownFrame DEF SendUnconnected
<1>14. ASSUME NEW held \in 0..MaxId, maintain_pre_keys(c, held) PROVE KnownInv'
  BY <1>1, <1>14, MaintainUploads
<1>15. QED
  BY <1>1, <1>2, <1>3, <1>4, <1>5, <1>6, <1>7, <1>8, <1>9, <1>10, <1>11, <1>12, <1>13, <1>14
  DEF CallerStep

\* A prekey message takes a key that the server gave away: it does not hold it any more.
LEMMA KnownConsumed ==
  ASSUME TypeOK, Dated, CredInv, KnownInv, NEW id \in Ids, NEW v \in Ticks, ReceivePreKeyMessage(id, v)
  PROVE  KnownInv'
<1> USE DEF ReceivePreKeyMessage, Decrypted
<1>1. /\ mem'.signed = mem.signed
      /\ disk' = mem' \/ disk' = disk
      /\ \A i \in Ids : mem'.keys[i] = IF i = id THEN 0 ELSE mem.keys[i]
  BY DEF TypeOK, Creds
<1>2. /\ UNCHANGED <<pc, work, asked, fresh, server, given, signed, orphans, refused>>
      /\ inbound' = inbound \ {<<id, v>>} /\ <<id, v>> \in given /\ mem.keys[id] = v
  BY DEF CredInv, InboundGiven
<1>3. /\ \A d \in Callers : (Waiting(d)' = Waiting(d)) /\ (Makes(d)' = Makes(d))
      /\ \A d \in Callers : Waiting(d) => d \in touched'
      /\ \A u : InFlight(u)' = InFlight(u)
  BY <1>2 DEF Waiting, Makes, InFlight
<1>4. HeldKnown'
  <2>1. ASSUME NEW i \in Ids, NEW u \in Ticks \ {0}, server[i] = u \/ <<i, u>> \in inbound', mem.keys[i] = u
        PROVE  mem'.keys[i] = u
    <3>1. i = id => u = v
      BY <1>2, <2>1
    <3>2. i # id
      BY <1>2, <2>1, <3>1 DEF CredInv, GivenOnce
    <3>3. QED
      BY <1>1, <2>1, <3>2
  <2>2. QED
    BY <1>2, <1>3, <2>1 DEF KnownInv, HeldKnown, Known
<1>5. SignedKnown'
  BY <1>1, <1>2, <1>3 DEF KnownInv, SignedKnown, Explained
<1>6. DiskKnows'
  BY <1>1 DEF KnownInv, DiskKnows
<1>7. ASSUME NEW d \in Callers, Waiting(d) PROVE CopyKeys(d)' /\ (Makes(d) => MadeHere(d)')
  BY <1>1, <1>2, <1>7 DEF KnownInv, CopyKeys, MadeHere
<1>8. QED
  BY <1>3, <1>4, <1>5, <1>6, <1>7 DEF KnownInv, Makes

\* A peer takes a key from the server and is going to use it.
LEMMA KnownFetched ==
  ASSUME TypeOK, KnownInv, NEW id \in Ids, PeerFetchesKey(id)
  PROVE  KnownInv'
<1> USE DEF PeerFetchesKey, client, callerVars, history
<1>1. /\ \A d \in Callers : (Waiting(d)' = Waiting(d)) /\ (Makes(d)' = Makes(d))
      /\ \A u : InFlight(u)' = InFlight(u)
  BY DEF Waiting, Makes, InFlight
<1>2. HeldKnown'
  <2>1. ASSUME NEW i \in Ids, NEW u \in Ticks \ {0}, server'[i] = u \/ <<i, u>> \in inbound'
        PROVE  server[i] = u \/ <<i, u>> \in inbound
    BY <2>1 DEF TypeOK
  <2>2. QED
    BY <1>1, <2>1 DEF KnownInv, HeldKnown, Known
<1>3. SignedKnown' /\ DiskKnows'
  BY <1>1 DEF KnownInv, SignedKnown, Explained, DiskKnows
<1>4. ASSUME NEW d \in Callers, Waiting(d)
      PROVE  CopyKeys(d)' /\ (d \notin touched => Current(d)') /\ (Makes(d) => MadeHere(d)')
  <2>1. CopyKeys(d)' /\ (d \notin touched => Current(d)')
    BY <1>1, <1>4 DEF KnownInv, CopyKeys, Current, Explained
  <2>2. ASSUME Makes(d) PROVE MadeHere(d)'
    <3>1. \A i \in Ids : server'[i] = fresh[d] \/ <<i, fresh[d]>> \in given'
                           => server[i] = fresh[d] \/ <<i, fresh[d]>> \in given
      BY <2>2 DEF TypeOK, Makes
    <3>2. QED
      BY <1>4, <2>2, <3>1 DEF KnownInv, MadeHere
  <2>3. QED
    BY <2>1, <2>2
<1>5. QED
  BY <1>1, <1>2, <1>3, <1>4 DEF KnownInv, Makes

\* So does every step.
LEMMA StepKnown ==
  TypeOK /\ TypeOK' /\ Dated /\ FreshInv /\ CredInv /\ StaleOrKnown /\ [Next]_vars => StaleOrKnown'
<1> SUFFICES ASSUME TypeOK, TypeOK', Dated, FreshInv, CredInv, KnownInv, ~stale', [Next]_vars PROVE KnownInv'
  <2>1. stale \/ ~stale'\/ stale'
    OBVIOUS
  <2>2. ASSUME TypeOK, [Next]_vars, stale PROVE stale'
    BY <2>2 DEF Next, vars, CallerStep, client, callerVars, serverVars, history, upload_pre_keys, maintain_pre_keys,
       rotate_signed_pre_key, assert_sessions, ServerStores, ServerRefuses, RetryUpload, CommitKeys, CommitSession,
       _commit_credentials, OperationFails, relay_message, SendDone, SendFails, SendUnconnected, ReceiveMessage,
       ReceivePreKeyMessage, Decrypted, DecryptFails, PeerFetchesKey, connect, Disconnected, Crash, Interrupt
  <2>3. QED
    BY <2>2 DEF StaleOrKnown
<1> USE DEF client, callerVars, serverVars, history
<1>1. ASSUME NEW c \in Callers, CallerStep(c) PROVE KnownInv'
  BY <1>1, CallerKnown
<1>2. CASE ReceiveMessage
  <2>1. /\ mem'.signed = mem.signed /\ mem'.keys = mem.keys
        /\ disk' = mem' \/ disk' = disk
    BY <1>2 DEF ReceiveMessage, Decrypted, TypeOK, Creds
  <2>2. Remains /\ DiskKnows'
    BY <1>2, <2>1 DEF ReceiveMessage, Decrypted, Remains, InFlight, Waiting, KnownInv, DiskKnows
  <2>3. \A d \in Callers : (Waiting(d)' = Waiting(d)) /\ (Waiting(d) => d \in touched')
    BY <1>2 DEF ReceiveMessage, Decrypted, Waiting
  <2>4. QED
    BY <1>2, <2>1, <2>2, <2>3, KnownFrame DEF ReceiveMessage, Decrypted
<1>3. ASSUME NEW id \in Ids, NEW v \in Ticks, ReceivePreKeyMessage(id, v) PROVE KnownInv'
  BY <1>3, KnownConsumed
<1>4. ASSUME NEW id \in Ids, NEW v \in Ticks, DecryptFails(id, v) PROVE KnownInv'
  <2>1. Remains /\ DiskKnows'
    BY <1>4 DEF DecryptFails, Remains, InFlight, Waiting, KnownInv, DiskKnows
  <2>2. QED
    BY <1>4, <2>1, KnownFrame DEF DecryptFails, Waiting
<1>5. ASSUME NEW id \in Ids, PeerFetchesKey(id) PROVE KnownInv'
  BY <1>5, KnownFetched
<1>6. CASE connect
  <2>1. Remains /\ DiskKnows'
    BY <1>6 DEF connect, Remains, InFlight, Waiting, KnownInv, DiskKnows
  <2>2. \A d \in Callers : (Waiting(d)' = Waiting(d)) /\ (d \in touched => d \in touched')
                           /\ (Waiting(d) => d \in touched' \/ mem = disk)
    BY <1>6 DEF connect, Waiting
  <2>3. mem' = disk /\ DiskKnows
    BY <1>6 DEF connect, KnownInv
  <2>4. QED
    BY <1>6, <2>1, <2>2, <2>3, KnownFrame DEF connect, DiskKnows
<1>7. CASE Disconnected
  <2>1. Remains /\ DiskKnows'
    BY <1>7, ForgetRemains DEF Disconnected, Interrupt, KnownInv, DiskKnows
  <2>2. QED
    BY <1>7, <2>1, KnownFrame DEF Disconnected, Interrupt, Forget, Waiting
<1>8. CASE Crash
  <2>1. Remains /\ DiskKnows'
    BY <1>8, ForgetRemains DEF Crash, Interrupt, KnownInv, DiskKnows
  <2>2. mem' = disk /\ DiskKnows /\ \A d \in Callers : ~Waiting(d)'
    BY <1>8 DEF Crash, Interrupt, Forget, KnownInv, Waiting
  <2>3. QED
    BY <1>8, <2>1, <2>2, KnownFrame DEF Crash, Interrupt, DiskKnows
<1>9. CASE UNCHANGED vars
  <2>1. Remains /\ DiskKnows'
    BY <1>9 DEF vars, Remains, InFlight, Waiting, KnownInv, DiskKnows
  <2>2. QED
    BY <1>9, <2>1, KnownFrame DEF vars, Waiting
<1>10. QED
  BY <1>1, <1>2, <1>3, <1>4, <1>5, <1>6, <1>7, <1>8, <1>9 DEF Next

\* A key the server holds, or that a peer has used for a message under way, can be found under
\* its id, however uploads, rotations, messages, losses of the connection and crashes
\* interleave, unless it belongs to an operation under way or failed, or a copy out of date
\* was committed; and so can the signed prekey, unless a rotation was refused.
THEOREM CredentialsKeysKnown == Spec => []ServerKeysKnown
<1>1. StaleOrKnown => ServerKeysKnown
  BY DEF StaleOrKnown, KnownInv, HeldKnown, Known, SignedKnown, Explained, ServerKeysKnown
<1>2. QED
  BY <1>1, InitType, StepType, InitDated, StepDated, InitFresh, StepFresh, InitInv, StepInv,
     InitKnown, StepKnown, PTL DEF Spec
=============================================================================
