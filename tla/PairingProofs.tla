--------------------------- MODULE PairingProofs ---------------------------
(***************************************************************************)
(* Proofs about module Pairing.  PairingInv adds to the three properties    *)
(* that the noise key and the identity in memory are of one call, that a    *)
(* connection gets one success, for which the phone still waits, and that   *)
(* what is linked, logged in or replied to has its keys in their place.     *)
(***************************************************************************)
EXTENDS Pairing, TLAPS

KeysTogether == static # None => meta # None /\ meta.identity = static

Begun == \A n \in Calls : n > calls => phase[n] = "unused"

IsSuccess(n, i) == inbox[n][i].node = "pair-success"

SuccessAt(n) ==
  \A i \in DOMAIN inbox[n] : IsSuccess(n, i) =>
    /\ phase[n] = "scanned" \/ (phase[n] = "closed" /\ ~Pairs(n))
    /\ inbox[n][i].flaw = "none" => DeviceOf(n) \in genuine
    /\ \A j \in DOMAIN inbox[n] : IsSuccess(n, j) => j = i

OneSuccess == \A n \in Calls : SuccessAt(n)

LinkedPhase == \A n \in Calls : DeviceOf(n) \in linked => phase[n] = "linked"

RepliedSaved == \A n \in Calls : phase[n] = "replied" => DeviceOf(n) \in {disk, fin} \cup excused

LoggedIn ==
  /\ session.kind \in {"login", "online"} => mem = disk /\ disk \notin {None, Torn}
  /\ session.kind = "online" => mem \in linked

FinPairs == fin # None => session.kind = "pair"

KeptExplained == \A k \in {fin, mem, disk} : k \notin {None, Torn} => Explained(k)

PairingInv ==
  /\ TypeOK
  /\ KeysTogether
  /\ Begun
  /\ OneSuccess
  /\ OnlyApproved
  /\ LinkedPhase
  /\ RepliedSaved
  /\ LinkedIsSaved
  /\ LoggedIn
  /\ FinPairs
  /\ KeptExplained
  /\ RefusedExplained

-----------------------------------------------------------------------------
(* The keys of a call, and the actions one by one                          *)

\* The keys of a connection are credentials, of that connection only.
LEMMA DeviceKeys ==
  ASSUME NEW n \in Calls
  PROVE  /\ DeviceOf(n) \in Credentials /\ DeviceOf(n) \notin {None, Torn}
         /\ \A m \in Calls : DeviceOf(m) = DeviceOf(n) => m = n
BY PairingAssumption DEF DeviceOf, Credentials, Calls

\* The types hold at first.
LEMMA InitType == Init => TypeOK
<1> SUFFICES ASSUME Init PROVE TypeOK
  OBVIOUS
<1>1. /\ phase \in [Calls -> Phases] /\ inbox \in [Calls -> Seq(Nodes)]
      /\ code \in [Calls -> Codes \cup {"none"}]
  BY DEF Init, Phases, Codes
<1>2. session \in [kind : {"none", "pair", "login", "online"}, n : 0 .. MaxCalls] /\ calls \in 0 .. MaxCalls
  BY PairingAssumption DEF Init, NoSession
<1>3. waiting \in BOOLEAN /\ reconnect \in BOOLEAN
  BY Zenon DEF Init
<1>4. session.kind # "pair"
  BY DEF Init, NoSession
<1>5. QED
  BY <1>1, <1>2, <1>3, <1>4 DEF Init, TypeOK

\* The invariant holds at first.
LEMMA InitInv == Init => PairingInv
BY InitType DEF Init, PairingInv, KeysTogether, Begun, OneSuccess, SuccessAt, OnlyApproved,
   LinkedPhase,
  RepliedSaved, LinkedIsSaved, LoggedIn, FinPairs, KeptExplained, RefusedExplained, NoSession, Calls

\* Reading a node, or appending one, keeps the type of the inbox.
LEMMA InboxRead ==
  ASSUME NEW box \in [Calls -> Seq(Nodes)], NEW n \in Calls, box[n] # << >>
  PROVE  /\ Head(box[n]) \in Nodes /\ Tail(box[n]) \in Seq(Nodes)
         /\ [box EXCEPT ![n] = Tail(@)] \in [Calls -> Seq(Nodes)]
<1>1. box[n] \in Seq(Nodes)
  OBVIOUS
<1>2. Head(box[n]) \in Nodes /\ Tail(box[n]) \in Seq(Nodes)
  BY <1>1
<1>3. QED
  BY <1>2

LEMMA InboxSent ==
  ASSUME NEW box \in [Calls -> Seq(Nodes)], NEW n \in Calls, NEW node \in Nodes
  PROVE  /\ [box EXCEPT ![n] = Append(@, node)] \in [Calls -> Seq(Nodes)]
         /\ box[n] # << >> => [box EXCEPT ![n] = Append(Tail(@), node)] \in [Calls -> Seq(Nodes)]
<1>1. box[n] \in Seq(Nodes)
  OBVIOUS
<1>2. Append(box[n], node) \in Seq(Nodes) /\ (box[n] # << >> => Append(Tail(box[n]), node) \in Seq(Nodes))
  BY <1>1
<1>3. QED
  BY <1>2

\* The nodes that the server sends.
LEMMA NodeType ==
  /\ \A tag \in {"pair-device", "companion_reg", "restart"} : [node |-> tag] \in Nodes
  /\ \A secret \in Secrets, flaw \in Flaws : [node |-> "pair-success", secret |-> secret, flaw |-> flaw] \in Nodes
<1>1. ASSUME NEW tag \in {"pair-device", "companion_reg", "restart"} PROVE [node |-> tag] \in Nodes
  BY DEF Nodes
<1>2. ASSUME NEW secret \in Secrets, NEW flaw \in Flaws
      PROVE  [node |-> "pair-success", secret |-> secret, flaw |-> flaw] \in Nodes
  BY DEF Nodes, Success
<1>3. QED
  BY <1>1, <1>2

\* Every action keeps the types.
LEMMA StepType == PairingInv /\ [Next]_vars => TypeOK'
<1> SUFFICES ASSUME PairingInv, [Next]_vars PROVE TypeOK'
  OBVIOUS
<1> DEFINE B == waiting \in BOOLEAN /\ reconnect \in BOOLEAN
           I == inbox \in [Calls -> Seq(Nodes)]
           P == phase \in [Calls -> Phases]
           S == /\ calls \in 0 .. MaxCalls
                /\ session \in [kind : {"none", "pair", "login", "online"}, n : 0 .. MaxCalls]
                /\ session.kind = "pair" => session.n \in 1 .. calls
           K == /\ static \in Calls \cup {None}
                /\ meta \in [identity : Calls, secret : Secrets] \cup {None}
                /\ fin \in Credentials \cup {None}
                /\ mem \in Credentials \cup {None}
                /\ disk \in Credentials \cup {None, Torn}
           R == /\ shown \subseteq Calls
                /\ code \in [Calls -> Codes \cup {"none"}]
                /\ linked \subseteq Credentials
                /\ genuine \subseteq Credentials
                /\ excused \subseteq Credentials
                /\ unlinked \subseteq Credentials
                /\ refused \subseteq Credentials
                /\ disturbed \subseteq Calls
<1>t. TypeOK <=> (B /\ I /\ P /\ S /\ K /\ R)
  BY Zenon DEF TypeOK
<1>u. (B /\ I /\ P /\ S /\ K /\ R)' => TypeOK'
  BY Zenon DEF TypeOK
<1>s. B /\ I /\ P /\ S /\ K /\ R
  BY <1>t, Zenon DEF PairingInv
<1>l. session.kind \in {"login", "online"} => mem \in Credentials /\ disk \in Credentials
  BY <1>s DEF PairingInv, LoggedIn
<1>n. \A n \in Calls : [noise |-> n, identity |-> n] \in Credentials
  BY DEF Credentials
<1>1. CASE connect_for_qr_pairing
  <2>1. B'
    BY <1>1, <1>s, Zenon DEF connect_for_qr_pairing, keys, server, ghosts
  <2>2. I'
    BY <1>1, <1>s DEF connect_for_qr_pairing, keys, server, ghosts
  <2>3. P'
    BY <1>1, <1>s, PairingAssumption DEF Ended, Broken, Phases, Calls, NoSession,
       connect_for_qr_pairing, keys, server, ghosts
  <2>4. S'
    BY <1>1, <1>s, PairingAssumption DEF NoSession, Calls, connect_for_qr_pairing, keys, server,
       ghosts
  <2>5. K'
    BY <1>1, <1>s, PairingAssumption DEF Calls, Secrets, Credentials,
       credentials_from_pair_success, connect_for_qr_pairing, keys, server, ghosts
  <2>6. R'
    BY <1>1, <1>s, <1>n, <1>l, PairingAssumption DEF Unsaved, Saving, Calls, DeviceOf,
       connect_for_qr_pairing, keys, server, ghosts
  <2>7. QED
    BY <1>u, <2>1, <2>2, <2>3, <2>4, <2>5, <2>6, Zenon
<1>2. CASE QrTimeout
  <2>1. B'
    BY <1>2, <1>s, Zenon DEF QrTimeout, keys, server, ghosts
  <2>2. I'
    BY <1>2, <1>s DEF QrTimeout, keys, server, ghosts
  <2>3. P'
    BY <1>2, <1>s, PairingAssumption DEF Ended, Broken, Phases, Calls, NoSession, QrTimeout, keys,
       server, ghosts
  <2>4. S'
    BY <1>2, <1>s, PairingAssumption DEF NoSession, Calls, QrTimeout, keys, server, ghosts
  <2>5. K'
    BY <1>2, <1>s, PairingAssumption DEF Calls, Secrets, Credentials,
       credentials_from_pair_success, QrTimeout, keys, server, ghosts
  <2>6. R'
    BY <1>2, <1>s, <1>n, <1>l, PairingAssumption DEF Unsaved, Saving, Calls, DeviceOf, QrTimeout,
       keys, server, ghosts
  <2>7. QED
    BY <1>u, <2>1, <2>2, <2>3, <2>4, <2>5, <2>6, Zenon
<1>3. CASE finalize_pair_success
  <2>1. B'
    BY <1>3, <1>s, Zenon DEF finalize_pair_success, keys, server, ghosts
  <2>2. I'
    BY <1>3, <1>s DEF finalize_pair_success, keys, server, ghosts
  <2>3. P'
    BY <1>3, <1>s, PairingAssumption DEF Ended, Broken, Phases, Calls, NoSession,
       finalize_pair_success, keys, server, ghosts
  <2>4. S'
    BY <1>3, <1>s, PairingAssumption DEF NoSession, Calls, finalize_pair_success, keys, server,
       ghosts
  <2>5. K'
    BY <1>3, <1>s, PairingAssumption DEF Calls, Secrets, Credentials,
       credentials_from_pair_success, finalize_pair_success, keys, server, ghosts
  <2>6. R'
    BY <1>3, <1>s, <1>n, <1>l, PairingAssumption DEF Unsaved, Saving, Calls, DeviceOf,
       finalize_pair_success, keys, server, ghosts
  <2>7. QED
    BY <1>u, <2>1, <2>2, <2>3, <2>4, <2>5, <2>6, Zenon
<1>4. CASE connect
  <2>1. B'
    BY <1>4, <1>s, Zenon DEF connect, keys, server, ghosts
  <2>2. I'
    BY <1>4, <1>s DEF connect, keys, server, ghosts
  <2>3. P'
    BY <1>4, <1>s, PairingAssumption DEF Ended, Broken, Phases, Calls, NoSession, connect, keys,
       server, ghosts
  <2>4. S'
    BY <1>4, <1>s, PairingAssumption DEF NoSession, Calls, connect, keys, server, ghosts
  <2>5. K'
    BY <1>4, <1>s, PairingAssumption DEF Calls, Secrets, Credentials,
       credentials_from_pair_success, connect, keys, server, ghosts
  <2>6. R'
    BY <1>4, <1>s, <1>n, <1>l, PairingAssumption DEF Unsaved, Saving, Calls, DeviceOf, connect,
       keys, server, ghosts
  <2>7. QED
    BY <1>u, <2>1, <2>2, <2>3, <2>4, <2>5, <2>6, Zenon
<1>5. CASE LoginAnswer
  <2>1. B'
    BY <1>5, <1>s, Zenon DEF LoginAnswer, keys, server, ghosts
  <2>2. I'
    BY <1>5, <1>s DEF LoginAnswer, keys, server, ghosts
  <2>3. P'
    BY <1>5, <1>s, PairingAssumption DEF Ended, Broken, Phases, Calls, NoSession, LoginAnswer,
       keys, server, ghosts
  <2>4. S'
    BY <1>5, <1>s, PairingAssumption DEF NoSession, Calls, LoginAnswer, keys, server, ghosts
  <2>5. K'
    BY <1>5, <1>s, PairingAssumption DEF Calls, Secrets, Credentials,
       credentials_from_pair_success, LoginAnswer, keys, server, ghosts
  <2>6. R'
    BY <1>5, <1>s, <1>n, <1>l, PairingAssumption DEF Unsaved, Saving, Calls, DeviceOf,
       LoginAnswer, keys, server, ghosts
  <2>7. QED
    BY <1>u, <2>1, <2>2, <2>3, <2>4, <2>5, <2>6, Zenon
<1>6. CASE logout
  <2>1. B'
    BY <1>6, <1>s, Zenon DEF logout, keys, server, ghosts
  <2>2. I'
    BY <1>6, <1>s DEF logout, keys, server, ghosts
  <2>3. P'
    BY <1>6, <1>s, PairingAssumption DEF Ended, Broken, Phases, Calls, NoSession, logout, keys,
       server, ghosts
  <2>4. S'
    BY <1>6, <1>s, PairingAssumption DEF NoSession, Calls, logout, keys, server, ghosts
  <2>5. K'
    BY <1>6, <1>s, PairingAssumption DEF Calls, Secrets, Credentials,
       credentials_from_pair_success, logout, keys, server, ghosts
  <2>6. R'
    BY <1>6, <1>s, <1>n, <1>l, PairingAssumption DEF Unsaved, Saving, Calls, DeviceOf, logout,
       keys, server, ghosts
  <2>7. QED
    BY <1>u, <2>1, <2>2, <2>3, <2>4, <2>5, <2>6, Zenon
<1>7. CASE close
  <2>1. B'
    BY <1>7, <1>s, Zenon DEF Stops, close, keys, server, ghosts
  <2>2. I'
    BY <1>7, <1>s DEF Stops, close, keys, server, ghosts
  <2>3. P'
    BY <1>7, <1>s, PairingAssumption DEF Stops, Ended, Broken, Phases, Calls, NoSession, close,
       keys, server, ghosts
  <2>4. S'
    BY <1>7, <1>s, PairingAssumption DEF Stops, NoSession, Calls, close, keys, server, ghosts
  <2>5. K'
    BY <1>7, <1>s, PairingAssumption DEF Stops, Calls, Secrets, Credentials,
       credentials_from_pair_success, close, keys, server, ghosts
  <2>6. R'
    BY <1>7, <1>s, <1>n, <1>l, PairingAssumption DEF Stops, Unsaved, Saving, Calls, DeviceOf,
       close, keys, server, ghosts
  <2>7. QED
    BY <1>u, <2>1, <2>2, <2>3, <2>4, <2>5, <2>6, Zenon
<1>8. CASE ReplyFails
  <2>1. B'
    BY <1>8, <1>s, Zenon DEF Stops, ReplyFails, keys, server, ghosts
  <2>2. I'
    BY <1>8, <1>s DEF Stops, ReplyFails, keys, server, ghosts
  <2>3. P'
    BY <1>8, <1>s, PairingAssumption DEF Stops, Ended, Broken, Phases, Calls, NoSession,
       ReplyFails, keys, server, ghosts
  <2>4. S'
    BY <1>8, <1>s, PairingAssumption DEF Stops, NoSession, Calls, ReplyFails, keys, server, ghosts
  <2>5. K'
    BY <1>8, <1>s, PairingAssumption DEF Stops, Calls, Secrets, Credentials,
       credentials_from_pair_success, ReplyFails, keys, server, ghosts
  <2>6. R'
    BY <1>8, <1>s, <1>n, <1>l, PairingAssumption DEF Stops, Unsaved, Saving, Calls, DeviceOf,
       ReplyFails, keys, server, ghosts
  <2>7. QED
    BY <1>u, <2>1, <2>2, <2>3, <2>4, <2>5, <2>6, Zenon
<1>9. CASE Crash
  <2>1. B'
    BY <1>9, <1>s, Zenon DEF Stops, Crash, keys, server, ghosts
  <2>2. I'
    BY <1>9, <1>s DEF Stops, Crash, keys, server, ghosts
  <2>3. P'
    BY <1>9, <1>s, PairingAssumption DEF Stops, Ended, Broken, Phases, Calls, NoSession, Crash,
       keys, server, ghosts
  <2>4. S'
    BY <1>9, <1>s, PairingAssumption DEF Stops, NoSession, Calls, Crash, keys, server, ghosts
  <2>5. K'
    BY <1>9, <1>s, PairingAssumption DEF Stops, Calls, Secrets, Credentials,
       credentials_from_pair_success, Crash, keys, server, ghosts
  <2>6. R'
    BY <1>9, <1>s, <1>n, <1>l, PairingAssumption DEF Stops, Unsaved, Saving, Calls, DeviceOf,
       Crash, keys, server, ghosts
  <2>7. QED
    BY <1>u, <2>1, <2>2, <2>3, <2>4, <2>5, <2>6, Zenon
<1>10. ASSUME NEW n \in Calls, extract_pair_device_refs(n) PROVE TypeOK'
  <2>1. B'
    BY <1>10, <1>s, Zenon DEF extract_pair_device_refs, keys, server, ghosts
  <2>2. I'
    BY <1>10, <1>s, InboxRead DEF Ready, Read, Pairs, extract_pair_device_refs, keys, server, ghosts
  <2>3. P'
    BY <1>10, <1>s, PairingAssumption DEF Ended, Broken, Phases, Calls, NoSession,
       extract_pair_device_refs, keys, server, ghosts
  <2>4. S'
    BY <1>10, <1>s, PairingAssumption DEF NoSession, Calls, extract_pair_device_refs, keys,
       server, ghosts
  <2>5. K'
    BY <1>10, <1>s, PairingAssumption DEF Ready, Read, Pairs, Calls, Secrets, Credentials,
       credentials_from_pair_success, extract_pair_device_refs, keys, server, ghosts
  <2>6. R'
    BY <1>10, <1>s, <1>n, <1>l, PairingAssumption DEF Unsaved, Saving, Calls, DeviceOf,
       extract_pair_device_refs, keys, server, ghosts
  <2>7. QED
    BY <1>u, <2>1, <2>2, <2>3, <2>4, <2>5, <2>6, Zenon
<1>11. ASSUME NEW n \in Calls, pairing_code_finish_node(n) PROVE TypeOK'
  <2>1. B'
    BY <1>11, <1>s, Zenon DEF pairing_code_finish_node, keys, server, ghosts
  <2>2. I'
    BY <1>11, <1>s, InboxSent, NodeType DEF Ready, Secrets, pairing_code_finish_node, keys,
       server, ghosts
  <2>3. P'
    BY <1>11, <1>s, PairingAssumption DEF Ended, Broken, Phases, Calls, NoSession,
       pairing_code_finish_node, keys, server, ghosts
  <2>4. S'
    BY <1>11, <1>s, PairingAssumption DEF NoSession, Calls, pairing_code_finish_node, keys,
       server, ghosts
  <2>5. K'
    BY <1>11, <1>s, PairingAssumption DEF Ready, Read, Pairs, Calls, Secrets, Credentials,
       credentials_from_pair_success, pairing_code_finish_node, keys, server, ghosts
  <2>6. R'
    BY <1>11, <1>s, <1>n, <1>l, PairingAssumption DEF Unsaved, Saving, Calls, DeviceOf,
       pairing_code_finish_node, keys, server, ghosts
  <2>7. QED
    BY <1>u, <2>1, <2>2, <2>3, <2>4, <2>5, <2>6, Zenon
<1>12. ASSUME NEW n \in Calls, UnusableCode(n) PROVE TypeOK'
  <2>1. B'
    BY <1>12, <1>s, Zenon DEF UnusableCode, keys, server, ghosts
  <2>2. I'
    BY <1>12, <1>s, InboxRead DEF Ready, Read, Pairs, UnusableCode, keys, server, ghosts
  <2>3. P'
    BY <1>12, <1>s, PairingAssumption DEF Ended, Broken, Phases, Calls, NoSession, UnusableCode,
       keys, server, ghosts
  <2>4. S'
    BY <1>12, <1>s, PairingAssumption DEF NoSession, Calls, UnusableCode, keys, server, ghosts
  <2>5. K'
    BY <1>12, <1>s, PairingAssumption DEF Ready, Read, Pairs, Calls, Secrets, Credentials,
       credentials_from_pair_success, UnusableCode, keys, server, ghosts
  <2>6. R'
    BY <1>12, <1>s, <1>n, <1>l, PairingAssumption DEF Unsaved, Saving, Calls, DeviceOf,
       UnusableCode, keys, server, ghosts
  <2>7. QED
    BY <1>u, <2>1, <2>2, <2>3, <2>4, <2>5, <2>6, Zenon
<1>13. ASSUME NEW n \in Calls, BeginFinalize(n) PROVE TypeOK'
  <2>1. B'
    BY <1>13, <1>s, Zenon DEF BeginFinalize, keys, server, ghosts
  <2>2. I'
    BY <1>13, <1>s, InboxRead DEF Ready, Read, Pairs, BeginFinalize, keys, server, ghosts
  <2>3. P'
    BY <1>13, <1>s, PairingAssumption DEF Ended, Broken, Phases, Calls, NoSession, BeginFinalize,
       keys, server, ghosts
  <2>4. S'
    BY <1>13, <1>s, PairingAssumption DEF NoSession, Calls, BeginFinalize, keys, server, ghosts
  <2>5. K'
    BY <1>13, <1>s, PairingAssumption DEF Ready, Read, Pairs, Calls, Secrets, Credentials,
       credentials_from_pair_success, BeginFinalize, keys, server, ghosts
  <2>6. R'
    BY <1>13, <1>s, <1>n, <1>l, PairingAssumption DEF Unsaved, Saving, Calls, DeviceOf,
       BeginFinalize, keys, server, ghosts
  <2>7. QED
    BY <1>u, <2>1, <2>2, <2>3, <2>4, <2>5, <2>6, Zenon
<1>14. ASSUME NEW n \in Calls, PairingError(n) PROVE TypeOK'
  <2>1. B'
    BY <1>14, <1>s, Zenon DEF PairingError, keys, server, ghosts
  <2>2. I'
    BY <1>14, <1>s, InboxRead DEF Ready, Read, Pairs, PairingError, keys, server, ghosts
  <2>3. P'
    BY <1>14, <1>s, PairingAssumption DEF Ended, Broken, Phases, Calls, NoSession, PairingError,
       keys, server, ghosts
  <2>4. S'
    BY <1>14, <1>s, PairingAssumption DEF NoSession, Calls, PairingError, keys, server, ghosts
  <2>5. K'
    BY <1>14, <1>s, PairingAssumption DEF Ready, Read, Pairs, Calls, Secrets, Credentials,
       credentials_from_pair_success, PairingError, keys, server, ghosts
  <2>6. R'
    BY <1>14, <1>s, <1>n, <1>l, PairingAssumption DEF Unsaved, Saving, Calls, DeviceOf,
       PairingError, keys, server, ghosts
  <2>7. QED
    BY <1>u, <2>1, <2>2, <2>3, <2>4, <2>5, <2>6, Zenon
<1>15. ASSUME NEW n \in Calls, RestartRequired(n) PROVE TypeOK'
  <2>1. B'
    BY <1>15, <1>s, Zenon DEF RestartRequired, keys, server, ghosts
  <2>2. I'
    BY <1>15, <1>s, InboxRead DEF Ready, Read, Pairs, RestartRequired, keys, server, ghosts
  <2>3. P'
    BY <1>15, <1>s, PairingAssumption DEF Ended, Broken, Phases, Calls, NoSession,
       RestartRequired, keys, server, ghosts
  <2>4. S'
    BY <1>15, <1>s, PairingAssumption DEF NoSession, Calls, RestartRequired, keys, server, ghosts
  <2>5. K'
    BY <1>15, <1>s, PairingAssumption DEF Ready, Read, Pairs, Calls, Secrets, Credentials,
       credentials_from_pair_success, RestartRequired, keys, server, ghosts
  <2>6. R'
    BY <1>15, <1>s, <1>n, <1>l, PairingAssumption DEF Unsaved, Saving, Calls, DeviceOf,
       RestartRequired, keys, server, ghosts
  <2>7. QED
    BY <1>u, <2>1, <2>2, <2>3, <2>4, <2>5, <2>6, Zenon
<1>16. ASSUME NEW n \in Calls, ServerOffers(n) PROVE TypeOK'
  <2>1. B'
    BY <1>16, <1>s, Zenon DEF ServerOffers, keys, server, ghosts
  <2>2. I'
    BY <1>16, <1>s, InboxSent, NodeType DEF Sends, Secrets, ServerOffers, keys, server, ghosts
  <2>3. P'
    BY <1>16, <1>s, PairingAssumption DEF Ended, Broken, Phases, Calls, NoSession, ServerOffers,
       keys, server, ghosts
  <2>4. S'
    BY <1>16, <1>s, PairingAssumption DEF NoSession, Calls, ServerOffers, keys, server, ghosts
  <2>5. K'
    BY <1>16, <1>s, PairingAssumption DEF Ready, Read, Pairs, Calls, Secrets, Credentials,
       credentials_from_pair_success, ServerOffers, keys, server, ghosts
  <2>6. R'
    BY <1>16, <1>s, <1>n, <1>l, PairingAssumption DEF Unsaved, Saving, Calls, DeviceOf,
       ServerOffers, keys, server, ghosts
  <2>7. QED
    BY <1>u, <2>1, <2>2, <2>3, <2>4, <2>5, <2>6, Zenon
<1>17. ASSUME NEW n \in Calls, PhoneScans(n) PROVE TypeOK'
  <2>1. B'
    BY <1>17, <1>s, Zenon DEF PhoneScans, keys, server, ghosts
  <2>2. I'
    BY <1>17, <1>s, InboxSent, NodeType DEF Sends, Secrets, PhoneScans, keys, server, ghosts
  <2>3. P'
    BY <1>17, <1>s, PairingAssumption DEF Ended, Broken, Phases, Calls, NoSession, PhoneScans,
       keys, server, ghosts
  <2>4. S'
    BY <1>17, <1>s, PairingAssumption DEF NoSession, Calls, PhoneScans, keys, server, ghosts
  <2>5. K'
    BY <1>17, <1>s, PairingAssumption DEF Ready, Read, Pairs, Calls, Secrets, Credentials,
       credentials_from_pair_success, PhoneScans, keys, server, ghosts
  <2>6. R'
    BY <1>17, <1>s, <1>n, <1>l, PairingAssumption DEF Unsaved, Saving, Calls, DeviceOf,
       PhoneScans, keys, server, ghosts
  <2>7. QED
    BY <1>u, <2>1, <2>2, <2>3, <2>4, <2>5, <2>6, Zenon
<1>18. ASSUME NEW n \in Calls, PhoneEnters(n) PROVE TypeOK'
  <2>1. B'
    BY <1>18, <1>s, Zenon DEF PhoneEnters, keys, server, ghosts
  <2>2. I'
    BY <1>18, <1>s, InboxSent, NodeType DEF Sends, Secrets, PhoneEnters, keys, server, ghosts
  <2>3. P'
    BY <1>18, <1>s, PairingAssumption DEF Ended, Broken, Phases, Calls, NoSession, PhoneEnters,
       keys, server, ghosts
  <2>4. S'
    BY <1>18, <1>s, PairingAssumption DEF NoSession, Calls, PhoneEnters, keys, server, ghosts
  <2>5. K'
    BY <1>18, <1>s, PairingAssumption DEF Ready, Read, Pairs, Calls, Secrets, Credentials,
       credentials_from_pair_success, PhoneEnters, keys, server, ghosts
  <2>6. R'
    BY <1>18, <1>s, <1>n, <1>l, PairingAssumption DEF Unsaved, Saving, Calls, DeviceOf,
       PhoneEnters, keys, server, ghosts
  <2>7. QED
    BY <1>u, <2>1, <2>2, <2>3, <2>4, <2>5, <2>6, Zenon
<1>19. ASSUME NEW n \in Calls, ServerLinks(n) PROVE TypeOK'
  <2>1. B'
    BY <1>19, <1>s, Zenon DEF ServerLinks, keys, server, ghosts
  <2>2. I'
    BY <1>19, <1>s, InboxSent, NodeType DEF Sends, Secrets, ServerLinks, keys, server, ghosts
  <2>3. P'
    BY <1>19, <1>s, PairingAssumption DEF Ended, Broken, Phases, Calls, NoSession, ServerLinks,
       keys, server, ghosts
  <2>4. S'
    BY <1>19, <1>s, PairingAssumption DEF NoSession, Calls, ServerLinks, keys, server, ghosts
  <2>5. K'
    BY <1>19, <1>s, PairingAssumption DEF Ready, Read, Pairs, Calls, Secrets, Credentials,
       credentials_from_pair_success, ServerLinks, keys, server, ghosts
  <2>6. R'
    BY <1>19, <1>s, <1>n, <1>l, PairingAssumption DEF Unsaved, Saving, Calls, DeviceOf,
       ServerLinks, keys, server, ghosts
  <2>7. QED
    BY <1>u, <2>1, <2>2, <2>3, <2>4, <2>5, <2>6, Zenon
<1>20. ASSUME NEW n \in Calls, ReplyLost(n) PROVE TypeOK'
  <2>1. B'
    BY <1>20, <1>s, Zenon DEF ReplyLost, keys, server, ghosts
  <2>2. I'
    BY <1>20, <1>s DEF ReplyLost, keys, server, ghosts
  <2>3. P'
    BY <1>20, <1>s, PairingAssumption DEF Ended, Broken, Phases, Calls, NoSession, ReplyLost,
       keys, server, ghosts
  <2>4. S'
    BY <1>20, <1>s, PairingAssumption DEF NoSession, Calls, ReplyLost, keys, server, ghosts
  <2>5. K'
    BY <1>20, <1>s, PairingAssumption DEF Ready, Read, Pairs, Calls, Secrets, Credentials,
       credentials_from_pair_success, ReplyLost, keys, server, ghosts
  <2>6. R'
    BY <1>20, <1>s, <1>n, <1>l, PairingAssumption DEF Unsaved, Saving, Calls, DeviceOf, ReplyLost,
       keys, server, ghosts
  <2>7. QED
    BY <1>u, <2>1, <2>2, <2>3, <2>4, <2>5, <2>6, Zenon
<1>21. ASSUME NEW n \in Calls, NEW which \in Codes, request_pairing_code(n, which) PROVE TypeOK'
  <2>1. B' /\ I' /\ P' /\ S' /\ K'
    BY <1>21, <1>s, Zenon DEF request_pairing_code, keys, server, ghosts
  <2>2. R'
    BY <1>21, <1>s DEF request_pairing_code, keys, server, ghosts
  <2>3. QED
    BY <1>u, <2>1, <2>2, Zenon
<1>22. CASE UNCHANGED vars
  BY <1>22, <1>s, <1>u, Zenon DEF vars
<1>23. QED
  BY <1>1, <1>2, <1>3, <1>4, <1>5, <1>6, <1>7, <1>8, <1>9, <1>10, <1>11, <1>12, <1>13, <1>14,
     <1>15, <1>16, <1>17, <1>18, <1>19, <1>20, <1>21, <1>22, Zenon DEF Next, ReceiveStep,
     ServerStep

\* Reading the success: the phone waits for it, and the keys are those that it approved.
LEMMA SuccessRead ==
  ASSUME PairingInv, NEW n \in Calls, BeginFinalize(n)
  PROVE  /\ phase[n] = "scanned" /\ fin = None /\ Pairs(n)
         /\ fin' = DeviceOf(n) /\ DeviceOf(n) \in genuine
<1>1. /\ 1 \in DOMAIN inbox[n] /\ inbox[n][1] = Head(inbox[n])
  <2>1. inbox[n] \in Seq(Nodes) /\ inbox[n] # << >>
    BY DEF PairingInv, TypeOK, BeginFinalize, Ready
  <2>2. QED
    BY <2>1
<1>2. IsSuccess(n, 1) /\ inbox[n][1].flaw = "none" /\ Pairs(n) /\ fin = None
  BY <1>1 DEF BeginFinalize, Ready, IsSuccess, configure_successful_pairing
<1>3. phase[n] = "scanned" /\ DeviceOf(n) \in genuine
  BY <1>1, <1>2 DEF PairingInv, OneSuccess, SuccessAt
<1>4. fin' = DeviceOf(n)
  BY DEF BeginFinalize, PairingInv, KeysTogether, configure_successful_pairing,
     credentials_from_pair_success, DeviceOf
<1>5. QED
  BY <1>2, <1>3, <1>4

\* The keys in memory stay those of one call.
LEMMA StepKeys == PairingInv /\ [Next]_vars => KeysTogether'
<1> SUFFICES ASSUME PairingInv, [Next]_vars PROVE KeysTogether'
  OBVIOUS
<1>1. CASE connect_for_qr_pairing
  BY <1>1, PairingAssumption DEF PairingInv, KeysTogether, TypeOK, Secrets,
     connect_for_qr_pairing, keys, server, ghosts
<1>2. ASSUME NEW n \in Calls, pairing_code_finish_node(n) PROVE KeysTogether'
  <2>1. meta \in [identity : Calls, secret : Secrets]
    BY <1>2 DEF PairingInv, TypeOK, pairing_code_finish_node
  <2>2. meta' \in [identity : Nat, secret : {"qr", "code"}] /\ meta'.identity = meta.identity
    BY <1>2, <2>1, PairingAssumption DEF pairing_code_finish_node, Calls, Secrets
  <2>3. QED
    BY <1>2, <2>2, PairingAssumption DEF PairingInv, KeysTogether, pairing_code_finish_node
<1>3. CASE QrTimeout \/ finalize_pair_success \/ connect \/ LoginAnswer \/ logout \/ close \/
      ReplyFails \/ Crash
  BY <1>3 DEF PairingInv, KeysTogether, Stops, QrTimeout, finalize_pair_success, connect,
     LoginAnswer, logout, close, ReplyFails, Crash, keys, server, ghosts
<1>4. ASSUME NEW n \in Calls, extract_pair_device_refs(n) \/ UnusableCode(n) \/ BeginFinalize(n)
      \/ PairingError(n) \/ RestartRequired(n) \/ ServerOffers(n) \/ PhoneScans(n) \/
      PhoneEnters(n) \/ ServerLinks(n) \/ ReplyLost(n)
      PROVE  KeysTogether'
  BY <1>4 DEF PairingInv, KeysTogether, extract_pair_device_refs, UnusableCode, BeginFinalize,
     PairingError, RestartRequired, ServerOffers, PhoneScans, PhoneEnters, ServerLinks, ReplyLost,
     keys, server, ghosts
<1>5. ASSUME NEW n \in Calls, NEW which \in Codes, request_pairing_code(n, which)
      PROVE  KeysTogether'
  BY <1>5 DEF PairingInv, KeysTogether, request_pairing_code, keys, server, ghosts
<1>6. CASE UNCHANGED vars
  BY <1>6 DEF PairingInv, KeysTogether, vars
<1>7. QED
  BY <1>1, <1>2, <1>3, <1>4, <1>5, <1>6, Zenon DEF Next, ReceiveStep, ServerStep

\* A connection is used only once its call has begun.
LEMMA StepBegun == PairingInv /\ [Next]_vars => Begun'
<1> SUFFICES ASSUME PairingInv, [Next]_vars PROVE Begun'
  OBVIOUS
<1>1. CASE connect_for_qr_pairing
  BY <1>1, PairingAssumption DEF PairingInv, FinPairs, Begun, TypeOK, Calls, Ended, Broken,
     NoSession, Pairs, Ready, connect_for_qr_pairing, keys, server, ghosts
<1>2. CASE close
  BY <1>2, PairingAssumption DEF PairingInv, FinPairs, Begun, TypeOK, Calls, Ended, Broken,
     NoSession, Pairs, Ready, Stops, close, keys, server, ghosts
<1>3. CASE ReplyFails
  BY <1>3, PairingAssumption DEF PairingInv, FinPairs, Begun, TypeOK, Calls, Ended, Broken,
     NoSession, Pairs, Ready, Stops, ReplyFails, keys, server, ghosts
<1>4. CASE Crash
  BY <1>4, PairingAssumption DEF PairingInv, FinPairs, Begun, TypeOK, Calls, Ended, Broken,
     NoSession, Pairs, Ready, Stops, Crash, keys, server, ghosts
<1>5. ASSUME NEW n \in Calls, pairing_code_finish_node(n) PROVE Begun'
  BY <1>5, PairingAssumption DEF PairingInv, FinPairs, Begun, TypeOK, Calls, Ended, Broken,
     NoSession, Pairs, Ready, pairing_code_finish_node, keys, server, ghosts
<1>6. ASSUME NEW n \in Calls, BeginFinalize(n) PROVE Begun'
  BY <1>6, PairingAssumption DEF PairingInv, FinPairs, Begun, TypeOK, Calls, Ended, Broken,
     NoSession, Pairs, Ready, BeginFinalize, keys, server, ghosts
<1>7. ASSUME NEW n \in Calls, PairingError(n) PROVE Begun'
  BY <1>7, PairingAssumption DEF PairingInv, FinPairs, Begun, TypeOK, Calls, Ended, Broken,
     NoSession, Pairs, Ready, PairingError, keys, server, ghosts
<1>8. ASSUME NEW n \in Calls, ServerOffers(n) PROVE Begun'
  BY <1>8, PairingAssumption DEF PairingInv, FinPairs, Begun, TypeOK, Calls, Ended, Broken,
     NoSession, Pairs, Ready, ServerOffers, keys, server, ghosts
<1>9. ASSUME NEW n \in Calls, PhoneScans(n) PROVE Begun'
  BY <1>9, PairingAssumption DEF PairingInv, FinPairs, Begun, TypeOK, Calls, Ended, Broken,
     NoSession, Pairs, Ready, PhoneScans, keys, server, ghosts
<1>10. ASSUME NEW n \in Calls, PhoneEnters(n) PROVE Begun'
  BY <1>10, PairingAssumption DEF PairingInv, FinPairs, Begun, TypeOK, Calls, Ended, Broken,
     NoSession, Pairs, Ready, PhoneEnters, keys, server, ghosts
<1>11. ASSUME NEW n \in Calls, ServerLinks(n) PROVE Begun'
  BY <1>11, PairingAssumption DEF PairingInv, FinPairs, Begun, TypeOK, Calls, Ended, Broken,
     NoSession, Pairs, Ready, ServerLinks, keys, server, ghosts
<1>12. ASSUME NEW n \in Calls, ReplyLost(n) PROVE Begun'
  BY <1>12, PairingAssumption DEF PairingInv, FinPairs, Begun, TypeOK, Calls, Ended, Broken,
     NoSession, Pairs, Ready, ReplyLost, keys, server, ghosts
<1>13. CASE QrTimeout \/ finalize_pair_success \/ connect \/ LoginAnswer \/ logout
  BY <1>13 DEF PairingInv, FinPairs, Begun, TypeOK, Calls, Ended, Broken, NoSession, Pairs, Ready,
     Stops, QrTimeout, finalize_pair_success, connect, LoginAnswer, logout, keys, server, ghosts
<1>14. ASSUME NEW n \in Calls, extract_pair_device_refs(n) \/ UnusableCode(n) \/
      RestartRequired(n)
      PROVE  Begun'
  BY <1>14 DEF PairingInv, FinPairs, Begun, TypeOK, Calls, Ended, Broken, NoSession, Pairs, Ready,
     extract_pair_device_refs, UnusableCode, RestartRequired, keys, server, ghosts
<1>15. ASSUME NEW n \in Calls, NEW which \in Codes, request_pairing_code(n, which) PROVE Begun'
  BY <1>15 DEF PairingInv, FinPairs, Begun, TypeOK, Calls, Ended, Broken, NoSession, Pairs, Ready,
     request_pairing_code, keys, server, ghosts
<1>16. CASE UNCHANGED vars
  BY <1>16 DEF PairingInv, FinPairs, Begun, TypeOK, Calls, Ended, Broken, NoSession, Pairs, Ready,
     vars
<1>17. QED
  BY <1>1, <1>2, <1>3, <1>4, <1>5, <1>6, <1>7, <1>8, <1>9, <1>10, <1>11, <1>12, <1>13, <1>14,
     <1>15, <1>16, Zenon DEF Next, ReceiveStep, ServerStep

\* What the server has linked, or has been asked to, stays so or is unlinked for a reason.
PhasesMove ==
  /\ unlinked \subseteq unlinked'
  /\ \A m \in Calls : phase[m] \in {"replied", "linked"} =>
       phase'[m] \in {"replied", "linked"} \/ DeviceOf(m) \in unlinked'

\* Every step moves the phases in that way.
LEMMA StepPhases == PairingInv /\ [Next]_vars => PhasesMove
<1> SUFFICES ASSUME PairingInv, [Next]_vars PROVE PhasesMove
  OBVIOUS
<1>1. CASE connect_for_qr_pairing
  BY <1>1, PairingAssumption DEF PairingInv, PhasesMove, Begun, TypeOK, Ended, Broken, Stops,
     Calls, connect_for_qr_pairing, keys, server, ghosts
<1>2. ASSUME NEW n \in Calls, BeginFinalize(n) PROVE PhasesMove
  BY <1>2, SuccessRead DEF PairingInv, PhasesMove, Begun, TypeOK, Ended, Broken, Stops,
     BeginFinalize, keys, server, ghosts
<1>3. ASSUME NEW n \in Calls, ReplyLost(n) PROVE PhasesMove
  BY <1>3 DEF PairingInv, PhasesMove, Begun, TypeOK, Ended, Broken, Stops, ReplyLost, keys,
     server, ghosts
<1>4. CASE QrTimeout \/ finalize_pair_success \/ connect \/ LoginAnswer \/ logout \/ close \/
      ReplyFails \/ Crash
  BY <1>4 DEF PairingInv, PhasesMove, Begun, TypeOK, Ended, Broken, Stops, QrTimeout,
     finalize_pair_success, connect, LoginAnswer, logout, close, ReplyFails, Crash, keys, server,
     ghosts
<1>5. ASSUME NEW n \in Calls, extract_pair_device_refs(n) \/ pairing_code_finish_node(n) \/
      UnusableCode(n) \/ PairingError(n) \/ RestartRequired(n) \/ ServerOffers(n) \/ PhoneScans(n)
      \/ PhoneEnters(n) \/ ServerLinks(n)
      PROVE  PhasesMove
  BY <1>5 DEF PairingInv, PhasesMove, Begun, TypeOK, Ended, Broken, Stops,
     extract_pair_device_refs, pairing_code_finish_node, UnusableCode, PairingError,
     RestartRequired, ServerOffers, PhoneScans, PhoneEnters, ServerLinks, keys, server, ghosts
<1>6. ASSUME NEW n \in Calls, NEW which \in Codes, request_pairing_code(n, which) PROVE PhasesMove
  BY <1>6 DEF PairingInv, PhasesMove, Begun, TypeOK, Ended, Broken, Stops, request_pairing_code,
     keys, server, ghosts
<1>7. CASE UNCHANGED vars
  BY <1>7 DEF PairingInv, PhasesMove, Begun, TypeOK, Ended, Broken, Stops, vars
<1>8. QED
  BY <1>1, <1>2, <1>3, <1>4, <1>5, <1>6, <1>7, Zenon DEF Next, ReceiveStep, ServerStep

\* So an explanation stays one.
LEMMA StepExplained == ASSUME PairingInv, [Next]_vars, NEW k, Explained(k) PROVE Explained(k)'
BY StepPhases DEF PhasesMove, Explained

\* Only approved keys are in memory, in the file, or on their way there.
LEMMA StepApproved == PairingInv /\ [Next]_vars => OnlyApproved'
<1> SUFFICES ASSUME PairingInv, [Next]_vars PROVE OnlyApproved'
  OBVIOUS
<1>1. ASSUME NEW n \in Calls, BeginFinalize(n) PROVE OnlyApproved'
  BY <1>1, SuccessRead DEF PairingInv, OnlyApproved, BeginFinalize, keys, server, ghosts
<1>2. CASE Crash
  BY <1>2 DEF PairingInv, OnlyApproved, Stops, Crash, keys, server, ghosts
<1>3. CASE close
  BY <1>3 DEF PairingInv, OnlyApproved, Stops, close, keys, server, ghosts
<1>4. CASE ReplyFails
  BY <1>4 DEF PairingInv, OnlyApproved, Stops, ReplyFails, keys, server, ghosts
<1>5. CASE connect_for_qr_pairing \/ QrTimeout \/ finalize_pair_success \/ connect \/ LoginAnswer
      \/ logout
  BY <1>5 DEF PairingInv, OnlyApproved, Stops, connect_for_qr_pairing, QrTimeout,
     finalize_pair_success, connect, LoginAnswer, logout, keys, server, ghosts
<1>6. ASSUME NEW n \in Calls, extract_pair_device_refs(n) \/ pairing_code_finish_node(n) \/
      UnusableCode(n) \/ PairingError(n) \/ RestartRequired(n) \/ ServerOffers(n) \/ PhoneScans(n)
      \/ PhoneEnters(n) \/ ServerLinks(n) \/ ReplyLost(n)
      PROVE  OnlyApproved'
  BY <1>6 DEF PairingInv, OnlyApproved, extract_pair_device_refs, pairing_code_finish_node,
     UnusableCode, PairingError, RestartRequired, ServerOffers, PhoneScans, PhoneEnters,
     ServerLinks, ReplyLost, keys, server, ghosts
<1>7. ASSUME NEW n \in Calls, NEW which \in Codes, request_pairing_code(n, which)
      PROVE  OnlyApproved'
  BY <1>7 DEF PairingInv, OnlyApproved, request_pairing_code, keys, server, ghosts
<1>8. CASE UNCHANGED vars
  BY <1>8 DEF PairingInv, OnlyApproved, vars
<1>9. QED
  BY <1>1, <1>2, <1>3, <1>4, <1>5, <1>6, <1>7, <1>8, Zenon DEF Next, ReceiveStep, ServerStep

\* Only a connection that pairs has credentials to save; a login has those of the file.
LEMMA StepSession == PairingInv /\ [Next]_vars => (LoggedIn /\ FinPairs)'
<1> SUFFICES ASSUME PairingInv, [Next]_vars PROVE (LoggedIn /\ FinPairs)'
  OBVIOUS
<1>1. ASSUME NEW n \in Calls, BeginFinalize(n) PROVE (LoggedIn /\ FinPairs)'
  BY <1>1, SuccessRead DEF PairingInv, FinPairs, LoggedIn, NoSession, Ready, Pairs, Stops,
     BeginFinalize, keys, server, ghosts
<1>2. CASE finalize_pair_success
  BY <1>2 DEF PairingInv, FinPairs, LoggedIn, NoSession, Ready, Pairs, Stops, TypeOK,
     finalize_pair_success, keys, server, ghosts
<1>3. CASE LoginAnswer
  BY <1>3 DEF PairingInv, FinPairs, LoggedIn, NoSession, Ready, Pairs, Stops, TypeOK, LoginAnswer,
     keys, server, ghosts
<1>4. CASE connect_for_qr_pairing \/ QrTimeout \/ connect \/ logout \/ close \/ ReplyFails \/ Crash
  BY <1>4 DEF PairingInv, FinPairs, LoggedIn, NoSession, Ready, Pairs, Stops,
     connect_for_qr_pairing, QrTimeout, connect, logout, close, ReplyFails, Crash, keys, server,
     ghosts
<1>5. ASSUME NEW n \in Calls, extract_pair_device_refs(n) \/ pairing_code_finish_node(n) \/
      UnusableCode(n) \/ PairingError(n) \/ RestartRequired(n) \/ ServerOffers(n) \/ PhoneScans(n)
      \/ PhoneEnters(n) \/ ServerLinks(n) \/ ReplyLost(n)
      PROVE  (LoggedIn /\ FinPairs)'
  BY <1>5 DEF PairingInv, FinPairs, LoggedIn, NoSession, Ready, Pairs, Stops,
     extract_pair_device_refs, pairing_code_finish_node, UnusableCode, PairingError,
     RestartRequired, ServerOffers, PhoneScans, PhoneEnters, ServerLinks, ReplyLost, keys, server,
     ghosts
<1>6. ASSUME NEW n \in Calls, NEW which \in Codes, request_pairing_code(n, which)
      PROVE  (LoggedIn /\ FinPairs)'
  BY <1>6 DEF PairingInv, FinPairs, LoggedIn, NoSession, Ready, Pairs, Stops,
     request_pairing_code, keys, server, ghosts
<1>7. CASE UNCHANGED vars
  BY <1>7 DEF PairingInv, FinPairs, LoggedIn, NoSession, Ready, Pairs, Stops, vars
<1>8. QED
  BY <1>1, <1>2, <1>3, <1>4, <1>5, <1>6, <1>7, Zenon DEF Next, ReceiveStep, ServerStep

\* A linked device is linked to its connection.
LEMMA StepLinked == PairingInv /\ [Next]_vars => LinkedPhase'
<1> SUFFICES ASSUME PairingInv, [Next]_vars PROVE LinkedPhase'
  OBVIOUS
<1>1. CASE connect_for_qr_pairing
  BY <1>1, PairingAssumption DEF PairingInv, LinkedPhase, Begun, TypeOK, Calls,
     connect_for_qr_pairing, keys, server, ghosts
<1>2. ASSUME NEW n \in Calls, BeginFinalize(n) PROVE LinkedPhase'
  BY <1>2, SuccessRead DEF PairingInv, LinkedPhase, Begun, TypeOK, BeginFinalize, keys, server,
     ghosts
<1>3. CASE close
  BY <1>3 DEF PairingInv, LinkedPhase, Begun, TypeOK, Stops, Ended, Broken, close, keys, server,
     ghosts
<1>4. CASE ReplyFails
  BY <1>4 DEF PairingInv, LinkedPhase, Begun, TypeOK, Stops, Ended, Broken, ReplyFails, keys,
     server, ghosts
<1>5. CASE Crash
  BY <1>5 DEF PairingInv, LinkedPhase, Begun, TypeOK, Stops, Broken, Crash, keys, server, ghosts
<1>6. ASSUME NEW n \in Calls, PairingError(n) PROVE LinkedPhase'
  BY <1>6 DEF PairingInv, LinkedPhase, Begun, TypeOK, Ended, Broken, PairingError, keys, server,
     ghosts
<1>7. ASSUME NEW n \in Calls, ServerLinks(n) PROVE LinkedPhase'
  BY <1>7, DeviceKeys DEF PairingInv, LinkedPhase, Begun, TypeOK, ServerLinks, keys, server, ghosts
<1>8. CASE QrTimeout \/ finalize_pair_success \/ connect \/ LoginAnswer \/ logout
  BY <1>8, DeviceKeys DEF PairingInv, LinkedPhase, Begun, TypeOK, Stops, QrTimeout,
     finalize_pair_success, connect, LoginAnswer, logout, keys, server, ghosts
<1>9. ASSUME NEW n \in Calls, extract_pair_device_refs(n) \/ pairing_code_finish_node(n) \/
      UnusableCode(n) \/ RestartRequired(n) \/ ServerOffers(n) \/ PhoneScans(n) \/ PhoneEnters(n)
      \/ ReplyLost(n)
      PROVE  LinkedPhase'
  BY <1>9, DeviceKeys DEF PairingInv, LinkedPhase, Begun, TypeOK, extract_pair_device_refs,
     pairing_code_finish_node, UnusableCode, RestartRequired, ServerOffers, PhoneScans,
     PhoneEnters, ReplyLost, keys, server, ghosts
<1>10. ASSUME NEW n \in Calls, NEW which \in Codes, request_pairing_code(n, which)
      PROVE  LinkedPhase'
  BY <1>10, DeviceKeys DEF PairingInv, LinkedPhase, Begun, TypeOK, request_pairing_code, keys,
     server, ghosts
<1>11. CASE UNCHANGED vars
  BY <1>11, DeviceKeys DEF PairingInv, LinkedPhase, Begun, TypeOK, vars
<1>12. QED
  BY <1>1, <1>2, <1>3, <1>4, <1>5, <1>6, <1>7, <1>8, <1>9, <1>10, <1>11, Zenon DEF Next,
     ReceiveStep, ServerStep

\* Where the nodes are after a read, and after a send.
LEMMA TailAt ==
  ASSUME NEW box \in Seq(Nodes), box # << >>, NEW i \in DOMAIN Tail(box)
  PROVE  i + 1 \in DOMAIN box /\ Tail(box)[i] = box[i + 1]
OBVIOUS

LEMMA AppendAt ==
  ASSUME NEW box \in Seq(Nodes), NEW node \in Nodes, NEW i \in DOMAIN Append(box, node)
  PROVE  \/ i \in DOMAIN box /\ Append(box, node)[i] = box[i]
         \/ i = Len(box) + 1 /\ Append(box, node)[i] = node
OBVIOUS

\* A connection whose phone has not answered, or that has been replied to, holds no success.
LEMMA NoSuccess ==
  ASSUME PairingInv, NEW n \in Calls, phase[n] \notin {"scanned", "closed"}
  PROVE  \A i \in DOMAIN inbox[n] : ~IsSuccess(n, i)
BY DEF PairingInv, OneSuccess, SuccessAt

\* A connection holds one success at most, and its phone has sent it.
LEMMA StepSuccess == PairingInv /\ [Next]_vars => OneSuccess'
<1> SUFFICES ASSUME PairingInv, [Next]_vars PROVE OneSuccess'
  OBVIOUS
<1>1. ASSUME NEW n \in Calls, extract_pair_device_refs(n) PROVE OneSuccess'
  <2>1. inbox[n] \in Seq(Nodes) /\ inbox[n] # << >> /\ inbox'[n] = Tail(inbox[n])
    BY <1>1 DEF PairingInv, TypeOK, extract_pair_device_refs, Ready, Read
  <2>2. \A i \in DOMAIN inbox'[n] : i \in Nat \ {0} /\ i + 1 \in DOMAIN inbox[n] /\ inbox'[n][i] = inbox[n][i + 1]
    BY <2>1, TailAt
  <2>3. \A m \in Calls : m # n => inbox'[m] = inbox[m]
    BY <1>1 DEF PairingInv, TypeOK, extract_pair_device_refs, Read
  <2>4. UNCHANGED <<phase, genuine>> /\ (session' = session \/ session' = NoSession)
    BY <1>1 DEF extract_pair_device_refs, ghosts
  <2>5. QED
    BY <2>2, <2>3, <2>4 DEF PairingInv, OneSuccess, SuccessAt, IsSuccess, Pairs, NoSession, DeviceOf
<1>2. ASSUME NEW n \in Calls, UnusableCode(n) PROVE OneSuccess'
  <2>1. inbox[n] \in Seq(Nodes) /\ inbox[n] # << >> /\ inbox'[n] = Tail(inbox[n])
    BY <1>2 DEF PairingInv, TypeOK, UnusableCode, Ready, Read
  <2>2. \A i \in DOMAIN inbox'[n] : i \in Nat \ {0} /\ i + 1 \in DOMAIN inbox[n] /\ inbox'[n][i] = inbox[n][i + 1]
    BY <2>1, TailAt
  <2>3. \A m \in Calls : m # n => inbox'[m] = inbox[m]
    BY <1>2 DEF PairingInv, TypeOK, UnusableCode, Read
  <2>4. UNCHANGED <<phase, genuine>> /\ (session' = session \/ session' = NoSession)
    BY <1>2 DEF UnusableCode, ghosts
  <2>5. QED
    BY <2>2, <2>3, <2>4 DEF PairingInv, OneSuccess, SuccessAt, IsSuccess, Pairs, NoSession, DeviceOf
<1>3. ASSUME NEW n \in Calls, RestartRequired(n) PROVE OneSuccess'
  <2>1. inbox[n] \in Seq(Nodes) /\ inbox[n] # << >> /\ inbox'[n] = Tail(inbox[n])
    BY <1>3 DEF PairingInv, TypeOK, RestartRequired, Ready, Read
  <2>2. \A i \in DOMAIN inbox'[n] : i \in Nat \ {0} /\ i + 1 \in DOMAIN inbox[n] /\ inbox'[n][i] = inbox[n][i + 1]
    BY <2>1, TailAt
  <2>3. \A m \in Calls : m # n => inbox'[m] = inbox[m]
    BY <1>3 DEF PairingInv, TypeOK, RestartRequired, Read
  <2>4. UNCHANGED <<phase, genuine>> /\ (session' = session \/ session' = NoSession)
    BY <1>3 DEF RestartRequired, ghosts
  <2>5. QED
    BY <2>2, <2>3, <2>4 DEF PairingInv, OneSuccess, SuccessAt, IsSuccess, Pairs, NoSession, DeviceOf
<1>4. ASSUME NEW n \in Calls, BeginFinalize(n) PROVE OneSuccess'
  <2>1. inbox[n] \in Seq(Nodes) /\ inbox[n] # << >> /\ inbox'[n] = Tail(inbox[n])
    BY <1>4 DEF PairingInv, TypeOK, BeginFinalize, Ready, Read
  <2>2. \A i \in DOMAIN inbox'[n] : i \in Nat \ {0} /\ i + 1 \in DOMAIN inbox[n] /\ inbox'[n][i] = inbox[n][i + 1]
    BY <2>1, TailAt
  <2>3. \A m \in Calls : m # n => inbox'[m] = inbox[m]
    BY <1>4 DEF PairingInv, TypeOK, BeginFinalize, Read
  <2>4. \A i \in DOMAIN inbox'[n] : inbox'[n][i].node # "pair-success"
    <3>1. 1 \in DOMAIN inbox[n] /\ IsSuccess(n, 1)
      BY <1>4, <2>1 DEF BeginFinalize, Ready, IsSuccess
    <3>2. \A i \in DOMAIN inbox[n] : IsSuccess(n, i) => i = 1
      BY <3>1 DEF PairingInv, OneSuccess, SuccessAt
    <3>3. QED
      BY <2>2, <3>2 DEF IsSuccess
  <2>5. /\ \A m \in Calls : m # n => phase'[m] = phase[m]
        /\ UNCHANGED genuine /\ (session' = session \/ session' = NoSession)
    BY <1>4 DEF PairingInv, TypeOK, BeginFinalize, Ended
  <2>6. QED
    BY <2>3, <2>4, <2>5 DEF PairingInv, OneSuccess, SuccessAt, IsSuccess, Pairs, NoSession, DeviceOf
<1>5. ASSUME NEW n \in Calls, PairingError(n) PROVE OneSuccess'
  <2>1. inbox[n] \in Seq(Nodes) /\ inbox[n] # << >> /\ inbox'[n] = Tail(inbox[n])
    BY <1>5 DEF PairingInv, TypeOK, PairingError, Ready, Read
  <2>2. \A i \in DOMAIN inbox'[n] : i \in Nat \ {0} /\ i + 1 \in DOMAIN inbox[n] /\ inbox'[n][i] = inbox[n][i + 1]
    BY <2>1, TailAt
  <2>3. \A m \in Calls : m # n => inbox'[m] = inbox[m]
    BY <1>5 DEF PairingInv, TypeOK, PairingError, Read
  <2>4. \A i \in DOMAIN inbox'[n] : inbox'[n][i].node # "pair-success"
    <3>1. 1 \in DOMAIN inbox[n] /\ IsSuccess(n, 1)
      BY <1>5, <2>1 DEF PairingError, Ready, IsSuccess
    <3>2. \A i \in DOMAIN inbox[n] : IsSuccess(n, i) => i = 1
      BY <3>1 DEF PairingInv, OneSuccess, SuccessAt
    <3>3. QED
      BY <2>2, <3>2 DEF IsSuccess
  <2>5. /\ \A m \in Calls : m # n => phase'[m] = phase[m]
        /\ UNCHANGED genuine /\ (session' = session \/ session' = NoSession)
    BY <1>5 DEF PairingInv, TypeOK, PairingError, Ended
  <2>6. QED
    BY <2>3, <2>4, <2>5 DEF PairingInv, OneSuccess, SuccessAt, IsSuccess, Pairs, NoSession, DeviceOf
<1>6. ASSUME NEW n \in Calls, ServerOffers(n) PROVE OneSuccess'
  <2>1. inbox[n] \in Seq(Nodes) /\ [node |-> "pair-device"] \in Nodes /\ inbox'[n] = Append(inbox[n], [node |-> "pair-device"])
    BY <1>6, NodeType DEF PairingInv, TypeOK, ServerOffers, Sends
  <2>2. \A i \in DOMAIN inbox'[n] : (i \in DOMAIN inbox[n] /\ inbox'[n][i] = inbox[n][i]) \/ inbox'[n][i].node # "pair-success"
    BY <2>1, AppendAt
  <2>3. \A i \in DOMAIN inbox'[n] : inbox'[n][i].node # "pair-success"
    BY <1>6, <2>2, NoSuccess DEF ServerOffers, IsSuccess
  <2>4. /\ \A m \in Calls : m # n => inbox'[m] = inbox[m] /\ phase'[m] = phase[m]
        /\ UNCHANGED <<genuine, session>>
    BY <1>6 DEF PairingInv, TypeOK, ServerOffers, Sends, ghosts
  <2>5. QED
    BY <2>3, <2>4 DEF PairingInv, OneSuccess, SuccessAt, IsSuccess, Pairs, NoSession, DeviceOf
<1>7. ASSUME NEW n \in Calls, PhoneEnters(n) PROVE OneSuccess'
  <2>1. inbox[n] \in Seq(Nodes) /\ [node |-> "companion_reg"] \in Nodes /\ inbox'[n] = Append(inbox[n], [node |-> "companion_reg"])
    BY <1>7, NodeType DEF PairingInv, TypeOK, PhoneEnters, Sends
  <2>2. \A i \in DOMAIN inbox'[n] : (i \in DOMAIN inbox[n] /\ inbox'[n][i] = inbox[n][i]) \/ inbox'[n][i].node # "pair-success"
    BY <2>1, AppendAt
  <2>3. \A i \in DOMAIN inbox'[n] : inbox'[n][i].node # "pair-success"
    BY <1>7, <2>2, NoSuccess DEF PhoneEnters, IsSuccess
  <2>4. /\ \A m \in Calls : m # n => inbox'[m] = inbox[m] /\ phase'[m] = phase[m]
        /\ UNCHANGED <<genuine, session>>
    BY <1>7 DEF PairingInv, TypeOK, PhoneEnters, Sends, ghosts
  <2>5. QED
    BY <2>3, <2>4 DEF PairingInv, OneSuccess, SuccessAt, IsSuccess, Pairs, NoSession, DeviceOf
<1>8. ASSUME NEW n \in Calls, ServerLinks(n) PROVE OneSuccess'
  <2>1. inbox[n] \in Seq(Nodes) /\ [node |-> "restart"] \in Nodes /\ inbox'[n] = Append(inbox[n], [node |-> "restart"])
    BY <1>8, NodeType DEF PairingInv, TypeOK, ServerLinks, Sends
  <2>2. \A i \in DOMAIN inbox'[n] : (i \in DOMAIN inbox[n] /\ inbox'[n][i] = inbox[n][i]) \/ inbox'[n][i].node # "pair-success"
    BY <2>1, AppendAt
  <2>3. \A i \in DOMAIN inbox'[n] : inbox'[n][i].node # "pair-success"
    BY <1>8, <2>2, NoSuccess DEF ServerLinks, IsSuccess
  <2>4. /\ \A m \in Calls : m # n => inbox'[m] = inbox[m] /\ phase'[m] = phase[m]
        /\ UNCHANGED <<genuine, session>>
    BY <1>8 DEF PairingInv, TypeOK, ServerLinks, Sends, ghosts
  <2>5. QED
    BY <2>3, <2>4 DEF PairingInv, OneSuccess, SuccessAt, IsSuccess, Pairs, NoSession, DeviceOf
<1>9. ASSUME NEW n \in Calls, PhoneScans(n) PROVE OneSuccess'
  <2> DEFINE node(flaw) == [node |-> "pair-success", secret |-> "qr", flaw |-> flaw]
  <2>1. PICK flaw \in Flaws : /\ inbox' = [inbox EXCEPT ![n] = Append(@, node(flaw))]
                             /\ genuine' = IF flaw = "none" THEN genuine \cup {DeviceOf(n)} ELSE genuine
    BY <1>9 DEF PhoneScans, Sends
  <2>a. inbox[n] \in Seq(Nodes) /\ inbox[n] \in Seq(Nodes) /\ inbox \in [Calls -> Seq(Nodes)]
    BY <1>9 DEF PairingInv, TypeOK, PhoneScans
  <2>2. inbox[n] \in Seq(Nodes) /\ inbox'[n] = Append(inbox[n], node(flaw)) /\ node(flaw) \in Nodes
    BY <2>1, <2>a, NodeType DEF Secrets
  <2>3. \A i \in DOMAIN inbox[n] : inbox[n][i].node # "pair-success"
    <3>1. \A i \in DOMAIN inbox[n] : inbox[n][i].node # "pair-success"
      BY <1>9, NoSuccess DEF PhoneScans, IsSuccess
    <3>2. QED
      BY <1>9, <2>a, <3>1 DEF PhoneScans
  <2>4. \A i \in DOMAIN inbox'[n] : inbox'[n][i].node = "pair-success" => i = Len(inbox[n]) + 1 /\ inbox'[n][i] = node(flaw)
    BY <2>2, <2>3, AppendAt
  <2>5. /\ \A m \in Calls : m # n => inbox'[m] = inbox[m] /\ phase'[m] = phase[m]
        /\ phase'[n] = "scanned" /\ genuine \subseteq genuine' /\ (flaw = "none" => DeviceOf(n) \in genuine')
        /\ UNCHANGED session
    BY <1>9, <2>1 DEF PairingInv, TypeOK, PhoneScans
  <2>6. \A i \in DOMAIN inbox'[n] : inbox'[n][i].node = "pair-success" => inbox'[n][i].flaw = flaw
    BY <2>4
  <2> HIDE DEF node
  <2>7. SuccessAt(n)'
    <3>1. SUFFICES ASSUME NEW i \in DOMAIN inbox'[n], inbox'[n][i].node = "pair-success"
                   PROVE  /\ inbox'[n][i].flaw = "none" => DeviceOf(n) \in genuine'
                          /\ \A j \in DOMAIN inbox'[n] : inbox'[n][j].node = "pair-success" => j = i
      BY <2>5 DEF SuccessAt, IsSuccess, DeviceOf
    <3>2. i = Len(inbox[n]) + 1 /\ inbox'[n][i].flaw = flaw
      BY <2>4, <2>6, <3>1
    <3>3. \A j \in DOMAIN inbox'[n] : inbox'[n][j].node = "pair-success" => j = Len(inbox[n]) + 1
      BY <2>4
    <3>4. QED
      BY <2>5, <3>2, <3>3
  <2>8. ASSUME NEW m \in Calls, m # n PROVE SuccessAt(m)'
    <3>1. SuccessAt(m) /\ inbox'[m] = inbox[m] /\ phase'[m] = phase[m] /\ UNCHANGED session
      BY <2>5, <2>8 DEF PairingInv, OneSuccess
    <3>2. QED
      BY <2>5, <3>1 DEF SuccessAt, IsSuccess, Pairs, DeviceOf
  <2>9. QED
    BY <2>7, <2>8 DEF OneSuccess
<1>10. ASSUME NEW n \in Calls, pairing_code_finish_node(n) PROVE OneSuccess'
  <2> DEFINE node(flaw) == [node |-> "pair-success", secret |-> "code", flaw |-> flaw]
  <2>1. PICK flaw \in Flaws : /\ inbox' = [inbox EXCEPT ![n] = Append(Tail(@), node(flaw))]
                             /\ genuine' = IF flaw = "none" THEN genuine \cup {DeviceOf(n)} ELSE genuine
    BY <1>10 DEF pairing_code_finish_node, Sends
  <2>a. inbox[n] \in Seq(Nodes) /\ Tail(inbox[n]) \in Seq(Nodes) /\ inbox \in [Calls -> Seq(Nodes)]
    BY <1>10, InboxRead DEF PairingInv, TypeOK, pairing_code_finish_node, Ready
  <2>2. Tail(inbox[n]) \in Seq(Nodes) /\ inbox'[n] = Append(Tail(inbox[n]), node(flaw)) /\ node(flaw) \in Nodes
    BY <2>1, <2>a, NodeType DEF Secrets
  <2>3. \A i \in DOMAIN Tail(inbox[n]) : Tail(inbox[n])[i].node # "pair-success"
    <3>1. \A i \in DOMAIN inbox[n] : inbox[n][i].node # "pair-success"
      BY <1>10, NoSuccess DEF pairing_code_finish_node, IsSuccess
    <3>2. QED
      BY <1>10, <2>a, <3>1, TailAt DEF pairing_code_finish_node, Ready
  <2>4. \A i \in DOMAIN inbox'[n] : inbox'[n][i].node = "pair-success" => i = Len(Tail(inbox[n])) + 1 /\ inbox'[n][i] = node(flaw)
    BY <2>2, <2>3, AppendAt
  <2>5. /\ \A m \in Calls : m # n => inbox'[m] = inbox[m] /\ phase'[m] = phase[m]
        /\ phase'[n] = "scanned" /\ genuine \subseteq genuine' /\ (flaw = "none" => DeviceOf(n) \in genuine')
        /\ UNCHANGED session
    BY <1>10, <2>1 DEF PairingInv, TypeOK, pairing_code_finish_node
  <2>6. \A i \in DOMAIN inbox'[n] : inbox'[n][i].node = "pair-success" => inbox'[n][i].flaw = flaw
    BY <2>4
  <2> HIDE DEF node
  <2>7. SuccessAt(n)'
    <3>1. SUFFICES ASSUME NEW i \in DOMAIN inbox'[n], inbox'[n][i].node = "pair-success"
                   PROVE  /\ inbox'[n][i].flaw = "none" => DeviceOf(n) \in genuine'
                          /\ \A j \in DOMAIN inbox'[n] : inbox'[n][j].node = "pair-success" => j = i
      BY <2>5 DEF SuccessAt, IsSuccess, DeviceOf
    <3>2. i = Len(Tail(inbox[n])) + 1 /\ inbox'[n][i].flaw = flaw
      BY <2>4, <2>6, <3>1
    <3>3. \A j \in DOMAIN inbox'[n] : inbox'[n][j].node = "pair-success" => j = Len(Tail(inbox[n])) + 1
      BY <2>4
    <3>4. QED
      BY <2>5, <3>2, <3>3
  <2>8. ASSUME NEW m \in Calls, m # n PROVE SuccessAt(m)'
    <3>1. SuccessAt(m) /\ inbox'[m] = inbox[m] /\ phase'[m] = phase[m] /\ UNCHANGED session
      BY <2>5, <2>8 DEF PairingInv, OneSuccess
    <3>2. QED
      BY <2>5, <3>1 DEF SuccessAt, IsSuccess, Pairs, DeviceOf
  <2>9. QED
    BY <2>7, <2>8 DEF OneSuccess
<1>11. ASSUME NEW n \in Calls, ReplyLost(n) PROVE OneSuccess'
  BY <1>11, NoSuccess DEF PairingInv, OneSuccess, SuccessAt, IsSuccess, Pairs, NoSession,
     DeviceOf, TypeOK, ReplyLost, keys, server, ghosts
<1>12. CASE connect_for_qr_pairing
  <2>1. calls + 1 \in Calls /\ phase[calls + 1] = "unused"
    BY <1>12, PairingAssumption DEF connect_for_qr_pairing, PairingInv, Begun, TypeOK, Calls
  <2>2. \A i \in DOMAIN inbox[calls + 1] : ~IsSuccess(calls + 1, i)
    BY <2>1, NoSuccess
  <2>3. ASSUME NEW m \in Calls PROVE SuccessAt(m)'
    <3>1. CASE m = calls + 1
      BY <1>12, <2>2, <3>1 DEF connect_for_qr_pairing, SuccessAt, IsSuccess
    <3>2. CASE m # calls + 1
      <4>1. /\ SuccessAt(m) /\ UNCHANGED <<inbox, genuine>> /\ phase'[m] = phase[m]
            /\ session' = [kind |-> "pair", n |-> calls + 1]
        BY <1>12, <3>2 DEF connect_for_qr_pairing, PairingInv, TypeOK, OneSuccess
      <4>2. QED
        BY <4>1, <3>2 DEF SuccessAt, IsSuccess, Pairs, DeviceOf
    <3>3. QED
      BY <3>1, <3>2
  <2>4. QED
    BY <2>3 DEF OneSuccess
<1>13. CASE close
  BY <1>13 DEF PairingInv, OneSuccess, SuccessAt, IsSuccess, Pairs, NoSession, DeviceOf, TypeOK,
     FinPairs, Stops, Ended, Broken, close, keys, server, ghosts
<1>14. CASE ReplyFails
  BY <1>14 DEF PairingInv, OneSuccess, SuccessAt, IsSuccess, Pairs, NoSession, DeviceOf, TypeOK,
     FinPairs, Stops, Ended, Broken, ReplyFails, keys, server, ghosts
<1>15. CASE Crash
  BY <1>15 DEF PairingInv, OneSuccess, SuccessAt, IsSuccess, Pairs, NoSession, DeviceOf, TypeOK,
     FinPairs, Stops, Ended, Broken, Crash, keys, server, ghosts
<1>16. CASE QrTimeout \/ finalize_pair_success \/ connect \/ LoginAnswer \/ logout
  BY <1>16 DEF PairingInv, OneSuccess, SuccessAt, IsSuccess, Pairs, NoSession, DeviceOf, Stops,
     QrTimeout, finalize_pair_success, connect, LoginAnswer, logout, keys, server, ghosts
<1>17. ASSUME NEW n \in Calls, NEW which \in Codes, request_pairing_code(n, which) PROVE OneSuccess'
  BY <1>17 DEF PairingInv, OneSuccess, SuccessAt, IsSuccess, Pairs, NoSession, DeviceOf,
     request_pairing_code, keys, server, ghosts
<1>18. CASE UNCHANGED vars
  BY <1>18 DEF PairingInv, OneSuccess, SuccessAt, IsSuccess, Pairs, NoSession, DeviceOf, vars
<1>19. QED
  BY <1>1, <1>2, <1>3, <1>4, <1>5, <1>6, <1>7, <1>8, <1>9, <1>10, <1>11, <1>12, <1>13, <1>14,
     <1>15, <1>16, <1>17, <1>18, Zenon DEF Next, ReceiveStep, ServerStep

\* A device has keys.
LEMMA LinkedKeys == PairingInv => None \notin linked /\ Torn \notin linked
<1>1. Credentials \subseteq [noise : Nat, identity : Nat]
  BY DEF Credentials, Calls
<1>2. QED
  BY <1>1, PairingAssumption DEF PairingInv, TypeOK

\* The keys of a reply are kept, or excused.
LEMMA StepReplied == PairingInv /\ [Next]_vars => RepliedSaved'
<1> SUFFICES ASSUME PairingInv, [Next]_vars PROVE RepliedSaved'
  OBVIOUS
<1>1. CASE connect_for_qr_pairing
  BY <1>1, PairingAssumption DEF PairingInv, RepliedSaved, TypeOK, Calls, connect_for_qr_pairing,
     keys, server, ghosts
<1>2. ASSUME NEW n \in Calls, BeginFinalize(n) PROVE RepliedSaved'
  BY <1>2, SuccessRead, DeviceKeys DEF PairingInv, RepliedSaved, TypeOK, BeginFinalize, keys,
     server, ghosts
<1>3. ASSUME NEW n \in Calls, pairing_code_finish_node(n) PROVE RepliedSaved'
  BY <1>3 DEF PairingInv, RepliedSaved, TypeOK, pairing_code_finish_node, keys, server, ghosts
<1>4. ASSUME NEW n \in Calls, ServerOffers(n) PROVE RepliedSaved'
  BY <1>4 DEF PairingInv, RepliedSaved, TypeOK, ServerOffers, keys, server, ghosts
<1>5. ASSUME NEW n \in Calls, PhoneScans(n) PROVE RepliedSaved'
  BY <1>5 DEF PairingInv, RepliedSaved, TypeOK, PhoneScans, keys, server, ghosts
<1>6. ASSUME NEW n \in Calls, PhoneEnters(n) PROVE RepliedSaved'
  BY <1>6 DEF PairingInv, RepliedSaved, TypeOK, PhoneEnters, keys, server, ghosts
<1>7. ASSUME NEW n \in Calls, ServerLinks(n) PROVE RepliedSaved'
  BY <1>7 DEF PairingInv, RepliedSaved, TypeOK, ServerLinks, keys, server, ghosts
<1>8. ASSUME NEW n \in Calls, ReplyLost(n) PROVE RepliedSaved'
  BY <1>8 DEF PairingInv, RepliedSaved, TypeOK, ReplyLost, keys, server, ghosts
<1>9. ASSUME NEW n \in Calls, PairingError(n) PROVE RepliedSaved'
  BY <1>9 DEF PairingInv, RepliedSaved, TypeOK, Ended, Broken, PairingError, keys, server, ghosts
<1>10. CASE finalize_pair_success
  BY <1>10, DeviceKeys DEF PairingInv, RepliedSaved, finalize_pair_success, keys, server, ghosts
<1>11. CASE logout
  BY <1>11, DeviceKeys DEF PairingInv, RepliedSaved, LoggedIn, LinkedPhase, logout, keys, server,
     ghosts
<1>12. CASE close
  BY <1>12, DeviceKeys DEF PairingInv, RepliedSaved, TypeOK, Stops, Ended, Broken, Unsaved, close,
     keys, server, ghosts
<1>13. CASE ReplyFails
  BY <1>13, DeviceKeys DEF PairingInv, RepliedSaved, TypeOK, Stops, Ended, Broken, Unsaved,
     ReplyFails, keys, server, ghosts
<1>14. CASE Crash
  BY <1>14, DeviceKeys DEF PairingInv, RepliedSaved, TypeOK, Stops, Broken, Unsaved, Crash, keys,
     server, ghosts
<1>15. CASE QrTimeout \/ connect \/ LoginAnswer
  BY <1>15 DEF PairingInv, RepliedSaved, Stops, QrTimeout, connect, LoginAnswer, keys, server,
     ghosts
<1>16. ASSUME NEW n \in Calls, extract_pair_device_refs(n) \/ UnusableCode(n) \/
      RestartRequired(n)
      PROVE  RepliedSaved'
  BY <1>16 DEF PairingInv, RepliedSaved, extract_pair_device_refs, UnusableCode, RestartRequired,
     keys, server, ghosts
<1>17. ASSUME NEW n \in Calls, NEW which \in Codes, request_pairing_code(n, which)
      PROVE  RepliedSaved'
  BY <1>17 DEF PairingInv, RepliedSaved, request_pairing_code, keys, server, ghosts
<1>18. CASE UNCHANGED vars
  BY <1>18 DEF PairingInv, RepliedSaved, vars
<1>19. QED
  BY <1>1, <1>2, <1>3, <1>4, <1>5, <1>6, <1>7, <1>8, <1>9, <1>10, <1>11, <1>12, <1>13, <1>14,
     <1>15, <1>16, <1>17, <1>18, Zenon DEF Next, ReceiveStep, ServerStep

\* The keys of a linked device are kept, or excused.
LEMMA StepSaved == PairingInv /\ [Next]_vars => LinkedIsSaved'
<1> SUFFICES ASSUME PairingInv, [Next]_vars PROVE LinkedIsSaved'
  OBVIOUS
<1>1. ASSUME NEW n \in Calls, BeginFinalize(n) PROVE LinkedIsSaved'
  BY <1>1, SuccessRead, LinkedKeys DEF PairingInv, LinkedIsSaved, BeginFinalize, keys, server,
     ghosts
<1>2. ASSUME NEW n \in Calls, ServerLinks(n) PROVE LinkedIsSaved'
  BY <1>2 DEF PairingInv, LinkedIsSaved, RepliedSaved, ServerLinks, keys, server, ghosts
<1>3. CASE finalize_pair_success
  BY <1>3, LinkedKeys DEF PairingInv, LinkedIsSaved, finalize_pair_success, keys, server, ghosts
<1>4. CASE logout
  BY <1>4 DEF PairingInv, LinkedIsSaved, LoggedIn, logout, keys, server, ghosts
<1>5. CASE close
  BY <1>5, LinkedKeys DEF PairingInv, LinkedIsSaved, Stops, Unsaved, close, keys, server, ghosts
<1>6. CASE ReplyFails
  BY <1>6, LinkedKeys DEF PairingInv, LinkedIsSaved, Stops, Unsaved, ReplyFails, keys, server,
     ghosts
<1>7. CASE Crash
  BY <1>7, LinkedKeys DEF PairingInv, LinkedIsSaved, Stops, Unsaved, Crash, keys, server, ghosts
<1>8. CASE connect_for_qr_pairing \/ QrTimeout \/ connect \/ LoginAnswer
  BY <1>8 DEF PairingInv, LinkedIsSaved, Stops, connect_for_qr_pairing, QrTimeout, connect,
     LoginAnswer, keys, server, ghosts
<1>9. ASSUME NEW n \in Calls, extract_pair_device_refs(n) \/ pairing_code_finish_node(n) \/
      UnusableCode(n) \/ PairingError(n) \/ RestartRequired(n) \/ ServerOffers(n) \/ PhoneScans(n)
      \/ PhoneEnters(n) \/ ReplyLost(n)
      PROVE  LinkedIsSaved'
  BY <1>9 DEF PairingInv, LinkedIsSaved, extract_pair_device_refs, pairing_code_finish_node,
     UnusableCode, PairingError, RestartRequired, ServerOffers, PhoneScans, PhoneEnters,
     ReplyLost, keys, server, ghosts
<1>10. ASSUME NEW n \in Calls, NEW which \in Codes, request_pairing_code(n, which)
      PROVE  LinkedIsSaved'
  BY <1>10 DEF PairingInv, LinkedIsSaved, request_pairing_code, keys, server, ghosts
<1>11. CASE UNCHANGED vars
  BY <1>11 DEF PairingInv, LinkedIsSaved, vars
<1>12. QED
  BY <1>1, <1>2, <1>3, <1>4, <1>5, <1>6, <1>7, <1>8, <1>9, <1>10, <1>11, Zenon DEF Next,
     ReceiveStep, ServerStep

\* Saved keys, and keys of a refused login, have their explanation.
LEMMA StepKept == PairingInv /\ [Next]_vars => KeptExplained' /\ RefusedExplained'
<1> SUFFICES ASSUME PairingInv, [Next]_vars PROVE KeptExplained' /\ RefusedExplained'
  OBVIOUS
<1>1. \A k : Explained(k) => Explained(k)'
  BY StepExplained
<1>2. ASSUME NEW k \in {fin', mem', disk'}, k \notin {fin, mem, disk}, k \notin {None, Torn}
      PROVE  Explained(k)'
  <2>1. ASSUME NEW n \in Calls, BeginFinalize(n) PROVE Explained(k)'
    <3>1. k = DeviceOf(n) /\ phase'[n] = "replied"
      BY <1>2, <2>1, SuccessRead DEF BeginFinalize, PairingInv, TypeOK
    <3>2. QED
      BY <3>1 DEF Explained
  <2>2. k \in {fin, mem, disk} \/ k \in {None, Torn} \/ \E n \in Calls : BeginFinalize(n)
    <3> SUFFICES ASSUME \A n \in Calls : ~BeginFinalize(n) PROVE k \in {fin, mem, disk} \cup {None, Torn}
      OBVIOUS
    <3>1. CASE QrTimeout \/ connect_for_qr_pairing \/ finalize_pair_success \/ connect \/ LoginAnswer \/ logout
      BY <1>2, <3>1 DEF QrTimeout, connect_for_qr_pairing, finalize_pair_success, connect,
         LoginAnswer, logout, keys
    <3>2. CASE close \/ ReplyFails \/ Crash
      BY <1>2, <3>2 DEF close, ReplyFails, Crash, Stops
    <3>3. ASSUME NEW n \in Calls, ReceiveStep(n) \/ ServerStep(n) PROVE k \in {fin, mem, disk}
      BY <1>2, <3>3 DEF ReceiveStep, ServerStep, extract_pair_device_refs,
         pairing_code_finish_node, UnusableCode, PairingError,
         RestartRequired, ServerOffers, PhoneScans, PhoneEnters, ServerLinks, ReplyLost, keys
    <3>4. ASSUME NEW n \in Calls, NEW which \in Codes, request_pairing_code(n, which) PROVE k \in {fin, mem, disk}
      BY <1>2, <3>4 DEF request_pairing_code, keys
    <3>5. CASE UNCHANGED vars
      BY <1>2, <3>5 DEF vars
    <3>6. QED
      BY <3>1, <3>2, <3>3, <3>4, <3>5 DEF Next
  <2>3. QED
    BY <1>2, <2>1, <2>2
<1>3. KeptExplained'
  BY <1>1, <1>2 DEF PairingInv, KeptExplained
<1>4. ASSUME NEW k \in refused', k \notin refused PROVE Explained(k)'
  <2>1. LoginAnswer
    BY <1>4 DEF Next, ReceiveStep, ServerStep, vars, ghosts, QrTimeout, connect_for_qr_pairing,
       finalize_pair_success, connect,
       logout, close, ReplyFails, Crash, Stops, extract_pair_device_refs, pairing_code_finish_node, UnusableCode, BeginFinalize,
       PairingError, RestartRequired, ServerOffers, PhoneScans, PhoneEnters, ServerLinks, ReplyLost, request_pairing_code
  <2>2. k = mem /\ k \notin {None, Torn}
    BY <1>4, <2>1 DEF LoginAnswer, PairingInv, LoggedIn
  <2>3. QED
    BY <1>1, <2>2 DEF PairingInv, KeptExplained
<1>5. RefusedExplained'
  BY <1>1, <1>4 DEF PairingInv, RefusedExplained
<1>6. QED
  BY <1>3, <1>5

-----------------------------------------------------------------------------
(* The theorems                                                            *)

\* PairingInv is inductive.
THEOREM PairingInvariant == Spec => []PairingInv
<1>1. PairingInv /\ [Next]_vars => PairingInv'
  BY StepType, StepKeys, StepBegun, StepSuccess, StepApproved, StepLinked, StepReplied, StepSaved,
     StepSession, StepKept, Zenon
  DEF PairingInv
<1>2. QED
  BY InitInv, <1>1, PTL DEF Spec

\* Whatever calls came in between, the credentials in memory and in the file are those of a
\* connection that its phone has approved.
THEOREM ApprovedOnly == Spec => []OnlyApproved
<1>1. PairingInv => OnlyApproved
  BY DEF PairingInv
<1>2. QED
  BY <1>1, PairingInvariant, PTL

\* The keys of a linked device are saved or being saved, but for the named exceptions.
THEOREM LinkedKept == Spec => []LinkedIsSaved
<1>1. PairingInv => LinkedIsSaved
  BY DEF PairingInv
<1>2. QED
  BY <1>1, PairingInvariant, PTL

\* The server refuses a login only with keys that were logged out, or whose reply it lacks.
THEOREM RefusalsExplained == Spec => []RefusedExplained
<1>1. PairingInv => RefusedExplained
  BY DEF PairingInv
<1>2. QED
  BY <1>1, PairingInvariant, PTL
=============================================================================
