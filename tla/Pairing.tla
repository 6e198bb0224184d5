------------------------------- MODULE Pairing -------------------------------
(***************************************************************************)
(* Linking a device (socket.py, pairing_code.py, registration.py): the QR   *)
(* code and the pairing code, the verified success, the credentials in      *)
(* memory and in their file, and the first login with them.                 *)
(*                                                                         *)
(* The keys that a call of connect_for_qr_pairing generates are its number. *)
(***************************************************************************)
EXTENDS Naturals, Sequences

CONSTANTS None,
          Torn,       \* a file that save_creds had begun to write when the process stopped
          MaxCalls    \* bound: calls of connect_for_qr_pairing

ASSUME PairingAssumption ==
  /\ MaxCalls \in Nat
  /\ None # Torn
  /\ {None, Torn} \cap [noise : Nat, identity : Nat] = {}
  /\ None \notin Nat /\ None \notin [identity : Nat, secret : {"qr", "code"}]

Calls == 1 .. MaxCalls
Credentials == [noise : Calls, identity : Calls]
Secrets == {"qr", "code"}
\* The ephemeral keys of a pairing code request: the caller's, or ones whose private half is lost.
Codes == {"own", "default"}
Flaws == {"none", "missing", "hmac", "signature"}
Success == [node : {"pair-success"}, secret : Secrets, flaw : Flaws]
Nodes == Success \cup [node : {"pair-device", "companion_reg", "restart"}]
Phases == {"unused", "connected", "offered", "entered", "scanned", "replied", "linked", "closed"}

VARIABLES
  calls,     \* calls of connect_for_qr_pairing
  waiting,   \* whether the last one waits for the references
  session,   \* _web: none, or of a call, or a login
  static,    \* _qr_static_noise
  meta,      \* _qr_meta: the identity, and what the secret was made for
  shown,     \* calls whose QR code the user sees
  code,      \* [Calls -> the keys of the pairing code request]
  fin,       \* the credentials that finalize_pair_success has yet to save
  mem, disk, \* credentials in memory, and in the file
  phase,     \* [Calls -> what the server has made of the connection]
  inbox,     \* [Calls -> nodes of the server, not read yet]
  linked,    \* the server's devices, by their keys
  genuine,   \* keys for which the server sent a success without a flaw
  excused,   \* devices whose credentials may be missing
  unlinked,  \* keys that are not linked for a reason outside of the client
  refused,   \* keys that the server refused at a login
  reconnect, \* whether a reconnect is to come
  disturbed  \* calls that the user, the network or a crash broke off
keys == <<static, meta, fin, mem, disk>>
server == <<phase, inbox, linked, genuine>>
ghosts == <<excused, unlinked, refused, disturbed>>
vars == <<calls, waiting, session, static, meta, shown, code, fin, mem, disk, phase, inbox,
          linked, genuine, excused, unlinked, refused, reconnect, disturbed>>

NoSession == [kind |-> "none", n |-> 0]
Pairs(n) == session = [kind |-> "pair", n |-> n]

TypeOK ==
  /\ calls \in 0 .. MaxCalls
  /\ waiting \in BOOLEAN
  /\ session \in [kind : {"none", "pair", "login", "online"}, n : 0 .. MaxCalls]
  /\ session.kind = "pair" => session.n \in 1 .. calls
  /\ static \in Calls \cup {None}
  /\ meta \in [identity : Calls, secret : Secrets] \cup {None}
  /\ shown \subseteq Calls
  /\ code \in [Calls -> Codes \cup {"none"}]
  /\ fin \in Credentials \cup {None}
  /\ mem \in Credentials \cup {None}
  /\ disk \in Credentials \cup {None, Torn}
  /\ phase \in [Calls -> Phases]
  /\ inbox \in [Calls -> Seq(Nodes)]
  /\ linked \subseteq Credentials
  /\ genuine \subseteq Credentials
  /\ excused \subseteq Credentials
  /\ unlinked \subseteq Credentials
  /\ refused \subseteq Credentials
  /\ reconnect \in BOOLEAN
  /\ disturbed \subseteq Calls

Init ==
  /\ calls = 0
  /\ waiting = FALSE
  /\ session = NoSession
  /\ static = None
  /\ meta = None
  /\ shown = {}
  /\ code = [n \in Calls |-> "none"]
  /\ fin = None
  /\ mem = None
  /\ disk = None
  /\ phase = [n \in Calls |-> "unused"]
  /\ inbox = [n \in Calls |-> << >>]
  /\ linked = {}
  /\ genuine = {}
  /\ excused = {}
  /\ unlinked = {}
  /\ refused = {}
  /\ reconnect = FALSE
  /\ disturbed = {}

-----------------------------------------------------------------------------
(* The client pairs                                                        *)

\* The keys of the server's device for a connection: those of its handshake and its payload.
DeviceOf(n) == [noise |-> n, identity |-> n]

\* The connection that is replaced stays open, and nobody reads it any more.
connect_for_qr_pairing ==
  /\ calls < MaxCalls /\ ~waiting /\ fin = None
  /\ calls' = calls + 1
  /\ waiting' = TRUE
  /\ session' = [kind |-> "pair", n |-> calls']
  /\ static' = calls'
  /\ meta' = [identity |-> calls', secret |-> "qr"]
  /\ phase' = [phase EXCEPT ![calls'] = "connected"]
  /\ disturbed' = disturbed \cup 1 .. calls
  /\ reconnect' = FALSE
  /\ UNCHANGED <<shown, code, fin, mem, disk, inbox, linked, genuine, excused, unlinked, refused>>

\* No references came in time: the keys and the connection stay.
QrTimeout ==
  /\ waiting
  /\ waiting' = FALSE
  /\ UNCHANGED <<calls, session, static, meta, shown, code, fin, mem, disk, server, ghosts, reconnect>>

Sends(n, node) == inbox' = [inbox EXCEPT ![n] = Append(@, node)]
Read(n) == inbox' = [inbox EXCEPT ![n] = Tail(@)]
Ready(n, node) == Pairs(n) /\ fin = None /\ inbox[n] # << >> /\ Head(inbox[n]).node = node

\* The references are acked and the first is shown, or nobody waits for them any more.
extract_pair_device_refs(n) ==
  /\ Ready(n, "pair-device")
  /\ Read(n)
  /\ waiting' = FALSE
  /\ shown' = IF waiting THEN shown \cup {n} ELSE shown
  /\ UNCHANGED <<calls, session, keys, code, phase, linked, genuine, ghosts, reconnect>>

\* Without keys of its own the caller has no private key for what follows.
request_pairing_code(n, which) ==
  /\ Pairs(n) /\ ~waiting /\ fin = None
  /\ phase[n] = "offered" /\ code[n] = "none"
  /\ code' = [code EXCEPT ![n] = which]
  /\ UNCHANGED <<calls, waiting, session, keys, shown, server, ghosts, reconnect>>

\* The secret is from now on the one that phone and client have derived; the server, which
\* has waited for it, passes on what the phone makes of it.
pairing_code_finish_node(n) ==
  /\ Ready(n, "companion_reg") /\ phase[n] = "entered" /\ meta # None
  /\ code[n] = "own"
  /\ meta' = [meta EXCEPT !.secret = "code"]
  /\ \E flaw \in Flaws :
       /\ inbox' = [inbox EXCEPT ![n] = Append(Tail(@), [node |-> "pair-success", secret |-> "code", flaw |-> flaw])]
       /\ genuine' = IF flaw = "none" THEN genuine \cup {DeviceOf(n)} ELSE genuine
  /\ phase' = [phase EXCEPT ![n] = "scanned"]
  /\ UNCHANGED <<calls, waiting, session, static, shown, code, fin, mem, disk, linked, ghosts, reconnect>>

UnusableCode(n) ==
  /\ Ready(n, "companion_reg")
  /\ code[n] = "default"
  /\ Read(n)
  /\ UNCHANGED <<calls, waiting, session, keys, shown, code, phase, linked, genuine, ghosts, reconnect>>

\* The HMAC is made with the secret, and the account's signature covers the identity.
configure_successful_pairing_Unsigned(node, n) ==
  /\ node.flaw \notin {"missing", "hmac"} /\ node.secret = meta.secret
configure_successful_pairing(node, n) ==
  /\ node.flaw = "none"
  /\ node.secret = meta.secret
  /\ meta.identity = n

credentials_from_pair_success == [noise |-> static, identity |-> meta.identity]

BeginFinalize_Silent(n) ==
  /\ Ready(n, "pair-success")
  /\ static # None /\ meta # None
  /\ configure_successful_pairing(Head(inbox[n]), n)
  /\ Read(n)
  /\ fin' = credentials_from_pair_success
  /\ UNCHANGED <<calls, waiting, session, static, meta, shown, code, mem, disk, phase, linked, genuine, ghosts, reconnect>>

\* dispatch_node, and finalize_pair_success up to the reply.
BeginFinalize(n) ==
  /\ Ready(n, "pair-success")
  /\ static # None /\ meta # None
  /\ configure_successful_pairing(Head(inbox[n]), n)
  /\ Read(n)
  /\ fin' = credentials_from_pair_success
  /\ phase' = [phase EXCEPT ![n] = "replied"]
  /\ UNCHANGED <<calls, waiting, session, static, meta, shown, code, mem, disk, linked, genuine, ghosts, reconnect>>

\* What has not been linked when the connection ends is not linked any more.
Broken == [n \in Calls |-> IF phase[n] \in {"unused", "replied", "linked"} THEN phase[n] ELSE "closed"]
Ended(n) == [phase EXCEPT ![n] = Broken[n]]

PairingError(n) ==
  /\ Ready(n, "pair-success")
  /\ static # None /\ meta # None
  /\ ~configure_successful_pairing(Head(inbox[n]), n)
  /\ Read(n)
  /\ session' = NoSession
  /\ waiting' = FALSE
  /\ phase' = Ended(n)
  /\ disturbed' = disturbed \cup {n}
  /\ UNCHANGED <<calls, keys, shown, code, linked, genuine, excused, unlinked, refused, reconnect>>

finalize_pair_success_Unsaved ==
  /\ fin # None
  /\ mem' = fin
  /\ static' = None /\ meta' = None /\ fin' = None
  /\ UNCHANGED <<calls, waiting, session, shown, code, disk, server, ghosts, reconnect>>

\* The reply is out.  The file is replaced as a whole.
finalize_pair_success ==
  /\ fin # None
  /\ mem' = fin
  /\ disk' = fin
  /\ excused' = excused \cup (IF disk \in {None, Torn, fin} THEN {} ELSE {disk})
  /\ static' = None /\ meta' = None /\ fin' = None
  /\ UNCHANGED <<calls, waiting, session, shown, code, server, unlinked, refused, reconnect, disturbed>>

RestartRequired_Final(n) ==
  /\ Ready(n, "restart")
  /\ Read(n)
  /\ session' = NoSession
  /\ waiting' = FALSE
  /\ UNCHANGED <<calls, keys, shown, code, phase, linked, genuine, ghosts, reconnect>>

\* The server asks for a restart: close, and the policy reconnects.
RestartRequired(n) ==
  /\ Ready(n, "restart")
  /\ Read(n)
  /\ session' = NoSession
  /\ waiting' = FALSE
  /\ reconnect' = TRUE
  /\ UNCHANGED <<calls, keys, shown, code, phase, linked, genuine, ghosts>>

-----------------------------------------------------------------------------
(* The client logs in, closes, crashes                                     *)

connect ==
  /\ session = NoSession /\ fin = None
  /\ disk \notin {None, Torn}
  /\ mem' = disk
  /\ session' = [kind |-> "login", n |-> 0]
  /\ reconnect' = FALSE
  /\ UNCHANGED <<calls, waiting, static, meta, shown, code, fin, disk, server, ghosts>>

LoginAnswer ==
  /\ session.kind = "login"
  /\ session' = IF mem \in linked THEN [session EXCEPT !.kind = "online"] ELSE NoSession
  /\ refused' = IF mem \in linked THEN refused ELSE refused \cup {mem}
  /\ UNCHANGED <<calls, waiting, keys, shown, code, server, excused, unlinked, reconnect, disturbed>>

logout ==
  /\ session.kind = "online"
  /\ session' = NoSession
  /\ linked' = linked \ {mem}
  /\ unlinked' = unlinked \cup {mem}
  /\ mem' = None
  /\ disk' = None
  /\ UNCHANGED <<calls, waiting, static, meta, shown, code, fin, phase, inbox, genuine, excused, refused, reconnect, disturbed>>

\* A finalize that is on its way is cancelled, or dies, with its credentials.
Stops(ended) ==
  /\ session' = NoSession
  /\ waiting' = FALSE
  /\ reconnect' = FALSE
  /\ phase' = ended
  /\ fin' = None
  /\ disturbed' = disturbed \cup 1 .. calls

Unsaved == IF fin = None THEN {} ELSE {fin}

close ==
  /\ session # NoSession
  /\ Stops(IF session.kind = "pair" THEN Ended(session.n) ELSE phase)
  /\ excused' = excused \cup Unsaved
  /\ UNCHANGED <<calls, static, meta, shown, code, mem, disk, inbox, linked, genuine, unlinked, refused>>

\* The connection breaks before the reply is out.
ReplyFails ==
  /\ fin # None
  /\ Stops(Ended(session.n))
  /\ excused' = excused \cup Unsaved
  /\ UNCHANGED <<calls, static, meta, shown, code, mem, disk, inbox, linked, genuine, unlinked, refused>>

\* A routing node of the login is written with save_creds, in place.
Saving == session.kind = "login"
Crash ==
  /\ Stops(Broken)
  /\ \E torn \in BOOLEAN :
       /\ torn => Saving
       /\ disk' = IF torn THEN Torn ELSE disk
       /\ mem' = IF disk' = Torn THEN None ELSE disk'
       /\ excused' = excused \cup Unsaved \cup (IF torn THEN {disk} ELSE {})
  /\ static' = None /\ meta' = None
  /\ shown' = {}
  /\ UNCHANGED <<calls, code, inbox, linked, genuine, unlinked, refused>>

-----------------------------------------------------------------------------
(* The server and the phone                                                *)

ServerOffers(n) ==
  /\ phase[n] = "connected"
  /\ phase' = [phase EXCEPT ![n] = "offered"]
  /\ Sends(n, [node |-> "pair-device"])
  /\ UNCHANGED <<calls, waiting, session, keys, shown, code, linked, genuine, ghosts, reconnect>>

\* The phone reads the QR code, with its secret, and the server passes on its answer.
PhoneScans(n) ==
  /\ phase[n] = "offered" /\ n \in shown
  /\ phase' = [phase EXCEPT ![n] = "scanned"]
  /\ \E flaw \in Flaws :
       /\ Sends(n, [node |-> "pair-success", secret |-> "qr", flaw |-> flaw])
       /\ genuine' = IF flaw = "none" THEN genuine \cup {DeviceOf(n)} ELSE genuine
  /\ UNCHANGED <<calls, waiting, session, keys, shown, code, linked, ghosts, reconnect>>

PhoneEnters(n) ==
  /\ phase[n] = "offered" /\ code[n] # "none"
  /\ phase' = [phase EXCEPT ![n] = "entered"]
  /\ Sends(n, [node |-> "companion_reg"])
  /\ UNCHANGED <<calls, waiting, session, keys, shown, code, linked, genuine, ghosts, reconnect>>

ServerLinks(n) ==
  /\ phase[n] = "replied"
  /\ phase' = [phase EXCEPT ![n] = "linked"]
  /\ linked' = linked \cup {DeviceOf(n)}
  /\ Sends(n, [node |-> "restart"])
  /\ UNCHANGED <<calls, waiting, session, keys, shown, code, genuine, ghosts, reconnect>>

\* The reply never arrives.
ReplyLost(n) ==
  /\ phase[n] = "replied"
  /\ phase' = [phase EXCEPT ![n] = "closed"]
  /\ unlinked' = unlinked \cup {DeviceOf(n)}
  /\ disturbed' = disturbed \cup {n}
  /\ UNCHANGED <<calls, waiting, session, keys, shown, code, inbox, linked, genuine, excused, refused, reconnect>>

-----------------------------------------------------------------------------
ReceiveStep(n) ==
  \/ extract_pair_device_refs(n) \/ pairing_code_finish_node(n) \/ UnusableCode(n)
  \/ BeginFinalize(n) \/ PairingError(n) \/ RestartRequired(n)
ServerStep(n) == ServerOffers(n) \/ PhoneScans(n) \/ PhoneEnters(n) \/ ServerLinks(n) \/ ReplyLost(n)

Next ==
  \/ connect_for_qr_pairing \/ QrTimeout \/ finalize_pair_success
  \/ connect \/ LoginAnswer \/ logout \/ close \/ ReplyFails \/ Crash
  \/ \E n \in Calls : ReceiveStep(n) \/ ServerStep(n)
  \/ \E n \in Calls, which \in Codes : request_pairing_code(n, which)

Spec == Init /\ [][Next]_vars

\* The receive task reads, the task that has sent the reply goes on, the policy reconnects,
\* and the server answers what it has received.
FairSpec ==
  /\ Spec
  /\ \A n \in Calls : WF_vars(ReceiveStep(n)) /\ WF_vars(ServerLinks(n))
  /\ WF_vars(finalize_pair_success)
  /\ WF_vars(reconnect /\ connect)
  /\ WF_vars(LoginAnswer)

-----------------------------------------------------------------------------
(* Properties                                                              *)

\* Only the keys that a phone has approved are ever saved: those of the handshake and of
\* the payload of one and the same connection, whatever calls came in between.
OnlyApproved == {fin, mem, disk} \subseteq genuine \cup {None, Torn}

\* The keys of every linked device are in the file, or are being saved, but for those that
\* a close or a crash cut off after the reply, that a torn file held, or that a later
\* pairing has replaced.
LinkedIsSaved == linked \subseteq {disk, fin} \cup excused

\* A login with saved keys is refused only after a logout, or when the reply was lost.
Explained(k) == k \in unlinked \/ \E n \in Calls : k = DeviceOf(n) /\ phase[n] \in {"replied", "linked"}
RefusedExplained == \A k \in refused : Explained(k)

\* A phone that has approved the device sees it log in, unless something broke it off.
Approved(n) ==
  phase[n] \in {"scanned", "replied", "linked"} /\ DeviceOf(n) \in genuine \ unlinked
PairedLogsIn ==
  \A n \in Calls : Approved(n) ~> n \in disturbed \/ (session.kind = "online" /\ mem = DeviceOf(n))
=============================================================================
