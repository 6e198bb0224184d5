------------------------------ MODULE Receipts ------------------------------
(***************************************************************************)
(* Acks, receipts and retry requests (receipts.py, retry.py).  A node is a *)
(* record of the attributes that are read: tag, id, more (the ids of its   *)
(* list), from, participant, recipient, type, and for a retry the keys of a  *)
(* session it carries.                                                     *)
(***************************************************************************)
EXTENDS Jids, SequencesExt

CONSTANTS MeId, MeLid

IsSafeGroup(j) == j # None /\ is_jid_group(j)
IsSafeStatus(j) == j # None /\ is_jid_status(j)

can_ack_node(n) ==
  n.tag \in {"message", "receipt", "notification", "call"} /\ n.id # None /\ n.from # None

receipt_message_ids(n) == (IF n.id = None THEN << >> ELSE <<n.id>>) \o n.more

\* Mutant: the account is known by its number alone.
OwnJid_Pn(n) == MeId

\* Who sent a receipt, what chat it is about, and whether the message was ours.
OwnJid(n) == IF n.from # None /\ is_lid(n.from) THEN MeLid ELSE MeId
Sender(n) == IF n.participant # None THEN n.participant ELSE n.from
IsNodeFromMe(n) == are_jids_same_user(Sender(n), OwnJid(n))
RemoteJid(n) == IF ~IsNodeFromMe(n) \/ IsSafeGroup(n.from) THEN n.from ELSE n.recipient
FromMe(n) == n.recipient = None \/ (n.type \in {"retry", "sender"} /\ IsNodeFromMe(n))

\* None unless the node is a retry receipt with an id.
parse_retry_request(n) ==
  IF n.tag # "receipt" \/ n.type # "retry" \/ ~n.retry \/ receipt_message_ids(n) = << >>
  THEN None
  ELSE [remote_jid |-> RemoteJid(n), id |-> receipt_message_ids(n)[1], from_me |-> FromMe(n),
        participant |-> Sender(n), keys |-> n.keys]

\* The types that are not listed have no status: the receipt is acked and dropped.
receipt_status_from_type(type) ==
  CASE type = None -> "DELIVERY_ACK"
    [] type = "sender" -> "SERVER_ACK"
    [] type = "played" -> "PLAYED"
    [] type \in {"read", "read-self"} -> "READ"
    [] OTHER -> None

parse_receipt_info(n) ==
  IF n.tag # "receipt" \/ n.type = "retry" \/ receipt_message_ids(n) = << >>
  THEN None
  ELSE LET status == receipt_status_from_type(n.type)
           remote == RemoteJid(n)
       IN [remote_jid |-> remote, ids |-> receipt_message_ids(n), from_me |-> FromMe(n),
           participant |-> n.participant, status |-> status,
           user_jid |-> IF n.participant = None THEN None ELSE jid_normalized_user(n.participant),
           timestamp_key |-> CASE status = None -> None
                               [] status = "DELIVERY_ACK" -> "receipt_timestamp"
                               [] OTHER -> "read_timestamp",
           is_group_or_status |-> IsSafeGroup(remote) \/ IsSafeStatus(remote)]

\* The keys of a retry receipt, by their parts: none, or a whole bundle, to which only the
\* prekey may be missing; any other raises.
KeysNeeded == {"type", "identity", "skey"}
KeyParts == {KeysNeeded, KeysNeeded \cup {"key"}, KeysNeeded \ {"type"}}
extract_retry_session_bundle(request) ==
  IF request.keys = None \/ ~(KeysNeeded \subseteq request.keys) THEN None ELSE request.keys

\* The session of a whole bundle is stored under the requester's address.
inject_retry_session_from_receipt(sessions, request) ==
  IF extract_retry_session_bundle(request) = None THEN sessions
  ELSE sessions \cup {protocol_address(request.participant)}
=============================================================================
