------------------------------- MODULE Fanout -------------------------------
(***************************************************************************)
(* Who gets a copy of a message (usync.py, message_send.py and              *)
(* session_assert.py): the devices the server lists for a chat, the ones    *)
(* among them without a session, and the node that is built for them.      *)
(*                                                                         *)
(* A user of a usync answer is [id, devices]; a device is                  *)
(* [id, key_index, is_hosted].  A session is the key it is stored under.   *)
(***************************************************************************)
EXTENDS Jids, SequencesExt

CONSTANTS MeId,   \* creds["me"]["id"]: the account and this device
          MeLid   \* creds["me"]["lid"], or None

MeUsers == {MeId.user} \cup (IF MeLid = None THEN {} ELSE {MeLid.user})

-----------------------------------------------------------------------------
(* usync.py                                                                *)

\* Who is asked about: the account, by the kind of address the chat has, and the chat.
conversation_identities(chat) ==
  <<IF chat.server = "lid" /\ MeLid # None THEN jid_encode(MeLid.user, "lid", None, None)
    ELSE jid_encode(MeId.user, "s.whatsapp.net", None, None),
    jid_normalized_user(chat)>>

\* A device without an id is skipped; the key index may be absent.
parse_devices(nodes) == Picked(nodes, {i \in DOMAIN nodes : nodes[i].id # None})

\* A user node without an id is skipped; one without devices has none.
parse_usync_result(users) ==
  LET named == Picked(users, {i \in DOMAIN users : users[i].id # None})
  IN [i \in DOMAIN named |->
       [id |-> named[i].id,
        devices |-> IF named[i].devices = None THEN << >> ELSE parse_devices(named[i].devices)]]

server_for_device(initial, hosted) ==
  IF ~hosted THEN initial ELSE IF initial = "lid" THEN "hosted.lid" ELSE "hosted"

\* Neither this device nor one that the account's key index does not vouch for.
IsOwnDevice(user, device) == user \in MeUsers /\ device = jid_decode(MeId).device
Extracted(user, d) == /\ ~IsOwnDevice(user, d.id)
                      /\ d.id = 0 \/ d.key_index # None

device_jids(u) ==
  LET kept == Picked(u.devices, {i \in DOMAIN u.devices : Extracted(u.id.user, u.devices[i])})
  IN [k \in DOMAIN kept |->
       jid_encode(u.id.user, server_for_device(u.id.server, kept[k].is_hosted), kept[k].id, None)]

extract_device_jids(result) == FlattenSeq([i \in DOMAIN result |-> device_jids(result[i])])

OtherDevices(devices) == Picked(devices, {i \in DOMAIN devices : devices[i] \notin {MeId, MeLid}})
OfUsers(devices, users) == Picked(devices, {i \in DOMAIN devices : devices[i].user \in users})
NotOfUsers(devices, users) == Picked(devices, {i \in DOMAIN devices : devices[i].user \notin users})

\* Mutant: the account is looked for under its number alone.
split_own_and_other_devices_Pn(devices) ==
  [own |-> OfUsers(OtherDevices(devices), {MeId.user}),
   others |-> NotOfUsers(OtherDevices(devices), {MeId.user})]

split_own_and_other_devices(devices) ==
  [own |-> OfUsers(OtherDevices(devices), MeUsers),
   others |-> NotOfUsers(OtherDevices(devices), MeUsers)]

\* The targets of _prepare_usync_fanout: a chat whose list is empty is its first device,
\* unless it is a group.
Targets(chat, users) ==
  LET split == split_own_and_other_devices(extract_device_jids(parse_usync_result(users)))
  IN IF split.others = << >> /\ ~is_jid_group(chat)
     THEN [split EXCEPT !.others = <<jid_encode(chat.user, chat.server, 0, None)>>]
     ELSE split

-----------------------------------------------------------------------------
(* Sessions: socket.py and session_assert.py                               *)

missing_session_jids_from_credentials(sessions, jids) ==
  LET once == dedupe_jids(jids)
  IN Picked(once, {i \in DOMAIN once : session_key_for_jid(once[i]) \notin sessions})

missing_session_jids(sessions, jids, force) ==
  IF force THEN dedupe_jids(jids) ELSE missing_session_jids_from_credentials(sessions, jids)

\* A bundle of keys is the set of its parts; only the prekey may be missing.
Required == {"registration", "identity", "skey"}
BundleParts == {Required, Required \cup {"key"}, Required \ {"skey"}}
prekey_bundle_from_user_node(parts) == Required \subseteq parts

\* inject_sessions_from_encrypt_result with allow_partial: the users whose answer has a
\* bundle get a session.  It raises when every user of the answer has an error, and for a
\* bundle with a part missing, whatever the others have.
inject_sessions(sessions, answer) ==
  LET failed == {j \in DOMAIN answer : answer[j] = None}
  IN [raises |-> \/ failed # {} /\ failed = DOMAIN answer
                 \/ \E j \in DOMAIN answer \ failed : ~prekey_bundle_from_user_node(answer[j]),
      sessions |-> sessions \cup {protocol_address(j) : j \in DOMAIN answer \ failed}]

-----------------------------------------------------------------------------
(* message_send.py                                                         *)

\* A message that is built already: its type by the field it has.
message_type_for_proto(field) ==
  CASE field \in {"protocol", "pin", "extended_text", "conversation"} -> "text"
    [] field = "group_invite" -> "url"
    [] OTHER -> field

\* The content a caller gives, [kind, complete]: a mapping with all its keys or without
\* one, or a message that is built already, by its field.
Kinds == {"text", "reaction", "delete", "edit", "pin", "poll", "location", "contact",
          "contacts", "group_invite"}

\* The message type of each kind, or None where the content is refused.
normalize_message_content(content) ==
  IF content.kind = "proto" THEN message_type_for_proto(content.field)
  ELSE IF content.kind \notin Kinds \/ ~content.complete THEN None
  ELSE CASE content.kind \in {"text", "pin"} -> "text"
         [] content.kind \in {"delete", "edit"} -> "protocol"
         [] content.kind = "group_invite" -> "url"
         [] OTHER -> content.kind

\* A copy for each target, under the session that encrypts it; the first device of the
\* chat is encrypted for in any case.
encrypt_for_recipient(sessions, j) == protocol_address(j) \in sessions

device_sent_message(own, chat) == [jid |-> own, wrapped |-> TRUE, to |-> chat]

message_copies(chat, direct, own, others) ==
  LET \* own devices are encoded anew from their parts
      ownDevices == [i \in DOMAIN own |-> jid_encode(own[i].user, own[i].server, jid_decode(own[i]).device, None)]
      plain(j) == [jid |-> j, wrapped |-> FALSE, to |-> chat]
  IN IF direct THEN <<plain(jid_encode(chat.user, chat.server, 0, None))>>
     ELSE [i \in DOMAIN others |-> plain(others[i])]
          \o [i \in DOMAIN own |-> device_sent_message(ownDevices[i], chat)]

\* The node, or what is raised instead: the content is looked at first.
build_proto_message_node(sessions, chat, content, direct, own, others) ==
  LET copies == message_copies(chat, direct, own, others)
      encrypted == {jid_encode(chat.user, chat.server, 0, None)} \cup {copies[i].jid : i \in DOMAIN copies}
      type == normalize_message_content(content)
  IN [type |-> type, copies |-> copies,
      error |-> IF type = None THEN "content"
                ELSE IF \E j \in encrypted : ~encrypt_for_recipient(sessions, j) THEN "sessions" ELSE None]
=============================================================================
