-------------------------------- MODULE Jids --------------------------------
(***************************************************************************)
(* Addresses (jid.py).  The string "user_agent:device@server" is the record *)
(* of its parts, with None where a part is not written; what cannot be      *)
(* parsed is None itself.  The integrator suffix of a server is left out.   *)
(***************************************************************************)
EXTENDS Naturals, Sequences

CONSTANT None   \* an absent part, Python's None

\* A record or a function laid over another: what the upper one lacks shows through.
over ++ under == [x \in DOMAIN over \cup DOMAIN under |-> IF x \in DOMAIN over THEN over[x] ELSE under[x]]

Jid(user, server) == [user |-> user, agent |-> None, device |-> None, server |-> server]

domain_type_for_server(server, agent) ==
  CASE server = "lid" -> 1
    [] server = "hosted" -> 128
    [] server = "hosted.lid" -> 129
    [] OTHER -> IF agent = None THEN 0 ELSE agent

\* JidParts: the device is 0 unless it is written.
jid_decode(j) ==
  [user |-> j.user, server |-> j.server, agent |-> j.agent,
   device |-> IF j.device = None THEN 0 ELSE j.device,
   domain_type |-> domain_type_for_server(j.server, j.agent)]

\* A device that is 0 is not written.
jid_encode(user, server, device, agent) ==
  [user |-> user, agent |-> agent, server |-> server,
   device |-> IF device \in {None, 0} THEN None ELSE device]

jid_normalized_user(j) ==
  jid_encode(j.user, IF j.server = "c.us" THEN "s.whatsapp.net" ELSE j.server, None, j.agent)

are_jids_same_user(j, k) == j # None /\ k # None /\ j.user = k.user

is_jid_group(j) == j.server = "g.us"
is_jid_status(j) == j.server = "broadcast" /\ j.user = "status"
is_lid(j) == j.server \in {"lid", "hosted.lid"}
is_pn(j) == j.server \in {"s.whatsapp.net", "hosted"}
is_newsletter(j) == j # None /\ j.server = "newsletter"

\* The key of a session: what precedes the server, with device 0 if none is written.
session_key_for_jid(j) == <<j.user, j.agent, jid_decode(j).device>>

\* The name and device under which export_session stores it: the agent is dropped.
protocol_address(j) == <<j.user, None, jid_decode(j).device>>

\* A comprehension with a condition: the elements of s at the positions kept, in their order.
Picked(s, kept) ==
  LET pick[i \in 0 .. Len(s)] ==
        IF i = 0 THEN << >> ELSE IF i \in kept THEN Append(pick[i - 1], s[i]) ELSE pick[i - 1]
  IN pick[Len(s)]

\* _dedupe_jids: each address once, where it first stands.
dedupe_jids(s) == Picked(s, {i \in DOMAIN s : \A k \in 1 .. (i - 1) : s[k] # s[i]})
=============================================================================
