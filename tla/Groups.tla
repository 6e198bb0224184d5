------------------------------- MODULE Groups -------------------------------
(***************************************************************************)
(* Groups and communities (chat_groups.py, communities.py): the request a   *)
(* call makes of the server, what the answer is read as, and the event the  *)
(* call emits.                                                              *)
(*                                                                         *)
(* A call is a record with its name in "do" and its arguments.  A request   *)
(* is [to, type, child]; its child is a record with its tag in "tag".  The   *)
(* answer is a record of the children that matter, None where absent.       *)
(***************************************************************************)
EXTENDS Jids, FiniteSets

CONSTANT GroupServer    \* "@g.us", the address of no group in particular

group_query_node(jid, type, child) == [to |-> jid, type |-> type, xmlns |-> "w:g2", child |-> child]

\* A description is sent with the id of the one it replaces.
group_update_description_node(jid, description, previous_id) ==
  group_query_node(jid, "set", [tag |-> "description", body |-> description, prev |-> previous_id])

\* What raises ValueError before anything is sent.
Unsupported(op) ==
  \/ op.do \in {"participants", "or_invite"} /\ op.action \notin {"add", "remove", "promote", "demote"}
  \/ op.do = "requests" /\ op.action \notin {"approve", "reject"}
  \/ op.do = "setting" /\ op.setting \notin {"announcement", "not_announcement", "locked", "unlocked", "ephemeral"}
  \/ op.do = "add_mode" /\ op.mode \notin {"admin_add", "all_member_add"}
  \/ op.do = "approval" /\ op.mode \notin {"on", "off"}

\* The first request of a call about a group.
group_node(op) ==
  CASE op.do \in {"metadata", "description", "invite"} -> group_query_node(op.jid, "get", [tag |-> "query"])
    [] op.do = "fetch_all" -> group_query_node(GroupServer, "get", [tag |-> "participating"])
    [] op.do = "create" -> group_query_node(GroupServer, "set", [tag |-> "create", subject |-> op.subject])
    [] op.do = "leave" -> group_query_node(GroupServer, "set", [tag |-> "leave", group |-> op.jid])
    [] op.do = "subject" -> group_query_node(op.jid, "set", [tag |-> "subject", body |-> op.subject])
    [] op.do \in {"participants", "or_invite"} ->
         group_query_node(op.jid, "set", [tag |-> op.action, participants |-> op.participants])
    [] op.do = "list_requests" -> group_query_node(op.jid, "get", [tag |-> "membership_approval_requests"])
    [] op.do = "requests" ->
         group_query_node(op.jid, "set", [tag |-> op.action, participants |-> op.participants])
    [] op.do = "code" -> group_query_node(op.jid, "get", [tag |-> "invite"])
    [] op.do = "revoke" -> group_query_node(op.jid, "set", [tag |-> "invite"])
    [] op.do = "accept" -> group_query_node(GroupServer, "set", [tag |-> "invite", code |-> op.code])
    [] op.do = "info" -> group_query_node(GroupServer, "get", [tag |-> "invite", code |-> op.code])
    [] op.do = "setting" -> group_query_node(op.jid, "set", [tag |-> op.setting, expiration |-> op.value])
    [] op.do = "ephemeral" ->
         group_query_node(op.jid, "set", IF op.expiration = 0 THEN [tag |-> "not_ephemeral"]
                                         ELSE [tag |-> "ephemeral", expiration |-> op.expiration])
    [] op.do = "add_mode" -> group_query_node(op.jid, "set", [tag |-> "member_add_mode", mode |-> op.mode])
    [] op.do = "approval" -> group_query_node(op.jid, "set", [tag |-> "membership_approval_mode", state |-> op.mode])

-----------------------------------------------------------------------------
(* communities.py: the same requests, with fewer checks.                   *)

UnsupportedCommunity(op) ==
  \/ op.do = "c_requests" /\ op.action \notin {"approve", "reject"}
  \/ op.do = "c_setting" /\ op.setting \notin {"announcement", "not_announcement", "locked", "unlocked"}
  \/ op.do = "c_add_mode" /\ op.mode \notin {"admin_add", "all_member_add"}
  \/ op.do = "c_approval" /\ op.mode \notin {"on", "off"}

community_node(op) ==
  CASE op.do \in {"c_metadata", "c_description", "c_linked"} -> group_query_node(op.jid, "get", [tag |-> "query"])
    [] op.do = "c_fetch_all" -> group_query_node(GroupServer, "get", [tag |-> "participating"])
    [] op.do \in {"c_create", "c_create_group"} ->
         group_query_node(GroupServer, "set", [tag |-> "create", subject |-> op.subject])
    [] op.do = "c_leave" -> group_query_node(GroupServer, "set", [tag |-> "leave", group |-> op.jid])
    [] op.do = "c_subject" -> group_query_node(op.jid, "set", [tag |-> "subject", body |-> op.subject])
    [] op.do = "c_link" -> group_query_node(op.jid, "set", [tag |-> "links", group |-> op.group])
    [] op.do = "c_unlink" -> group_query_node(op.jid, "set", [tag |-> "unlink", group |-> op.group])
    [] op.do = "c_list_requests" -> group_query_node(op.jid, "get", [tag |-> "membership_approval_requests"])
    [] op.do \in {"c_requests", "c_participants"} ->
         group_query_node(op.jid, "set", [tag |-> op.action, participants |-> op.participants])
    [] op.do = "c_code" -> group_query_node(op.jid, "get", [tag |-> "invite"])
    [] op.do = "c_revoke" -> group_query_node(op.jid, "set", [tag |-> "invite"])
    [] op.do = "c_accept" -> group_query_node(GroupServer, "set", [tag |-> "invite", code |-> op.code])
    [] op.do = "c_info" -> group_query_node(GroupServer, "get", [tag |-> "invite", code |-> op.code])
    [] op.do = "c_ephemeral" ->
         group_query_node(op.jid, "set", IF op.expiration = 0 THEN [tag |-> "not_ephemeral"]
                                         ELSE [tag |-> "ephemeral", expiration |-> op.expiration])
    [] op.do = "c_setting" -> group_query_node(op.jid, "set", [tag |-> op.setting])
    [] op.do = "c_add_mode" -> group_query_node(op.jid, "set", [tag |-> "member_add_mode", mode |-> op.mode])
    [] op.do = "c_approval" -> group_query_node(op.jid, "set", [tag |-> "membership_approval_mode", state |-> op.mode])

-----------------------------------------------------------------------------
(* The server's side of a request.  A group is [subject, desc, desc_id,     *)
(* announce, locked, ephemeral, add_mode, approval, members, joined, code,  *)
(* subs]; a change is a function from the fields it sets.  "took" names the *)
(* participants that a request about several was granted for.              *)

Target(groups, node, spare) ==
  CASE node.to # GroupServer -> node.to
    [] node.child.tag = "leave" -> node.child.group
    [] node.child.tag = "create" -> spare
    [] node.child.tag = "invite" -> LET held == {j \in DOMAIN groups : groups[j].code = node.child.code}
                                    IN IF held = {} THEN None ELSE CHOOSE j \in held : TRUE
    [] OTHER -> None

\* What is asked about members.
AboutMembers == {"add", "remove", "promote", "demote", "approve", "reject"}

Change(child, took) ==
  CASE child.tag = "subject" -> [subject |-> child.body]
    [] child.tag = "description" -> [desc |-> child.body]
    [] child.tag = "leave" -> [joined |-> FALSE]
    [] child.tag = "create" -> [subject |-> child.subject, joined |-> TRUE]
    [] child.tag = "invite" /\ "code" \in DOMAIN child -> [joined |-> TRUE]
    [] child.tag \in {"announcement", "not_announcement"} -> [announce |-> child.tag = "announcement"]
    [] child.tag \in {"locked", "unlocked"} -> [locked |-> child.tag = "locked"]
    [] child.tag = "not_ephemeral" -> [ephemeral |-> 0]
    [] child.tag = "ephemeral" -> [ephemeral |-> child.expiration]
    [] child.tag = "member_add_mode" -> [add_mode |-> child.mode]
    [] child.tag = "membership_approval_mode" -> [approval |-> child.state]
    [] child.tag \in AboutMembers -> [took |-> took]
    [] OTHER -> << >>

\* What else changes, and is told by no event.
Granted(g, child, took) ==
  CASE child.tag \in {"add", "approve"} -> [g EXCEPT !.members = @ \cup took]
    [] child.tag = "remove" -> [g EXCEPT !.members = @ \ took]
    [] child.tag = "description" -> [g EXCEPT !.desc_id = @ + 1]
    [] child.tag = "invite" /\ "code" \notin DOMAIN child -> [g EXCEPT !.code = @ + 1]
    [] child.tag = "links" -> [g EXCEPT !.subs = @ \cup {child.group}]
    [] child.tag = "unlink" -> [g EXCEPT !.subs = @ \ {child.group}]
    [] OTHER -> g

Changed(g, child, took) ==
  LET told == Change(child, took)
      kept == Granted(g, child, took)
  IN [f \in DOMAIN kept |-> IF f \in DOMAIN told THEN told[f] ELSE kept[f]]

-----------------------------------------------------------------------------
(* The answer, and the event a call emits for it: a function from the       *)
(* fields it names to their values, or None if the call emits nothing.      *)

\* Raises ValueError if the answer holds no group; the id of the description is kept.
parse_group_metadata(answer) ==
  IF answer.group = None THEN None
  ELSE [id |-> answer.id, subject |-> answer.group.subject, desc_id |-> answer.group.desc_id,
        participants |-> answer.listed]

\* Mutant: the errors are not looked at.
parse_participant_update_All(answer) == [p \in DOMAIN answer.refused |-> "200"]

\* A participant without an error was granted.
parse_participant_update(answer) == [p \in DOMAIN answer.refused |-> IF answer.refused[p] THEN "error" ELSE "200"]

Took(results) == {p \in DOMAIN results : results[p] = "200"}

\* What a listener reads in a setting and its value.
SettingRead(setting, value) ==
  CASE setting \in {"announcement", "not_announcement"} -> [announce |-> setting = "announcement"]
    [] setting \in {"locked", "unlocked"} -> [locked |-> setting = "locked"]
    [] OTHER -> [ephemeral |-> value]

group_event(op, answer) ==
  CASE op.do = "create" -> [subject |-> answer.group.subject, joined |-> TRUE]
    [] op.do = "leave" -> [joined |-> FALSE]
    [] op.do = "subject" -> [subject |-> op.subject]
    [] op.do = "description" -> [desc |-> op.description]
    [] op.do \in {"participants", "or_invite", "requests"} -> [took |-> Took(parse_participant_update(answer))]
    [] op.do = "accept" /\ answer.id # None -> [joined |-> TRUE]
    [] op.do = "setting" -> SettingRead(op.setting, op.value)
    [] op.do = "ephemeral" -> [ephemeral |-> op.expiration]
    [] op.do = "add_mode" -> [add_mode |-> op.mode]
    [] op.do = "approval" -> [approval |-> op.mode]
    [] OTHER -> << >>

community_event(op, answer) ==
  CASE op.do \in {"c_create", "c_create_group"} -> [subject |-> answer.group.subject, joined |-> TRUE]
    [] op.do = "c_leave" -> [joined |-> FALSE]
    [] op.do = "c_subject" -> [subject |-> op.subject]
    [] op.do = "c_description" -> [desc |-> op.description]
    [] op.do = "c_participants" -> [took |-> Took(parse_participant_update(answer))]
    [] OTHER -> << >>

\* The calls that change a group and tell nobody.
Silent == {"revoke", "c_revoke", "c_accept", "c_requests", "c_link", "c_unlink", "c_ephemeral", "c_setting",
           "c_add_mode", "c_approval"}

NeedsGroup == {"metadata", "description", "invite", "create", "info", "c_metadata", "c_description", "c_create",
               "c_create_group", "c_info"}
=============================================================================
