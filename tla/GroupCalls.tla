----------------------------- MODULE GroupCalls -----------------------------
(***************************************************************************)
(* The calls about groups and communities (socket.py): what each asks, what *)
(* it does with the answer, and the event it emits.  The invites that stand *)
(* in for members who may not be added are sent one by one.                *)
(***************************************************************************)
EXTENDS Asking

GroupDo == {"metadata", "description", "invite", "fetch_all", "create", "leave", "subject", "participants",
            "or_invite", "list_requests", "requests", "code", "revoke", "accept", "info", "setting",
            "ephemeral", "add_mode", "approval"}
CommunityDo == {"c_metadata", "c_description", "c_fetch_all", "c_create", "c_create_group", "c_leave",
                "c_subject", "c_link", "c_unlink", "c_linked", "c_list_requests", "c_requests",
                "c_participants", "c_code", "c_revoke", "c_accept", "c_info", "c_ephemeral", "c_setting",
                "c_add_mode", "c_approval"}

\* The calls that name a group, and those that name members.
NamesGroup == (GroupDo \cup CommunityDo) \ {"fetch_all", "create", "accept", "info", "c_fetch_all", "c_create",
                                        "c_create_group", "c_accept", "c_info"}
NamesMembers == {"participants", "or_invite", "requests", "c_requests", "c_participants"}
Members(op) == {op.participants[i] : i \in DOMAIN op.participants}

\* An action, a setting or a mode that is not known raises ValueError.
BeginGroup(c) ==
  LET op == plan.does[c] IN
  /\ Begins(c, GroupDo \cup CommunityDo)
  /\ IF Unsupported(op) \/ UnsupportedCommunity(op) THEN Ends(c, "ValueError", NoChange)
     ELSE Ask(c, IF op.do \in GroupDo THEN group_node(op) ELSE community_node(op), "first", NoChange)
  /\ UNCHANGED <<now, fixed, local, server, bounds>>

-----------------------------------------------------------------------------
(* The server.                                                             *)

\* The members, with their numbers unless those are hidden.
Listed(ids, shown) ==
  LET some == SetToSeq(UNION {groups[j].members : j \in ids})
  IN [i \in DOMAIN some |-> [jid |-> lid_of[some[i]], phone_number |-> IF shown THEN some[i] ELSE None]]

ReadGroup(c) ==
  LET node == call[c].node
      j == Target(groups, node, Spare)
      about == IF node.child.tag = "participating" THEN {k \in GroupIds : groups[k].joined} ELSE {j}
  IN /\ Waiting(c, "w:g2") /\ node.type = "get" /\ None \notin about
     /\ \E shown \in BOOLEAN, admin \in BOOLEAN :
          Answers(c, [id |-> j, group |-> IF j = None THEN None ELSE groups[j], listed |-> Listed(about, shown),
                      refused |-> << >>, code |-> IF admin /\ j # None THEN groups[j].code ELSE None], NoChange)
     /\ UNCHANGED <<now, fixed, local, server, bounds>>

\* A description whose predecessor is not the current one is not taken; whom a request about
\* several concerns is granted for each by itself if it is a known one, a new group need not be described, and who
\* accepts an invite without being told the group has yet to be let in.
ChangeGroup(c) ==
  LET node == call[c].node
      j == Target(groups, node, Spare)
      asked == IF "participants" \in DOMAIN node.child THEN Members(node.child) ELSE {}
  IN /\ Waiting(c, "w:g2") /\ node.type = "set" /\ j # None
     /\ node.child.tag = "description" => node.child.prev = groups[j].desc_id
     /\ node.child.tag = "create" => ~groups[j].joined
     /\ "participants" \in DOMAIN node.child => node.child.tag \in AboutMembers
     /\ \E took \in SUBSET asked, described \in BOOLEAN :
          LET pending == node.child.tag = "invite" /\ "code" \in DOMAIN node.child /\ ~described
              after == IF pending THEN groups[j] ELSE Changed(groups[j], node.child, took)
          IN /\ groups' = [groups EXCEPT ![j] = after]
             /\ Answers(c, [id |-> IF described THEN j ELSE None, group |-> IF described THEN after ELSE None, listed |-> << >>,
                            refused |-> [p \in asked |-> p \notin took], code |-> after.code],
                        IF pending THEN NoChange ELSE Change(node.child, took))
     /\ UNCHANGED <<now, fixed, local, lid_of, account, products, once, bounds>>

-----------------------------------------------------------------------------
(* What the client does with the answer.                                   *)

\* Mutant: only the live mappings are kept.
store_group_mappings_Live(answer) ==
  /\ creds' = store_lid_pn_mappings(creds, GroupEntries(answer.listed))
  /\ UNCHANGED <<disk, rows, tokens, conn, stored>>

\* _store_group_lid_pn_mappings: the live mappings, which are not saved, and the table.
store_group_mappings(answer) ==
  /\ creds' = store_lid_pn_mappings(creds, GroupEntries(answer.listed))
  /\ rows' = IF base = "database" THEN save_lid_pn_mapping(rows, GroupEntries(answer.listed)) ELSE rows
  /\ UNCHANGED <<disk, tokens, conn, stored>>

\* The metadata are read first, then what they are needed for is asked.
GroupRead(c) ==
  LET op == plan.does[c]
      answer == call[c].answer
      metadata == parse_group_metadata(answer)
  IN /\ Granting(c) /\ call[c].node.xmlns = "w:g2" /\ call[c].step \in {"first", "meta"}
     /\ \/ op.do \in {"description", "c_description", "invite", "metadata", "c_metadata", "c_linked"}
        \/ call[c].step = "meta"
     /\ IF metadata = None THEN Ends(c, "ValueError", NoChange) /\ UNCHANGED local
        ELSE /\ IF op.do \in {"c_description", "c_metadata"} THEN UNCHANGED local ELSE store_group_mappings(answer)
             /\ CASE op.do \in {"description", "c_description"} ->
                       Ask(c, group_update_description_node(op.jid, op.description, metadata.desc_id), "set", NoChange)
                  [] op.do \in {"invite", "or_invite"} ->
                       Ask(c, group_query_node(op.jid, "get", [tag |-> "invite"]), "code", NoChange)
                  [] op.do = "c_linked" -> Ends(c, "AttributeError", NoChange)
                  [] OTHER -> Ends(c, "ok", NoChange)
     /\ UNCHANGED <<now, fixed, server, bounds>>

\* The code is needed to invite; the message itself is the business of Delivery.
GroupCode(c) ==
  /\ Granting(c) /\ call[c].step = "code"
  /\ IF call[c].answer.code = None THEN Ends(c, "GroupInviteError", NoChange)
     ELSE Set(c, [pc |-> "send", node |-> None, answer |-> None])
  /\ UNCHANGED <<now, fixed, local, server, bounds>>

\* Everything else ends with the answer; an answer without the group it should hold raises.
GroupEnds(c) ==
  LET op == plan.does[c]
      answer == call[c].answer
  IN /\ Granting(c) /\ call[c].node.xmlns = "w:g2" /\ call[c].step \in {"first", "set"}
     /\ call[c].step = "first" =>
          op.do \notin {"description", "c_description", "invite", "metadata", "c_metadata", "c_linked"}
     /\ IF op.do \in NeedsGroup /\ call[c].step = "first" /\ parse_group_metadata(answer) = None
        THEN Ends(c, "ValueError", NoChange)
        ELSE Ends(c, "ok", [told |-> IF op.do \in GroupDo THEN group_event(op, answer) ELSE community_event(op, answer)])
     /\ IF op.do = "fetch_all" THEN store_group_mappings(answer) ELSE UNCHANGED local
     /\ UNCHANGED <<now, fixed, server, bounds>>

\* group_participants_update_or_invite: those who may not be added are invited in turn.
GroupRefused(c) ==
  LET op == plan.does[c]
  IN /\ Refused(c) /\ call[c].node.xmlns = "w:g2"
     /\ IF /\ op.do = "or_invite" /\ call[c].step = "first" /\ op.action = "add"
           /\ call[c].answer.error = "account_reachout_restricted"
        THEN IF op.participants = << >> THEN Ends(c, "ok", [told |-> [invited |-> {}], made |-> [invited |-> {}]])
             ELSE Ask(c, group_query_node(op.jid, "get", [tag |-> "query"]), "meta", [todo |-> op.participants])
        ELSE Ends(c, "IQError", NoChange)
     /\ UNCHANGED <<now, fixed, local, server, bounds>>

\* An invite is sent: the next one starts with the metadata again, and only when all are
\* sent is anything told.
InviteSent(c) ==
  LET op == plan.does[c]
      sent == {Head(call[c].todo)} \cup (IF "invited" \in DOMAIN call[c].made THEN call[c].made.invited ELSE {})
      done == [made |-> [invited |-> sent] ++ call[c].made]
  IN /\ call[c].pc = "send" /\ op.do \in {"invite", "or_invite"}
     /\ IF op.do = "invite" THEN Ends(c, "ok", NoChange)
        ELSE IF Len(call[c].todo) = 1 THEN Ends(c, "ok", [told |-> [invited |-> Members(op)]] ++ done)
        ELSE Ask(c, group_query_node(op.jid, "get", [tag |-> "query"]), "meta", [todo |-> Tail(call[c].todo)] ++ done)
     /\ UNCHANGED <<now, fixed, local, server, bounds>>

\* The message cannot be sent: the invites sent before it are not told.
InviteFails(c) ==
  /\ call[c].pc = "send" /\ plan.does[c].do \in {"invite", "or_invite"}
  /\ Ends(c, "SendError", NoChange)
  /\ UNCHANGED <<now, fixed, local, server, bounds>>
=============================================================================
