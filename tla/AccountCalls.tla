---------------------------- MODULE AccountCalls ----------------------------
(***************************************************************************)
(* The calls about the account itself and about channels (socket.py): the   *)
(* privacy settings and what depends on them, the receipts of messages that  *)
(* were read; the queries by mex, and the notifications about a channel.     *)
(***************************************************************************)
EXTENDS Asking, Account

AccountDo == {"update_privacy", "fetch_privacy", "read_messages"}

Knows(fields) == account' = fields ++ account

\* fetch_privacy_settings, update_privacy_setting and its eight names, read_messages.  seen
\* (not in the code): the calls during which receipts were shown.
account_call(c) ==
  LET op == plan.does[c]
  IN /\ Begins(c, AccountDo)
     /\ Ask(c, Query("privacy_settings", op), "first", NoChange)
     /\ Knows([seen |-> IF account.readreceipts = "all" THEN account.seen \cup {c} ELSE account.seen])
     /\ UNCHANGED <<now, fixed, local, groups, lid_of, products, once, bounds>>

\* The server may leave the categories out.
ServeAccount(c) ==
  LET op == call[c].node.child
      value == IF op.do = "update_privacy" /\ op.name = "readreceipts" THEN op.value ELSE account.readreceipts
  IN /\ Waiting(c, "privacy_settings")
     /\ Knows([readreceipts |-> value,
               seen |-> account.seen \cup (IF value = "all" THEN {x \in Callers : call[x].pc \notin {"idle", "done"}} ELSE {})])
     /\ \E settings \in {None, [last |-> "all"], [readreceipts |-> value]} : Answers(c, [privacy |-> settings], NoChange)
     /\ UNCHANGED <<now, fixed, local, groups, lid_of, products, once, bounds>>

\* send_receipts, with the type that is given, or the one the settings ask for.
send_receipts(c) ==
  /\ Begins(c, {"send_receipts"})
  /\ LET some == aggregate_message_keys(plan.does[c].keys)
     IN Set(c, [pc |-> "receipts", todo |-> [i \in DOMAIN some |-> build_receipt_node(some[i], plan.does[c].type)]])
  /\ UNCHANGED <<now, fixed, local, server, bounds>>

AccountRead(c) ==
  LET op == plan.does[c]
      some == aggregate_message_keys(op.keys)
      type == ReceiptType(parse_privacy_settings(call[c].answer))
  IN /\ Granting(c) /\ op.do \in AccountDo
     /\ IF op.do # "read_messages" THEN Ends(c, "ok", NoChange)
        ELSE Set(c, [pc |-> "receipts", node |-> None, answer |-> None,
                     todo |-> [i \in DOMAIN some |-> build_receipt_node(some[i], type)]])
     /\ UNCHANGED <<now, fixed, local, server, bounds>>

\* One receipt after the other is sent; one that cannot be ends the call.
ReceiptSent(c) ==
  /\ call[c].pc = "receipts"
  /\ \/ call[c].todo = << >> /\ Ends(c, "ok", NoChange)
     \/ /\ call[c].todo # << >>
        /\ \/ Set(c, [todo |-> Tail(call[c].todo), got |-> Append(call[c].got, Head(call[c].todo))])
           \/ Ends(c, "SendError", NoChange)
  /\ UNCHANGED <<now, fixed, local, server, bounds>>

-----------------------------------------------------------------------------
(* Channels                                                                *)

\* The reaction to a channel's message is sent, and nothing waits for an answer.
newsletter_react_message(c) ==
  /\ Begins(c, {"react"})
  /\ \E how \in {"ok", "SendError"} : Ends(c, how, NoChange)
  /\ UNCHANGED <<now, fixed, local, server, bounds>>

newsletter_call(c) ==
  LET op == plan.does[c]
  IN /\ Begins(c, ChannelDo \cup {"live_updates", "fetch_messages"})
     /\ Ask(c, Query(IF op.do \in ChannelDo THEN "w:mex" ELSE "newsletter", op), "first", NoChange)
     /\ UNCHANGED <<now, fixed, local, server, bounds>>

\* The server: what a query makes of a channel.
ChannelAfter(channel, op) ==
  CASE op.do = "n_update" -> [channel EXCEPT !.name = op.name]
    [] op.do \in {"follow", "unfollow"} -> [channel EXCEPT !.followed = op.do = "follow"]
    [] op.do \in {"mute", "unmute"} -> [channel EXCEPT !.muted = op.do = "mute"]
    [] op.do = "delete" -> [channel EXCEPT !.live = FALSE]
    [] op.do = "owner" -> [channel EXCEPT !.owner = op.user]
    [] op.do = "demote" -> [channel EXCEPT !.admins = @ \ {op.user}]
    [] OTHER -> channel

\* What it says of a channel, with its parts or flat.
Told(id, channel, flat) ==
  IF flat THEN [id |-> id, name |-> channel.name, muted |-> channel.muted]
  ELSE [id |-> id, thread |-> [name |-> channel.name], viewer |-> [muted |-> channel.muted]]

\* A query is done, or it is not; its answer may be of another form even if it is.
ServeChannel(c) ==
  LET op == call[c].node.child
      channels == IF op.do = "n_create"
                  THEN Append(account.channels, [name |-> op.name, followed |-> TRUE, muted |-> FALSE,
                                                 live |-> TRUE, owner |-> None, admins |-> {}])
                  ELSE [account.channels EXCEPT ![op.id] = ChannelAfter(@, op)]
      id == IF op.do = "n_create" THEN Len(channels) ELSE op.id
      done == op.do = "n_create" \/ account.channels[op.id].live
  IN /\ Waiting(c, "w:mex")
     /\ \E flat, errors \in BOOLEAN, path \in {XwaPath(op.do), None} :
          /\ done \/ errors \/ path = None
          /\ Answers(c, [payload |-> [errors |-> errors, data |-> IF path = None THEN << >>
                                                                 ELSE [p \in {path} |-> Told(id, channels[id], flat)]]],
                     IF done THEN [id |-> id] ELSE NoChange)
     /\ Knows([channels |-> IF done THEN channels ELSE account.channels])
     /\ UNCHANGED <<now, fixed, local, groups, lid_of, products, once, bounds>>

\* Live updates of a channel, for a while, or some of its messages.
ServeUpdates(c) ==
  /\ Waiting(c, "newsletter")
  /\ Answers(c, [duration |-> 1], NoChange)
  /\ UNCHANGED <<now, fixed, local, server, bounds>>

\* newsletter_create and newsletter_metadata return the metadata, the others what is at the path.
ChannelRead(c) ==
  LET op == plan.does[c]
      response == parse_wmex_result(call[c].answer.payload, XwaPath(op.do))
  IN /\ Granting(c) /\ op.do \in ChannelDo
     /\ IF response = None THEN Ends(c, "MexError", NoChange)
        ELSE Ends(c, "ok", [got |-> <<IF op.do \in {"n_create", "n_metadata"} THEN parse_newsletter_metadata(response)
                                       ELSE response>>])
     /\ UNCHANGED <<now, fixed, local, server, bounds>>

AccountEnds(c) ==
  /\ \/ Granting(c) /\ plan.does[c].do \in {"live_updates", "fetch_messages"} /\ Ends(c, "ok", NoChange)
     \/ Refused(c) /\ plan.does[c].do \in AccountDo \cup ChannelDo \cup {"live_updates", "fetch_messages"}
        /\ Ends(c, "IQError", NoChange)
  /\ UNCHANGED <<now, fixed, local, server, bounds>>

-----------------------------------------------------------------------------
(* Notifications                                                           *)

\* What happens in a channel: a reaction, with or without its message named, given or taken
\* back; a message's views; a promotion or a demotion; a name.
Facts == [event : {"newsletter.reaction"}, what : {None, "m1"}, value : {"smile"}, gone : BOOLEAN]
         \cup [event : {"newsletter.view"}, what : {"m1"}, value : {"7"}, gone : {FALSE}]
         \cup [event : {"newsletter-participants.update"}, what : {"u1"}, value : {"ADMIN"}, gone : {FALSE}]
         \cup [event : {"newsletter-settings.update"}, what : {"name"}, value : {"news"}, gone : {FALSE}]

\* What names no message, or has no type, is none of what is said of a channel.
ASSUME FactsAssumption ==
  /\ None \notin {"name", "news", "encrypt", "devices", "identity", "security", "contacts", "contact", "newsletter", "mex",
                  "w:gp2", "group", "participant", "app_state", "app-state", "sync", "server_sync", "privacy",
                  "privacy_token", "server_props", "props"}
  /\ None # Jid("n", "newsletter")

\* How a notification says it: as a child, or in the list of a mex operation.
Child(fact) ==
  CASE fact.event = "newsletter.reaction" ->
         [tag |-> "reaction", server_id |-> fact.what, code |-> fact.value, removed |-> fact.gone]
    [] fact.event = "newsletter.view" -> [tag |-> "view", server_id |-> fact.what, count |-> fact.value]
    [] fact.event = "newsletter-participants.update" -> [tag |-> "participant", user |-> fact.what, role |-> fact.value]
    [] OTHER -> [tag |-> "update", name |-> fact.value]
Update(id, fact) == [jid |-> id, user |-> fact.what, name |-> fact.value]
Operation(fact) ==
  IF fact.event = "newsletter-settings.update" THEN "NotificationNewsletterUpdate" ELSE "NotificationNewsletterAdminPromote"

\* Either form may come without its type.
Plain(type, id, facts) ==
  [type |-> type, from |-> id, operation |-> None, children |-> [i \in DOMAIN facts |-> Child(facts[i])],
   tags |-> {Child(facts[i]).tag : i \in DOMAIN facts}]
ByMex(type, tag, id, facts) ==
  [type |-> type, from |-> Jid(None, "s.whatsapp.net"), operation |-> Operation(facts[1]),
   children |-> [i \in DOMAIN facts |-> Update(id, facts[i])], tags |-> {tag}]

\* dispatch_notification_node for a channel somebody asked the updates of.
ChannelNotified(c) ==
  LET id == Jid("n", "newsletter")
      newsOf(facts, n) ==
        Knows([said |-> account.said \o facts, told |-> account.told \o ChannelEvents(n)])
  IN /\ plan.does[c] # None /\ plan.does[c].do = "live_updates" /\ call[c].result = "ok"
     /\ Len(account.said) < 2
     /\ \E facts \in {<<f>> : f \in Facts} \cup (Facts \X Facts) :
          \/ \E type \in {"newsletter", None} : newsOf(facts, Plain(type, id, facts))
          \/ /\ \A i \in DOMAIN facts : facts[i].event \in {"newsletter-participants.update", "newsletter-settings.update"}
             /\ \A i \in DOMAIN facts : facts[i].event = facts[1].event
             /\ \E type \in {"mex", None}, tag \in {"mex", "update"} :
                  /\ type = "mex" \/ tag = "mex"
                  /\ newsOf(facts, ByMex(type, tag, id, facts))
     /\ UNCHANGED <<now, fixed, call, local, groups, lid_of, products, once, bounds>>
=============================================================================
