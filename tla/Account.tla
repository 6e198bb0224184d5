------------------------------- MODULE Account -------------------------------
(***************************************************************************)
(* What the calls about the account and its channels send and read          *)
(* (chat_groups.py, mex.py, newsletter.py, receipts.py).  A channel is a    *)
(* record; a query is its operation, an answer its payload.                 *)
(***************************************************************************)
EXTENDS Jids, SequencesExt

-----------------------------------------------------------------------------
(* Read receipts                                                           *)

\* The messages of others, together by chat and author, in the order each pair comes first.
aggregate_message_keys(keys) ==
  LET read == Picked(keys, {i \in DOMAIN keys : keys[i].chat # None /\ keys[i].id # None /\ ~keys[i].from_me})
      pair(k) == <<k.chat, k.participant>>
      firsts == Picked(read, {i \in DOMAIN read : \A k \in 1 .. (i - 1) : pair(read[k]) # pair(read[i])})
  IN [f \in DOMAIN firsts |->
        LET same == Picked(read, {i \in DOMAIN read : pair(read[i]) = pair(firsts[f])})
        IN [to |-> firsts[f].chat, participant |-> firsts[f].participant, ids |-> [i \in DOMAIN same |-> same[i].id]]]

build_receipt_node(some, type) == [type |-> type] ++ some

\* Mutant: receipts are shown unless they are turned off.
ReceiptType_Unless(settings) ==
  IF "readreceipts" \in DOMAIN settings /\ settings.readreceipts = "none" THEN "read-self" ELSE "read"

\* The sender sees a receipt only if the account says so.
ReceiptType(settings) ==
  IF "readreceipts" \in DOMAIN settings /\ settings.readreceipts = "all" THEN "read" ELSE "read-self"

\* The categories of the answer; none without a list of them.
parse_privacy_settings(answer) == IF answer.privacy = None THEN << >> ELSE answer.privacy

-----------------------------------------------------------------------------
(* Channels                                                                *)

Simple == {"follow", "unfollow", "mute", "unmute", "subscribers", "admin_count", "delete"}
ChannelDo == Simple \cup {"n_create", "n_update", "n_metadata", "owner", "demote"}

\* Where the answer of a query has its data: everything but an update has a path in XWA_PATHS.
XwaPath(do) == IF do = "n_update" THEN "xwa2_newsletter_update" ELSE do

\* A payload that is missing, errors, whatever data come with them, or nothing at the path
\* raise MexError.
parse_wmex_result(payload, path) ==
  IF payload = None \/ payload.errors \/ path \notin DOMAIN payload.data THEN None
  ELSE payload.data[path]

\* Metadata are read from the thread's part of an answer, or from the channel itself.
parse_newsletter_metadata(channel) ==
  LET thread == IF "thread" \in DOMAIN channel THEN channel.thread ELSE << >>
      viewer == IF "viewer" \in DOMAIN channel THEN channel.viewer ELSE << >>
      Of(part, field) == IF field \in DOMAIN part /\ part[field] # None THEN part[field]
                         ELSE IF field \in DOMAIN channel THEN channel[field] ELSE None
  IN IF "id" \notin DOMAIN channel THEN None
     ELSE [id |-> channel.id, name |-> Of(thread, "name"), muted |-> Of(viewer, "muted")]

-----------------------------------------------------------------------------
(* Notifications about channels.  A plain one has a child for each change,  *)
(* one by mex names its operation and lists the channels it is about.       *)

\* The event of a child; a reaction or a view that names no message, a participant that names
\* nobody and settings that are empty have none.
NewsletterEvent(n, x) ==
  CASE x.tag = "reaction" /\ x.server_id # None ->
         <<[event |-> "newsletter.reaction", id |-> n.from, what |-> x.server_id, value |-> x.code, gone |-> x.removed]>>
    [] x.tag = "view" /\ x.server_id # None ->
         <<[event |-> "newsletter.view", id |-> n.from, what |-> x.server_id, value |-> x.count, gone |-> FALSE]>>
    [] x.tag = "participant" /\ x.user # None ->
         <<[event |-> "newsletter-participants.update", id |-> n.from, what |-> x.user, value |-> x.role, gone |-> FALSE]>>
    [] x.tag = "update" /\ x.name # None ->
         <<[event |-> "newsletter-settings.update", id |-> n.from, what |-> "name", value |-> x.name, gone |-> FALSE]>>
    [] OTHER -> << >>

MexEvent(operation, x) ==
  CASE operation = "NotificationNewsletterUpdate" /\ x.jid # None /\ x.name # None ->
         <<[event |-> "newsletter-settings.update", id |-> x.jid, what |-> "name", value |-> x.name, gone |-> FALSE]>>
    [] operation = "NotificationNewsletterAdminPromote" /\ x.jid # None /\ x.user # None ->
         <<[event |-> "newsletter-participants.update", id |-> x.jid, what |-> x.user, value |-> "ADMIN", gone |-> FALSE]>>
    [] OTHER -> << >>

\* The category a notification is announced under, by its type or else by what it carries.
Category(type, tags) ==
  LET of(types, some) == type \in types \/ tags \cap some # {}
  IN CASE of({"encrypt", "devices"}, {"count", "devices", "device"}) -> "devices"
       [] of({"identity", "security"}, {"identity", "device-identity", "key-index-list"}) -> "identity"
       [] of({"contacts", "contact"}, {"contact", "contacts"}) -> "contacts"
       [] of({"newsletter", "mex"}, {"newsletter", "mex"}) -> "newsletter"
       [] of({"w:gp2", "group", "participant"},
             {"participant", "participants", "add", "remove", "promote", "demote"}) -> "groups"
       [] of({"app_state", "app-state", "sync", "server_sync"}, {"collection", "patch", "sync"}) -> "app_state"
       [] of({"privacy", "privacy_token"}, {"privacy", "token", "tokens"}) -> "privacy"
       [] of({"server_props", "props"}, {"server_props", "props"}) -> "server_props"
       [] OTHER -> IF type = None THEN "unknown" ELSE type

parse_notification_info(n) ==
  [type |-> n.type, from |-> n.from, category |-> Category(n.type, n.tags)]

\* Mutant: a notification is about one change.
parse_newsletter_notification_events_First(n) ==
  IF n.type = "mex" \/ "mex" \in n.tags THEN MexEvent(n.operation, n.children[1]) ELSE NewsletterEvent(n, n.children[1])

\* One by mex is known by its type or its child; a plain one of nobody has no events.
parse_newsletter_notification_events(n) ==
  LET byMex == n.type = "mex" \/ "mex" \in n.tags
  IN FlattenSeq([i \in DOMAIN n.children |->
       IF byMex THEN MexEvent(n.operation, n.children[i])
       ELSE IF n.from = None THEN << >> ELSE NewsletterEvent(n, n.children[i])])

\* The channel events of a notification, after those for every one and for its category.
ChannelEvents(n) ==
  LET info == parse_notification_info(n)
  IN IF info.category = "newsletter" \/ info.type \in {"newsletter", "mex"}
        \/ (info.from # None /\ is_newsletter(info.from))
     THEN parse_newsletter_notification_events(n)
     ELSE << >>
=============================================================================
