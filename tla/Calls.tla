-------------------------------- MODULE Calls --------------------------------
(***************************************************************************)
(* The calls of the public API that are queries, run together: each caller  *)
(* makes the call it has planned, while numbers change hands, time passes    *)
(* and the process may end.                                                *)
(***************************************************************************)
EXTENDS GroupCalls, ContactCalls, MediaCalls, AccountCalls

\* What may be asked for: calls about groups the server has and lists of members with a number,
\* lists of numbers and of messages, a product with a name or with none; and a message has one
\* media key, whoever asks for it again.
Asked(calls) == {op \in {p.does[c] : p \in Plans, c \in Callers} \ {None} : op.do \in calls}
ASSUME PlansAssumption ==
  /\ \A op \in Asked(NamesGroup) : op.jid \in GroupIds
  /\ \A op \in Asked(NamesMembers) : op.participants \in Seq(Numbers)
  /\ \A op \in Asked({"exists"}) : op.numbers \in Seq(ToSet(op.numbers))
  /\ \A op \in Asked({"read_messages", "send_receipts"}) : op.keys \in Seq(ToSet(op.keys))
  /\ \A op \in Asked({"product"}) : "name" \in DOMAIN op
  /\ \A p \in Plans : p.named \in Seq(ToSet(p.named))
  /\ \A a, b \in Asked({"retry"}) : a.id = b.id => a.key = b.key
  /\ None \notin [key : {a.key : a \in Asked({"retry"})}, id : {a.id : a \in Asked({"retry"})},
                  result : {"SUCCESS", "NOT_FOUND"}, path : {None, "new_path"}]

vars == <<now, fixed, call, local, server, bounds>>

Init == AskingInit

\* A query times out: at its time, or before with nobody but the call to read the socket.
\* The server may have done what was asked.  Some calls have another way.
QueryLate(c) ==
  /\ call[c].pc = "asked" /\ (loop => now >= call[c].due)
  /\ CASE plan.does[c].do = "exists" -> NumbersLate(c)
       [] plan.does[c].do = "product" /\ call[c].step = "create" -> ProductLate(c)
       [] OTHER -> Ends(c, "TimeoutError", [cut |-> TRUE])
  /\ UNCHANGED <<now, fixed, local, server, bounds>>

-----------------------------------------------------------------------------
Tick ==
  /\ now <= plan.ticks /\ now' = now + 1
  /\ UNCHANGED <<fixed, call, local, server, bounds>>

\* A number gets another LID, or changes places with another.
Move ==
  /\ moves < plan.moves /\ moves' = moves + 1
  /\ \E f \in [Numbers -> Lids] :
       /\ f # lid_of /\ \A n, m \in Numbers : n # m => f[n] # f[m]
       /\ lid_of' = f
       /\ once' = once \cup {[pn |-> n, lid |-> f[n]] : n \in Numbers}
  /\ UNCHANGED <<now, fixed, call, local, groups, account, products, crashes>>

\* The process ends and starts again: the calls and what is only in memory are gone.
Crash ==
  /\ crashes < plan.crashes /\ crashes' = crashes + 1
  /\ call' = [c \in Callers |-> IF call[c].pc \in {"idle", "done"} THEN call[c]
                                ELSE [Idle EXCEPT !.pc = "done", !.result = "crash"]]
  /\ creds' = disk /\ conn' = None
  /\ UNCHANGED <<now, fixed, disk, rows, tokens, stored, server, moves>>

Serves(c) ==
  \/ ReadGroup(c) \/ ChangeGroup(c)
  \/ AnswerUsync(c) \/ AnswerTokens(c) \/ AnswerContacts(c) \/ ServeContact(c)
  \/ AnswerConn(c) \/ SetCover(c)
  \/ ServeProducts(c) \/ ServeCatalog(c) \/ ServeCollections(c) \/ ServeProfile(c)
  \/ ServeAccount(c) \/ ServeChannel(c) \/ ServeUpdates(c) \/ ChannelNotified(c)
  \/ Refuse(c)

Resumes(c) ==
  \/ GroupRead(c) \/ GroupCode(c) \/ GroupEnds(c) \/ GroupRefused(c) \/ InviteSent(c) \/ InviteFails(c)
  \/ BlockRefreshed(c) \/ DevicesListed(c) \/ TokensIssued(c) \/ ChatModified(c) \/ NumbersFound(c)
  \/ ContactEnds(c)
  \/ ConnRead(c) \/ UploadTried(c) \/ UploadUsed(c) \/ ProductRead(c) \/ ProductRecovered(c) \/ BusinessEnds(c)
  \/ MediaFails(c)
  \/ AccountRead(c) \/ ReceiptSent(c) \/ ChannelRead(c) \/ AccountEnds(c)
  \/ QueryLate(c)

Starts(c) ==
  \/ BeginGroup(c)
  \/ update_block_status(c) \/ get_usync_devices(c) \/ issue_privacy_tokens(c) \/ profile_picture_url(c)
  \/ chat_modify(c) \/ on_whatsapp(c)
  \/ account_call(c) \/ send_receipts(c) \/ newsletter_call(c) \/ newsletter_react_message(c)
  \/ product_delete(c) \/ get_catalog(c) \/ profile_call(c)
  \/ upload_call(c) \/ refresh_media_conn(c) \/ update_media_message(c)

Next ==
  \/ \E c \in Callers : Starts(c) \/ Serves(c) \/ Resumes(c)
  \/ MediaRetried
  \/ Tick \/ Move \/ Crash

Spec == Init /\ [][Next]_vars

-----------------------------------------------------------------------------
Ended(c, calls, why) == call[c].pc = "done" /\ plan.does[c] # None /\ plan.does[c].do \in calls /\ call[c].result = why

\* What an event of a call says happened to a group, the server did for that call; and a call
\* about a group that returns has told everything the server did for it, unless it is one of
\* those that tell nothing (the groups.update and group-participants.* events of socket.py).
EventsTell ==
  \A c \in Callers : Ended(c, GroupDo \cup CommunityDo, "ok") =>
    /\ \A x \in DOMAIN call[c].told : x \in DOMAIN call[c].made /\ call[c].told[x] = call[c].made[x]
    /\ plan.does[c].do \notin Silent => DOMAIN call[c].made \subseteq DOMAIN call[c].told \cup {"invited"}

\* Whoever is blocked or unblocked, the LID sent is one the asked number has had, and the
\* number sent one that the LID has had, even if both came from another call's answer
\* (_resolve_blocklist_jids and the mappings it reads).
BlocksPair ==
  \A c \in Callers :
    (plan.does[c] # None /\ plan.does[c].do = "block" /\ call[c].pc = "asked" /\ call[c].step = "last") =>
      LET node == call[c].node.child
          asked == jid_normalized_user(plan.does[c].jid)
      IN /\ asked \in {node.lid, node.pn} \cup {r.pn : r \in {x \in once : x.lid = node.lid}}
         /\ node.action = "block" => [pn |-> node.pn, lid |-> node.lid] \in once

\* With a table, a LID whose number was known once stays resolvable, whatever is committed
\* over the live mappings and wherever the process ends (save_lid_pn_mapping).
LearnedStays ==
  [][base = "database" =>
       \A lid \in Lids : None \notin pn_for_lid(rows, creds, lid) => None \notin pn_for_lid(rows', creds', lid)]_vars

\* The token that goes out with a picture request is not expired; and the newest token that is
\* not is never lost nor replaced by an older one, in whatever order the answers came
\* (privacy_tokens.py).
TokenFresh ==
  /\ \A c \in Callers :
       (plan.does[c] # None /\ plan.does[c].do = "picture" /\ call[c].pc = "asked" /\ call[c].node.child.token # None) =>
         LET sent == call[c].node.child
         IN ~is_tc_token_expired(sent.token.timestamp, sent.time)
  /\ \A s \in stored : ~is_tc_token_expired(s.timestamp, now) =>
       s.at \in DOMAIN tokens /\ tokens[s.at].timestamp >= s.timestamp

\* on_whatsapp returns each number once; if no query of it timed out and none was left for
\* want of time, all the numbers that are on the service are there.
NumbersAnswered ==
  \A c \in Callers : Ended(c, {"exists"}, "ok") =>
    LET got == call[c].got
        found == {got[i] : i \in DOMAIN got}
        wanted == {plan.does[c].numbers[i] : i \in DOMAIN plan.does[c].numbers} \cap Numbers
    IN /\ Cardinality(found) = Len(got) /\ found \subseteq wanted
       /\ ~call[c].cut /\ call[c].todo = << >> => found = wanted

\* A product_create that returns after its query timed out returns a product that had that
\* name, its own if the server made one for it that is still there and nobody edits: as long as
\* the catalog was never longer than what is looked at (docs/roadmap.md:372, by unique catalog
\* name).
RecoveredOwn ==
  \A c \in Callers : (Ended(c, {"product"}, "ok") /\ call[c].cut /\ Len(products) <= RecoverPage) =>
    LET product == call[c].got[1]
        own == {i \in DOMAIN products : products[i].by = c}
        edited == {plan.does[d].id : d \in {x \in Callers : plan.does[x] # None /\ plan.does[x].do = "product_update"}}
    IN (\E i \in own \ edited : ~products[i].gone) => product \in own

\* A call that waits for its media to be uploaded again is never given another message's
\* answer, which its key would not open (the listener of update_media_message).
RetryOwn == \A c \in Callers : ~Ended(c, {"retry"}, "InvalidTag")

\* A message is told to be read to its author only if the account showed its receipts at some
\* moment of the call; each message of others once, under its own chat and author, none of
\* ours, and all of them if the call returns (read_messages and send_receipts).
ReadTold ==
  \A c \in Callers : (plan.does[c] # None /\ plan.does[c].do \in {"read_messages", "send_receipts"}) =>
    LET sent == call[c].got
        keys == plan.does[c].keys
        wanted == {i \in DOMAIN keys : keys[i].chat # None /\ keys[i].id # None /\ ~keys[i].from_me}
        under(i) == {k \in DOMAIN sent : /\ sent[k].to = keys[i].chat /\ sent[k].participant = keys[i].participant
                                        /\ keys[i].id \in ToSet(sent[k].ids)}
    IN /\ (sent # << >> /\ sent[1].type = "read" /\ plan.does[c].do = "read_messages") => c \in account.seen
       /\ \A i \in wanted : Cardinality(under(i)) <= 1 /\ (Ended(c, {"read_messages", "send_receipts"}, "ok") => under(i) # {})
       /\ \A k \in DOMAIN sent : \A id \in ToSet(sent[k].ids) : \E i \in wanted : keys[i].id = id /\ k \in under(i)

\* What happens in a channel is told once, by the event for it and in its order, whether the
\* notification is plain or by mex; only what names no message is left out.
ChannelTold ==
  LET named == Picked(account.said, {i \in DOMAIN account.said : account.said[i].what # None})
  IN /\ Len(account.told) = Len(named)
     /\ \A i \in DOMAIN named : \A field \in DOMAIN named[i] : account.told[i][field] = named[i][field]
=============================================================================
