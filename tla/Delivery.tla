------------------------------ MODULE Delivery ------------------------------
(***************************************************************************)
(* Messages in both directions: send_message from the lookup of devices to *)
(* the answer its caller gets, the receive path's acks, receipts and       *)
(* events, and the retry receipts that make the client send a message      *)
(* again from its replay store.                                            *)
(*                                                                         *)
(* A caller sends one message, named by the caller.  The session table is  *)
(* the set of its keys, and a server node is a record (Receipts).  Nodes   *)
(* are received one at a time: what becomes of a batch is in Query.  A     *)
(* caller without a receive task reads the socket itself while it waits.   *)
(***************************************************************************)
EXTENDS Fanout, Replay, FiniteSets

CONSTANTS Callers,      \* calls of send_message
          Loop,         \* the receive task
          Plans,        \* bound: what runs together, [callers, sends, keys, stores, nodes, expired,
                        \* crashes]: how many calls, what they send (the chat, the content, and the
                        \* options direct, use_usync off, and wait, wait_for_ack), the keys a retry
                        \* receipt may carry, the replay stores there may be (memory, database), and how
                        \* often the server sends, a message's time in the store ends, the process stops
          Listings,     \* the device lists a server may answer with, by user
          Authors,      \* who sends the inbound messages
          MaxRetry,     \* config.max_msg_retry_count
          MaxInbox      \* bound: nodes on their way to the client

R == INSTANCE Receipts

\* How a call of send_message ends.
Results == {"acked", "refused", "unacked", "query", "sessions", "content", "send", "clash", "attribute",
            "handler"}

\* A restricted account's error is another error here: the timelock is only looked up for it.
AckKinds == {"ok", "error"}

\* A message that the server delivers, and how far a reader can be with it.
MessageOf(i, readable) == [tag |-> "message", id |-> i.user, author |-> i, readable |-> readable,
                           from |-> i, participant |-> None]
Dispatches == {[node |-> MessageOf(i, readable), step |-> s] :
                 i \in Authors, readable \in BOOLEAN, s \in {"ack", "ack500", "upsert"}}

ASSUME DeliveryAssumption ==
  /\ Loop \notin Callers /\ None \notin Callers \cup Results \cup AckKinds
  /\ None \notin Dispatches
  /\ \A p \in Plans : /\ p.keys \subseteq {None} \cup R!KeyParts
                       /\ p.stores \subseteq {"memory", "database"}
                       /\ {p.callers, p.nodes, p.expired, p.crashes} \subseteq Nat
                       /\ \A s \in p.sends : DOMAIN s = {"chat", "content", "direct", "wait"}
  /\ {MaxRetry, MaxInbox} \subseteq Nat

Readers == Callers \cup {Loop}
Chats == {s.chat : s \in UNION {p.sends : p \in Plans}}

VARIABLES
  loop,      \* a receive task runs
  plan,      \* what runs
  call,      \* the calls of send_message
  reader,    \* the caller that awaits the socket's next message
  at,        \* the node a reader dispatches, and how far it is
  inbox,     \* nodes of the server that were not received yet
  sessions,  \* signal_sessions of the credentials
  disk,      \* signal_sessions of the credential file
  recent,    \* the entries of the replay store
  counts,    \* _message_retry_counts
  opened,    \* inbound messages whose keys are used up, saved with the sessions
  \* history
  answered,  \* messages the server has acked
  heard,     \* when the ack of a message was dispatched
  expired,   \* messages whose time in the replay store is over, or ended with its memory
  undone,    \* calls whose new sessions another commit dropped before they were used
  served,    \* nodes of the server so far
  resent,    \* copies sent again, by message and requester
  acks,      \* inbound messages acked without an error
  emitted,   \* messages.upsert
  lost,      \* inbound messages dropped by a crash or a handler that raised
  updates,   \* keys of messages.update and message-receipt.update
  crashes

client == <<call, reader, at, sessions, disk, recent, counts, opened>>
history == <<answered, heard, expired, undone, served, resent, acks, emitted, lost, updates, crashes>>
fixed == <<loop, plan>>
vars == <<fixed, client, inbox, history>>

Idle == [pc |-> "idle", chat |-> None, content |-> None, direct |-> FALSE, wait |-> FALSE,
         own |-> << >>, others |-> << >>, work |-> {}, copies |-> << >>, ack |-> None, result |-> None]

Devices == {0} \cup {d.id : d \in UNION {UNION {ToSet(l[u]) : u \in DOMAIN l} : l \in Listings}}
Requesters == {jid_encode(u.user, u.server, d, None) :
                 u \in Chats \cup {MeId} \cup ({MeLid} \ {None}), d \in Devices}

\* Whose devices are looked up, and the addresses that copies go to.
Asked == MeUsers \cup {chat.user : chat \in {x \in Chats : ~is_jid_group(x)}}
Servers == {"lid", "s.whatsapp.net", "hosted", "hosted.lid"} \cup {chat.server : chat \in Chats}
Addresses == {jid_encode(u, server, d, agent) :
                u \in MeUsers \cup {chat.user : chat \in Chats}, server \in Servers, d \in Devices,
                agent \in {None} \cup {chat.agent : chat \in Chats}}

\* This device is a linked one, so not the first; a chat with ourselves has one of our two
\* addresses; and a list of the server names a user's first device, and each device once.
ASSUME AddressAssumption ==
  /\ None # 0 /\ MeId.device \notin {None, 0}
  /\ None \notin Chats \cup Addresses \cup {MeId}
  /\ \A chat \in Chats : chat.user \in MeUsers =>
       /\ ~is_jid_group(chat)
       /\ IF chat.server = "lid" THEN MeLid # None /\ chat.user = MeLid.user
          ELSE ~is_lid(chat) /\ chat.user = MeId.user
  /\ \A listing \in Listings, u \in Asked :
       /\ u \in DOMAIN listing /\ listing[u] # None /\ listing[u] \in Seq(ToSet(listing[u]))
       /\ \E i \in DOMAIN listing[u] : listing[u][i].id = 0
       /\ \A i, k \in DOMAIN listing[u] :
            listing[u][i].id = listing[u][k].id /\ listing[u][i].id # None => i = k

Init ==
  /\ loop \in BOOLEAN
  /\ plan \in Plans
  /\ call = [c \in Callers |-> Idle]
  /\ reader = None
  /\ at = [t \in Readers |-> None]
  /\ inbox = << >>
  /\ sessions = {}
  /\ disk = {}
  /\ recent = {}
  /\ counts = [k \in Callers \X Requesters |-> 0]
  /\ opened = {}
  /\ answered = {}
  /\ heard = [c \in Callers |-> "no"]
  /\ expired = {}
  /\ undone = {}
  /\ served = 0
  /\ resent = [k \in Callers \X Requesters |-> 0]
  /\ acks = {}
  /\ emitted = {}
  /\ lost = {}
  /\ updates = {}
  /\ crashes = 0

With(fields, record) == [f \in DOMAIN record |-> IF f \in DOMAIN fields THEN fields[f] ELSE record[f]]
Goes(c, fields) == call' = [call EXCEPT ![c] = With(fields, @)]
Ends(c, why) == Goes(c, [pc |-> "done", result |-> why])

-----------------------------------------------------------------------------
(* send_message: _build_outbound_message and relay_message                 *)

\* Encrypting for the devices is the last step before the send, and runs without an await.
Build(c, to, table) ==
  LET node == build_proto_message_node(table, to.chat, to.content, to.direct, to.own, to.others)
  IN IF node.error # None THEN Goes(c, [to EXCEPT !.pc = "done", !.result = node.error])
     ELSE Goes(c, [to EXCEPT !.pc = "sending", !.copies = node.copies])

\* The devices that need a session are asked for, on a copy of the table.
AssertSessions(c, to, jids, force) ==
  IF missing_session_jids(sessions, jids, force) = << >>
  THEN Build(c, to, sessions)
  ELSE Goes(c, [to EXCEPT !.pc = "sessions", !.work = sessions])

\* With use_usync the devices are looked up; without, the chat's first device gets the
\* only copy, and a group is not looked at.
send_message(c, send) ==
  /\ call[c].pc = "idle"
  /\ LET to == With(send, Idle)
         chat == send.chat
         first == <<jid_encode(chat.user, chat.server, 0, None)>>
     IN IF ~send.direct THEN Goes(c, [to EXCEPT !.pc = "lookup"])
        ELSE IF is_jid_group(chat) THEN Build(c, to, sessions)
        ELSE AssertSessions(c, [to EXCEPT !.others = first], first, FALSE)
  /\ UNCHANGED <<fixed, reader, at, inbox, sessions, disk, recent, counts, opened, history>>

\* The answer comes through the receive task, or to the caller that reads for itself.
Answers(c) == loop \/ reader = c
LetGo(c) == reader' = IF reader = c THEN None ELSE reader

\* The server lists the account, and the chat unless it is the account or a group.
Listed(chat, listing) ==
  LET ids == conversation_identities(chat)
      user(i) == [id |-> ids[i], devices |-> listing[ids[i].user]]
  IN IF ids[2].user = ids[1].user \/ is_jid_group(chat) THEN <<user(1)>> ELSE <<user(1), user(2)>>

LookupAnswer(c, listing) ==
  /\ call[c].pc = "lookup"
  /\ Answers(c)
  /\ LET split == Targets(call[c].chat, Listed(call[c].chat, listing))
     IN AssertSessions(c, [call[c] EXCEPT !.own = split.own, !.others = split.others],
               split.own \o split.others, FALSE)
  /\ LetGo(c)
  /\ UNCHANGED <<fixed, at, inbox, sessions, disk, recent, counts, opened, history>>

\* Mutant: the devices that were left without a session are not looked for.
SessionsAnswer_Partial(c, answer) ==
  /\ call[c].pc = "sessions"
  /\ Answers(c)
  /\ LET jids == call[c].own \o call[c].others
         injected == inject_sessions(call[c].work, answer)
     IN /\ DOMAIN answer \subseteq ToSet(missing_session_jids(call[c].work, jids, FALSE))
        /\ IF injected.raises
           THEN /\ Ends(c, "query")
                /\ UNCHANGED <<sessions, disk, undone>>
           ELSE /\ Goes(c, [pc |-> "committed"])
                /\ sessions' = injected.sessions
                /\ disk' = injected.sessions
                /\ undone' = undone \cup {d \in Callers \ {c} : call[d].pc = "committed"
                                                                /\ ~(sessions \subseteq sessions')}
  /\ LetGo(c)
  /\ UNCHANGED <<fixed, at, inbox, recent, counts, opened, answered, heard, expired, served, resent,
                 acks, emitted, lost, updates, crashes>>

\* A bundle or an error for each device, or for some only: the copy is committed when it
\* has one for each device, whatever was committed meanwhile.
SessionsAnswer(c, answer) ==
  /\ call[c].pc = "sessions"
  /\ Answers(c)
  /\ LET jids == call[c].own \o call[c].others
         injected == inject_sessions(call[c].work, answer)
     IN /\ DOMAIN answer \subseteq ToSet(missing_session_jids(call[c].work, jids, FALSE))
        /\ IF injected.raises \/ missing_session_jids_from_credentials(injected.sessions, jids) # << >>
           THEN /\ Ends(c, "query")
                /\ UNCHANGED <<sessions, disk, undone>>
           ELSE /\ Goes(c, [pc |-> "committed"])
                /\ sessions' = injected.sessions
                /\ disk' = injected.sessions
                /\ undone' = undone \cup {d \in Callers \ {c} : call[d].pc = "committed"
                                                                /\ ~(sessions \subseteq sessions')}
  /\ LetGo(c)
  /\ UNCHANGED <<fixed, at, inbox, recent, counts, opened, answered, heard, expired, served, resent,
                 acks, emitted, lost, updates, crashes>>

\* The handlers of creds.update have run.
Committed(c) ==
  /\ call[c].pc = "committed"
  /\ Build(c, call[c], sessions)
  /\ UNCHANGED <<fixed, reader, at, inbox, sessions, disk, recent, counts, opened, history>>

QueryFails(c) ==
  /\ call[c].pc \in {"lookup", "sessions"}
  /\ Ends(c, "query")
  /\ LetGo(c)
  /\ UNCHANGED <<fixed, at, inbox, sessions, disk, recent, counts, opened, history>>

\* send_node, then _commit_credentials, whose handlers may await.
Sent(c) ==
  /\ call[c].pc = "sending"
  /\ Goes(c, [pc |-> "saving"])
  /\ disk' = sessions
  /\ UNCHANGED <<fixed, reader, at, inbox, sessions, recent, counts, opened, history>>

SendFails(c) ==
  /\ call[c].pc = "sending"
  /\ Ends(c, "send")
  /\ UNCHANGED <<fixed, reader, at, inbox, sessions, disk, recent, counts, opened, history>>

\* Mutant: a node that is waited for is saved only when its ack has come.
save_recent_outbound_Late(c) ==
  /\ call[c].pc = "saving"
  /\ recent' = IF call[c].wait THEN recent ELSE Saved(recent, c)
  /\ IF call[c].wait THEN Goes(c, [pc |-> IF loop THEN "wait" ELSE "drive"])
     ELSE Ends(c, "unacked")
  /\ UNCHANGED <<fixed, reader, at, inbox, sessions, disk, counts, opened, history>>

\* save_recent_outbound, and the wait for the ack is set up.
save_recent_outbound(c) ==
  /\ call[c].pc = "saving"
  /\ recent' = Saved(recent, c)
  /\ IF call[c].wait THEN Goes(c, [pc |-> IF loop THEN "wait" ELSE "drive"])
     ELSE Ends(c, "unacked")
  /\ UNCHANGED <<fixed, reader, at, inbox, sessions, disk, counts, opened, history>>

\* Mutant: the timeout wins over a result that is there.
WaitTimeout_Wins(c) ==
  /\ call[c].pc = "wait"
  /\ Ends(c, "unacked")
  /\ UNCHANGED <<fixed, reader, at, inbox, sessions, disk, recent, counts, opened, history>>

\* asyncio.wait_for: a result that is there wins over the timeout.
WaitTimeout(c) ==
  /\ call[c].pc = "wait"
  /\ call[c].ack = None
  /\ Ends(c, "unacked")
  /\ UNCHANGED <<fixed, reader, at, inbox, sessions, disk, recent, counts, opened, history>>

\* The deadline of a caller that reads for itself: False is returned for a result, and
\* relay_message reads its acked.
DriveTimeout(c) ==
  /\ call[c].pc = "drive"
  /\ at[c] = None /\ call[c].ack = None
  /\ Ends(c, "attribute")
  /\ LetGo(c)
  /\ UNCHANGED <<fixed, at, inbox, sessions, disk, recent, counts, opened, history>>

\* The caller goes on with the ack: messages.update for an error and the timelock of a
\* restricted account, then messages.send, and the result.
Heard(c) ==
  /\ call[c].pc \in {"wait", "drive"}
  /\ at[c] = None
  /\ call[c].ack # None
  /\ Ends(c, IF call[c].ack = "ok" THEN "acked" ELSE "refused")
  /\ UNCHANGED <<fixed, reader, at, inbox, sessions, disk, recent, counts, opened, history>>

-----------------------------------------------------------------------------
(* Reading: the receive task, or callers that read while they wait          *)

Drives(c) == ~loop /\ call[c].pc \in {"lookup", "sessions", "drive"} /\ call[c].ack = None /\ at[c] = None

Recv(c) ==
  /\ Drives(c)
  /\ reader = None
  /\ reader' = c
  /\ UNCHANGED <<fixed, call, at, inbox, sessions, disk, recent, counts, opened, history>>

\* The websocket does not let two tasks receive at once.
RecvClash(c) ==
  /\ Drives(c)
  /\ reader \notin {None, c}
  /\ Ends(c, "clash")
  /\ UNCHANGED <<fixed, reader, at, inbox, sessions, disk, recent, counts, opened, history>>

Receives(t) == IF t = Loop THEN loop /\ at[Loop] = None ELSE reader = t

Listens(c) == call[c].pc = "wait" /\ call[c].ack = None

\* An ack reaches the listener of its message, or the caller that reads it and looks for
\* its own message's.
DispatchAck(t, n) ==
  LET c == n.id
      told == Listens(c) \/ (c = t /\ call[c].pc = "drive")
  IN /\ call' = IF told THEN [call EXCEPT ![c].ack = n.error] ELSE call
     /\ heard' = [heard EXCEPT ![c] = IF told THEN "waiting"
                                      ELSE IF call[c].pc \in {"sending", "saving"} THEN "early"
                                      ELSE "stray"]
     /\ UNCHANGED <<at, sessions, disk, recent, counts, opened>>

\* Mutant: the count before this request is compared.
DispatchRetry_Off(t, n, request) ==
  LET key == <<request.id, request.participant>>
      live == Found(recent, expired, request.id)
      refuses == ~request.from_me \/ counts[key] > MaxRetry
      reason == IF ~request.from_me THEN "not_from_me"
                ELSE IF refuses THEN "max_retries_exceeded"
                ELSE IF live THEN "resent" ELSE "message_unavailable"
  IN /\ counts' = [counts EXCEPT ![key] = @ + 1]
     /\ sessions' = R!inject_retry_session_from_receipt(sessions, request)
     /\ at' = [at EXCEPT ![t] = [node |-> n, request |-> request, reason |-> reason,
                                 step |-> IF reason = "resent" THEN "resend" ELSE "report"]]
     /\ recent' = IF refuses THEN recent ELSE AfterLoad(recent, expired, request.id)
     /\ UNCHANGED <<call, disk, opened, heard>>

\* A retry receipt is counted and its session put in the table before anything else; the
\* stored node is sent again if the message is ours and the count allows it.
DispatchRetry(t, n, request) ==
  LET key == <<request.id, request.participant>>
      live == Found(recent, expired, request.id)
      refuses == ~request.from_me \/ counts[key] + 1 > MaxRetry
      reason == IF ~request.from_me THEN "not_from_me"
                ELSE IF refuses THEN "max_retries_exceeded"
                ELSE IF live THEN "resent" ELSE "message_unavailable"
  IN /\ counts' = [counts EXCEPT ![key] = @ + 1]
     /\ sessions' = R!inject_retry_session_from_receipt(sessions, request)
     /\ at' = [at EXCEPT ![t] = [node |-> n, request |-> request, reason |-> reason,
                                 step |-> IF reason = "resent" THEN "resend" ELSE "report"]]
     /\ recent' = IF refuses THEN recent ELSE AfterLoad(recent, expired, request.id)
     /\ UNCHANGED <<call, disk, opened, heard>>

\* Decryption saves the sessions; a message whose key is used up cannot be read again.
DispatchMessage(t, n) ==
  LET i == n.author
      reads == n.readable /\ i \notin opened
  IN /\ sessions' = IF reads THEN sessions \cup {protocol_address(i)} ELSE sessions
     /\ disk' = IF reads THEN sessions' ELSE disk
     /\ opened' = IF reads THEN opened \cup {i} ELSE opened
     /\ at' = [at EXCEPT ![t] = [node |-> n, step |-> IF reads THEN "ack" ELSE "ack500"]]
     /\ UNCHANGED <<call, recent, counts, heard>>

\* Any other receipt is announced (messages.update, or message-receipt.update for groups
\* and the status) unless its type has no status, then acked.
Announced(n) ==
  LET info == R!parse_receipt_info(n)
  IN IF info = None \/ info.status = None THEN {}
     ELSE {[remote_jid |-> info.remote_jid, id |-> i, from_me |-> info.from_me,
            by |-> IF info.is_group_or_status /\ info.user_jid # None /\ info.timestamp_key # None
                   THEN info.user_jid ELSE None] : i \in ToSet(info.ids)}

DispatchReceipt(n) ==
  /\ updates' = updates \cup Announced(n)
  /\ UNCHANGED <<at, call, sessions, disk, recent, counts, opened, heard>>

Receive(t) ==
  /\ Receives(t)
  /\ inbox # << >>
  /\ inbox' = Tail(inbox)
  /\ IF t = Loop THEN UNCHANGED reader ELSE reader' = None
  /\ LET n == Head(inbox) IN
     \/ n.tag = "ack" /\ DispatchAck(t, n) /\ UNCHANGED updates
     \/ n.tag = "message" /\ DispatchMessage(t, n) /\ UNCHANGED updates
     \/ /\ n.tag = "receipt"
        /\ IF R!parse_retry_request(n) = None THEN DispatchReceipt(n)
           ELSE DispatchRetry(t, n, R!parse_retry_request(n)) /\ UNCHANGED updates
  /\ UNCHANGED <<fixed, answered, expired, undone, served, resent, acks, emitted, lost, crashes>>

Step(t, step) == at[t] # None /\ at[t].step = step
Then(t, step) == at' = [at EXCEPT ![t].step = step]
Dispatched(t) == at' = [at EXCEPT ![t] = None]

resend_message_for_retry(t) ==
  /\ Step(t, "resend")
  /\ resent' = [resent EXCEPT ![<<at[t].request.id, at[t].request.participant>>] = @ + 1]
  /\ Then(t, "report")
  /\ UNCHANGED <<fixed, call, reader, inbox, sessions, disk, recent, counts, opened, answered, heard, expired,
                 undone, served, acks, emitted, lost, updates, crashes>>

ResendFails(t) ==
  /\ Step(t, "resend")
  /\ at' = [at EXCEPT ![t].step = "report", ![t].reason = "resend_error"]
  /\ UNCHANGED <<fixed, call, reader, inbox, sessions, disk, recent, counts, opened, history>>

\* messages.retry, the session of a bundle is saved, and the receipt is acked.
ReportRetry(t) ==
  /\ Step(t, "report")
  /\ disk' = IF R!extract_retry_session_bundle(at[t].request) # None THEN sessions ELSE disk
  /\ Dispatched(t)
  /\ UNCHANGED <<fixed, call, reader, inbox, sessions, recent, counts, opened, history>>

\* Mutant: the failure of an ack ends the dispatch.
send_ack_Ends(t, ok) ==
  /\ Step(t, "ack")
  /\ R!can_ack_node(at[t].node)
  /\ IF ok THEN Then(t, "upsert") ELSE Dispatched(t)
  /\ acks' = IF ok THEN acks \cup {at[t].node.author} ELSE acks
  /\ UNCHANGED <<fixed, call, reader, inbox, sessions, disk, recent, counts, opened, answered, heard, expired,
                 undone, served, resent, emitted, lost, updates, crashes>>

\* send_ack: a failure is announced as ack.error and the dispatch goes on.
send_ack(t, ok) ==
  /\ Step(t, "ack")
  /\ R!can_ack_node(at[t].node)
  /\ Then(t, "upsert")
  /\ acks' = IF ok THEN acks \cup {at[t].node.author} ELSE acks
  /\ UNCHANGED <<fixed, call, reader, inbox, sessions, disk, recent, counts, opened, answered, heard, expired,
                 undone, served, resent, emitted, lost, updates, crashes>>

\* A message that does not decrypt is acked with error 500 and announced as such.
DecryptError(t) ==
  /\ Step(t, "ack500")
  /\ Dispatched(t)
  /\ UNCHANGED <<fixed, call, reader, inbox, sessions, disk, recent, counts, opened, history>>

Upsert(t) ==
  /\ Step(t, "upsert")
  /\ emitted' = emitted \cup {at[t].node.author}
  /\ Dispatched(t)
  /\ UNCHANGED <<fixed, call, reader, inbox, sessions, disk, recent, counts, opened, answered, heard, expired,
                 undone, served, resent, acks, lost, updates, crashes>>

\* A handler of messages.upsert raises, through receive_nodes into the reader: a caller
\* that reads for itself gets the exception for its own message.
UpsertRaises(t) ==
  /\ Step(t, "upsert")
  /\ lost' = lost \cup {at[t].node.author}
  /\ Dispatched(t)
  /\ IF t = Loop THEN UNCHANGED call ELSE Ends(t, "handler")
  /\ UNCHANGED <<fixed, reader, inbox, sessions, disk, recent, counts, opened, answered, heard, expired, undone,
                 served, resent, acks, emitted, updates, crashes>>

-----------------------------------------------------------------------------
(* The server, time and crashes                                            *)

HasRoom == Len(inbox) < MaxInbox /\ served < plan.nodes
OnWire(n) ==
  /\ inbox' = Append(inbox, n)
  /\ served' = served + 1
IsOut(c) == call[c].copies # << >> /\ call[c].pc # "sending" /\ call[c].result # "send"

ServerAcks(c, kind) ==
  /\ IsOut(c)
  /\ c \notin answered
  /\ answered' = answered \cup {c}
  /\ OnWire([tag |-> "ack", id |-> c, error |-> kind])
  /\ UNCHANGED <<fixed, client, heard, expired, undone, resent, acks, emitted, lost, updates, crashes>>

\* A device that got a copy answers: the receipt of a group is from the group and names
\* the device, and our own devices name the chat as the recipient.
ReceiptOf(c, copy, type, keys) ==
  LET chat == call[c].chat
      grouped == is_jid_group(chat) /\ ~copy.wrapped
  IN [tag |-> "receipt", type |-> type, retry |-> type = "retry", id |-> c, more |-> << >>, keys |-> keys,
      from |-> IF grouped THEN chat ELSE copy.jid,
      participant |-> IF grouped THEN copy.jid ELSE None,
      recipient |-> IF copy.jid.user \in MeUsers THEN chat ELSE None]

\* It got the message, showed it, or, if it is our own, keeps it as sent.
ServerReceipts(c, copy, type) ==
  /\ IsOut(c)
  /\ type \in (IF copy.jid.user \in MeUsers THEN {"sender"} ELSE {None, "read", "inactive"})
  /\ OnWire(ReceiptOf(c, copy, type, None))
  /\ UNCHANGED <<fixed, client, answered, heard, expired, undone, resent, acks, emitted, lost, updates, crashes>>

\* It could not read it, and asks for it again, with the keys of a new session, all or some, or without;
\* a request for a message that was not ours has a recipient and another sender.
ServerRetries(c, copy, keys, ours) ==
  /\ IsOut(c)
  /\ ours \/ ~copy.wrapped
  /\ OnWire([ReceiptOf(c, copy, "retry", keys) EXCEPT !.recipient = IF ours THEN @ ELSE MeId])
  /\ UNCHANGED <<fixed, client, answered, heard, expired, undone, resent, acks, emitted, lost, updates, crashes>>

\* A message is delivered until it is acked, after a loss of the connection again.
ServerDelivers(i, readable) ==
  /\ i \notin acks
  /\ \A k \in DOMAIN inbox : inbox[k].tag # "message"
  /\ \A t \in Readers : at[t] # None => at[t].node.tag # "message"
  /\ OnWire(MessageOf(i, readable))
  /\ UNCHANGED <<fixed, client, answered, heard, expired, undone, resent, acks, emitted, lost, updates, crashes>>

\* replay_ttl_seconds pass.
Expire(c) ==
  /\ c \in recent \ expired
  /\ Cardinality(expired) < plan.expired
  /\ expired' = expired \cup {c}
  /\ UNCHANGED <<fixed, client, inbox, answered, heard, undone, served, resent, acks, emitted, lost, updates, crashes>>

\* prune_recent_outbound: what has expired is removed.
Prune ==
  /\ recent \cap expired # {}
  /\ recent' = Pruned(recent, expired)
  /\ UNCHANGED <<fixed, call, reader, at, inbox, sessions, disk, counts, opened, history>>

\* The process stops and starts again: the credential file and a replay store in a database
\* remain, one in memory and what was being dispatched are lost.
Crash(store) ==
  /\ crashes' = crashes + 1
  /\ call' = [c \in Callers |-> IF call[c].pc \in {"idle", "done"} THEN call[c]
                                ELSE [call[c] EXCEPT !.pc = "dead"]]
  /\ reader' = None
  /\ at' = [t \in Readers |-> None]
  /\ inbox' = << >>
  /\ sessions' = disk
  /\ recent' = AfterRestart(store, recent)
  /\ expired' = expired \cup (recent \ recent')
  /\ counts' = [k \in DOMAIN counts |-> 0]
  /\ lost' = lost \cup ({i \in opened : \E t \in Readers : at[t] # None /\ at[t].node.tag = "message"
                                                         /\ at[t].node.author = i} \ emitted)
  /\ UNCHANGED <<fixed, disk, opened, answered, heard, undone, served, resent, acks,
                 emitted, updates>>

-----------------------------------------------------------------------------
Caller(c) ==
  \/ /\ call[c].pc = "idle"
     /\ Cardinality({d \in Callers : call[d].pc # "idle"}) < plan.callers
     /\ \E send \in plan.sends : send_message(c, send)
  \/ call[c].pc = "lookup" /\ \E listing \in Listings : LookupAnswer(c, listing)
  \/ /\ call[c].pc = "sessions"
     /\ \E users \in SUBSET ToSet(call[c].own \o call[c].others) :
          \E answer \in [users -> {None} \cup BundleParts] : SessionsAnswer(c, answer)
  \/ Committed(c) \/ QueryFails(c) \/ Sent(c) \/ SendFails(c)
  \/ save_recent_outbound(c) \/ WaitTimeout(c) \/ DriveTimeout(c)
  \/ Heard(c)
  \/ Recv(c) \/ RecvClash(c)

Dispatch(t) ==
  \/ Receive(t) \/ resend_message_for_retry(t) \/ ResendFails(t) \/ ReportRetry(t)
  \/ \E ok \in BOOLEAN : send_ack(t, ok)
  \/ DecryptError(t) \/ Upsert(t) \/ UpsertRaises(t)

Environment ==
  \/ /\ HasRoom
     /\ \/ \E c \in Callers : \E kind \in AckKinds : ServerAcks(c, kind)
        \/ \E c \in Callers : \E copy \in ToSet(call[c].copies) :
             \/ \E keys \in plan.keys, ours \in BOOLEAN : ServerRetries(c, copy, keys, ours)
             \/ \E type \in {None, "read", "inactive", "sender"} : ServerReceipts(c, copy, type)
        \/ \E i \in Authors, readable \in BOOLEAN : ServerDelivers(i, readable)
  \/ \E c \in Callers : Expire(c)
  \/ Prune
  \/ crashes < plan.crashes /\ \E store \in plan.stores : Crash(store)

Next ==
  \/ \E c \in Callers : Caller(c)
  \/ \E t \in Readers : Dispatch(t)
  \/ Environment

Spec == Init /\ [][Next]_vars

-----------------------------------------------------------------------------
(* Properties                                                              *)

\* What a caller is told of its message's ack: one dispatched while it waited is reported,
\* as a success or a refusal as the server said; a call that ends without one can only have
\* missed it because it was dispatched before the wait was set up, or read by somebody else.
AckTold ==
  \A c \in Callers :
    /\ heard[c] = "waiting" /\ call[c].pc = "done" =>
         call[c].result \in {"handler"} \cup (IF call[c].ack = "ok" THEN {"acked"} ELSE {"refused"})
    /\ call[c].result \in {"acked", "refused"} => c \in answered /\ heard[c] = "waiting"
    /\ call[c].result \in {"unacked", "attribute"} => heard[c] # "waiting"

\* A message is sent again at most max_msg_retry_count times to each device that asks, for
\* every life of the process: the counts start again with it.
RetryLimit ==
  \A k \in DOMAIN resent : resent[k] <= MaxRetry * (crashes + 1)

\* A retry receipt for a message of ours is refused as unavailable only if the message's
\* time in the replay store is over, or its sender has not got to save it: neither the
\* end of the call takes it away, nor, from a database, a restart of the process.
RefusedRightly ==
  \A t \in Readers :
    at[t] = None /\ at'[t] # None /\ at'[t].step = "report" /\ at'[t].reason = "message_unavailable" =>
      LET c == at'[t].request.id
      IN c \in expired \/ call[c].pc = "saving" \/ (call[c].pc = "dead" /\ c \notin recent)
RetryServed == [][RefusedRightly]_vars

\* A message whose decryption used up its key reaches the application, unless the process
\* died or a handler raised between the two.
InboundKept ==
  \A i \in opened :
    i \in emitted \cup lost \/ \E t \in Readers : at[t] # None /\ at[t].node.tag = "message"
                                                 /\ at[t].node.author = i

\* A receipt for a message of ours is announced under the key the message has, whichever of
\* the devices, ours or theirs, it is from.
ReceiptsOurs ==
  \A u \in updates : u.from_me /\ are_jids_same_user(u.remote_jid, call[u.id].chat)

\* Each device gets one copy, this one none, our others the wrapped one; only a message to
\* ourselves has two for a device.
OneCopyEach ==
  \A c \in Callers :
    LET copies == call[c].copies IN
      /\ \A i \in DOMAIN copies : copies[i].jid # MeId
      /\ call[c].chat # None /\ call[c].chat.user \notin MeUsers =>
           /\ \A i, k \in DOMAIN copies : copies[i].jid = copies[k].jid => i = k
           /\ ~call[c].direct => \A i \in DOMAIN copies : copies[i].wrapped <=> copies[i].jid.user \in MeUsers

\* A send that has asked for sessions fails for the lack of one only if it is for a group,
\* or if another commit put a copy without them in the place of the table meanwhile.
SessionsKept ==
  \A c \in Callers :
    call[c].result = "sessions" => is_jid_group(call[c].chat) \/ c \in undone
=============================================================================
