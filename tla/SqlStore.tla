------------------------------ MODULE SqlStore ------------------------------
(***************************************************************************)
(* SQLiteEventStore and PostgresEventStore: tables, the transaction of a   *)
(* listener, what is announced after it, a listener that raises, and a     *)
(* crash of the process.  A listener runs without an await up to its       *)
(* commit; the announcements are awaited, so the event of another task can *)
(* be applied between a commit and its announcement.                       *)
(***************************************************************************)
EXTENDS StoreEvents, FiniteSets

CONSTANTS Backends,    \* "sqlite", "postgres"
          UserEvents,  \* events emitted by tasks of the application
          MaxEvents    \* bound: events begun

ASSUME SqlStoreAssumption ==
  /\ Backends \subseteq {"sqlite", "postgres"}
  /\ UserEvents \subseteq Events
  /\ MaxEvents \in Nat

Tasks == {"receive", "user"}
Tables == [messages : [Chats -> Seq(MsgIds \X Parts)],   \* in the order of their rowids
           chats : [Chats -> ChatRows],
           contacts : [Chats \cup Users -> ContactRows],
           updates : [Keys -> Updates],
           receipts : [Keys -> [Users -> Receipts]],
           reactions : Seq(Reactions)]
NoTx == [open |-> FALSE]

VARIABLES
  backend,  \* the store in use
  db,       \* the tables, committed
  tx,       \* the open transaction: its task, its event, items applied, its view of the tables,
            \* and of reacted and base
  pc,       \* what a task does: "idle" or "announcing"
  out,      \* the event a task announces
  begun,    \* events so far
  reacted,  \* reactions of the committed events
  told,     \* messages announced to the application
  base      \* unread count of a chat when a history chunk last set it

vars == <<backend, db, tx, pc, out, begun, reacted, told, base>>

TypeOK ==
  /\ backend \in Backends
  /\ db \in Tables
  /\ \/ tx = NoTx
     \/ tx \in [open : {TRUE}, task : Tasks, ev : Events, done : Nat, view : Tables,
            reacted : Seq(Reactions), base : [Chats -> 0..MaxUnread]]
  /\ pc \in [Tasks -> {"idle", "announcing"}]
  /\ out \in [Tasks -> Seq(Items)]
  /\ begun \in 0..MaxEvents
  /\ reacted \in Seq(Reactions)
  /\ told \subseteq Keys
  /\ base \in [Chats -> 0..MaxUnread]

NoTables ==
  [messages |-> [c \in Chats |-> <<>>],
   chats |-> [c \in Chats |-> NoChat],
   contacts |-> [c \in Chats \cup Users |-> NoContact],
   updates |-> [k \in Keys |-> <<>>],
   receipts |-> [k \in Keys |-> [u \in Users |-> <<>>]],
   reactions |-> <<>>]

Init ==
  /\ backend \in Backends
  /\ db = NoTables
  /\ tx = NoTx
  /\ pc = [t \in Tasks |-> "idle"]
  /\ out = [t \in Tasks |-> <<>>]
  /\ begun = 0
  /\ reacted = <<>>
  /\ told = {}
  /\ base = [c \in Chats |-> 0]

-----------------------------------------------------------------------------
HasReaction(item) == item.what = "live" /\ item.msg.reaction # NoReaction

(* One item inside the transaction: v is what the transaction sees.        *)

Existed(v, m) == <<m.id, m.part>> \in Range(v.messages[m.chat])

\* Insert, or overwrite the row in its place: the order of rowids stays.
UpsertMessage(v, m) ==
  IF Existed(v, m) THEN v
  ELSE [v EXCEPT !.messages[m.chat] = Append(@, <<m.id, m.part>>)]

\* NULLs are distinct in a key: a reaction without a time never meets its duplicate.
SaveReaction(rows, r) ==
  IF r = NoReaction \/ (r.at # 0 /\ r \in Range(rows)) THEN rows ELSE Append(rows, r)

SaveLive_counts_known(v, item) ==
  LET m == item.msg
  IN [UpsertMessage(v, m) EXCEPT
        !.chats[m.chat] = ChatAfterMessage(@, m, TRUE, item.notify),
        !.contacts[ContactId(m)] = ContactAfterMessage(@, m),
        !.reactions = SaveReaction(@, m.reaction)]

SaveLive(v, item) ==
  LET m == item.msg
  IN [UpsertMessage(v, m) EXCEPT
        !.chats[m.chat] = ChatAfterMessage(@, m, ~Existed(v, m), item.notify),
        !.contacts[ContactId(m)] = ContactAfterMessage(@, m),
        !.reactions = SaveReaction(@, m.reaction)]

SaveUpdate(v, item) ==
  [v EXCEPT !.updates[item.key] = Merge(@, item.fields),
            !.chats[item.key[1]] = ChatAfterUpdate(@, item)]

\* SQLite reads the old receipt through a connection of its own: it sees db, not v.
SaveReceipt(v, item) ==
  LET seen == IF backend = "sqlite" THEN db ELSE v
  IN [v EXCEPT !.receipts[item.key][item.user] = Merge(seen.receipts[item.key][item.user], item.fields)]

SaveHistory(v, item) ==
  CASE item.what = "chat" -> [v EXCEPT !.chats[item.chat] = ChatAfterHistory(@, item)]
    [] item.what = "contact" -> [v EXCEPT !.contacts[item.id] = ContactAfterHistory(@, item)]
    [] item.what = "old" -> UpsertMessage(v, item.msg)

Save(v, item) ==
  CASE item.what = "live" -> SaveLive(v, item)
    [] item.what = "update" -> SaveUpdate(v, item)
    [] item.what = "receipt" -> SaveReceipt(v, item)
    [] OTHER -> SaveHistory(v, item)

\* json.dumps takes no protobuf message.
NotJson(item) == item.what = "update" /\ "message" \in DOMAIN item.fields

\* The columns of a primary key are NOT NULL in Postgres.
NullKey(item) == backend = "postgres" /\ HasReaction(item) /\ item.msg.reaction.at = 0

Raises(item) == NotJson(item) \/ NullKey(item)

-----------------------------------------------------------------------------
(* The listeners.                                                          *)

\* emit calls the listener; the connection's context opens the transaction.
Begin(t) ==
  /\ tx = NoTx
  /\ pc[t] = "idle"
  /\ begun < MaxEvents
  /\ begun' = begun + 1
  /\ \E ev \in IF t = "user" THEN UserEvents ELSE Events \ UserEvents :
       tx' = [open |-> TRUE, task |-> t, ev |-> ev, done |-> 0, view |-> db,
              reacted |-> reacted, base |-> base]
  /\ UNCHANGED <<backend, db, pc, out, reacted, told, base>>

ApplyItem_autocommit ==
  /\ tx.open /\ tx.done < Len(tx.ev)
  /\ LET item == tx.ev[tx.done + 1]
     IN /\ ~Raises(item)
        /\ tx' = [tx EXCEPT !.done = @ + 1, !.view = Save(@, item)]
        /\ db' = Save(tx.view, item)
  /\ UNCHANGED <<backend, pc, out, begun, reacted, told, base>>

ApplyItem ==
  /\ tx.open /\ tx.done < Len(tx.ev)
  /\ LET item == tx.ev[tx.done + 1]
     IN /\ ~Raises(item)
        /\ tx' = [tx EXCEPT !.done = @ + 1,
                            !.view = Save(@, item),
                            !.reacted = IF HasReaction(item) THEN Append(@, item.msg.reaction) ELSE @,
                            !.base = IF item.what = "chat" THEN [@ EXCEPT ![item.chat] = item.unread]
                                     ELSE @]
  /\ UNCHANGED <<backend, db, pc, out, begun, reacted, told, base>>

\* The exception leaves the with block, which rolls back, and the call of emit.
Raise ==
  /\ tx.open /\ tx.done < Len(tx.ev)
  /\ Raises(tx.ev[tx.done + 1])
  /\ tx' = NoTx
  /\ UNCHANGED <<backend, db, pc, out, begun, reacted, told, base>>

Commit ==
  /\ tx.open /\ tx.done = Len(tx.ev)
  /\ db' = tx.view
  /\ tx' = NoTx
  /\ pc' = [pc EXCEPT ![tx.task] = "announcing"]
  /\ out' = [out EXCEPT ![tx.task] = tx.ev]
  /\ reacted' = tx.reacted
  /\ base' = tx.base
  /\ UNCHANGED <<backend, begun, told>>

LiveKeys(ev) == {KeyOf(ev[i].msg) : i \in {j \in DOMAIN ev : ev[j].what = "live"}}

Announce_inside(t) ==
  /\ tx.open /\ tx.task = t
  /\ told' = told \cup LiveKeys(tx.ev)
  /\ UNCHANGED <<backend, db, tx, pc, out, begun, reacted, base>>

\* chats.upsert and what follows it, for the messages of an upsert; then emit returns.
Announce(t) ==
  /\ tx = NoTx
  /\ pc[t] = "announcing"
  /\ told' = told \cup LiveKeys(out[t])
  /\ pc' = [pc EXCEPT ![t] = "idle"]
  /\ out' = [out EXCEPT ![t] = <<>>]
  /\ UNCHANGED <<backend, db, tx, begun, reacted, base>>

\* The process ends and starts again: an open transaction is rolled back.
Crash ==
  /\ tx' = NoTx
  /\ pc' = [t \in Tasks |-> "idle"]
  /\ out' = [t \in Tasks |-> <<>>]
  /\ UNCHANGED <<backend, db, begun, reacted, told, base>>

Next ==
  \/ \E t \in Tasks : Begin(t) \/ Announce(t)
  \/ ApplyItem
  \/ Raise
  \/ Commit
  \/ Crash

Spec == Init /\ [][Next]_vars

-----------------------------------------------------------------------------
\* Every event takes effect whole, once and in the order of the commits, as InMemoryStore
\* would apply it: neither a crash nor an exception leaves part of one, and the messages,
\* chats, contacts, updates and receipts come out the same (_upsert_message, _save_chat).
Memory == INSTANCE EventStore WITH
  book <- [messages |-> db.messages, chats |-> db.chats, contacts |-> db.contacts,
           updates |-> db.updates, receipts |-> db.receipts, reactions |-> reacted]

\* Its list of reactions has no rows of its own here: those of the database are the
\* reactions reported, and one with a time is there once (insert or ignore, on conflict do
\* nothing).
ReactionRows ==
  /\ Range(db.reactions) = Range(reacted)
  /\ \A i, j \in DOMAIN db.reactions :
       db.reactions[i] = db.reactions[j] /\ db.reactions[i].at # 0 => i = j
ImplementsMemory == Memory!Spec /\ [][ReactionRows']_vars

\* A message the application heard of through chats.upsert is in the database, after a
\* crash too: the listeners announce after the with block has committed.
ToldStored == \A k \in told : <<k[2], k[3]>> \in Range(db.messages[k[1]])

\* An unread count is backed by messages: what the last history chunk said and one for each
\* stored message of somebody else's, however often a message is delivered, and whether it
\* comes live, in a history chunk, or both (is_new in apply_messages_upsert).
FromOthers(c) == {m \in UNION {MessagesOf(ev) : ev \in Events} : m.chat = c /\ ~m.fromMe}
UnreadBacked == \A c \in Chats :
  db.chats[c].unread <=
    base[c] + Cardinality(Range(db.messages[c]) \cap {<<m.id, m.part>> : m \in FromOthers(c)})
=============================================================================
