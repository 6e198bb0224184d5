---------------------------- MODULE StoreEvents ----------------------------
(***************************************************************************)
(* What the event stores are told, and what a message or a history chunk   *)
(* does to a chat and a contact: the part InMemoryStore, SQLiteEventStore  *)
(* and PostgresEventStore have in common.  An event is the sequence of     *)
(* items its listener applies, in the order it applies them.               *)
(***************************************************************************)
EXTENDS Integers, Sequences, SequencesExt

CONSTANTS Chats,     \* jids of chats
          Users,     \* jids of people
          NoOne,     \* no participant: None in memory, '' in a table
          MsgIds,    \* message ids
          Names,     \* push names
          NoName,
          NoReaction,
          MaxStamp,  \* bound: timestamps
          MaxUnread, \* bound: the unread count of a history chunk
          Events     \* the events applied

Stamps == 0..MaxStamp       \* 0: None
Parts == Users \cup {NoOne}
Keys == Chats \X MsgIds \X Parts
DELIVERY_ACK == 3           \* WebMessageInfo.Status: ERROR 0 ... PLAYED 5
Reactions == [to : Keys, from : Users \cup Chats, at : Stamps]
Messages == [chat : Chats, id : MsgIds, part : Parts, fromMe : BOOLEAN, at : Stamps,
             name : Names \cup {NoName}, reaction : Reactions \cup {NoReaction}]

\* The fields an update or a receipt carries; "message" stands for a message's new content.
Dicts(fields, values) == UNION {[some -> values] : some \in SUBSET fields}
Updates == Dicts({"status", "message_timestamp", "message"}, Stamps \cup 0..5)
Receipts == Dicts({"receipt_timestamp", "read_timestamp"}, Stamps)

Items ==
  [what : {"live"}, msg : Messages, notify : BOOLEAN]                  \* messages.upsert
    \cup [what : {"update"}, key : Keys, fromMe : BOOLEAN, fields : Updates]   \* messages.update
    \cup [what : {"receipt"}, key : Keys, user : Users,
          fields : Receipts]                                           \* message-receipt.update
    \cup [what : {"chat"}, chat : Chats, at : Stamps, name : Names \cup {NoName},
          unread : 0..MaxUnread]                                       \* messaging-history.set
    \cup [what : {"contact"}, id : Chats \cup Users, name : Names \cup {NoName},
          notify : Names \cup {NoName}]
    \cup [what : {"old"}, msg : Messages]

MessagesOf(ev) == {ev[i].msg : i \in {j \in DOMAIN ev : ev[j].what \in {"live", "old"}}}

\* A chat's messages have ids of their own: an id names one sender's message.
ASSUME EventsAssumption ==
  /\ MaxStamp \in Nat /\ MaxUnread \in Nat
  /\ Events \subseteq Seq(Items)
  /\ \A m1, m2 \in UNION {MessagesOf(ev) : ev \in Events} :
       m1.chat = m2.chat /\ m1.id = m2.id => m1.part = m2.part /\ m1.fromMe = m2.fromMe

-----------------------------------------------------------------------------
ChatRows == [known : BOOLEAN, at : Stamps, unread : Nat, name : Names \cup {NoName}]
ContactRows == [known : BOOLEAN, name : Names \cup {NoName}, notify : Names \cup {NoName}]
NoChat == [known |-> FALSE, at |-> 0, unread |-> 0, name |-> NoName]
NoContact == [known |-> FALSE, name |-> NoName, notify |-> NoName]

Or(a, b) == IF a = NoName THEN b ELSE a
KeyOf(m) == <<m.chat, m.id, m.part>>
ContactId(m) == IF m.part = NoOne THEN m.chat ELSE m.part

\* dict.update: the fields of new over those of old.
Merge(old, new) == [f \in DOMAIN old \cup DOMAIN new |-> IF f \in DOMAIN new THEN new[f] ELSE old[f]]

ChatAfterMessage(chat, m, isNew, notify) ==
  [known |-> TRUE,
   at |-> IF m.at > chat.at THEN m.at ELSE chat.at,
   unread |-> chat.unread + (IF isNew /\ notify /\ ~m.fromMe THEN 1 ELSE 0),
   name |-> Or(chat.name, m.name)]

ContactAfterMessage(contact, m) ==
  IF m.name = NoName THEN contact
  ELSE [known |-> TRUE, name |-> Or(contact.name, m.name), notify |-> m.name]

\* Any status from DELIVERY_ACK on of a message of somebody else's clears the count.
ChatAfterUpdate(chat, item) ==
  IF /\ chat.known /\ ~item.fromMe
     /\ "status" \in DOMAIN item.fields /\ item.fields["status"] >= DELIVERY_ACK
  THEN [chat EXCEPT !.unread = 0] ELSE chat

ChatAfterHistory(chat, item) ==
  [known |-> TRUE,
   at |-> IF item.at = 0 THEN chat.at ELSE item.at,
   unread |-> item.unread,
   name |-> Or(item.name, chat.name)]

ContactAfterHistory(contact, item) ==
  [known |-> TRUE, name |-> Or(item.name, contact.name), notify |-> Or(item.notify, contact.notify)]
=============================================================================
