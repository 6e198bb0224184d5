--------------------------- MODULE SqlStoreProofs ---------------------------
(***************************************************************************)
(* Type correctness of SqlStore, that what was announced is stored, and    *)
(* that unread counts are backed by stored messages.                       *)
(***************************************************************************)
EXTENDS SqlStore, FiniteSetTheorems, TLAPS

\* The items of an event are items.
LEMMA ItemOfEvent ==
  ASSUME NEW ev \in Events, NEW i \in DOMAIN ev
  PROVE ev[i] \in Items
BY EventsAssumption

\* dict.update keeps a dictionary with some of the fields such a dictionary.
LEMMA MergeTyped ==
  ASSUME NEW F, NEW V, NEW old \in Dicts(F, V), NEW new \in Dicts(F, V)
  PROVE Merge(old, new) \in Dicts(F, V)
<1>1. PICK S1 \in SUBSET F : old \in [S1 -> V]
  BY DEF Dicts
<1>2. PICK S2 \in SUBSET F : new \in [S2 -> V]
  BY DEF Dicts
<1>3. Merge(old, new) \in [S1 \cup S2 -> V]
  BY <1>1, <1>2 DEF Merge
<1> QED
  BY <1>3 DEF Dicts

\* The message of an item is a message.
LEMMA MessageOfItem ==
  ASSUME NEW item \in Items, item.what \in {"live", "old"}
  PROVE item.msg \in Messages /\ (item.what = "live" => item.notify \in BOOLEAN)
BY DEF Items

\* What the chat helpers return are chats.
LEMMA ChatsTyped ==
  ASSUME NEW chat \in ChatRows
  PROVE /\ \A m \in Messages : \A isNew, notify \in BOOLEAN : ChatAfterMessage(chat, m, isNew, notify) \in ChatRows
        /\ \A item \in Items : item.what = "update" => ChatAfterUpdate(chat, item) \in ChatRows
        /\ \A item \in Items : item.what = "chat" => ChatAfterHistory(chat, item) \in ChatRows
<1>1. ASSUME NEW m \in Messages, NEW isNew \in BOOLEAN, NEW notify \in BOOLEAN
      PROVE ChatAfterMessage(chat, m, isNew, notify) \in ChatRows
  BY <1>1 DEF ChatAfterMessage, ChatRows, Messages, Stamps, Or
<1>2. ASSUME NEW item \in Items, item.what = "update"
      PROVE ChatAfterUpdate(chat, item) \in ChatRows
  BY <1>2 DEF ChatAfterUpdate, ChatRows
<1>3. ASSUME NEW item \in Items, item.what = "chat"
      PROVE ChatAfterHistory(chat, item) \in ChatRows
  <2>1. item.at \in Stamps /\ item.name \in Names \cup {NoName} /\ item.unread \in 0..MaxUnread
    BY <1>3 DEF Items
  <2> QED
    BY <2>1 DEF ChatAfterHistory, ChatRows, Or
<1> QED
  BY <1>1, <1>2, <1>3

\* What the contact helpers return are contacts.
LEMMA ContactsTyped ==
  ASSUME NEW contact \in ContactRows
  PROVE /\ \A m \in Messages : ContactAfterMessage(contact, m) \in ContactRows
        /\ \A item \in Items : item.what = "contact" => ContactAfterHistory(contact, item) \in ContactRows
<1>1. ASSUME NEW m \in Messages
      PROVE ContactAfterMessage(contact, m) \in ContactRows
  BY <1>1 DEF ContactAfterMessage, ContactRows, Messages, Or
<1>2. ASSUME NEW item \in Items, item.what = "contact"
      PROVE ContactAfterHistory(contact, item) \in ContactRows
  <2>1. item.name \in Names \cup {NoName} /\ item.notify \in Names \cup {NoName}
    BY <1>2 DEF Items
  <2> QED
    BY <2>1 DEF ContactAfterHistory, ContactRows, Or
<1> QED
  BY <1>1, <1>2

-----------------------------------------------------------------------------
(* The tables keep their type.                                             *)

\* Adding a row of a message.
LEMMA UpsertTyped ==
  ASSUME NEW v \in Tables, NEW m \in Messages
  PROVE UpsertMessage(v, m) \in Tables
<1>1. m.chat \in Chats /\ <<m.id, m.part>> \in MsgIds \X Parts
  BY DEF Messages
<1>2. Append(v.messages[m.chat], <<m.id, m.part>>) \in Seq(MsgIds \X Parts)
  BY <1>1 DEF Tables
<1> QED
  BY <1>1, <1>2 DEF UpsertMessage, Tables

\* One item in a transaction.
LEMMA SaveTyped ==
  ASSUME NEW v \in Tables, NEW item \in Items, db \in Tables
  PROVE Save(v, item) \in Tables
<1>1. CASE item.what = "live"
  <2> DEFINE m == item.msg
             w == UpsertMessage(v, m)
  <2>1. m \in Messages /\ item.notify \in BOOLEAN
    BY <1>1, MessageOfItem
  <2>2. w \in Tables
    BY <2>1, UpsertTyped
  <2> HIDE DEF w
  <2>3. m.chat \in Chats /\ ContactId(m) \in Chats \cup Users
    BY <2>1 DEF Messages, ContactId, Parts
  <2>4. Existed(v, m) \in BOOLEAN
    BY DEF Existed
  <2>5. ChatAfterMessage(w.chats[m.chat], m, ~Existed(v, m), item.notify) \in ChatRows
    <3>1. w.chats[m.chat] \in ChatRows
      BY <2>2, <2>3 DEF Tables
    <3> QED
      BY <3>1, <2>1, <2>4, ChatsTyped
  <2>6. ContactAfterMessage(w.contacts[ContactId(m)], m) \in ContactRows
    <3>1. w.contacts[ContactId(m)] \in ContactRows
      BY <2>2, <2>3 DEF Tables
    <3> QED
      BY <3>1, <2>1, ContactsTyped
  <2>7. SaveReaction(w.reactions, m.reaction) \in Seq(Reactions)
    <3>1. w.reactions \in Seq(Reactions) /\ m.reaction \in Reactions \cup {NoReaction}
      BY <2>1, <2>2 DEF Tables, Messages
    <3> QED
      BY <3>1 DEF SaveReaction
  <2>8. Save(v, item) = SaveLive(v, item)
    BY <1>1 DEF Save
  <2> DEFINE chats == [w.chats EXCEPT ![m.chat] =
                         ChatAfterMessage(w.chats[m.chat], m, ~Existed(v, m), item.notify)]
             contacts == [w.contacts EXCEPT ![ContactId(m)] =
                            ContactAfterMessage(w.contacts[ContactId(m)], m)]
             reactions == SaveReaction(w.reactions, m.reaction)
  <2>9. SaveLive(v, item) = [w EXCEPT !.chats = chats, !.contacts = contacts, !.reactions = reactions]
    BY <2>2 DEF SaveLive, w, Tables
  <2>10. chats \in [Chats -> ChatRows] /\ contacts \in [Chats \cup Users -> ContactRows]
    BY <2>2, <2>3, <2>5, <2>6 DEF Tables
  <2>11. reactions \in Seq(Reactions)
    BY <2>7
  <2> HIDE DEF chats, contacts, reactions
  <2>12. [w EXCEPT !.chats = chats, !.contacts = contacts, !.reactions = reactions] \in Tables
    BY <2>2, <2>10, <2>11 DEF Tables
  <2> QED
    BY <2>8, <2>9, <2>12
<1>2. CASE item.what = "update"
  <2>1. item.key \in Keys /\ item.fields \in Updates
    BY <1>2 DEF Items
  <2>2. item.key[1] \in Chats
    BY <2>1 DEF Keys
  <2>3. Merge(v.updates[item.key], item.fields) \in Updates
    BY <2>1, MergeTyped DEF Tables, Updates
  <2>4. ChatAfterUpdate(v.chats[item.key[1]], item) \in ChatRows
    <3>1. v.chats[item.key[1]] \in ChatRows
      BY <2>2 DEF Tables
    <3> QED
      BY <3>1, <1>2, ChatsTyped
  <2>5. Save(v, item) = SaveUpdate(v, item)
    BY <1>2 DEF Save
  <2>6. /\ [v.updates EXCEPT ![item.key] = Merge(v.updates[item.key], item.fields)] \in [Keys -> Updates]
        /\ [v.chats EXCEPT ![item.key[1]] = ChatAfterUpdate(v.chats[item.key[1]], item)]
             \in [Chats -> ChatRows]
    BY <2>1, <2>2, <2>3, <2>4 DEF Tables
  <2> QED
    BY <2>5, <2>6 DEF SaveUpdate, Tables
<1>3. CASE item.what = "receipt"
  <2>1. item.key \in Keys /\ item.user \in Users /\ item.fields \in Receipts
    BY <1>3 DEF Items
  <2> DEFINE seen == IF backend = "sqlite" THEN db ELSE v
  <2>2. seen.receipts[item.key][item.user] \in Receipts
    BY <2>1 DEF Tables
  <2>3. Merge(seen.receipts[item.key][item.user], item.fields) \in Receipts
    BY <2>1, <2>2, MergeTyped DEF Receipts
  <2>4. Save(v, item) = SaveReceipt(v, item)
    BY <1>3 DEF Save
  <2>5. SaveReceipt(v, item) =
          [v EXCEPT !.receipts[item.key][item.user] = Merge(seen.receipts[item.key][item.user], item.fields)]
    BY DEF SaveReceipt
  <2> HIDE DEF seen
  <2> DEFINE new == [v.receipts EXCEPT ![item.key][item.user] =
                       Merge(seen.receipts[item.key][item.user], item.fields)]
  <2>6. new \in [Keys -> [Users -> Receipts]]
    BY <2>1, <2>3 DEF Tables
  <2>7. SaveReceipt(v, item) = [v EXCEPT !.receipts = new]
    BY <2>5 DEF Tables
  <2> HIDE DEF new
  <2> QED
    BY <2>4, <2>6, <2>7 DEF Tables
<1>4. CASE item.what = "chat"
  <2>1. item.chat \in Chats
    BY <1>4 DEF Items
  <2>2. ChatAfterHistory(v.chats[item.chat], item) \in ChatRows
    <3>1. v.chats[item.chat] \in ChatRows
      BY <2>1 DEF Tables
    <3> QED
      BY <3>1, <1>4, ChatsTyped
  <2>3. Save(v, item) = [v EXCEPT !.chats[item.chat] = ChatAfterHistory(@, item)]
    BY <1>4 DEF Save, SaveHistory
  <2>4. [v.chats EXCEPT ![item.chat] = ChatAfterHistory(v.chats[item.chat], item)] \in [Chats -> ChatRows]
    BY <2>1, <2>2 DEF Tables
  <2> QED
    BY <2>3, <2>4 DEF Tables
<1>5. CASE item.what = "contact"
  <2>1. item.id \in Chats \cup Users
    BY <1>5 DEF Items
  <2>2. ContactAfterHistory(v.contacts[item.id], item) \in ContactRows
    <3>1. v.contacts[item.id] \in ContactRows
      BY <2>1 DEF Tables
    <3> QED
      BY <3>1, <1>5, ContactsTyped
  <2>3. Save(v, item) = [v EXCEPT !.contacts[item.id] = ContactAfterHistory(@, item)]
    BY <1>5 DEF Save, SaveHistory
  <2>4. [v.contacts EXCEPT ![item.id] = ContactAfterHistory(v.contacts[item.id], item)] \in [Chats \cup Users -> ContactRows]
    BY <2>1, <2>2 DEF Tables
  <2> QED
    BY <2>3, <2>4 DEF Tables
<1>6. CASE item.what = "old"
  <2>1. Save(v, item) = UpsertMessage(v, item.msg)
    BY <1>6 DEF Save, SaveHistory
  <2> QED
    BY <2>1, <1>6, MessageOfItem, UpsertTyped
<1>7. item.what \in {"live", "update", "receipt", "chat", "contact", "old"}
  BY DEF Items
<1> QED
  BY <1>1, <1>2, <1>3, <1>4, <1>5, <1>6, <1>7

-----------------------------------------------------------------------------
(* What an item does to the rows of messages, and to unread counts.        *)

Stored(v, k) == <<k[2], k[3]>> \in Range(v.messages[k[1]])
Others(c) == {<<m.id, m.part>> : m \in FromOthers(c)}
Backed(v, b) ==
  \A c \in Chats : v.chats[c].unread <= b[c] + Cardinality(Range(v.messages[c]) \cap Others(c))

\* Appending to a sequence adds the element to its range.
LEMMA RangeAppend ==
  ASSUME NEW S, NEW q \in Seq(S), NEW e \in S
  PROVE Range(Append(q, e)) = Range(q) \cup {e}
<1> DEFINE r == Append(q, e)
<1>1. /\ DOMAIN q = 1..Len(q) /\ DOMAIN r = 1..(Len(q) + 1) /\ Len(q) \in Nat
      /\ \A i \in 1..Len(q) : r[i] = q[i]
      /\ r[Len(q) + 1] = e
  OBVIOUS
<1> HIDE DEF r
<1>2. Range(r) \subseteq Range(q) \cup {e}
  <2>1. ASSUME NEW i \in DOMAIN r
        PROVE r[i] \in Range(q) \cup {e}
    <3>1. i \in 1..Len(q) \/ i = Len(q) + 1
      BY <1>1, <2>1
    <3> QED
      BY <1>1, <3>1 DEF Range
  <2> QED
    BY <2>1 DEF Range
<1>3. Range(q) \subseteq Range(r)
  <2>1. \A i \in DOMAIN q : i \in DOMAIN r /\ r[i] = q[i]
    BY <1>1
  <2> QED
    BY <2>1 DEF Range
<1>4. e \in Range(r)
  <2>1. Len(q) + 1 \in DOMAIN r
    BY <1>1
  <2> QED
    BY <1>1, <2>1 DEF Range
<1> QED
  BY <1>2, <1>3, <1>4 DEF r

\* The range of a sequence is finite.
LEMMA RangeFinite ==
  ASSUME NEW S, NEW q \in Seq(S)
  PROVE IsFiniteSet(Range(q))
<1>1. q \in Surjection(1..Len(q), Range(q))
  BY DEF Surjection, Range
<1>2. IsFiniteSet(1..Len(q))
  BY FS_Interval
<1> QED
  BY <1>1, <1>2, FS_Surjection

\* The rows of an item's message are added, and no rows go away.
LEMMA UpsertRows ==
  ASSUME NEW v \in Tables, NEW m \in Messages
  PROVE /\ \A c \in Chats : Range(UpsertMessage(v, m).messages[c]) =
             Range(v.messages[c]) \cup (IF c = m.chat THEN {<<m.id, m.part>>} ELSE {})
        /\ UpsertMessage(v, m).chats = v.chats
<1>1. m.chat \in Chats /\ <<m.id, m.part>> \in MsgIds \X Parts
  BY DEF Messages
<1>2. Range(Append(v.messages[m.chat], <<m.id, m.part>>)) = Range(v.messages[m.chat]) \cup {<<m.id, m.part>>}
  <2>1. v.messages[m.chat] \in Seq(MsgIds \X Parts)
    BY <1>1 DEF Tables
  <2> QED
    BY <1>1, <2>1, RangeAppend
<1>3. CASE Existed(v, m)
  <2>1. UpsertMessage(v, m) = v
    BY <1>3 DEF UpsertMessage
  <2> QED
    BY <2>1, <1>3 DEF Existed
<1>4. CASE ~Existed(v, m)
  <2>1. UpsertMessage(v, m) = [v EXCEPT !.messages[m.chat] = Append(@, <<m.id, m.part>>)]
    BY <1>4 DEF UpsertMessage
  <2>2. /\ UpsertMessage(v, m).messages = [v.messages EXCEPT ![m.chat] = Append(@, <<m.id, m.part>>)]
        /\ UpsertMessage(v, m).chats = v.chats
    BY <2>1 DEF Tables
  <2>3. \A c \in Chats : UpsertMessage(v, m).messages[c] =
          IF c = m.chat THEN Append(v.messages[m.chat], <<m.id, m.part>>) ELSE v.messages[c]
    BY <2>2, <1>1 DEF Tables
  <2> QED
    BY <2>2, <2>3, <1>2
<1> QED
  BY <1>3, <1>4

\* What Save does to the messages and the chats of the tables, kind by kind.
LEMMA SaveRows ==
  ASSUME NEW v \in Tables, NEW item \in Items
  PROVE /\ item.what \in {"live", "old"} => Save(v, item).messages = UpsertMessage(v, item.msg).messages
        /\ item.what \notin {"live", "old"} => Save(v, item).messages = v.messages
        /\ item.what \in {"receipt", "contact", "old"} => Save(v, item).chats = v.chats
        /\ item.what = "live" => Save(v, item).chats =
             [v.chats EXCEPT ![item.msg.chat] =
                ChatAfterMessage(@, item.msg, ~Existed(v, item.msg), item.notify)]
        /\ item.what = "update" => Save(v, item).chats =
             [v.chats EXCEPT ![item.key[1]] = ChatAfterUpdate(@, item)]
        /\ item.what = "chat" => Save(v, item).chats =
             [v.chats EXCEPT ![item.chat] = ChatAfterHistory(@, item)]
<1>1. CASE item.what = "live"
  <2>1. item.msg \in Messages
    BY <1>1, MessageOfItem
  <2>2. UpsertMessage(v, item.msg) \in Tables /\ UpsertMessage(v, item.msg).chats = v.chats
    BY <2>1, UpsertTyped, UpsertRows
  <2>3. Save(v, item) = SaveLive(v, item)
    BY <1>1 DEF Save
  <2> QED
    BY <1>1, <2>2, <2>3 DEF SaveLive, Tables
<1>2. CASE item.what = "update"
  BY <1>2 DEF Save, SaveUpdate, Tables
<1>3. CASE item.what = "receipt"
  BY <1>3 DEF Save, SaveReceipt, Tables
<1>4. CASE item.what = "chat"
  BY <1>4 DEF Save, SaveHistory, Tables
<1>5. CASE item.what = "contact"
  BY <1>5 DEF Save, SaveHistory, Tables
<1>6. CASE item.what = "old"
  <2>1. UpsertMessage(v, item.msg).chats = v.chats
    BY <1>6, MessageOfItem, UpsertRows
  <2>2. Save(v, item) = UpsertMessage(v, item.msg)
    BY <1>6 DEF Save, SaveHistory
  <2> QED
    BY <1>6, <2>1, <2>2
<1>7. item.what \in {"live", "update", "receipt", "chat", "contact", "old"}
  BY DEF Items
<1> QED
  BY <1>1, <1>2, <1>3, <1>4, <1>5, <1>6, <1>7

\* A stored message stays stored, and a live one is stored by its item.
LEMMA SaveKeeps ==
  ASSUME NEW v \in Tables, NEW item \in Items
  PROVE /\ \A c \in Chats : Range(v.messages[c]) \subseteq Range(Save(v, item).messages[c])
        /\ item.what = "live" => Stored(Save(v, item), KeyOf(item.msg))
<1>1. CASE item.what \in {"live", "old"}
  <2>1. item.msg \in Messages /\ item.msg.chat \in Chats
    BY <1>1, MessageOfItem DEF Messages
  <2>2. \A c \in Chats : Range(Save(v, item).messages[c]) =
          Range(v.messages[c]) \cup (IF c = item.msg.chat THEN {<<item.msg.id, item.msg.part>>} ELSE {})
    <3>1. Save(v, item).messages = UpsertMessage(v, item.msg).messages
      BY <1>1, SaveRows
    <3>2. \A c \in Chats : Range(UpsertMessage(v, item.msg).messages[c]) =
            Range(v.messages[c]) \cup (IF c = item.msg.chat THEN {<<item.msg.id, item.msg.part>>} ELSE {})
      BY <2>1, UpsertRows
    <3> QED
      BY <3>1, <3>2
  <2>3. <<item.msg.id, item.msg.part>> \in Range(Save(v, item).messages[item.msg.chat])
    BY <2>1, <2>2
  <2>4. Stored(Save(v, item), KeyOf(item.msg))
    BY <2>3 DEF Stored, KeyOf
  <2> QED
    BY <2>2, <2>4
<1>2. CASE item.what \notin {"live", "old"}
  BY <1>2, SaveRows
<1> QED
  BY <1>1, <1>2

\* Unread counts stay backed: a live message of somebody else's that counts is a new row.
LEMMA SaveBacked ==
  ASSUME NEW ev \in Events, NEW i \in DOMAIN ev, NEW v \in Tables, NEW b \in [Chats -> 0..MaxUnread],
         db \in Tables, Backed(v, b)
  PROVE Backed(Save(v, ev[i]),
               IF ev[i].what = "chat" THEN [b EXCEPT ![ev[i].chat] = ev[i].unread] ELSE b)
<1> DEFINE item == ev[i]
           w == Save(v, item)
           Card(t, c) == Cardinality(Range(t.messages[c]) \cap Others(c))
<1>1. item \in Items
  BY ItemOfEvent
<1>2. w \in Tables
  BY <1>1, SaveTyped
<1>3. ASSUME NEW t \in Tables, NEW c \in Chats
      PROVE IsFiniteSet(Range(t.messages[c]) \cap Others(c)) /\ Card(t, c) \in Nat
  <2>1. IsFiniteSet(Range(t.messages[c]))
    BY RangeFinite DEF Tables
  <2>2. IsFiniteSet(Range(t.messages[c]) \cap Others(c))
    BY <2>1, FS_Subset
  <2> QED
    BY <2>2, FS_CardinalityType
<1>4. \A c \in Chats : Card(v, c) <= Card(w, c)
  <2> TAKE c \in Chats
  <2>1. Range(v.messages[c]) \cap Others(c) \subseteq Range(w.messages[c]) \cap Others(c)
    BY <1>1, SaveKeeps
  <2> QED
    BY <2>1, <1>2, <1>3, FS_Subset
<1> HIDE DEF w
<1>5. \A c \in Chats : v.chats[c].unread \in Nat /\ b[c] \in Nat
  BY DEF Tables, ChatRows
<1>6. \A c \in Chats : v.chats[c].unread <= b[c] + Card(v, c)
  BY DEF Backed
<1>7. \A c \in Chats : Card(v, c) \in Nat /\ Card(w, c) \in Nat
  BY <1>2, <1>3
<1> HIDE DEF Card
<1>8. CASE item.what \in {"receipt", "contact", "old"}
  <2>1. w.chats = v.chats
    BY <1>1, <1>8, SaveRows DEF w
  <2>2. \A c \in Chats : w.chats[c].unread <= b[c] + Card(w, c)
    BY <1>4, <1>5, <1>6, <1>7, <2>1
  <2>3. Backed(w, b)
    BY <2>2 DEF Backed, Card
  <2> QED
    BY <1>8, <2>3 DEF w
<1>9. CASE item.what = "update"
  <2>1. item.key[1] \in Chats
    BY <1>1, <1>9 DEF Items, Keys
  <2>2. w.chats = [v.chats EXCEPT ![item.key[1]] = ChatAfterUpdate(@, item)]
    BY <1>1, <1>9, SaveRows DEF w
  <2>3. ChatAfterUpdate(v.chats[item.key[1]], item).unread <= v.chats[item.key[1]].unread
    BY <2>1, <1>5 DEF ChatAfterUpdate, Tables, ChatRows
  <2>4. \A c \in Chats : w.chats[c].unread <= v.chats[c].unread
    BY <2>1, <2>2, <2>3, <1>5 DEF Tables
  <2>5. \A c \in Chats : w.chats[c].unread \in Nat
    BY <1>2 DEF Tables, ChatRows
  <2>6. \A c \in Chats : w.chats[c].unread <= b[c] + Card(w, c)
    BY <1>4, <1>5, <1>6, <1>7, <2>4, <2>5
  <2>7. Backed(w, b)
    BY <2>6 DEF Backed, Card
  <2> QED
    BY <1>9, <2>7 DEF w
<1>10. CASE item.what = "chat"
  <2>1. item.chat \in Chats /\ item.unread \in 0..MaxUnread
    BY <1>1, <1>10 DEF Items
  <2>2. w.chats = [v.chats EXCEPT ![item.chat] = ChatAfterHistory(@, item)]
    BY <1>1, <1>10, SaveRows DEF w
  <2>3. ChatAfterHistory(v.chats[item.chat], item).unread = item.unread
    BY DEF ChatAfterHistory
  <2> DEFINE new == [b EXCEPT ![item.chat] = item.unread]
  <2>4. ASSUME NEW c \in Chats
        PROVE w.chats[c].unread <= new[c] + Card(w, c)
    <3>1. CASE c = item.chat
      BY <3>1, <2>1, <2>2, <2>3, <1>7 DEF Tables
    <3>2. CASE c # item.chat
      <4>1. w.chats[c] = v.chats[c] /\ new[c] = b[c]
        BY <3>2, <2>1, <2>2 DEF Tables
      <4> QED
        BY <4>1, <1>4, <1>5, <1>6, <1>7
    <3> QED
      BY <3>1, <3>2
  <2> QED
    BY <1>10, <2>4 DEF Backed, Card, w
<1>11. CASE item.what = "live"
  <2> DEFINE m == item.msg
  <2>1. m \in Messages /\ m.chat \in Chats /\ item.notify \in BOOLEAN
    BY <1>1, <1>11, MessageOfItem DEF Messages
  <2>2. w.chats = [v.chats EXCEPT ![m.chat] = ChatAfterMessage(@, m, ~Existed(v, m), item.notify)]
    BY <1>1, <1>11, SaveRows DEF w
  <2>3. \A c \in Chats : c # m.chat => w.chats[c] = v.chats[c]
    BY <2>1, <2>2 DEF Tables
  <2>4. w.chats[m.chat].unread =
          v.chats[m.chat].unread + (IF ~Existed(v, m) /\ item.notify /\ ~m.fromMe THEN 1 ELSE 0)
    BY <2>1, <2>2 DEF ChatAfterMessage, Tables
  <2>5. ASSUME ~Existed(v, m), ~m.fromMe
        PROVE Card(w, m.chat) = Card(v, m.chat) + 1
    <3>1. m \in MessagesOf(ev)
      BY <1>11 DEF MessagesOf
    <3>2. <<m.id, m.part>> \in Others(m.chat)
      BY <2>5, <3>1 DEF Others, FromOthers
    <3>3. Range(w.messages[m.chat]) = Range(v.messages[m.chat]) \cup {<<m.id, m.part>>}
      <4>1. w.messages = UpsertMessage(v, m).messages
        BY <1>1, <1>11, SaveRows DEF w
      <4>2. Range(UpsertMessage(v, m).messages[m.chat]) =
              Range(v.messages[m.chat]) \cup {<<m.id, m.part>>}
        BY <2>1, UpsertRows
      <4> QED
        BY <4>1, <4>2
    <3>4. Range(w.messages[m.chat]) \cap Others(m.chat) =
            (Range(v.messages[m.chat]) \cap Others(m.chat)) \cup {<<m.id, m.part>>}
      BY <3>2, <3>3
    <3>5. <<m.id, m.part>> \notin Range(v.messages[m.chat]) \cap Others(m.chat)
      BY <2>5 DEF Existed
    <3>6. IsFiniteSet(Range(v.messages[m.chat]) \cap Others(m.chat))
      BY <1>3, <2>1
    <3> QED
      BY <3>4, <3>5, <3>6, FS_AddElement DEF Card
  <2>6. ASSUME NEW c \in Chats
        PROVE w.chats[c].unread <= b[c] + Card(w, c)
    <3>1. CASE c # m.chat
      BY <3>1, <2>3, <1>4, <1>5, <1>6, <1>7
    <3>2. CASE c = m.chat /\ ~Existed(v, m) /\ ~m.fromMe
      BY <3>2, <2>4, <2>5, <1>5, <1>6, <1>7
    <3>3. CASE c = m.chat /\ (Existed(v, m) \/ m.fromMe)
      BY <3>3, <2>4, <1>4, <1>5, <1>6, <1>7
    <3> QED
      BY <3>1, <3>2, <3>3
  <2> QED
    BY <1>11, <2>6 DEF Backed, Card, w
<1>12. item.what \in {"live", "update", "receipt", "chat", "contact", "old"}
  BY <1>1 DEF Items
<1> QED
  BY <1>8, <1>9, <1>10, <1>11, <1>12
-----------------------------------------------------------------------------
(* The invariant.                                                          *)

\* The application will only be told of messages that are committed.
OutStored == \A t \in Tasks : \A k \in LiveKeys(out[t]) : Stored(db, k)

\* What the transaction sees: every row of the tables, and the live messages it applied.
TxStored ==
  tx.open =>
    /\ tx.done <= Len(tx.ev)
    /\ \A c \in Chats : Range(db.messages[c]) \subseteq Range(tx.view.messages[c])
    /\ \A i \in 1..tx.done : tx.ev[i].what = "live" => Stored(tx.view, KeyOf(tx.ev[i].msg))

IInv ==
  /\ TypeOK
  /\ ToldStored
  /\ OutStored
  /\ TxStored
  /\ Backed(db, base)
  /\ tx.open => Backed(tx.view, tx.base)

\* The open transaction, when there is one, has all its fields.
LEMMA TxTyped ==
  ASSUME TypeOK
  PROVE /\ tx.open \in BOOLEAN
        /\ tx.open => tx \in [open : {TRUE}, task : Tasks, ev : Events, done : Nat, view : Tables,
                             reacted : Seq(Reactions), base : [Chats -> 0..MaxUnread]]
        /\ ~tx.open => tx = NoTx
<1>1. CASE tx = NoTx
  BY <1>1 DEF NoTx
<1>2. CASE tx \in [open : {TRUE}, task : Tasks, ev : Events, done : Nat, view : Tables,
                   reacted : Seq(Reactions), base : [Chats -> 0..MaxUnread]]
  BY <1>2
<1> QED
  BY <1>1, <1>2 DEF TypeOK

\* The keys that are announced are keys.
LEMMA LiveKey ==
  ASSUME NEW ev \in Seq(Items)
  PROVE /\ LiveKeys(ev) \subseteq Keys
        /\ \A k \in LiveKeys(ev) : \E i \in 1..Len(ev) : ev[i].what = "live" /\ k = KeyOf(ev[i].msg)
<1>1. ASSUME NEW k \in LiveKeys(ev)
      PROVE k \in Keys /\ \E i \in 1..Len(ev) : ev[i].what = "live" /\ k = KeyOf(ev[i].msg)
  <2>1. PICK i \in DOMAIN ev : ev[i].what = "live" /\ k = KeyOf(ev[i].msg)
    BY <1>1 DEF LiveKeys
  <2>2. ev[i] \in Items
    OBVIOUS
  <2>3. ev[i].msg \in Messages
    BY <2>1, <2>2, MessageOfItem
  <2> QED
    BY <2>1, <2>3 DEF KeyOf, Keys, Messages
<1> QED
  BY <1>1

\* Tables that have the rows of others store what those store.
LEMMA StoredMore ==
  ASSUME NEW v, NEW w, \A c \in Chats : Range(v.messages[c]) \subseteq Range(w.messages[c]),
         NEW k \in Keys, Stored(v, k)
  PROVE Stored(w, k)
BY DEF Stored, Keys

\* A task opens a transaction.
LEMMA BeginInv ==
  ASSUME IInv, NEW t \in Tasks, Begin(t)
  PROVE IInv'
<1>1. PICK ev \in Events :
        tx' = [open |-> TRUE, task |-> t, ev |-> ev, done |-> 0, view |-> db,
               reacted |-> reacted, base |-> base]
  BY SqlStoreAssumption DEF Begin
<1>2. /\ tx'.open /\ tx'.done = 0 /\ tx'.ev = ev /\ tx'.view = db /\ tx'.base = base
  BY <1>1
<1>3. /\ db' = db /\ out' = out /\ told' = told /\ base' = base /\ pc' = pc
      /\ backend' = backend /\ reacted' = reacted
  BY DEF Begin
<1>4. begun' \in 0..MaxEvents
  BY SqlStoreAssumption DEF Begin, IInv, TypeOK
<1>5. tx' \in [open : {TRUE}, task : Tasks, ev : Events, done : Nat, view : Tables,
               reacted : Seq(Reactions), base : [Chats -> 0..MaxUnread]]
  BY <1>1 DEF IInv, TypeOK
<1>6. TypeOK'
  BY <1>3, <1>4, <1>5 DEF IInv, TypeOK
<1>7. ToldStored' /\ OutStored'
  BY <1>3 DEF IInv, ToldStored, OutStored, Stored
<1>8. TxStored'
  <2>1. ev \in Seq(Items)
    BY EventsAssumption
  <2>2. Len(ev) \in Nat /\ 1..0 = {}
    BY <2>1
  <2>3. 0 <= Len(ev)
    BY <2>2
  <2> QED
    BY <1>2, <1>3, <2>2, <2>3 DEF TxStored
<1>9. Backed(db, base)' /\ (tx.open => Backed(tx.view, tx.base))'
  BY <1>2, <1>3 DEF IInv, Backed
<1> QED
  BY <1>6, <1>7, <1>8, <1>9 DEF IInv

\* An item is applied inside the transaction.
LEMMA ApplyItemInv ==
  ASSUME IInv, ApplyItem
  PROVE IInv'
<1> DEFINE item == tx.ev[tx.done + 1]
<1>1. /\ tx \in [open : {TRUE}, task : Tasks, ev : Events, done : Nat, view : Tables,
                 reacted : Seq(Reactions), base : [Chats -> 0..MaxUnread]]
      /\ tx.open /\ tx.done < Len(tx.ev)
  BY TxTyped DEF IInv, ApplyItem
<1>2. /\ db' = db /\ out' = out /\ told' = told /\ base' = base /\ pc' = pc
      /\ backend' = backend /\ begun' = begun /\ reacted' = reacted
  BY DEF ApplyItem
<1>3. db \in Tables
  BY DEF IInv, TypeOK
<1>4. tx.ev \in Events /\ tx.ev \in Seq(Items) /\ tx.done + 1 \in DOMAIN tx.ev /\ Len(tx.ev) \in Nat
  <2>1. tx.ev \in Events /\ tx.ev \in Seq(Items) /\ tx.done \in Nat
    BY <1>1, EventsAssumption
  <2> QED
    BY <1>1, <2>1
<1>5. item \in Items
  BY <1>4
<1> DEFINE nextReacted == IF HasReaction(item) THEN Append(tx.reacted, item.msg.reaction) ELSE tx.reacted
           nextBase == IF item.what = "chat" THEN [tx.base EXCEPT ![item.chat] = item.unread] ELSE tx.base
           nextView == Save(tx.view, item)
<1>6. tx' = [tx EXCEPT !.done = tx.done + 1, !.view = nextView, !.reacted = nextReacted, !.base = nextBase]
  BY DEF ApplyItem
<1>7. nextReacted \in Seq(Reactions)
  <2>1. HasReaction(item) => item.msg.reaction \in Reactions
    BY <1>5, MessageOfItem DEF HasReaction, Messages
  <2> QED
    BY <1>1, <2>1
<1>8. nextBase \in [Chats -> 0..MaxUnread]
  <2>1. item.what = "chat" => item.chat \in Chats /\ item.unread \in 0..MaxUnread
    BY <1>5 DEF Items
  <2> QED
    BY <1>1, <2>1
<1>9. nextView \in Tables
  BY <1>1, <1>3, <1>5, SaveTyped
<1>10. Backed(nextView, nextBase)
  <2>1. Backed(tx.view, tx.base)
    BY <1>1 DEF IInv
  <2>2. tx.view \in Tables /\ tx.base \in [Chats -> 0..MaxUnread]
    BY <1>1
  <2> QED
    BY <1>3, <1>4, <2>1, <2>2, SaveBacked
<1>11. /\ \A c \in Chats : Range(tx.view.messages[c]) \subseteq Range(nextView.messages[c])
       /\ item.what = "live" => Stored(nextView, KeyOf(item.msg))
  BY <1>1, <1>5, SaveKeeps
<1> HIDE DEF item, nextReacted, nextBase, nextView
<1>12. /\ tx' \in [open : {TRUE}, task : Tasks, ev : Events, done : Nat, view : Tables,
                   reacted : Seq(Reactions), base : [Chats -> 0..MaxUnread]]
       /\ tx'.open /\ tx'.done = tx.done + 1 /\ tx'.ev = tx.ev /\ tx'.view = nextView /\ tx'.base = nextBase
  <2> DEFINE d == tx.done + 1
  <2>1. d \in Nat
    BY <1>1
  <2>2. tx' = [tx EXCEPT !.done = d, !.view = nextView, !.reacted = nextReacted, !.base = nextBase]
    BY <1>6
  <2> HIDE DEF d
  <2>3. tx' \in [open : {TRUE}, task : Tasks, ev : Events, done : Nat, view : Tables,
                 reacted : Seq(Reactions), base : [Chats -> 0..MaxUnread]]
    BY <1>1, <1>7, <1>8, <1>9, <2>1, <2>2
  <2>4. tx'.open /\ tx'.done = d /\ tx'.ev = tx.ev /\ tx'.view = nextView /\ tx'.base = nextBase
    BY <1>1, <2>2
  <2> QED
    BY <2>3, <2>4 DEF d
<1>13. TypeOK'
  BY <1>2, <1>12 DEF IInv, TypeOK
<1>14. ToldStored' /\ OutStored'
  BY <1>2 DEF IInv, ToldStored, OutStored, Stored
<1>15. TxStored'
  <2>1. /\ \A c \in Chats : Range(db.messages[c]) \subseteq Range(tx.view.messages[c])
        /\ \A i \in 1..tx.done : tx.ev[i].what = "live" => Stored(tx.view, KeyOf(tx.ev[i].msg))
    BY <1>1 DEF IInv, TxStored
  <2>2. ASSUME NEW i \in 1..(tx.done + 1), tx.ev[i].what = "live"
        PROVE Stored(nextView, KeyOf(tx.ev[i].msg))
    <3>1. CASE i = tx.done + 1
      BY <1>11, <2>2, <3>1 DEF item
    <3>2. CASE i # tx.done + 1
      <4>1. i \in 1..tx.done /\ i \in DOMAIN tx.ev
        BY <1>1, <1>4, <3>2
      <4>2. Stored(tx.view, KeyOf(tx.ev[i].msg))
        BY <2>1, <2>2, <4>1
      <4>3. KeyOf(tx.ev[i].msg) \in Keys
        <5>1. tx.ev[i] \in Items
          BY <1>4, <4>1
        <5> QED
          BY <5>1, <2>2, MessageOfItem DEF KeyOf, Keys, Messages
      <4> QED
        BY <1>11, <4>2, <4>3, StoredMore
    <3> QED
      BY <3>1, <3>2
  <2>3. tx.done + 1 <= Len(tx.ev)
    BY <1>1, <1>4
  <2>4. \A c \in Chats : Range(db.messages[c]) \subseteq Range(nextView.messages[c])
    BY <1>11, <2>1
  <2> QED
    BY <1>2, <1>12, <2>2, <2>3, <2>4 DEF TxStored
<1>16. Backed(db, base)' /\ (tx.open => Backed(tx.view, tx.base))'
  BY <1>2, <1>10, <1>12 DEF IInv, Backed
<1> QED
  BY <1>13, <1>14, <1>15, <1>16 DEF IInv

\* The transaction commits: the event it applied is announced from now on.
LEMMA CommitInv ==
  ASSUME IInv, Commit
  PROVE IInv'
<1>1. /\ tx \in [open : {TRUE}, task : Tasks, ev : Events, done : Nat, view : Tables,
                 reacted : Seq(Reactions), base : [Chats -> 0..MaxUnread]]
      /\ tx.open /\ tx.done = Len(tx.ev)
  BY TxTyped DEF IInv, Commit
<1>2. /\ db' = tx.view /\ tx' = NoTx /\ out' = [out EXCEPT ![tx.task] = tx.ev]
      /\ pc' = [pc EXCEPT ![tx.task] = "announcing"] /\ base' = tx.base /\ reacted' = tx.reacted
      /\ told' = told /\ backend' = backend /\ begun' = begun
  BY DEF Commit
<1>3. tx.ev \in Seq(Items)
  BY <1>1, EventsAssumption
<1>4. TypeOK'
  BY <1>1, <1>2, <1>3 DEF IInv, TypeOK
<1>5. /\ \A c \in Chats : Range(db.messages[c]) \subseteq Range(db'.messages[c])
      /\ \A i \in 1..Len(tx.ev) : tx.ev[i].what = "live" => Stored(db', KeyOf(tx.ev[i].msg))
  BY <1>1, <1>2 DEF IInv, TxStored
<1>6. told \subseteq Keys /\ out \in [Tasks -> Seq(Items)]
  BY DEF IInv, TypeOK
<1>7. ToldStored'
  <2>1. ASSUME NEW k \in told
        PROVE Stored(db', k)
    <3>1. k \in Keys /\ Stored(db, k)
      BY <1>6, <2>1 DEF IInv, ToldStored, Stored
    <3> QED
      BY <1>5, <3>1, StoredMore
  <2> QED
    BY <1>2, <2>1 DEF ToldStored, Stored
<1>8. OutStored'
  <2>1. ASSUME NEW t \in Tasks, NEW k \in LiveKeys(out'[t])
        PROVE Stored(db', k)
    <3>1. CASE t = tx.task
      <4>1. out'[t] = tx.ev
        BY <1>1, <1>2, <1>6, <3>1
      <4> QED
        BY <1>3, <1>5, <2>1, <4>1, LiveKey
    <3>2. CASE t # tx.task
      <4>1. out'[t] = out[t] /\ out[t] \in Seq(Items)
        BY <1>1, <1>2, <1>6, <3>2
      <4>2. k \in Keys /\ Stored(db, k)
        BY <2>1, <4>1, LiveKey DEF IInv, OutStored
      <4> QED
        BY <1>5, <4>2, StoredMore
    <3> QED
      BY <3>1, <3>2
  <2>2. \A t \in Tasks : \A k \in LiveKeys(out'[t]) : Stored(db', k)
    BY <2>1
  <2> QED
    BY <2>2 DEF OutStored, LiveKeys, Stored
<1>9. TxStored' /\ (tx.open => Backed(tx.view, tx.base))'
  BY <1>2 DEF TxStored, NoTx
<1>10. Backed(db, base)'
  BY <1>1, <1>2 DEF IInv, Backed
<1> QED
  BY <1>4, <1>7, <1>8, <1>9, <1>10 DEF IInv

\* A task announces the messages of the event it committed.
LEMMA AnnounceInv ==
  ASSUME IInv, NEW t \in Tasks, Announce(t)
  PROVE IInv'
<1>1. /\ told' = told \cup LiveKeys(out[t]) /\ pc' = [pc EXCEPT ![t] = "idle"]
      /\ out' = [out EXCEPT ![t] = <<>>] /\ tx = NoTx /\ tx' = tx
      /\ db' = db /\ base' = base /\ reacted' = reacted
      /\ backend' = backend /\ begun' = begun
  BY DEF Announce
<1>2. out \in [Tasks -> Seq(Items)] /\ out[t] \in Seq(Items)
  BY DEF IInv, TypeOK
<1>3. LiveKeys(out[t]) \subseteq Keys
  BY <1>2, LiveKey
<1>4. TypeOK'
  BY <1>1, <1>2, <1>3 DEF IInv, TypeOK
<1>5. ToldStored'
  BY <1>1 DEF IInv, ToldStored, OutStored, Stored
<1>6. OutStored'
  <2>1. \A u \in Tasks : out'[u] = IF u = t THEN <<>> ELSE out[u]
    BY <1>1, <1>2
  <2>2. LiveKeys(<<>>) = {}
    BY DEF LiveKeys
  <2>3. \A u \in Tasks : \A k \in LiveKeys(out'[u]) : Stored(db, k)
    <3> TAKE u \in Tasks
    <3>1. CASE u = t
      BY <2>1, <2>2, <3>1
    <3>2. CASE u # t
      <4>1. out'[u] = out[u]
        BY <2>1, <3>2
      <4> QED
        BY <4>1 DEF IInv, OutStored
    <3> QED
      BY <3>1, <3>2
  <2> QED
    BY <1>1, <2>3 DEF OutStored, LiveKeys, Stored
<1>7. TxStored' /\ (tx.open => Backed(tx.view, tx.base))'
  BY <1>1 DEF TxStored, NoTx
<1>8. Backed(db, base)'
  BY <1>1 DEF IInv, Backed
<1> QED
  BY <1>4, <1>5, <1>6, <1>7, <1>8 DEF IInv

\* An exception of the listener, and a crash, give up the transaction.
LEMMA GiveUpInv ==
  ASSUME IInv, Raise \/ Crash
  PROVE IInv'
<1>1. /\ tx' = NoTx /\ db' = db /\ base' = base /\ told' = told /\ reacted' = reacted
      /\ backend' = backend /\ begun' = begun
      /\ (out' = out /\ pc' = pc) \/ (out' = [t \in Tasks |-> <<>>] /\ pc' = [t \in Tasks |-> "idle"])
  BY DEF Raise, Crash, IInv, TypeOK
<1>2. TypeOK'
  <2>1. out' \in [Tasks -> Seq(Items)] /\ pc' \in [Tasks -> {"idle", "announcing"}]
    <3>1. <<>> \in Seq(Items)
      OBVIOUS
    <3> QED
      BY <1>1, <3>1 DEF IInv, TypeOK
  <2> QED
    BY <1>1, <2>1 DEF IInv, TypeOK
<1>3. ToldStored'
  BY <1>1 DEF IInv, ToldStored
<1>4. OutStored'
  <2>1. LiveKeys(<<>>) = {}
    BY DEF LiveKeys
  <2>2. \A t \in Tasks : \A k \in LiveKeys(out'[t]) : Stored(db, k)
    <3>1. CASE out' = out
      BY <3>1 DEF IInv, OutStored
    <3>2. CASE out' = [t \in Tasks |-> <<>>]
      BY <2>1, <3>2
    <3> QED
      BY <1>1, <3>1, <3>2
  <2> QED
    BY <1>1, <2>2 DEF OutStored, LiveKeys, Stored
<1>5. TxStored' /\ (tx.open => Backed(tx.view, tx.base))'
  BY <1>1 DEF TxStored, NoTx
<1>6. Backed(db, base)'
  BY <1>1 DEF IInv, Backed
<1> QED
  BY <1>2, <1>3, <1>4, <1>5, <1>6 DEF IInv

\* The store begins in the invariant.
LEMMA InitInv ==
  ASSUME Init
  PROVE IInv
<1>1. 0 \in Stamps /\ 0 \in 0..MaxUnread
  BY EventsAssumption DEF Stamps
<1>2. db \in Tables /\ \A c \in Chats : db.messages[c] = <<>> /\ db.chats[c].unread = 0 /\ base[c] = 0
  <2>1. NoChat \in ChatRows /\ NoContact \in ContactRows /\ NoChat.unread = 0
    BY <1>1 DEF NoChat, NoContact, ChatRows, ContactRows
  <2>2. ASSUME NEW F, NEW V
        PROVE <<>> \in Dicts(F, V)
    <3>1. <<>> \in [{} -> V]
      OBVIOUS
    <3> QED
      BY <3>1 DEF Dicts
  <2>3. <<>> \in Updates /\ <<>> \in Receipts
    BY <2>2 DEF Updates, Receipts
  <2>4. NoTables \in Tables
    BY <2>1, <2>3 DEF NoTables, Tables
  <2> QED
    BY <2>1, <2>4 DEF Init, NoTables
<1>3. TypeOK
  <2>1. <<>> \in Seq(Items) /\ <<>> \in Seq(Reactions)
    OBVIOUS
  <2>2. begun \in 0..MaxEvents
    BY SqlStoreAssumption DEF Init
  <2>3. base \in [Chats -> 0..MaxUnread]
    BY <1>1 DEF Init
  <2>4. pc \in [Tasks -> {"idle", "announcing"}] /\ out \in [Tasks -> Seq(Items)]
    BY <2>1 DEF Init
  <2>5. told \subseteq Keys /\ tx = NoTx /\ backend \in Backends
    BY DEF Init
  <2>6. reacted \in Seq(Reactions)
    BY <2>1 DEF Init
  <2> QED
    BY <1>2, <2>2, <2>3, <2>4, <2>5, <2>6 DEF TypeOK
<1>4. ToldStored /\ OutStored
  <2>1. LiveKeys(<<>>) = {}
    BY DEF LiveKeys
  <2> QED
    BY <2>1 DEF Init, ToldStored, OutStored
<1>5. TxStored /\ (tx.open => Backed(tx.view, tx.base))
  BY DEF Init, TxStored, NoTx
<1>6. Backed(db, base)
  <2>1. ASSUME NEW c \in Chats
        PROVE db.chats[c].unread <= base[c] + Cardinality(Range(db.messages[c]) \cap Others(c))
    <3>1. Range(db.messages[c]) = {}
      BY <1>2 DEF Range
    <3>2. Cardinality(Range(db.messages[c]) \cap Others(c)) = 0
      BY <3>1, FS_EmptySet
    <3> QED
      BY <1>2, <3>2
  <2> QED
    BY <2>1 DEF Backed
<1> QED
  BY <1>3, <1>4, <1>5, <1>6 DEF IInv

\* Every step keeps the invariant.
LEMMA NextInv ==
  ASSUME IInv, [Next]_vars
  PROVE IInv'
<1>1. ASSUME NEW t \in Tasks, Begin(t)
      PROVE IInv'
  BY <1>1, BeginInv
<1>2. ASSUME NEW t \in Tasks, Announce(t)
      PROVE IInv'
  BY <1>2, AnnounceInv
<1>3. CASE ApplyItem
  BY <1>3, ApplyItemInv
<1>4. CASE Commit
  BY <1>4, CommitInv
<1>5. CASE Raise \/ Crash
  BY <1>5, GiveUpInv
<1>6. CASE UNCHANGED vars
  BY <1>6 DEF vars, IInv, TypeOK, ToldStored, OutStored, TxStored, Stored, Backed
<1> QED
  BY <1>1, <1>2, <1>3, <1>4, <1>5, <1>6 DEF Next

\* The invariant holds in every state.
LEMMA SpecInv == Spec => []IInv
<1>1. Init => IInv
  BY InitInv
<1>2. IInv /\ [Next]_vars => IInv'
  BY NextInv
<1> QED
  BY <1>1, <1>2, PTL DEF Spec

-----------------------------------------------------------------------------
\* The tables, the transaction and what is announced keep their types.
THEOREM SqlStoreTypeOK == Spec => []TypeOK
<1>1. IInv => TypeOK
  BY DEF IInv
<1> QED
  BY <1>1, SpecInv, PTL

\* Whatever the events, the tasks and the crashes, a message the application was told of is
\* committed: the listeners announce after the with block, and no later event drops its row.
THEOREM SqlStoreToldStored == Spec => []ToldStored
<1>1. IInv => ToldStored
  BY DEF IInv
<1> QED
  BY <1>1, SpecInv, PTL

\* An unread count is at most what the last history chunk said and one for each stored message
\* of somebody else's: is_new is read in the transaction that stores the row and counts it.
THEOREM SqlStoreUnreadBacked == Spec => []UnreadBacked
<1>1. IInv => UnreadBacked
  BY DEF IInv, UnreadBacked, Backed, Others
<1> QED
  BY <1>1, SpecInv, PTL
=============================================================================
