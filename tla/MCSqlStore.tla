----------------------------- MODULE MCSqlStore -----------------------------
(* One direct chat and one group, and what the server sends about them.    *)
EXTENDS SqlStore

CONSTANTS a, g, u

Msg(chat, id, part, fromMe, at, name, reaction) ==
  [chat |-> chat, id |-> id, part |-> part, fromMe |-> fromMe, at |-> at,
   name |-> name, reaction |-> reaction]
Like(at) == [to |-> <<a, 1, NoOne>>, from |-> a, at |-> at]

hello == Msg(a, 1, NoOne, FALSE, 1, "ann", NoReaction)
liked == Msg(a, 2, NoOne, FALSE, 2, NoName, Like(2))
untimed == Msg(a, 3, NoOne, FALSE, 0, "anna", Like(0))
mine == Msg(a, 4, NoOne, TRUE, 2, NoName, NoReaction)
group == Msg(g, 1, u, FALSE, 1, "uli", NoReaction)

Live(m) == [what |-> "live", msg |-> m, notify |-> TRUE]
Old(m) == [what |-> "old", msg |-> m]
Update(key, fromMe, fields) == [what |-> "update", key |-> key, fromMe |-> fromMe, fields |-> fields]
Status(key, fromMe, status) == Update(key, fromMe, [status |-> status, message_timestamp |-> 2])
Receipt(id, fields) == [what |-> "receipt", key |-> <<g, id, u>>, user |-> u, fields |-> fields]
HChat(chat, at, name, n) == [what |-> "chat", chat |-> chat, at |-> at, name |-> name, unread |-> n]
HContact(id, name, notify) == [what |-> "contact", id |-> id, name |-> name, notify |-> notify]

MCUserEvents ==
  { <<Update(<<a, 4, NoOne>>, TRUE, [status |-> 0])>>,      \* _ack_result_with_restriction_details
    <<Update(<<a, 1, NoOne>>, FALSE, [message |-> 0])>> }   \* update_media_message
MCEvents == MCUserEvents \cup
  {<<Live(m)>> : m \in {hello, liked, untimed, mine, group}} \cup
  { << Status(<<a, 1, NoOne>>, FALSE, 4), Status(<<a, 2, NoOne>>, FALSE, 4) >>,
    << Status(<<a, 4, NoOne>>, TRUE, 3) >>,
    << Receipt(1, [receipt_timestamp |-> 1]), Receipt(2, [receipt_timestamp |-> 1]) >>,
    << Receipt(1, [read_timestamp |-> 2]) >>,
    << HChat(a, 1, "ann", 1), HContact(a, "ann", NoName), Old(hello), Old(mine) >>,
    << HChat(g, 0, NoName, 0), HContact(g, NoName, "uli"), Old(group) >> }
=============================================================================
