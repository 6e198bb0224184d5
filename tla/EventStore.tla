----------------------------- MODULE EventStore -----------------------------
(***************************************************************************)
(* InMemoryStore: an event is applied whole, in one step.  It is also the  *)
(* specification the database stores are shown to implement.               *)
(***************************************************************************)
EXTENDS StoreEvents

VARIABLE book   \* the dictionaries of the store

Init ==
  book = [messages |-> [c \in Chats |-> <<>>],
          chats |-> [c \in Chats |-> NoChat],
          contacts |-> [c \in Chats \cup Users |-> NoContact],
          updates |-> [k \in Keys |-> <<>>],
          receipts |-> [k \in Keys |-> [u \in Users |-> <<>>]],
          reactions |-> <<>>]

HasMessage(b, m) == \E i \in DOMAIN b.messages[m.chat] : b.messages[m.chat][i][1] = m.id

WithMessage(b, m) ==
  IF HasMessage(b, m) THEN b
  ELSE [b EXCEPT !.messages[m.chat] = Append(@, <<m.id, m.part>>)]

AfterLive(b, item) ==
  LET m == item.msg
  IN [WithMessage(b, m) EXCEPT
        !.chats[m.chat] = ChatAfterMessage(@, m, ~HasMessage(b, m), item.notify),
        !.contacts[ContactId(m)] = ContactAfterMessage(@, m),
        !.reactions = IF m.reaction = NoReaction THEN @ ELSE Append(@, m.reaction)]

AfterUpdate(b, item) ==
  [b EXCEPT !.updates[item.key] = Merge(@, item.fields),
            !.chats[item.key[1]] = ChatAfterUpdate(@, item)]

AfterReceipt(b, item) ==
  [b EXCEPT !.receipts[item.key][item.user] = Merge(@, item.fields)]

AfterHistory(b, item) ==
  CASE item.what = "chat" -> [b EXCEPT !.chats[item.chat] = ChatAfterHistory(@, item)]
    [] item.what = "contact" -> [b EXCEPT !.contacts[item.id] = ContactAfterHistory(@, item)]
    [] item.what = "old" -> WithMessage(b, item.msg)

AfterItem(b, item) ==
  CASE item.what = "live" -> AfterLive(b, item)
    [] item.what = "update" -> AfterUpdate(b, item)
    [] item.what = "receipt" -> AfterReceipt(b, item)
    [] OTHER -> AfterHistory(b, item)

Apply(ev) == book' = FoldLeft(AfterItem, book, ev)

Next == \E ev \in Events : Apply(ev)
Spec == Init /\ [][Next]_book
=============================================================================
