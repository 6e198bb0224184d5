---------------------------- MODULE CallsProofs ----------------------------
(***************************************************************************)
(* The calls of the public API that are queries, for any callers, plans,    *)
(* numbers and groups: any number of calls, each resumed between the steps  *)
(* of the others, with moving numbers, a moving clock and crashes.         *)
(*                                                                         *)
(* BaseInv: each call waits for what its kind of call asks at that step     *)
(* (Protocol), so a step of a call is one of its kind (OfItsKind), changes  *)
(* that call alone (Others) and of the rest only what Frame says.  On that  *)
(* rest the invariants:                                                    *)
(*   RetryInv: no answer to a request for media ends a call with another    *)
(*     key;                                                                *)
(*   NumbersInv: all the mappings, the table, the copies and the answers on  *)
(*     their way say of numbers and LIDs was true once;                    *)
(*   TokenInv: the newest good token is never lost;                         *)
(*   FindInv: what was found and what is left to ask are the numbers asked  *)
(*     about, each once;                                                   *)
(*   ReadInv: the receipts sent and those left are those of the keys;        *)
(*   TellInv: what a call will tell of a group agrees with what was done;   *)
(*   ShopInv: a product keeps its name, and the catalog read has it;         *)
(*   ToldInv: what was told of a channel matches what was said of it.       *)
(***************************************************************************)
EXTENDS Calls, FiniteSetTheorems, SequenceTheorems, WellFoundedInduction, TLAPS

-----------------------------------------------------------------------------
(* One call at a time                                                      *)

\* What every step of a call leaves alone: the other calls, and what runs.
Fields == DOMAIN Idle
Shape == DOMAIN call = Callers /\ \A c \in Callers : Fields \subseteq DOMAIN call[c]

Others(c) ==
  /\ DOMAIN call' = DOMAIN call /\ \A d \in Callers : d # c => call'[d] = call[d]
  /\ Shape => Shape'
Steady == UNCHANGED fixed

\* A step of a call changes that call alone.
LEMMA SetOne ==
  /\ \A c \in Callers : \A fields : Set(c, fields) => Others(c)
  /\ \A c \in Callers : \A node, step, fields : Ask(c, node, step, fields) => Others(c)
  /\ \A c \in Callers : \A why, fields : Ends(c, why, fields) => Others(c)
  /\ \A c \in Callers : \A answer, made : Answers(c, answer, made) => Others(c)
<1>1. ASSUME NEW c \in Callers, NEW fields, Set(c, fields) PROVE Others(c)
  <2>1. DOMAIN call' = DOMAIN call /\ \A d \in Callers : d # c => call'[d] = call[d]
    BY <1>1 DEF Set
  <2>2. ASSUME Shape PROVE Shape'
    <3>1. call'[c] = fields ++ call[c]
      BY <1>1, <2>2 DEF Set, Shape
    <3>2. DOMAIN call[c] \subseteq DOMAIN call'[c]
      BY <3>1 DEF ++
    <3>3. QED
      BY <2>1, <2>2, <3>2 DEF Shape
  <2>3. QED
    BY <2>1, <2>2 DEF Others
<1>2. QED
  BY <1>1, Zenon DEF Ask, Ends, Answers

\* Beginning a call changes no other.
LEMMA StartsOne == ASSUME NEW c \in Callers, Starts(c) PROVE Others(c) /\ Steady
<1>1. CASE BeginGroup(c)
  BY <1>1, SetOne DEF Steady, BeginGroup
<1>2. CASE update_block_status(c)
  BY <1>2, SetOne DEF Steady, update_block_status
<1>3. CASE get_usync_devices(c)
  BY <1>3, SetOne DEF Steady, get_usync_devices
<1>4. CASE issue_privacy_tokens(c)
  BY <1>4, SetOne DEF Steady, issue_privacy_tokens
<1>5. CASE profile_picture_url(c)
  BY <1>5, SetOne DEF Steady, profile_picture_url
<1>6. CASE chat_modify(c)
  BY <1>6, SetOne DEF Steady, chat_modify
<1>7. CASE on_whatsapp(c)
  BY <1>7, SetOne DEF Steady, on_whatsapp, NextChunk
<1>8. CASE account_call(c)
  BY <1>8, SetOne DEF Steady, account_call
<1>9. CASE send_receipts(c)
  BY <1>9, SetOne DEF Steady, send_receipts
<1>10. CASE newsletter_call(c)
  BY <1>10, SetOne DEF Steady, newsletter_call
<1>11. CASE newsletter_react_message(c)
  BY <1>11, SetOne DEF Steady, newsletter_react_message
<1>12. CASE product_delete(c)
  BY <1>12, SetOne DEF Steady, product_delete
<1>13. CASE get_catalog(c)
  BY <1>13, SetOne DEF Steady, get_catalog
<1>14. CASE profile_call(c)
  BY <1>14, SetOne DEF Steady, profile_call
<1>15. CASE upload_call(c)
  BY <1>15, SetOne DEF Steady, upload_call, MutateProduct, BeginUpload, Upload
<1>16. CASE refresh_media_conn(c)
  BY <1>16, SetOne DEF Steady, refresh_media_conn
<1>17. CASE update_media_message(c)
  BY <1>17, SetOne DEF Steady, update_media_message
<1>18. QED
  BY <1>1, <1>2, <1>3, <1>4, <1>5, <1>6, <1>7, <1>8, <1>9, <1>10, <1>11, <1>12, <1>13, <1>14, <1>15, <1>16, <1>17 DEF Starts

\* What the server does for a call changes no other.
LEMMA ServesOne == ASSUME NEW c \in Callers, Serves(c) PROVE Others(c) /\ Steady
<1>1. CASE ReadGroup(c)
  BY <1>1, SetOne DEF Steady, ReadGroup
<1>2. CASE ChangeGroup(c)
  BY <1>2, SetOne DEF Steady, ChangeGroup
<1>3. CASE AnswerUsync(c)
  BY <1>3, SetOne DEF Steady, AnswerUsync
<1>4. CASE AnswerTokens(c)
  BY <1>4, SetOne DEF Steady, AnswerTokens
<1>5. CASE AnswerContacts(c)
  BY <1>5, SetOne DEF Steady, AnswerContacts
<1>6. CASE ServeContact(c)
  BY <1>6, SetOne DEF Steady, ServeContact
<1>7. CASE AnswerConn(c)
  BY <1>7, SetOne DEF Steady, AnswerConn
<1>8. CASE SetCover(c)
  BY <1>8, SetOne DEF Steady, SetCover
<1>9. CASE ServeProducts(c)
  BY <1>9, SetOne DEF Steady, ServeProducts
<1>10. CASE ServeCatalog(c)
  BY <1>10, SetOne, Zenon DEF Steady, ServeCatalog
<1>11. CASE ServeCollections(c)
  BY <1>11, SetOne DEF Steady, ServeCollections
<1>12. CASE ServeProfile(c)
  BY <1>12, SetOne DEF Steady, ServeProfile
<1>13. CASE ServeAccount(c)
  BY <1>13, SetOne DEF Steady, ServeAccount
<1>14. CASE ServeChannel(c)
  BY <1>14, SetOne, Zenon DEF Steady, ServeChannel
<1>15. CASE ServeUpdates(c)
  BY <1>15, SetOne DEF Steady, ServeUpdates
<1>16. CASE ChannelNotified(c)
  BY <1>16, SetOne DEF Steady, ChannelNotified, Others, Shape
<1>17. CASE Refuse(c)
  BY <1>17, SetOne DEF Steady, Refuse
<1>18. QED
  BY <1>1, <1>2, <1>3, <1>4, <1>5, <1>6, <1>7, <1>8, <1>9, <1>10, <1>11, <1>12, <1>13, <1>14, <1>15, <1>16, <1>17 DEF Serves

\* Nor does a call that is resumed.
LEMMA ResumesOne == ASSUME NEW c \in Callers, Resumes(c) PROVE Others(c) /\ Steady
<1>1. CASE GroupRead(c)
  BY <1>1, SetOne DEF Steady, GroupRead
<1>2. CASE GroupCode(c)
  BY <1>2, SetOne DEF Steady, GroupCode
<1>3. CASE GroupEnds(c)
  BY <1>3, SetOne DEF Steady, GroupEnds
<1>4. CASE GroupRefused(c)
  BY <1>4, SetOne DEF Steady, GroupRefused
<1>5. CASE InviteSent(c)
  BY <1>5, SetOne DEF Steady, InviteSent
<1>6. CASE InviteFails(c)
  BY <1>6, SetOne DEF Steady, InviteFails
<1>7. CASE BlockRefreshed(c)
  BY <1>7, SetOne DEF Steady, BlockRefreshed
<1>8. CASE DevicesListed(c)
  BY <1>8, SetOne DEF Steady, DevicesListed
<1>9. CASE TokensIssued(c)
  BY <1>9, SetOne DEF Steady, TokensIssued
<1>10. CASE ChatModified(c)
  BY <1>10, SetOne DEF Steady, ChatModified
<1>11. CASE NumbersFound(c)
  BY <1>11, SetOne DEF Steady, NumbersFound, NextChunk
<1>12. CASE ContactEnds(c)
  BY <1>12, SetOne DEF Steady, ContactEnds
<1>13. CASE ConnRead(c)
  BY <1>13, SetOne DEF Steady, ConnRead, Upload
<1>14. CASE UploadTried(c)
  BY <1>14, SetOne DEF Steady, UploadTried, MutateProduct
<1>15. CASE UploadUsed(c)
  BY <1>15, SetOne DEF Steady, UploadUsed
<1>16. CASE ProductRead(c)
  BY <1>16, SetOne DEF Steady, ProductRead
<1>17. CASE ProductRecovered(c)
  BY <1>17, SetOne DEF Steady, ProductRecovered
<1>18. CASE BusinessEnds(c)
  BY <1>18, SetOne DEF Steady, BusinessEnds
<1>19. CASE MediaFails(c)
  BY <1>19, SetOne DEF Steady, MediaFails
<1>20. CASE AccountRead(c)
  BY <1>20, SetOne DEF Steady, AccountRead
<1>21. CASE ReceiptSent(c)
  BY <1>21, SetOne DEF Steady, ReceiptSent
<1>22. CASE ChannelRead(c)
  BY <1>22, SetOne DEF Steady, ChannelRead
<1>23. CASE AccountEnds(c)
  BY <1>23, SetOne DEF Steady, AccountEnds
<1>24. CASE QueryLate(c)
  BY <1>24, SetOne DEF Steady, QueryLate, NumbersLate, NextChunk, ProductLate
<1>25. QED
  BY <1>1, <1>2, <1>3, <1>4, <1>5, <1>6, <1>7, <1>8, <1>9, <1>10, <1>11, <1>12, <1>13, <1>14, <1>15, <1>16, <1>17, <1>18, <1>19, <1>20, <1>21, <1>22, <1>23, <1>24 DEF Resumes
-----------------------------------------------------------------------------
(* What a call is after a step of it                                       *)

\* The fields of a call.
LEMMA FieldsAre ==
  /\ Fields = {"pc", "step", "node", "answer", "copy", "todo", "alone", "hosts", "got", "end", "due", "made",
               "told", "heard", "cut", "result"}
  /\ DOMAIN NoChange = {}
BY DEF Fields, Idle, NoChange

\* What a record over another has.
LEMMA PlusDomain == \A f, g : DOMAIN (f ++ g) = DOMAIN f \cup DOMAIN g
BY DEF ++

\* The fields that are given, and the others as they were.
Rest(c, fields, but) ==
  \A f \in Fields \ but : call'[c][f] = IF f \in DOMAIN fields THEN fields[f] ELSE call[c][f]

\* What is set is set, and the rest stays.
LEMMA SetIs == ASSUME Shape, NEW c \in Callers PROVE \A fields : Set(c, fields) => Rest(c, fields, {})
<1> SUFFICES ASSUME NEW fields, Set(c, fields) PROVE Rest(c, fields, {})
  OBVIOUS
<1>1. call'[c] = fields ++ call[c]
  BY DEF Set, Shape
<1>2. Fields \subseteq DOMAIN call[c]
  BY DEF Shape
<1>3. QED
  BY <1>1, <1>2 DEF Rest, ++

\* A call that asks waits for what it asked.
LEMMA AskIs ==
  ASSUME Shape, NEW c \in Callers
  PROVE  \A node, step, fields : Ask(c, node, step, fields) =>
           /\ {"pc", "node", "answer", "step"} \cap DOMAIN fields = {} =>
                call'[c].pc = "asked" /\ call'[c].node = node /\ call'[c].answer = None /\ call'[c].step = step
           /\ Rest(c, fields, {"pc", "node", "answer", "step", "due"})
<1> SUFFICES ASSUME NEW node, NEW step, NEW fields, Ask(c, node, step, fields)
             PROVE  /\ {"pc", "node", "answer", "step"} \cap DOMAIN fields = {} =>
                        call'[c].pc = "asked" /\ call'[c].node = node /\ call'[c].answer = None /\ call'[c].step = step
                    /\ Rest(c, fields, {"pc", "node", "answer", "step", "due"})
  OBVIOUS
<1> DEFINE given == [pc |-> "asked", node |-> node, answer |-> None, step |-> step, due |-> now + Timeout]
<1>1. Rest(c, fields ++ given, {})
  BY SetIs DEF Ask
<1>2. \A f \in DOMAIN (fields ++ given) : (fields ++ given)[f] = IF f \in DOMAIN fields THEN fields[f] ELSE given[f]
  BY DEF ++
<1>3. DOMAIN given = {"pc", "node", "answer", "step", "due"}
  OBVIOUS
<1>4. DOMAIN (fields ++ given) = DOMAIN fields \cup {"pc", "node", "answer", "step", "due"}
  BY PlusDomain, <1>3
<1>5. given.pc = "asked" /\ given.node = node /\ given.answer = None /\ given.step = step
  OBVIOUS
<1> HIDE DEF given
<1>6. QED
  BY <1>1, <1>2, <1>4, <1>5, FieldsAre DEF Rest

\* A call that ends has its result, and waits for nothing.
LEMMA EndsIs ==
  ASSUME Shape, NEW c \in Callers
  PROVE  \A why, fields : Ends(c, why, fields) =>
           /\ {"pc", "node", "answer", "result"} \cap DOMAIN fields = {} =>
                call'[c].pc = "done" /\ call'[c].node = None /\ call'[c].answer = None /\ call'[c].result = why
           /\ Rest(c, fields, {"pc", "node", "answer", "result"})
<1> SUFFICES ASSUME NEW why, NEW fields, Ends(c, why, fields)
             PROVE  /\ {"pc", "node", "answer", "result"} \cap DOMAIN fields = {} =>
                        call'[c].pc = "done" /\ call'[c].node = None /\ call'[c].answer = None /\ call'[c].result = why
                    /\ Rest(c, fields, {"pc", "node", "answer", "result"})
  OBVIOUS
<1> DEFINE given == [pc |-> "done", result |-> why, node |-> None, answer |-> None]
<1>1. Rest(c, fields ++ given, {})
  BY SetIs DEF Ends
<1>2. \A f \in DOMAIN (fields ++ given) : (fields ++ given)[f] = IF f \in DOMAIN fields THEN fields[f] ELSE given[f]
  BY DEF ++
<1>3. DOMAIN given = {"pc", "node", "answer", "result"}
  OBVIOUS
<1>4. DOMAIN (fields ++ given) = DOMAIN fields \cup {"pc", "node", "answer", "result"}
  BY PlusDomain, <1>3
<1>5. given.pc = "done" /\ given.node = None /\ given.answer = None /\ given.result = why
  OBVIOUS
<1> HIDE DEF given
<1>6. QED
  BY <1>1, <1>2, <1>4, <1>5, FieldsAre DEF Rest

\* The server gives a call its answer, and remembers what it did for it.
LEMMA AnswersIs ==
  ASSUME Shape, NEW c \in Callers
  PROVE  \A answer, made : Answers(c, answer, made) =>
           /\ call'[c].answer = [error |-> None] ++ answer /\ call'[c].made = made ++ call[c].made
           /\ Rest(c, NoChange, {"answer", "made"})
<1> SUFFICES ASSUME NEW answer, NEW made, Answers(c, answer, made)
             PROVE  /\ call'[c].answer = [error |-> None] ++ answer /\ call'[c].made = made ++ call[c].made
                    /\ Rest(c, NoChange, {"answer", "made"})
  OBVIOUS
<1> DEFINE said == [error |-> None] ++ answer
           done == made ++ call[c].made
           given == [answer |-> said, made |-> done]
<1>1. Rest(c, given, {})
  BY SetIs DEF Answers
<1>2. DOMAIN given = {"answer", "made"} /\ given.answer = said /\ given.made = done
  OBVIOUS
<1> HIDE DEF given, said, done
<1>3. call'[c].answer = said /\ call'[c].made = done
  BY <1>1, <1>2, FieldsAre DEF Rest
<1>4. Rest(c, NoChange, {"answer", "made"})
  BY <1>1, <1>2, FieldsAre DEF Rest
<1>5. QED
  BY <1>3, <1>4 DEF said, done

\* The helpers that several calls use.
Fresh(fields) == {"pc", "node", "answer", "step", "result"} \cap DOMAIN fields = {}

\* A call that uploads has its hosts.
LEMMA UploadIs ==
  ASSUME Shape, NEW c \in Callers
  PROVE  \A hosts, fields : Upload(c, hosts, fields) /\ Fresh(fields) => 
           /\ call'[c].pc = "upload" /\ call'[c].node = None /\ call'[c].answer = None
           /\ Rest(c, fields, {"pc", "node", "answer", "hosts", "alone"})
<1> SUFFICES ASSUME NEW hosts, NEW fields, Upload(c, hosts, fields), Fresh(fields)
             PROVE  /\ call'[c].pc = "upload" /\ call'[c].node = None /\ call'[c].answer = None
                    /\ Rest(c, fields, {"pc", "node", "answer", "hosts", "alone"})
  OBVIOUS
<1> DEFINE given == [pc |-> "upload", hosts |-> hosts, alone |-> hosts, node |-> None, answer |-> None]
<1>1. Rest(c, fields ++ given, {})
  BY SetIs DEF Upload
<1>2. \A f \in DOMAIN (fields ++ given) : (fields ++ given)[f] = IF f \in DOMAIN fields THEN fields[f] ELSE given[f]
  BY DEF ++
<1>3. DOMAIN given = {"pc", "hosts", "alone", "node", "answer"}
  OBVIOUS
<1>4. given.pc = "upload" /\ given.node = None /\ given.answer = None
  OBVIOUS
<1> HIDE DEF given
<1>5. DOMAIN (fields ++ given) = DOMAIN fields \cup {"pc", "hosts", "alone", "node", "answer"}
  BY PlusDomain, <1>3
<1>6. QED
  BY <1>1, <1>2, <1>4, <1>5, FieldsAre DEF Rest, Fresh

\* What on_whatsapp does next: it asks about numbers, or ends.
LEMMA NextIs ==
  ASSUME Shape, NEW c \in Callers, NEW fields, Fresh(fields), NextChunk(c, fields)
  PROVE  \/ /\ call'[c].pc = "asked" /\ call'[c].node.xmlns = "contact" /\ call'[c].answer = None
            /\ call'[c].step \in {"alone", "chunk"}
            /\ Rest(c, fields, {"pc", "node", "answer", "step", "due", "alone", "todo"})
         \/ /\ call'[c].pc = "done" /\ call'[c].answer = None /\ call'[c].result \in {"ok", "TimeoutError"}
            /\ Rest(c, fields, {"pc", "node", "answer", "result"})
<1> DEFINE k == fields ++ call[c]
           more == [alone |-> Tail(k.alone), due |-> k.end]
           rest == [todo |-> AfterChunk(k.todo), due |-> k.end]
<1>1. CASE Ask(c, Query("contact", <<Head(k.alone)>>), "alone", more ++ fields)
  <2>1. DOMAIN more = {"alone", "due"}
    OBVIOUS
  <2> HIDE DEF more, k
  <2>2. DOMAIN (more ++ fields) = {"alone", "due"} \cup DOMAIN fields
    BY <2>1, PlusDomain
  <2>3. \A f \in Fields \ {"alone", "due"} : f \in DOMAIN fields => (more ++ fields)[f] = fields[f]
    BY <2>1 DEF ++
  <2>4. /\ call'[c].pc = "asked" /\ call'[c].node = Query("contact", <<Head(k.alone)>>)
        /\ call'[c].answer = None /\ call'[c].step = "alone"
        /\ Rest(c, more ++ fields, {"pc", "node", "answer", "step", "due"})
    BY <1>1, <2>2, AskIs DEF Fresh
  <2>5. call'[c].node.xmlns = "contact"
    BY <2>4 DEF Query
  <2>6. Rest(c, fields, {"pc", "node", "answer", "step", "due", "alone", "todo"})
    BY <2>2, <2>3, <2>4 DEF Rest
  <2>7. QED
    BY <2>4, <2>5, <2>6
<1>2. CASE Ask(c, Query("contact", Chunk(k.todo)), "chunk", rest ++ fields)
  <2>1. DOMAIN rest = {"todo", "due"}
    OBVIOUS
  <2> HIDE DEF rest, k
  <2>2. DOMAIN (rest ++ fields) = {"todo", "due"} \cup DOMAIN fields
    BY <2>1, PlusDomain
  <2>3. \A f \in Fields \ {"todo", "due"} : f \in DOMAIN fields => (rest ++ fields)[f] = fields[f]
    BY <2>1 DEF ++
  <2>4. /\ call'[c].pc = "asked" /\ call'[c].node = Query("contact", Chunk(k.todo))
        /\ call'[c].answer = None /\ call'[c].step = "chunk"
        /\ Rest(c, rest ++ fields, {"pc", "node", "answer", "step", "due"})
    BY <1>2, <2>2, AskIs DEF Fresh
  <2>5. call'[c].node.xmlns = "contact"
    BY <2>4 DEF Query
  <2>6. Rest(c, fields, {"pc", "node", "answer", "step", "due", "alone", "todo"})
    BY <2>2, <2>3, <2>4 DEF Rest
  <2>7. QED
    BY <2>4, <2>5, <2>6
<1>3. CASE \E why \in {"ok", "TimeoutError"} : Ends(c, why, fields)
  BY <1>3, EndsIs DEF Fresh
<1>4. Ends(c, IF k.got = << >> /\ k.cut THEN "TimeoutError" ELSE "ok", fields) => \E why \in {"ok", "TimeoutError"} : Ends(c, why, fields)
  <2> HIDE DEF k
  <2> QED  OBVIOUS
<1>5. QED
  <2>1. \/ Ask(c, Query("contact", <<Head(k.alone)>>), "alone", more ++ fields)
        \/ Ask(c, Query("contact", Chunk(k.todo)), "chunk", rest ++ fields)
        \/ Ends(c, IF k.got = << >> /\ k.cut THEN "TimeoutError" ELSE "ok", fields)
    BY DEF NextChunk
  <2>2. QED
    BY <2>1, <1>1, <1>2, <1>3, <1>4

\* What each request is about.
LEMMA NodesAre ==
  /\ \A about, what : Query(about, what).xmlns = about
  /\ \A action, lid, pn : block_status_node(action, lid, pn).xmlns = "blocklist"
  /\ \A jid, type, child : group_query_node(jid, type, child).xmlns = "w:g2"
  /\ \A jid, text, id : group_update_description_node(jid, text, id).xmlns = "w:g2"
<1>1. /\ \A about, what : Query(about, what).xmlns = about
      /\ \A jid, type, child : group_query_node(jid, type, child).xmlns = "w:g2"
  BY DEF Query, group_query_node
<1>2. QED
  BY <1>1, Zenon DEF block_status_node, group_update_description_node

\* All requests about groups are of one namespace.
LEMMA GroupNodesAre ==
  /\ \A op : op.do \in GroupDo => group_node(op).xmlns = "w:g2"
  /\ \A op : op.do \in CommunityDo => community_node(op).xmlns = "w:g2"
<1>1. \A jid, type, child : group_query_node(jid, type, child).xmlns = "w:g2"
  BY NodesAre
<1>2. ASSUME NEW op, op.do \in GroupDo PROVE group_node(op).xmlns = "w:g2"
  BY <1>1, <1>2 DEF GroupDo, group_node
<1>3. ASSUME NEW op, op.do \in CommunityDo PROVE community_node(op).xmlns = "w:g2"
  BY <1>1, <1>3 DEF CommunityDo, community_node
<1>4. QED
  BY <1>2, <1>3

\* A product is created or changed.
LEMMA MutateIs ==
  ASSUME Shape, NEW c \in Callers, NEW fields, Fresh(fields), MutateProduct(c, fields)
  PROVE  /\ call'[c].pc = "asked" /\ call'[c].answer = None
         /\ IF plan.does[c].do = "product" THEN call'[c].step = "create" /\ call'[c].node.xmlns = "product_add"
            ELSE call'[c].step = "update" /\ call'[c].node.xmlns = "product_edit"
         /\ Rest(c, fields, {"pc", "node", "answer", "step", "due"})
<1> DEFINE node == product_node(IF plan.does[c].do = "product" THEN None ELSE plan.does[c].id, plan.does[c])
<1>1. IF plan.does[c].do = "product" THEN Ask(c, Query("product_add", node), "create", fields)
      ELSE Ask(c, Query("product_edit", node), "update", fields)
  BY DEF MutateProduct
<1> HIDE DEF node
<1>2. Query("product_add", node).xmlns = "product_add" /\ Query("product_edit", node).xmlns = "product_edit"
  BY DEF Query
<1>3. QED
  BY <1>1, <1>2, AskIs DEF Fresh

\* An upload begins, or asks for the hosts first.
LEMMA BeginUploadIs ==
  ASSUME Shape, NEW c \in Callers, NEW force, NEW fields, Fresh(fields), BeginUpload(c, force, fields)
  PROVE  \/ call'[c].pc = "upload" /\ call'[c].answer = None /\ Rest(c, fields, {"pc", "node", "answer", "hosts", "alone"})
         \/ /\ call'[c].pc = "asked" /\ call'[c].answer = None /\ call'[c].step = "conn" /\ call'[c].node.xmlns = "w:m"
            /\ Rest(c, fields, {"pc", "node", "answer", "step", "due"})
<1>1. Query("w:m", None).xmlns = "w:m"
  BY DEF Query
<1>2. QED
  BY <1>1, AskIs, UploadIs DEF Fresh, BeginUpload

-----------------------------------------------------------------------------
(* Which call does what                                                    *)

Reading == AccountDo \cup {"send_receipts"}
OfChannels == ChannelDo \cup {"live_updates", "fetch_messages", "react"}
OfGroups == GroupDo \cup CommunityDo
Uploading == Uploads \cup {"refresh_conn"}
OfBusiness == Catalogs \cup Profiles \cup {"product_delete"}

\* What a call waits for, while the server has not answered or the answer is not read.
Asks(do, about, step) ==
  \/ do \in OfGroups /\ about = "w:g2" /\ step = "first"
  \/ do \in {"description", "c_description"} /\ about = "w:g2" /\ step = "set"
  \/ do \in {"invite", "or_invite"} /\ about = "w:g2" /\ step = "code"
  \/ do = "or_invite" /\ about = "w:g2" /\ step = "meta"
  \/ do = "block" /\ about = "usync" /\ step = "refresh"
  \/ do = "block" /\ about = "blocklist" /\ step = "last"
  \/ do = "devices" /\ about = "usync" /\ step = "first"
  \/ do = "tokens" /\ about = "privacy" /\ step = "first"
  \/ do = "picture" /\ about = "picture" /\ step = "first"
  \/ do = "modify" /\ about = "app_state" /\ step = "first"
  \/ do = "exists" /\ about = "contact" /\ step \in {"alone", "chunk"}
  \/ do \in Reading /\ about = "privacy_settings" /\ step = "first"
  \/ do \in OfChannels /\ about \in {"w:mex", "newsletter"} /\ step = "first"
  \/ do \in Uploading /\ about = "w:m" /\ step = "conn"
  \/ do = "cover" /\ about = "cover" /\ step = "cover"
  \/ do = "product" /\ about = "product_add" /\ step = "create"
  \/ do = "product_update" /\ about = "product_edit" /\ step = "update"
  \/ do = "product" /\ about = "catalog" /\ step = "recover"
  \/ do = "catalog" /\ about = "catalog" /\ step = "page"
  \/ do = "collections" /\ about = "collections" /\ step = "collections"
  \/ do = "product_delete" /\ about = "product_delete" /\ step = "delete"
  \/ do \in Profiles /\ about = "w:biz" /\ step = "profile"

\* Where a call can be, by what it does.
Placed(do, pc) ==
  \/ pc = "asked" \/ pc = "done"
  \/ pc = "upload" /\ do \in Uploads
  \/ pc = "send" /\ do \in {"media", "invite", "or_invite"}
  \/ pc = "receipts" /\ do \in {"read_messages", "send_receipts"}
  \/ pc = "media" /\ do = "retry"

Protocol(c) ==
  call[c].pc # "idle" =>
    /\ plan.does[c] # None /\ Placed(plan.does[c].do, call[c].pc)
    /\ call[c].pc = "asked" => Asks(plan.does[c].do, call[c].node.xmlns, call[c].step)

\* The same of the state after a step, whose plan is the same.
ProtocolNext(c) ==
  call'[c].pc # "idle" =>
    /\ plan.does[c] # None /\ Placed(plan.does[c].do, call'[c].pc)
    /\ call'[c].pc = "asked" => Asks(plan.does[c].do, call'[c].node.xmlns, call'[c].step)

\* A call that begins is where its kind of call can be.
LEMMA StartsProtocol ==
  ASSUME Shape, NEW c \in Callers, Protocol(c), Starts(c)
  PROVE  ProtocolNext(c)
<1> USE FieldsAre, PlusDomain, NodesAre DEF ProtocolNext, Protocol, Placed, Asks, Rest, Begins, Answered, Granting, Refused, Reading, OfChannels, OfGroups, Uploading, OfBusiness, Uploads, Mutations
<1>a. \A fields : Set(c, fields) => Rest(c, fields, {})
  BY SetIs
<1>b. \A node, step, fields :
        Ask(c, node, step, fields) /\ {"pc", "node", "answer", "step"} \cap DOMAIN fields = {} =>
             call'[c].pc = "asked" /\ call'[c].node = node /\ call'[c].step = step
  BY AskIs
<1>c. \A why, fields :
        Ends(c, why, fields) /\ {"pc", "node", "answer", "result"} \cap DOMAIN fields = {} => call'[c].pc = "done"
  BY EndsIs
<1>d. \A answer, made : Answers(c, answer, made) =>
           call'[c].pc = call[c].pc /\ call'[c].node = call[c].node /\ call'[c].step = call[c].step
  BY AnswersIs
<1>1. CASE BeginGroup(c)
  BY <1>1, <1>a, <1>b, <1>c, <1>d, GroupNodesAre DEF BeginGroup
<1>2. CASE update_block_status(c)
  BY <1>2, <1>a, <1>b, <1>c, <1>d DEF update_block_status
<1>3. CASE get_usync_devices(c)
  BY <1>3, <1>a, <1>b, <1>c, <1>d DEF get_usync_devices
<1>4. CASE issue_privacy_tokens(c)
  BY <1>4, <1>a, <1>b, <1>c, <1>d DEF issue_privacy_tokens
<1>5. CASE profile_picture_url(c)
  BY <1>5, <1>a, <1>b, <1>c, <1>d DEF profile_picture_url
<1>6. CASE chat_modify(c)
  BY <1>6, <1>a, <1>b, <1>c, <1>d DEF chat_modify
<1>7. CASE on_whatsapp(c)
  BY <1>7, <1>a, <1>b, <1>c, <1>d, NextIs DEF on_whatsapp, Fresh
<1>8. CASE account_call(c)
  BY <1>8, <1>a, <1>b, <1>c, <1>d DEF account_call
<1>9. CASE send_receipts(c)
  BY <1>9, <1>a, <1>b, <1>c, <1>d DEF send_receipts
<1>10. CASE newsletter_call(c)
  BY <1>10, <1>a, <1>b, <1>c, <1>d DEF newsletter_call
<1>11. CASE newsletter_react_message(c)
  BY <1>11, <1>a, <1>b, <1>c, <1>d DEF newsletter_react_message
<1>12. CASE product_delete(c)
  BY <1>12, <1>a, <1>b, <1>c, <1>d DEF product_delete
<1>13. CASE get_catalog(c)
  BY <1>13, <1>a, <1>b, <1>c, <1>d DEF get_catalog, Catalogs
<1>14. CASE profile_call(c)
  BY <1>14, <1>a, <1>b, <1>c, <1>d DEF profile_call
<1>15. CASE upload_call(c)
  <2> DEFINE op == plan.does[c]
             images == IF op.do \in Mutations THEN ToUpload(op.images) ELSE <<"new">>
  <2>1. op # None /\ op.do \in Uploads
    BY <1>15 DEF upload_call, Begins
  <2>2. images = << >> => op.do \in Mutations
    OBVIOUS
  <2>3. op.do \in Mutations => op.do \in {"product", "product_update"}
    BY DEF Mutations
  <2>4. Fresh([todo |-> images]) /\ Fresh(NoChange)
    BY FieldsAre DEF Fresh
  <2> HIDE DEF images
  <2>5. \/ \E why : Ends(c, why, NoChange)
        \/ images = << >> /\ MutateProduct(c, NoChange)
        \/ BeginUpload(c, FALSE, [todo |-> images])
    BY <1>15 DEF upload_call, images
  <2>6. CASE \E why : Ends(c, why, NoChange)
    BY <1>c, <2>1, <2>6, FieldsAre DEF ProtocolNext, Placed
  <2>7. CASE images = << >> /\ MutateProduct(c, NoChange)
    BY <2>1, <2>2, <2>3, <2>4, <2>7, MutateIs DEF ProtocolNext, Placed, Asks
  <2>8. CASE BeginUpload(c, FALSE, [todo |-> images])
    BY <2>1, <2>4, <2>8, BeginUploadIs DEF ProtocolNext, Placed, Asks, Uploading
  <2>9. QED
    BY <2>5, <2>6, <2>7, <2>8
<1>16. CASE refresh_media_conn(c)
  BY <1>16, <1>a, <1>b, <1>c, <1>d DEF refresh_media_conn
<1>17. CASE update_media_message(c)
  BY <1>17, <1>a, <1>b, <1>c, <1>d DEF update_media_message
<1>18. QED
  BY <1>1, <1>2, <1>3, <1>4, <1>5, <1>6, <1>7, <1>8, <1>9, <1>10, <1>11, <1>12, <1>13, <1>14, <1>15, <1>16, <1>17, Zenon DEF Starts

\* An answer does not move the call.
LEMMA ServesProtocol ==
  ASSUME Shape, NEW c \in Callers, Protocol(c), Serves(c)
  PROVE  ProtocolNext(c)
<1> USE FieldsAre, PlusDomain, NodesAre DEF ProtocolNext, Protocol, Waiting, Rest
<1>a. \A fields : Set(c, fields) => Rest(c, fields, {})
  BY SetIs
<1>b. \A node, step, fields :
        Ask(c, node, step, fields) /\ {"pc", "node", "answer", "step"} \cap DOMAIN fields = {} =>
             call'[c].pc = "asked" /\ call'[c].node = node /\ call'[c].step = step
  BY AskIs
<1>c. \A why, fields :
        Ends(c, why, fields) /\ {"pc", "node", "answer", "result"} \cap DOMAIN fields = {} => call'[c].pc = "done"
  BY EndsIs
<1>d. \A answer, made : Answers(c, answer, made) =>
           call'[c].pc = call[c].pc /\ call'[c].node = call[c].node /\ call'[c].step = call[c].step
  BY AnswersIs
<1>1. CASE ReadGroup(c)
  BY <1>1, <1>d DEF ReadGroup
<1>2. CASE ChangeGroup(c)
  BY <1>2, <1>d DEF ChangeGroup
<1>3. CASE AnswerUsync(c)
  BY <1>3, <1>d DEF AnswerUsync
<1>4. CASE AnswerTokens(c)
  BY <1>4, <1>d DEF AnswerTokens
<1>5. CASE AnswerContacts(c)
  BY <1>5, <1>d DEF AnswerContacts
<1>6. CASE ServeContact(c)
  BY <1>6, <1>d DEF ServeContact
<1>7. CASE AnswerConn(c)
  BY <1>7, <1>d DEF AnswerConn
<1>8. CASE SetCover(c)
  BY <1>8, <1>d DEF SetCover
<1>9. CASE ServeProducts(c)
  BY <1>9, <1>d DEF ServeProducts
<1>10. CASE ServeCatalog(c)
  BY <1>10, <1>d, Zenon DEF ServeCatalog
<1>11. CASE ServeCollections(c)
  BY <1>11, <1>d DEF ServeCollections
<1>12. CASE ServeProfile(c)
  BY <1>12, <1>d DEF ServeProfile
<1>13. CASE ServeAccount(c)
  BY <1>13, <1>d DEF ServeAccount
<1>14. CASE ServeChannel(c)
  BY <1>14, <1>d, Zenon DEF ServeChannel
<1>15. CASE ServeUpdates(c)
  BY <1>15, <1>d DEF ServeUpdates
<1>16. CASE ChannelNotified(c)
  BY <1>16 DEF ChannelNotified
<1>17. CASE Refuse(c)
  BY <1>17, <1>d, <1>a DEF Refuse
<1>18. QED
  BY <1>1, <1>2, <1>3, <1>4, <1>5, <1>6, <1>7, <1>8, <1>9, <1>10, <1>11, <1>12, <1>13, <1>14, <1>15, <1>16, <1>17 DEF Serves

\* A call that is resumed goes on as its kind of call does.
LEMMA ResumesProtocol ==
  ASSUME Shape, NEW c \in Callers, Protocol(c), Resumes(c)
  PROVE  ProtocolNext(c)
<1> USE FieldsAre, PlusDomain, NodesAre DEF ProtocolNext, Protocol, Placed, Asks, Rest, Begins, Answered, Granting, Refused, Reading, OfChannels, OfGroups, Uploading, OfBusiness, Uploads, Mutations
<1>a. \A fields : Set(c, fields) => Rest(c, fields, {})
  BY SetIs
<1>b. \A node, step, fields :
        Ask(c, node, step, fields) /\ {"pc", "node", "answer", "step"} \cap DOMAIN fields = {} =>
             call'[c].pc = "asked" /\ call'[c].node = node /\ call'[c].step = step
  BY AskIs
<1>c. \A why, fields :
        Ends(c, why, fields) /\ {"pc", "node", "answer", "result"} \cap DOMAIN fields = {} => call'[c].pc = "done"
  BY EndsIs
<1>d. \A answer, made : Answers(c, answer, made) =>
           call'[c].pc = call[c].pc /\ call'[c].node = call[c].node /\ call'[c].step = call[c].step
  BY AnswersIs
<1>1. CASE GroupRead(c)
  BY <1>1, <1>a, <1>b, <1>c, <1>d DEF GroupRead
<1>2. CASE GroupCode(c)
  BY <1>2, <1>a, <1>b, <1>c, <1>d DEF GroupCode
<1>3. CASE GroupEnds(c)
  BY <1>3, <1>a, <1>b, <1>c, <1>d DEF GroupEnds
<1>4. CASE GroupRefused(c)
  BY <1>4, <1>a, <1>b, <1>c, <1>d DEF GroupRefused
<1>5. CASE InviteSent(c)
  <2> DEFINE op == plan.does[c]
             sent == {Head(call[c].todo)} \cup (IF "invited" \in DOMAIN call[c].made THEN call[c].made.invited ELSE {})
             done == [made |-> [invited |-> sent] ++ call[c].made]
             last == [told |-> [invited |-> Members(op)]] ++ done
             next == [todo |-> Tail(call[c].todo)] ++ done
  <2>1. op # None /\ op.do \in {"invite", "or_invite"}
    BY <1>5 DEF InviteSent, Protocol
  <2> DEFINE made == [invited |-> sent] ++ call[c].made
  <2> HIDE DEF made
  <2>2. DOMAIN done = {"made"}
    BY DEF made
  <2>3. \/ Ends(c, "ok", NoChange) \/ Ends(c, "ok", last)
        \/ op.do = "or_invite" /\ Ask(c, group_query_node(op.jid, "get", [tag |-> "query"]), "meta", next)
    BY <1>5, <2>1 DEF InviteSent
  <2> HIDE DEF done
  <2>4. DOMAIN last = {"told", "made"} /\ DOMAIN next = {"todo", "made"}
    BY ONLY <2>2, PlusDomain, Zenon DEF last, next
  <2> HIDE DEF last, next
  <2>5. QED
    BY <2>1, <2>3, <2>4, <1>b, <1>c, FieldsAre, NodesAre DEF ProtocolNext, Placed, Asks
<1>6. CASE InviteFails(c)
  BY <1>6, <1>a, <1>b, <1>c, <1>d DEF InviteFails
<1>7. CASE BlockRefreshed(c)
  BY <1>7, <1>a, <1>b, <1>c, <1>d DEF BlockRefreshed
<1>8. CASE DevicesListed(c)
  BY <1>8, <1>a, <1>b, <1>c, <1>d DEF DevicesListed
<1>9. CASE TokensIssued(c)
  BY <1>9, <1>a, <1>b, <1>c, <1>d DEF TokensIssued
<1>10. CASE ChatModified(c)
  BY <1>10, <1>a, <1>b, <1>c, <1>d DEF ChatModified
<1>11. CASE NumbersFound(c)
  BY <1>11, <1>a, <1>b, <1>c, <1>d, NextIs DEF NumbersFound, Fresh
<1>12. CASE ContactEnds(c)
  BY <1>12, <1>a, <1>b, <1>c, <1>d DEF ContactEnds
<1>13. CASE ConnRead(c)
  BY <1>13, <1>a, <1>b, <1>c, <1>d, UploadIs DEF ConnRead, Fresh
<1>14. CASE UploadTried(c)
  <2> DEFINE op == plan.does[c]
  <2>1. op # None /\ op.do \in Uploads
    BY <1>14 DEF UploadTried, Protocol, Placed
  <2>2. op.do \in Mutations => op.do \in {"product", "product_update"}
    BY DEF Mutations
  <2>3. op.do \notin {"media", "upload", "cover"} => op.do \in Mutations
    BY <2>1 DEF Uploads
  <2>4. Fresh([todo |-> << >>])
    BY DEF Fresh
  <2>5. PICK hosts, payload, left :
          \/ \E why : Ends(c, why, NoChange)
          \/ Set(c, [alone |-> Tail(hosts)])
          \/ Set(c, [pc |-> "send", got |-> <<media_message(op.type, payload)>>]) /\ op.do = "media"
          \/ Ends(c, "ok", [got |-> <<payload>>])
          \/ Ask(c, Query("cover", payload.fbid), "cover", NoChange) /\ op.do = "cover"
          \/ Set(c, [todo |-> left, alone |-> call[c].hosts])
          \/ op.do \in Mutations /\ MutateProduct(c, [todo |-> << >>])
    BY <1>14, <2>3 DEF UploadTried
  <2>6. CASE op.do \in Mutations /\ MutateProduct(c, [todo |-> << >>])
    BY <2>1, <2>2, <2>4, <2>6, MutateIs DEF ProtocolNext, Placed, Asks
  <2>7. CASE \/ \E why : Ends(c, why, NoChange)
             \/ Ends(c, "ok", [got |-> <<payload>>])
    BY <1>c, <2>1, <2>7, FieldsAre DEF ProtocolNext, Placed
  <2>8. CASE Ask(c, Query("cover", payload.fbid), "cover", NoChange) /\ op.do = "cover"
    BY <1>b, <2>1, <2>8, FieldsAre, NodesAre DEF ProtocolNext, Placed, Asks
  <2>9. CASE \/ Set(c, [alone |-> Tail(hosts)])
             \/ Set(c, [todo |-> left, alone |-> call[c].hosts])
    BY <1>a, <1>14, <2>1, <2>9, FieldsAre DEF ProtocolNext, Placed, UploadTried, Rest
  <2>10. CASE Set(c, [pc |-> "send", got |-> <<media_message(op.type, payload)>>]) /\ op.do = "media"
    <3>1. \A m : DOMAIN [pc |-> "send", got |-> m] = {"pc", "got"} /\ [pc |-> "send", got |-> m].pc = "send"
      OBVIOUS
    <3>2. call'[c].pc = "send"
      BY <1>a, <2>10, <3>1, FieldsAre DEF Rest
    <3>3. QED
      BY <2>1, <2>10, <3>2 DEF ProtocolNext, Placed
  <2>11. QED
    BY <2>5, <2>6, <2>7, <2>8, <2>9, <2>10
<1>15. CASE UploadUsed(c)
  BY <1>15, <1>a, <1>b, <1>c, <1>d DEF UploadUsed
<1>16. CASE ProductRead(c)
  BY <1>16, <1>a, <1>b, <1>c, <1>d DEF ProductRead
<1>17. CASE ProductRecovered(c)
  BY <1>17, <1>a, <1>b, <1>c, <1>d DEF ProductRecovered
<1>18. CASE BusinessEnds(c)
  BY <1>18, <1>a, <1>b, <1>c, <1>d DEF BusinessEnds
<1>19. CASE MediaFails(c)
  BY <1>19, <1>a, <1>b, <1>c, <1>d DEF MediaFails
<1>20. CASE AccountRead(c)
  BY <1>20, <1>a, <1>b, <1>c, <1>d DEF AccountRead
<1>21. CASE ReceiptSent(c)
  <2>1. \A x, y : DOMAIN [todo |-> x, got |-> y] = {"todo", "got"}
    OBVIOUS
  <2>2. PICK x, y : \/ \E why : Ends(c, why, NoChange)
                   \/ Set(c, [todo |-> x, got |-> y])
    BY <1>21 DEF ReceiptSent
  <2>3. CASE \E why : Ends(c, why, NoChange)
    BY <1>c, <1>21, <2>3, FieldsAre DEF ProtocolNext, Placed, ReceiptSent, Protocol
  <2>4. CASE Set(c, [todo |-> x, got |-> y])
    BY <1>a, <1>21, <2>1, <2>4, FieldsAre DEF ProtocolNext, Placed, ReceiptSent, Protocol, Rest
  <2>5. QED
    BY <2>2, <2>3, <2>4
<1>22. CASE ChannelRead(c)
  BY <1>22, <1>a, <1>b, <1>c, <1>d DEF ChannelRead
<1>23. CASE AccountEnds(c)
  BY <1>23, <1>a, <1>b, <1>c, <1>d DEF AccountEnds
<1>24. CASE QueryLate(c)
  <2> DEFINE op == plan.does[c]
             asked == call[c].node.child
             more == [cut |-> TRUE] ++ (IF call[c].step = "chunk" /\ Len(asked) > 1 THEN [alone |-> asked] ELSE NoChange)
  <2>1. op # None
    BY <1>24 DEF QueryLate, Protocol
  <2>2. \/ op.do = "exists" /\ NextChunk(c, more)
        \/ Ends(c, "TimeoutError", [cut |-> TRUE])
        \/ op.do = "product" /\ Ask(c, Query("catalog", catalog_node(RecoverPage, None)), "recover", [cut |-> TRUE])
    BY <1>24 DEF QueryLate, NumbersLate, ProductLate
  <2>3. CASE op.do = "exists" /\ NextChunk(c, more)
    <3>1. \A x : DOMAIN [alone |-> x] = {"alone"} /\ DOMAIN [cut |-> x] = {"cut"}
      OBVIOUS
    <3> DEFINE single == IF call[c].step = "chunk" /\ Len(asked) > 1 THEN [alone |-> asked] ELSE NoChange
    <3>2. DOMAIN single \subseteq {"alone"}
      BY <3>1, FieldsAre
    <3>3. DOMAIN more = DOMAIN [cut |-> TRUE] \cup DOMAIN single
      BY ONLY Zenon, PlusDomain DEF more
    <3> HIDE DEF single, more
    <3>4. DOMAIN more \subseteq {"cut", "alone"}
      BY <3>1, <3>2, <3>3
    <3>5. Fresh(more)
      BY <3>4 DEF Fresh
    <3>6. QED
      BY <2>1, <2>3, <3>5, NextIs DEF ProtocolNext, Placed, Asks
  <2>4. CASE Ends(c, "TimeoutError", [cut |-> TRUE])
    BY <1>c, <2>1, <2>4 DEF ProtocolNext, Placed
  <2>5. CASE op.do = "product" /\ Ask(c, Query("catalog", catalog_node(RecoverPage, None)), "recover", [cut |-> TRUE])
    BY <1>b, <2>1, <2>5, NodesAre DEF ProtocolNext, Placed, Asks
  <2>6. QED
    BY <2>2, <2>3, <2>4, <2>5
<1>25. QED
  BY <1>1, <1>2, <1>3, <1>4, <1>5, <1>6, <1>7, <1>8, <1>9, <1>10, <1>11, <1>12, <1>13, <1>14, <1>15, <1>16, <1>17, <1>18, <1>19, <1>20, <1>21, <1>22, <1>23, <1>24, Zenon DEF Resumes

-----------------------------------------------------------------------------
(* The steps of each kind of call                                          *)

GroupStep(c) ==
  \/ BeginGroup(c) \/ ReadGroup(c) \/ ChangeGroup(c) \/ GroupRead(c) \/ GroupCode(c)
  \/ GroupEnds(c) \/ GroupRefused(c) \/ InviteSent(c) \/ InviteFails(c) \/ Refuse(c)
  \/ QueryLate(c)
BlockStep(c) ==
  \/ update_block_status(c) \/ AnswerUsync(c) \/ ServeContact(c) \/ BlockRefreshed(c) \/ ContactEnds(c)
  \/ Refuse(c) \/ QueryLate(c)
DevicesStep(c) ==
  \/ get_usync_devices(c) \/ AnswerUsync(c) \/ DevicesListed(c) \/ Refuse(c) \/ QueryLate(c)
TokensStep(c) ==
  \/ issue_privacy_tokens(c) \/ AnswerTokens(c) \/ TokensIssued(c) \/ ContactEnds(c) \/ Refuse(c)
  \/ QueryLate(c)
PictureStep(c) ==
  \/ profile_picture_url(c) \/ ServeContact(c) \/ ContactEnds(c) \/ Refuse(c) \/ QueryLate(c)
ModifyStep(c) ==
  \/ chat_modify(c) \/ ServeContact(c) \/ ChatModified(c) \/ ContactEnds(c) \/ Refuse(c)
  \/ QueryLate(c)
ExistsStep(c) ==
  \/ on_whatsapp(c) \/ AnswerContacts(c) \/ NumbersFound(c) \/ ContactEnds(c) \/ Refuse(c)
  \/ QueryLate(c)
ReadingStep(c) ==
  \/ account_call(c) \/ send_receipts(c) \/ ServeAccount(c) \/ AccountRead(c) \/ ReceiptSent(c)
  \/ AccountEnds(c) \/ Refuse(c) \/ QueryLate(c)
ChannelStep(c) ==
  \/ newsletter_call(c) \/ newsletter_react_message(c) \/ ServeChannel(c) \/ ServeUpdates(c) \/ ChannelNotified(c)
  \/ ChannelRead(c) \/ AccountEnds(c) \/ Refuse(c) \/ QueryLate(c)
UploadStep(c) ==
  \/ upload_call(c) \/ refresh_media_conn(c) \/ AnswerConn(c) \/ SetCover(c) \/ ServeProducts(c)
  \/ ServeCatalog(c) \/ ConnRead(c) \/ UploadTried(c) \/ UploadUsed(c) \/ ProductRead(c)
  \/ ProductRecovered(c) \/ Refuse(c) \/ QueryLate(c)
BusinessStep(c) ==
  \/ product_delete(c) \/ get_catalog(c) \/ profile_call(c) \/ ServeProducts(c) \/ ServeCatalog(c)
  \/ ServeCollections(c) \/ ServeProfile(c) \/ ProductRead(c) \/ BusinessEnds(c) \/ Refuse(c)
  \/ QueryLate(c)
RetryStep(c) ==
  \/ update_media_message(c) \/ MediaFails(c)

\* A step of a call is one of its kind.
OfItsKind(c) ==
  LET do == plan.does[c].do
  IN /\ plan.does[c] # None
     /\ \/ do \in OfGroups /\ GroupStep(c)
        \/ do = "block" /\ BlockStep(c)
        \/ do = "devices" /\ DevicesStep(c)
        \/ do = "tokens" /\ TokensStep(c)
        \/ do = "picture" /\ PictureStep(c)
        \/ do = "modify" /\ ModifyStep(c)
        \/ do = "exists" /\ ExistsStep(c)
        \/ do \in Reading /\ ReadingStep(c)
        \/ do \in OfChannels /\ ChannelStep(c)
        \/ do \in Uploading /\ UploadStep(c)
        \/ do \in OfBusiness /\ BusinessStep(c)
        \/ do = "retry" /\ RetryStep(c)

\* The calls about groups that ask more than once.
LEMMA GroupsHave == {"description", "c_description", "invite", "or_invite"} \subseteq OfGroups
BY DEF OfGroups, GroupDo, CommunityDo

\* A call begins with the step of its kind.
LEMMA StartsKind ==
  ASSUME NEW c \in Callers, Protocol(c), Starts(c)
  PROVE  OfItsKind(c)
<1> USE GroupsHave DEF OfItsKind, Begins, Waiting, Answered, Granting, Refused, Protocol, Placed, Asks, Reading, OfChannels, Uploading, OfBusiness, Uploads, Mutations, AccountDo, ChannelDo, Simple, Catalogs, Profiles, Query
<1>1. CASE BeginGroup(c)
  BY <1>1 DEF BeginGroup, OfGroups, GroupStep
<1>2. CASE update_block_status(c)
  BY <1>2 DEF update_block_status, BlockStep
<1>3. CASE get_usync_devices(c)
  BY <1>3 DEF get_usync_devices, DevicesStep
<1>4. CASE issue_privacy_tokens(c)
  BY <1>4 DEF issue_privacy_tokens, TokensStep
<1>5. CASE profile_picture_url(c)
  BY <1>5 DEF profile_picture_url, PictureStep
<1>6. CASE chat_modify(c)
  BY <1>6 DEF chat_modify, ModifyStep
<1>7. CASE on_whatsapp(c)
  BY <1>7 DEF on_whatsapp, ExistsStep
<1>8. CASE account_call(c)
  BY <1>8 DEF account_call, ReadingStep
<1>9. CASE send_receipts(c)
  BY <1>9 DEF send_receipts, ReadingStep
<1>10. CASE newsletter_call(c)
  BY <1>10 DEF newsletter_call, ChannelStep
<1>11. CASE newsletter_react_message(c)
  BY <1>11 DEF newsletter_react_message, ChannelStep
<1>12. CASE product_delete(c)
  BY <1>12 DEF product_delete, BusinessStep
<1>13. CASE get_catalog(c)
  BY <1>13 DEF get_catalog, BusinessStep
<1>14. CASE profile_call(c)
  BY <1>14 DEF profile_call, BusinessStep
<1>15. CASE upload_call(c)
  BY <1>15 DEF upload_call, UploadStep
<1>16. CASE refresh_media_conn(c)
  BY <1>16 DEF refresh_media_conn, UploadStep
<1>17. CASE update_media_message(c)
  BY <1>17 DEF update_media_message, RetryStep
<1>18. QED
  BY <1>1, <1>2, <1>3, <1>4, <1>5, <1>6, <1>7, <1>8, <1>9, <1>10, <1>11, <1>12, <1>13, <1>14, <1>15, <1>16, <1>17 DEF Starts

\* What it is answered is what its kind asks.
LEMMA ServesKind ==
  ASSUME NEW c \in Callers, Protocol(c), Serves(c)
  PROVE  OfItsKind(c)
<1> USE GroupsHave DEF OfItsKind, Begins, Waiting, Answered, Granting, Refused, Protocol, Placed, Asks, Reading, OfChannels, Uploading, OfBusiness, Uploads, Mutations, AccountDo, ChannelDo, Simple, Catalogs, Profiles, Query
<1>1. CASE ReadGroup(c)
  BY <1>1, Zenon DEF ReadGroup, GroupStep
<1>2. CASE ChangeGroup(c)
  BY <1>2, Zenon DEF ChangeGroup, GroupStep
<1>3. CASE AnswerUsync(c)
  BY <1>3 DEF AnswerUsync, BlockStep, DevicesStep
<1>4. CASE AnswerTokens(c)
  BY <1>4 DEF AnswerTokens, TokensStep
<1>5. CASE AnswerContacts(c)
  BY <1>5 DEF AnswerContacts, ExistsStep
<1>6. CASE ServeContact(c)
  BY <1>6 DEF ServeContact, BlockStep, PictureStep, ModifyStep
<1>7. CASE AnswerConn(c)
  BY <1>7 DEF AnswerConn, UploadStep
<1>8. CASE SetCover(c)
  BY <1>8 DEF SetCover, UploadStep
<1>9. CASE ServeProducts(c)
  BY <1>9 DEF ServeProducts, UploadStep, BusinessStep
<1>10. CASE ServeCatalog(c)
  BY <1>10, Zenon DEF ServeCatalog, UploadStep, BusinessStep
<1>11. CASE ServeCollections(c)
  BY <1>11 DEF ServeCollections, BusinessStep
<1>12. CASE ServeProfile(c)
  BY <1>12 DEF ServeProfile, BusinessStep
<1>13. CASE ServeAccount(c)
  BY <1>13 DEF ServeAccount, ReadingStep
<1>14. CASE ServeChannel(c)
  BY <1>14, Zenon DEF ServeChannel, ChannelStep
<1>15. CASE ServeUpdates(c)
  BY <1>15 DEF ServeUpdates, ChannelStep
<1>16. CASE ChannelNotified(c)
  BY <1>16 DEF ChannelNotified, ChannelStep
<1>17. CASE Refuse(c)
  <2>1. call[c].pc = "asked"
    BY <1>17 DEF Refuse, Granting, Answered
  <2>2. QED
    BY <1>17, <2>1, GroupsHave DEF OfItsKind, Begins, Waiting, Answered, Granting, Refused, Protocol, Placed, Asks, Reading, OfChannels, Uploading, OfBusiness, Uploads, Mutations, AccountDo, ChannelDo, Simple, Catalogs, Profiles, Query, GroupStep, BlockStep, DevicesStep, TokensStep, PictureStep, ModifyStep, ExistsStep, ReadingStep, ChannelStep, UploadStep, BusinessStep
<1>18. QED
  BY <1>1, <1>2, <1>3, <1>4, <1>5, <1>6, <1>7, <1>8, <1>9, <1>10, <1>11, <1>12, <1>13, <1>14, <1>15, <1>16, <1>17 DEF Serves

\* It is resumed by the steps of its kind.
LEMMA ResumesKind ==
  ASSUME NEW c \in Callers, Protocol(c), Resumes(c)
  PROVE  OfItsKind(c)
<1> USE GroupsHave DEF OfItsKind, Begins, Waiting, Answered, Granting, Refused, Protocol, Placed, Asks, Reading, OfChannels, Uploading, OfBusiness, Uploads, Mutations, AccountDo, ChannelDo, Simple, Catalogs, Profiles, Query
<1>1. CASE GroupRead(c)
  BY <1>1 DEF GroupRead, GroupStep
<1>2. CASE GroupCode(c)
  BY <1>2 DEF GroupCode, GroupStep
<1>3. CASE GroupEnds(c)
  BY <1>3 DEF GroupEnds, GroupStep
<1>4. CASE GroupRefused(c)
  BY <1>4 DEF GroupRefused, GroupStep
<1>5. CASE InviteSent(c)
  BY <1>5 DEF InviteSent, GroupStep
<1>6. CASE InviteFails(c)
  BY <1>6 DEF InviteFails, GroupStep
<1>7. CASE BlockRefreshed(c)
  BY <1>7 DEF BlockRefreshed, BlockStep
<1>8. CASE DevicesListed(c)
  BY <1>8 DEF DevicesListed, DevicesStep
<1>9. CASE TokensIssued(c)
  <2>1. call[c].pc = "asked" /\ plan.does[c].do = "tokens"
    BY <1>9 DEF TokensIssued, Granting, Answered
  <2>2. QED
    BY <1>9, <2>1, GroupsHave DEF OfItsKind, Begins, Waiting, Answered, Granting, Refused, Protocol, Placed, Asks, Reading, OfChannels, Uploading, OfBusiness, Uploads, Mutations, AccountDo, ChannelDo, Simple, Catalogs, Profiles, Query, TokensStep
<1>10. CASE ChatModified(c)
  BY <1>10 DEF ChatModified, ModifyStep
<1>11. CASE NumbersFound(c)
  BY <1>11 DEF NumbersFound, ExistsStep
<1>12. CASE ContactEnds(c)
  BY <1>12 DEF ContactEnds, BlockStep, TokensStep, PictureStep, ModifyStep, ExistsStep
<1>13. CASE ConnRead(c)
  BY <1>13 DEF ConnRead, UploadStep
<1>14. CASE UploadTried(c)
  BY <1>14 DEF UploadTried, UploadStep
<1>15. CASE UploadUsed(c)
  BY <1>15 DEF UploadUsed, UploadStep
<1>16. CASE ProductRead(c)
  BY <1>16 DEF ProductRead, UploadStep, BusinessStep
<1>17. CASE ProductRecovered(c)
  BY <1>17 DEF ProductRecovered, UploadStep
<1>18. CASE BusinessEnds(c)
  BY <1>18 DEF BusinessEnds, BusinessStep
<1>19. CASE MediaFails(c)
  BY <1>19 DEF MediaFails, RetryStep
<1>20. CASE AccountRead(c)
  BY <1>20 DEF AccountRead, ReadingStep
<1>21. CASE ReceiptSent(c)
  BY <1>21 DEF ReceiptSent, ReadingStep
<1>22. CASE ChannelRead(c)
  BY <1>22 DEF ChannelRead, ChannelStep
<1>23. CASE AccountEnds(c)
  BY <1>23 DEF AccountEnds, ReadingStep, ChannelStep
<1>24. CASE QueryLate(c)
  <2>1. call[c].pc = "asked"
    BY <1>24 DEF QueryLate, Granting, Answered
  <2>2. QED
    BY <1>24, <2>1, GroupsHave DEF OfItsKind, Begins, Waiting, Answered, Granting, Refused, Protocol, Placed, Asks, Reading, OfChannels, Uploading, OfBusiness, Uploads, Mutations, AccountDo, ChannelDo, Simple, Catalogs, Profiles, Query, GroupStep, BlockStep, DevicesStep, TokensStep, PictureStep, ModifyStep, ExistsStep, ReadingStep, ChannelStep, UploadStep, BusinessStep
<1>25. QED
  BY <1>1, <1>2, <1>3, <1>4, <1>5, <1>6, <1>7, <1>8, <1>9, <1>10, <1>11, <1>12, <1>13, <1>14, <1>15, <1>16, <1>17, <1>18, <1>19, <1>20, <1>21, <1>22, <1>23, <1>24 DEF Resumes

-----------------------------------------------------------------------------
(* What else a step changes                                                *)

Frame(c) ==
  /\ UNCHANGED <<now, lid_of, once, moves, crashes>>
  /\ UNCHANGED <<creds, disk, rows>> \/ BlockRefreshed(c) \/ DevicesListed(c) \/ ChatModified(c) \/ GroupRead(c) \/ GroupEnds(c)
  /\ UNCHANGED <<tokens, stored>> \/ TokensIssued(c) \/ profile_picture_url(c)
  /\ UNCHANGED groups \/ ChangeGroup(c)
  /\ UNCHANGED products \/ ServeProducts(c)
  /\ UNCHANGED account \/ account_call(c) \/ ServeAccount(c) \/ ServeChannel(c) \/ ServeProfile(c) \/ ChannelNotified(c)

\* What a call changes when it begins.
LEMMA StartsFrame ==
  ASSUME NEW c \in Callers, Starts(c)
  PROVE  Frame(c)
<1> USE DEF Frame, local, server, bounds
<1>1. CASE BeginGroup(c)
  BY <1>1 DEF BeginGroup
<1>2. CASE update_block_status(c)
  BY <1>2 DEF update_block_status
<1>3. CASE get_usync_devices(c)
  BY <1>3 DEF get_usync_devices
<1>4. CASE issue_privacy_tokens(c)
  BY <1>4 DEF issue_privacy_tokens
<1>5. CASE profile_picture_url(c)
  BY <1>5 DEF profile_picture_url
<1>6. CASE chat_modify(c)
  BY <1>6 DEF chat_modify
<1>7. CASE on_whatsapp(c)
  BY <1>7 DEF on_whatsapp
<1>8. CASE account_call(c)
  BY <1>8 DEF account_call, Knows
<1>9. CASE send_receipts(c)
  BY <1>9 DEF send_receipts
<1>10. CASE newsletter_call(c)
  BY <1>10 DEF newsletter_call
<1>11. CASE newsletter_react_message(c)
  BY <1>11 DEF newsletter_react_message
<1>12. CASE product_delete(c)
  BY <1>12 DEF product_delete
<1>13. CASE get_catalog(c)
  BY <1>13 DEF get_catalog
<1>14. CASE profile_call(c)
  BY <1>14 DEF profile_call
<1>15. CASE upload_call(c)
  BY <1>15 DEF upload_call
<1>16. CASE refresh_media_conn(c)
  BY <1>16 DEF refresh_media_conn
<1>17. CASE update_media_message(c)
  BY <1>17 DEF update_media_message
<1>18. QED
  BY <1>1, <1>2, <1>3, <1>4, <1>5, <1>6, <1>7, <1>8, <1>9, <1>10, <1>11, <1>12, <1>13, <1>14, <1>15, <1>16, <1>17 DEF Starts

\* What an answer changes.
LEMMA ServesFrame ==
  ASSUME NEW c \in Callers, Serves(c)
  PROVE  Frame(c)
<1> USE DEF Frame, local, server, bounds
<1>1. CASE ReadGroup(c)
  BY <1>1 DEF ReadGroup
<1>2. CASE ChangeGroup(c)
  BY <1>2 DEF ChangeGroup
<1>3. CASE AnswerUsync(c)
  BY <1>3 DEF AnswerUsync
<1>4. CASE AnswerTokens(c)
  BY <1>4 DEF AnswerTokens
<1>5. CASE AnswerContacts(c)
  BY <1>5 DEF AnswerContacts
<1>6. CASE ServeContact(c)
  BY <1>6 DEF ServeContact
<1>7. CASE AnswerConn(c)
  BY <1>7 DEF AnswerConn
<1>8. CASE SetCover(c)
  BY <1>8 DEF SetCover
<1>9. CASE ServeProducts(c)
  BY <1>9 DEF ServeProducts
<1>10. CASE ServeCatalog(c)
  BY <1>10, Zenon DEF ServeCatalog
<1>11. CASE ServeCollections(c)
  BY <1>11 DEF ServeCollections
<1>12. CASE ServeProfile(c)
  BY <1>12 DEF ServeProfile, Knows
<1>13. CASE ServeAccount(c)
  BY <1>13 DEF ServeAccount, Knows
<1>14. CASE ServeChannel(c)
  BY <1>14, Zenon DEF ServeChannel, Knows
<1>15. CASE ServeUpdates(c)
  BY <1>15 DEF ServeUpdates
<1>16. CASE ChannelNotified(c)
  BY <1>16 DEF ChannelNotified, Knows
<1>17. CASE Refuse(c)
  BY <1>17 DEF Refuse
<1>18. QED
  BY <1>1, <1>2, <1>3, <1>4, <1>5, <1>6, <1>7, <1>8, <1>9, <1>10, <1>11, <1>12, <1>13, <1>14, <1>15, <1>16, <1>17 DEF Serves

\* What a call changes when it is resumed.
LEMMA ResumesFrame ==
  ASSUME NEW c \in Callers, Resumes(c)
  PROVE  Frame(c)
<1> USE DEF Frame, local, server, bounds
<1>1. CASE GroupRead(c)
  BY <1>1 DEF GroupRead, store_group_mappings
<1>2. CASE GroupCode(c)
  BY <1>2 DEF GroupCode
<1>3. CASE GroupEnds(c)
  BY <1>3 DEF GroupEnds, store_group_mappings
<1>4. CASE GroupRefused(c)
  BY <1>4 DEF GroupRefused
<1>5. CASE InviteSent(c)
  BY <1>5 DEF InviteSent
<1>6. CASE InviteFails(c)
  BY <1>6 DEF InviteFails
<1>7. CASE BlockRefreshed(c)
  BY <1>7 DEF BlockRefreshed, StoreEntries
<1>8. CASE DevicesListed(c)
  BY <1>8 DEF DevicesListed, StoreEntries
<1>9. CASE TokensIssued(c)
  <2>1. UNCHANGED <<now, fixed, server, bounds, creds, disk, rows>>
    BY <1>9 DEF TokensIssued
  <2>2. QED
    BY <1>9, <2>1 DEF Frame, server, bounds
<1>10. CASE ChatModified(c)
  BY <1>10 DEF ChatModified
<1>11. CASE NumbersFound(c)
  BY <1>11 DEF NumbersFound
<1>12. CASE ContactEnds(c)
  BY <1>12 DEF ContactEnds
<1>13. CASE ConnRead(c)
  BY <1>13 DEF ConnRead
<1>14. CASE UploadTried(c)
  BY <1>14 DEF UploadTried
<1>15. CASE UploadUsed(c)
  BY <1>15 DEF UploadUsed
<1>16. CASE ProductRead(c)
  BY <1>16 DEF ProductRead
<1>17. CASE ProductRecovered(c)
  BY <1>17 DEF ProductRecovered
<1>18. CASE BusinessEnds(c)
  BY <1>18 DEF BusinessEnds
<1>19. CASE MediaFails(c)
  BY <1>19 DEF MediaFails
<1>20. CASE AccountRead(c)
  BY <1>20 DEF AccountRead
<1>21. CASE ReceiptSent(c)
  BY <1>21 DEF ReceiptSent
<1>22. CASE ChannelRead(c)
  BY <1>22 DEF ChannelRead
<1>23. CASE AccountEnds(c)
  BY <1>23 DEF AccountEnds
<1>24. CASE QueryLate(c)
  BY <1>24 DEF QueryLate
<1>25. QED
  BY <1>1, <1>2, <1>3, <1>4, <1>5, <1>6, <1>7, <1>8, <1>9, <1>10, <1>11, <1>12, <1>13, <1>14, <1>15, <1>16, <1>17, <1>18, <1>19, <1>20, <1>21, <1>22, <1>23, <1>24 DEF Resumes

-----------------------------------------------------------------------------
(* Every step                                                              *)

BaseInv == Shape /\ plan \in Plans /\ \A c \in Callers : Protocol(c)

\* All of that, of any step of a call.
LEMMA StepIs ==
  ASSUME BaseInv, NEW c \in Callers, Starts(c) \/ Serves(c) \/ Resumes(c)
  PROVE  Others(c) /\ Steady /\ ProtocolNext(c) /\ OfItsKind(c) /\ Frame(c)
<1>1. Others(c) /\ Steady
  BY StartsOne, ServesOne, ResumesOne
<1>2. ProtocolNext(c)
  BY StartsProtocol, ServesProtocol, ResumesProtocol DEF BaseInv
<1>3. OfItsKind(c)
  BY StartsKind, ServesKind, ResumesKind DEF BaseInv
<1>4. Frame(c)
  BY StartsFrame, ServesFrame, ResumesFrame
<1>5. QED
  BY <1>1, <1>2, <1>3, <1>4

\* The answer to a request for media ends the calls that wait for it, and a crash all.
LEMMA RetriedIs ==
  ASSUME Shape, MediaRetried
  PROVE  /\ UNCHANGED <<now, fixed, local, server, bounds>> /\ Shape'
         /\ \E event \in Events : \A c \in Callers :
              \/ call'[c] = call[c]
              \/ /\ TakesEvent(c, Heard(event)) /\ call[c].pc = "media" /\ call'[c].pc = "done"
                 /\ call'[c].result = RetryResult(Heard(event), plan.does[c].key, plan.does[c].id)
                 /\ \A f \in Fields \ {"pc", "result"} : call'[c][f] = call[c][f]
<1>1. PICK event \in Events :
        call' = [c \in Callers |->
          IF TakesEvent(c, Heard(event))
          THEN [call[c] EXCEPT !.pc = "done", !.result = RetryResult(Heard(event), plan.does[c].key, plan.does[c].id)]
          ELSE call[c]]
  BY Zenon DEF MediaRetried
<1>2. UNCHANGED <<now, fixed, local, server, bounds>>
  BY Zenon DEF MediaRetried
<1>3. ASSUME NEW c \in Callers
      PROVE  /\ Fields \subseteq DOMAIN call'[c]
             /\ \/ call'[c] = call[c]
                \/ /\ TakesEvent(c, Heard(event)) /\ call[c].pc = "media" /\ call'[c].pc = "done"
                   /\ call'[c].result = RetryResult(Heard(event), plan.does[c].key, plan.does[c].id)
                   /\ \A f \in Fields \ {"pc", "result"} : call'[c][f] = call[c][f]
  <2>1. CASE TakesEvent(c, Heard(event))
    <3>1. call'[c] = [call[c] EXCEPT !.pc = "done", !.result = RetryResult(Heard(event), plan.does[c].key, plan.does[c].id)]
      BY <1>1, <2>1, Zenon
    <3>2. Fields \subseteq DOMAIN call[c] /\ call[c].pc = "media"
      BY <2>1 DEF Shape, TakesEvent
    <3>3. QED
      BY <3>1, <3>2, <2>1, FieldsAre
  <2>2. CASE ~TakesEvent(c, Heard(event))
    BY <1>1, <2>2, Zenon DEF Shape
  <2>3. QED
    BY <2>1, <2>2
<1>4. Shape'
  BY <1>1, <1>3, Zenon DEF Shape
<1>5. QED
  BY <1>2, <1>3, <1>4

\* A crash ends what ran.
LEMMA CrashIs ==
  ASSUME Shape, Crash
  PROVE  /\ UNCHANGED fixed /\ Shape'
         /\ \A c \in Callers :
              \/ call'[c] = call[c]
              \/ call[c].pc \notin {"idle", "done"} /\ call'[c] = [Idle EXCEPT !.pc = "done", !.result = "crash"]
<1>1. UNCHANGED fixed
  BY DEF Crash
<1>2. ASSUME NEW c \in Callers
      PROVE  \/ call'[c] = call[c]
             \/ call[c].pc \notin {"idle", "done"} /\ call'[c] = [Idle EXCEPT !.pc = "done", !.result = "crash"]
  BY DEF Crash
<1>3. DOMAIN [Idle EXCEPT !.pc = "done", !.result = "crash"] = Fields
  BY DEF Fields, Idle
<1>4. Shape'
  <2>1. DOMAIN call' = Callers
    BY DEF Crash
  <2>2. QED
    BY <1>2, <1>3, <2>1 DEF Shape
<1>5. QED
  BY <1>1, <1>2, <1>4

\* Every step keeps the calls to their ways.
LEMMA BaseStays == ASSUME BaseInv, [Next]_vars PROVE BaseInv'
<1>1. ASSUME NEW c \in Callers, Starts(c) \/ Serves(c) \/ Resumes(c) PROVE BaseInv'
  <2>1. Others(c) /\ Steady /\ ProtocolNext(c)
    BY <1>1, StepIs
  <2>2. Shape' /\ plan' = plan
    BY <2>1 DEF BaseInv, Others, Steady, fixed
  <2>3. \A d \in Callers : Protocol(d)'
    BY <2>1, <2>2 DEF BaseInv, Others, Protocol, ProtocolNext
  <2>4. QED
    BY <2>2, <2>3 DEF BaseInv
<1>2. CASE MediaRetried
  <2>1. plan' = plan /\ Shape'
    BY <1>2, RetriedIs DEF BaseInv, fixed
  <2>2. \A c \in Callers : Protocol(c)'
    BY <1>2, <2>1, RetriedIs DEF BaseInv, Protocol, Placed
  <2>3. QED
    BY <2>1, <2>2 DEF BaseInv
<1>3. CASE Crash
  <2>1. plan' = plan /\ Shape'
    BY <1>3, CrashIs DEF BaseInv, fixed
  <2>2. [Idle EXCEPT !.pc = "done", !.result = "crash"].pc = "done"
    BY DEF Idle
  <2>3. ASSUME NEW c \in Callers PROVE Protocol(c)'
    BY <1>3, <2>1, <2>2, CrashIs DEF BaseInv, Protocol, Placed
  <2>4. QED
    BY <2>1, <2>3 DEF BaseInv
<1>4. CASE Tick \/ Move \/ UNCHANGED vars
  BY <1>4 DEF BaseInv, Shape, Protocol, Tick, Move, vars, fixed
<1>5. QED
  BY <1>1, <1>2, <1>3, <1>4 DEF Next

\* The calls keep to the ways the code has for them: what each waits for is what it asked.
THEOREM BaseInvariant == Spec => []BaseInv
<1>1. Init => BaseInv
  BY DEF Init, AskingInit, BaseInv, Shape, Protocol, Fields, Idle
<1>2. BaseInv /\ [Next]_vars => BaseInv'
  BY BaseStays
<1>3. QED
  BY <1>1, <1>2, PTL DEF Spec

\* What kind a step is of, for the calls that are a kind by themselves.
Singles == {"block", "devices", "tokens", "picture", "modify", "exists", "retry"}

\* These are no calls of another kind.
LEMMA KindsApart == (OfGroups \cup Reading \cup OfChannels \cup Uploading \cup OfBusiness) \cap Singles = {}
BY DEF Singles, OfGroups, GroupDo, CommunityDo, Reading, AccountDo, OfChannels, ChannelDo, Simple, Uploading, Uploads,
       Mutations, OfBusiness, Catalogs, Profiles

\* Nor are the calls about groups.
LEMMA GroupsApart == OfGroups \cap (Reading \cup OfChannels \cup Uploading \cup OfBusiness) = {}
BY DEF OfGroups, GroupDo, CommunityDo, Reading, AccountDo, OfChannels, ChannelDo, Simple, Uploading, Uploads,
       Mutations, OfBusiness, Catalogs, Profiles

\* So the step of a call is known by what the call does.
LEMMA KindIs ==
  ASSUME NEW c \in Callers, OfItsKind(c)
  PROVE  /\ plan.does[c].do = "block" => BlockStep(c)
         /\ plan.does[c].do = "devices" => DevicesStep(c)
         /\ plan.does[c].do = "tokens" => TokensStep(c)
         /\ plan.does[c].do = "picture" => PictureStep(c)
         /\ plan.does[c].do = "modify" => ModifyStep(c)
         /\ plan.does[c].do = "exists" => ExistsStep(c)
         /\ plan.does[c].do = "retry" => RetryStep(c)
         /\ plan.does[c].do \in OfGroups => GroupStep(c)
BY KindsApart, GroupsApart DEF OfItsKind, Singles

\* A call that waits for media ends with an answer made with its own key.
OwnAnswer(c) ==
  (plan.does[c] # None /\ plan.does[c].do = "retry" /\ call[c].pc = "done") => call[c].result # "InvalidTag"
RetryInv == \A c \in Callers : OwnAnswer(c)

\* What is decoded of an answer: its error, or its media.
LEMMA RetryDecoded ==
  ASSUME NEW node
  PROVE  /\ decode_media_retry_node(node).id = node.id
         /\ node.error # None => decode_media_retry_node(node).error = "not_uploaded"
         /\ node.error = None /\ node.media # None =>
              decode_media_retry_node(node).error = None /\ decode_media_retry_node(node).media = node.media
<1>1. CASE node.error # None
  <2>1. decode_media_retry_node(node) = [id |-> node.id, error |-> "not_uploaded", media |-> None]
    BY <1>1 DEF decode_media_retry_node
  <2>2. QED
    BY <1>1, <2>1
<1>2. CASE node.error = None /\ node.media = None
  <2>1. decode_media_retry_node(node) = [id |-> node.id, error |-> "no_ciphertext", media |-> None]
    BY <1>2 DEF decode_media_retry_node
  <2>2. QED
    BY <1>2, <2>1
<1>3. CASE node.error = None /\ node.media # None
  <2>1. decode_media_retry_node(node) = [id |-> node.id, error |-> None, media |-> node.media]
    BY <1>3 DEF decode_media_retry_node
  <2>2. QED
    BY <1>3, <2>1
<1>4. QED
  BY <1>1, <1>2, <1>3

\* What a waiting call takes of an event is not refused by its key.
LEMMA OwnKey ==
  ASSUME BaseInv, NEW event \in Events, NEW c \in Callers, TakesEvent(c, Heard(event))
  PROVE  RetryResult(Heard(event), plan.does[c].key, plan.does[c].id) # "InvalidTag"
<1> DEFINE asks == {d \in Callers : call[d].pc = "media" /\ plan.does[d].id = event.id}
           d == CHOOSE x \in asks : TRUE
           media == [key |-> plan.does[d].key, id |-> event.id, result |-> event.result, path |-> event.path]
           said == IF event.error # None THEN None ELSE media
           node == [id |-> event.id, error |-> event.error, media |-> said]
<1>1. Heard(event) = decode_media_retry_node(node)
  BY DEF Heard, KeyOf
<1>a. node.id = event.id /\ node.error = event.error /\ node.media = said
  OBVIOUS
<1> HIDE DEF node
<1>2. Heard(event).id = event.id
  BY <1>1, <1>a, RetryDecoded
<1>3. c \in asks
  BY <1>2 DEF TakesEvent
<1>4. d \in asks
  BY <1>3
<1>5. ASSUME NEW x \in asks PROVE plan.does[x] \in Asked({"retry"})
  <2>1. call[x].pc = "media" /\ Protocol(x) /\ plan \in Plans
    BY DEF BaseInv
  <2>2. plan.does[x] # None /\ plan.does[x].do = "retry"
    BY <2>1 DEF Protocol, Placed
  <2>3. QED
    BY <2>1, <2>2 DEF Asked
<1>6. plan.does[c].key = plan.does[d].key /\ plan.does[c].id = event.id /\ plan.does[d].id = event.id
  BY <1>3, <1>4, <1>5, PlansAssumption
<1>7. media # None
  <2>1. event.result \in {"SUCCESS", "NOT_FOUND"} /\ event.path \in {None, "new_path"}
    BY DEF Events
  <2>2. media.key \in {a.key : a \in Asked({"retry"})} /\ media.id \in {a.id : a \in Asked({"retry"})}
    BY <1>4, <1>5, <1>6
  <2>3. media \in [key : {a.key : a \in Asked({"retry"})}, id : {a.id : a \in Asked({"retry"})},
                  result : {"SUCCESS", "NOT_FOUND"}, path : {None, "new_path"}]
    BY <2>1, <2>2
  <2>4. QED
    BY <2>3, PlansAssumption
<1>8. media.key = plan.does[c].key /\ media.id = plan.does[c].id
  BY <1>6
<1> HIDE DEF media
<1>9. CASE event.error # None
  <2>1. Heard(event).error # None
    BY <1>1, <1>9, <1>a, RetryDecoded, NoneAssumption
  <2>2. QED
    BY <2>1 DEF RetryResult
<1>10. CASE event.error = None
  <2>1. node.error = None /\ node.media = media
    BY <1>10, <1>a
  <2>2. Heard(event).error = None /\ Heard(event).media = media
    BY <1>1, <1>7, RetryDecoded, <2>1
  <2>3. decrypt_media_retry_data(media, plan.does[c].key, plan.does[c].id) = media
    BY <1>8 DEF decrypt_media_retry_data
  <2>4. QED
    BY <1>7, <2>2, <2>3 DEF RetryResult
<1>11. QED
  BY <1>9, <1>10

\* No step ends a call with an answer that its key does not open.
LEMMA RetryStays == ASSUME BaseInv, RetryInv, [Next]_vars PROVE RetryInv'
<1>1. ASSUME NEW c \in Callers, Starts(c) \/ Serves(c) \/ Resumes(c) PROVE RetryInv'
  <2>1. Others(c) /\ plan' = plan /\ OfItsKind(c)
    BY <1>1, StepIs DEF Steady, fixed
  <2>2. ASSUME plan.does[c] # None, plan.does[c].do = "retry", call'[c].pc = "done"
        PROVE  call'[c].result # "InvalidTag"
    <3>1. RetryStep(c)
      BY <2>1, <2>2, KindIs
    <3>2. Shape
      BY DEF BaseInv
    <3>3. CASE update_media_message(c)
      <4>1. \/ Ends(c, "MediaError", NoChange)
            \/ Set(c, [pc |-> "media", due |-> now + Timeout])
        BY <3>3 DEF update_media_message
      <4>2. CASE Ends(c, "MediaError", NoChange)
        BY <3>2, <4>2, EndsIs, FieldsAre
      <4>3. CASE Set(c, [pc |-> "media", due |-> now + Timeout])
        <5>1. call'[c].pc = "media"
          BY <3>2, <4>3, SetIs, FieldsAre DEF Rest
        <5>2. QED
          BY <5>1, <2>2
      <4>4. QED
        BY <4>1, <4>2, <4>3
    <3>4. CASE MediaFails(c)
      <4>1. \A x : {"pc", "node", "answer", "result"} \cap DOMAIN [cut |-> x] = {}
        OBVIOUS
      <4>2. QED
        BY <3>2, <3>4, <4>1, EndsIs, FieldsAre DEF MediaFails
    <3>5. QED
      BY <3>1, <3>3, <3>4 DEF RetryStep
  <2>3. QED
    BY <2>1, <2>2 DEF RetryInv, OwnAnswer, Others
<1>2. CASE MediaRetried
  <2>1. plan' = plan
    BY <1>2, RetriedIs DEF BaseInv, fixed
  <2>2. PICK event \in Events : \A c \in Callers :
              \/ call'[c] = call[c]
              \/ /\ TakesEvent(c, Heard(event)) /\ call[c].pc = "media" /\ call'[c].pc = "done"
                 /\ call'[c].result = RetryResult(Heard(event), plan.does[c].key, plan.does[c].id)
    BY <1>2, RetriedIs DEF BaseInv
  <2>3. QED
    BY <2>1, <2>2, OwnKey DEF RetryInv, OwnAnswer
<1>3. CASE Crash
  <2>1. plan' = plan
    BY <1>3, CrashIs DEF BaseInv, fixed
  <2>2. [Idle EXCEPT !.pc = "done", !.result = "crash"].result = "crash"
    BY DEF Idle
  <2>3. QED
    BY <1>3, <2>1, <2>2, CrashIs DEF RetryInv, OwnAnswer, BaseInv
<1>4. CASE Tick \/ Move \/ UNCHANGED vars
  BY <1>4 DEF RetryInv, OwnAnswer, Tick, Move, vars, fixed
<1>5. QED
  BY <1>1, <1>2, <1>3, <1>4 DEF Next

\* update_media_message is never ended by another message's answer, however many wait.
THEOREM RetryIsOwn == Spec => []RetryOwn
<1>1. Init => RetryInv
  BY DEF Init, AskingInit, RetryInv, OwnAnswer, Idle
<1>2. BaseInv /\ RetryInv /\ [Next]_vars => RetryInv'
  BY RetryStays
<1>3. RetryInv => RetryOwn
  BY DEF RetryInv, OwnAnswer, RetryOwn, Ended
<1>4. QED
  BY <1>1, <1>2, <1>3, BaseInvariant, PTL DEF Spec

-----------------------------------------------------------------------------
(* Numbers and LIDs: whatever is remembered of them was true once.         *)

\* Mappings, rows and entries that are right if "pairs" are.
Known(map, pairs) ==
  /\ \A n \in DOMAIN map.pn_lid : [pn |-> n, lid |-> map.pn_lid[n]] \in pairs
  /\ \A l \in DOMAIN map.lid_pn : [pn |-> map.lid_pn[l], lid |-> l] \in pairs
Truths(entries, pairs) == \A i \in DOMAIN entries : Usable(entries[i]) => Normalized(entries[i]) \in pairs

\* With a table, a LID of the mappings has a row.
HasRow(table) == {r.lid : r \in table}
Tabled(map, table) == base = "database" => DOMAIN map.lid_pn \subseteq HasRow(table)

\* The pairs that are stored are true if the entries are.
LEMMA PairsAre ==
  ASSUME NEW entries, NEW pairs, Truths(entries, pairs)
  PROVE  \A i \in DOMAIN Pairs(entries) : Pairs(entries)[i] \in pairs /\ Pairs(entries)[i] = [pn |-> Pairs(entries)[i].pn, lid |-> Pairs(entries)[i].lid]
BY DEF Truths, Pairs, Normalized

\* What a mapping holds after the entries are stored was there, or is the last of them.
LEMMA OverwrittenIs ==
  ASSUME NEW f, NEW pairs, NEW key, NEW value, NEW x \in DOMAIN Overwritten(f, pairs, key, value)
  PROVE  \/ x \in DOMAIN f /\ Overwritten(f, pairs, key, value)[x] = f[x]
         \/ \E i \in Lasts(pairs, key) : pairs[i][key] = x /\ Overwritten(f, pairs, key, value)[x] = pairs[i][value]
<1> DEFINE last == Lasts(pairs, key)
           g == [y \in {pairs[i][key] : i \in last} |-> pairs[CHOOSE i \in last : pairs[i][key] = y][value]]
<1>1. Overwritten(f, pairs, key, value) = g ++ f
  BY DEF Overwritten
<1>2. DOMAIN g = {pairs[i][key] : i \in last}
  OBVIOUS
<1>3. x \in DOMAIN f \cup DOMAIN g /\ (g ++ f)[x] = IF x \in DOMAIN g THEN g[x] ELSE f[x]
  BY <1>1 DEF ++
<1>4. CASE x \in DOMAIN g
  <2>1. \E i \in last : pairs[i][key] = x
    BY <1>2, <1>4
  <2>2. PICK i \in last : pairs[i][key] = x /\ g[x] = pairs[i][value]
    BY <1>2, <1>4, <2>1
  <2>3. QED
    BY <1>1, <1>3, <1>4, <2>2
<1>5. CASE x \notin DOMAIN g
  BY <1>1, <1>3, <1>5
<1>6. QED
  BY <1>4, <1>5

\* What storing true entries makes of mappings and of a table.
LEMMA StoredIs ==
  ASSUME NEW entries, NEW pairs, Truths(entries, pairs), NEW map, Known(map, pairs), NEW table \in SUBSET pairs
  PROVE  /\ Known(store_lid_pn_mappings(map, entries), pairs)
         /\ save_lid_pn_mapping(table, entries) \subseteq pairs
         /\ HasRow(table) \subseteq HasRow(save_lid_pn_mapping(table, entries))
         /\ DOMAIN store_lid_pn_mappings(map, entries).lid_pn
              \subseteq DOMAIN map.lid_pn \cup HasRow(save_lid_pn_mapping(table, entries))
<1> DEFINE new == Pairs(entries)
           last == Lasts(new, "lid")
           after == store_lid_pn_mappings(map, entries)
           saved == save_lid_pn_mapping(table, entries)
<1>1. /\ after.pn_lid = Overwritten(map.pn_lid, new, "pn", "lid")
      /\ after.lid_pn = Overwritten(map.lid_pn, new, "lid", "pn")
  BY DEF store_lid_pn_mappings
<1>2. saved = {r \in table : \A i \in last : new[i].lid # r.lid} \cup {new[i] : i \in last}
  BY DEF save_lid_pn_mapping
<1>3. \A i \in DOMAIN new : new[i] \in pairs /\ new[i] = [pn |-> new[i].pn, lid |-> new[i].lid]
  BY PairsAre
<1>4. last \subseteq DOMAIN new /\ Lasts(new, "pn") \subseteq DOMAIN new
  BY DEF Lasts
<1> HIDE DEF new, last, after, saved
<1>5. ASSUME NEW n \in DOMAIN after.pn_lid PROVE [pn |-> n, lid |-> after.pn_lid[n]] \in pairs
  <2>1. \/ n \in DOMAIN map.pn_lid /\ after.pn_lid[n] = map.pn_lid[n]
        \/ \E i \in Lasts(new, "pn") : new[i]["pn"] = n /\ after.pn_lid[n] = new[i]["lid"]
    BY <1>1, <1>5, OverwrittenIs
  <2>2. QED
    BY <1>3, <1>4, <2>1 DEF Known
<1>6. ASSUME NEW l \in DOMAIN after.lid_pn
      PROVE  [pn |-> after.lid_pn[l], lid |-> l] \in pairs /\ l \in DOMAIN map.lid_pn \cup HasRow(saved)
  <2>1. \/ l \in DOMAIN map.lid_pn /\ after.lid_pn[l] = map.lid_pn[l]
        \/ \E i \in last : new[i]["lid"] = l /\ after.lid_pn[l] = new[i]["pn"]
    BY <1>1, <1>6, OverwrittenIs DEF last
  <2>2. CASE l \in DOMAIN map.lid_pn /\ after.lid_pn[l] = map.lid_pn[l]
    BY <2>2 DEF Known
  <2>3. CASE \E i \in last : new[i]["lid"] = l /\ after.lid_pn[l] = new[i]["pn"]
    <3>1. PICK i \in last : new[i].lid = l /\ after.lid_pn[l] = new[i].pn
      BY <2>3
    <3>2. new[i] \in saved
      BY <1>2
    <3>3. QED
      BY <1>3, <1>4, <3>1, <3>2 DEF HasRow
  <2>4. QED
    BY <2>1, <2>2, <2>3
<1>7. saved \subseteq pairs
  BY <1>2, <1>3, <1>4
<1>8. HasRow(table) \subseteq HasRow(saved)
  BY <1>2 DEF HasRow
<1>9. QED
  BY <1>5, <1>6, <1>7, <1>8 DEF Known, after, saved

\* The server's entries are true.
LEMMA EntryTrue ==
  ASSUME NEW pairs, NEW j, \A n \in Numbers : lid_of[n] \in Lids /\ [pn |-> n, lid |-> lid_of[n]] \in pairs, Usable(EntryOf(j))
  PROVE  Normalized(EntryOf(j)) \in pairs
<1>1. EntryOf(j).id = j /\ EntryOf(j).lid = IF j \in Numbers THEN lid_of[j] ELSE IF is_lid(j) THEN j ELSE None
  BY DEF EntryOf
<1>2. j \in Numbers
  <2>1. is_pn(j) /\ ~is_lid(j)
    BY <1>1 DEF Usable, is_pn, is_lid
  <2>2. QED
    BY <1>1, <2>1 DEF Usable
<1>3. Normalized(EntryOf(j)) = [pn |-> j, lid |-> lid_of[j]]
  BY <1>1, <1>2, NumbersAssumption DEF Normalized
<1>4. QED
  BY <1>2, <1>3

\* So are those of a group.
LEMMA ListedTrue ==
  ASSUME NEW pairs, \A n \in Numbers : lid_of[n] \in Lids /\ [pn |-> n, lid |-> lid_of[n]] \in pairs,
         NEW ids, \A j \in ids : groups[j].members \subseteq Numbers, NEW shown
  PROVE  Truths(GroupEntries(Listed(ids, shown)), pairs)
<1> DEFINE all == UNION {groups[j].members : j \in ids}
           some == SetToSeq(all)
           listed == Listed(ids, shown)
<1>1. \E f \in [1 .. Cardinality(all) -> all] : IsInjective(f)
  <2>1. all \in SUBSET Numbers
    OBVIOUS
  <2>2. IsFiniteSet(all)
    BY <2>1, FS_Subset, NumbersAssumption
  <2>3. ExistsBijection(1 .. Cardinality(all), all)
    BY <2>2, FS_CardinalityType
  <2>4. QED
    BY <2>3 DEF ExistsBijection, Bijection, Injection, IsInjective
<1>2. some \in [1 .. Cardinality(all) -> all]
  BY <1>1 DEF SetToSeq
<1>3. listed = [i \in DOMAIN some |-> [jid |-> lid_of[some[i]], phone_number |-> IF shown THEN some[i] ELSE None]]
  BY DEF Listed
<1> HIDE DEF some
<1>4. \A i \in DOMAIN listed :
        some[i] \in Numbers /\ listed[i].jid = lid_of[some[i]] /\ listed[i].phone_number \in {some[i], None}
  BY <1>2, <1>3
<1> HIDE DEF listed
<1>5. ASSUME NEW i \in DOMAIN GroupEntries(listed) PROVE Normalized(GroupEntries(listed)[i]) \in pairs
  <2>1. i \in DOMAIN listed /\ listed[i].phone_number # None
    BY <1>5 DEF GroupEntries
  <2>2. GroupEntries(listed)[i] = [id |-> listed[i].phone_number, lid |-> listed[i].jid]
    BY <2>1 DEF GroupEntries
  <2>3. Normalized(GroupEntries(listed)[i]) = [pn |-> some[i], lid |-> lid_of[some[i]]]
    BY <1>4, <2>1, <2>2, NumbersAssumption DEF Normalized
  <2>4. QED
    BY <1>4, <2>1, <2>3
<1>6. QED
  BY <1>5 DEF Truths, listed

\* What a request about a group names is known to the server.
GroupNode(node) ==
  /\ node.to # GroupServer => node.to \in GroupIds
  /\ node.type = "get" => node.child.tag # "leave"
  /\ "participants" \in DOMAIN node.child => Members(node.child) \subseteq Numbers

\* A request about a group of the server, with members that are numbers.
LEMMA QueryNode ==
  ASSUME NEW to, NEW type, NEW child, to # GroupServer => to \in GroupIds, type = "get" => child.tag # "leave",
         "participants" \in DOMAIN child => Members(child) \subseteq Numbers
  PROVE  GroupNode(group_query_node(to, type, child))
<1> DEFINE node == group_query_node(to, type, child)
<1>1. node.to = to /\ node.type = type /\ node.child = child
  BY DEF group_query_node
<1> HIDE DEF node
<1>2. GroupNode(node)
  BY <1>1 DEF GroupNode
<1>3. QED
  BY <1>2 DEF node

\* Every first request about a group is one.
LEMMA GroupNodes ==
  ASSUME NEW c \in Callers, plan \in Plans, plan.does[c] # None
  PROVE  /\ plan.does[c].do \in GroupDo => GroupNode(group_node(plan.does[c]))
         /\ plan.does[c].do \in CommunityDo => GroupNode(community_node(plan.does[c]))
<1> DEFINE op == plan.does[c]
<1>1. op.do \in NamesGroup => op.jid \in GroupIds
  BY PlansAssumption DEF Asked
<1>2. op.do \in NamesMembers => Members(op) \subseteq Numbers
  <2>1. op.do \in NamesMembers => op.participants \in Seq(Numbers)
    BY PlansAssumption DEF Asked
  <2>2. QED
    BY <2>1 DEF Members
<1>3. \A child : child.participants = op.participants => Members(child) = Members(op)
  BY DEF Members
<1> HIDE DEF op
<1>4. \A x, y : [tag |-> x, participants |-> y].tag = x /\ [tag |-> x, participants |-> y].participants = y
  OBVIOUS
<1>5. \A x, y : /\ "participants" \notin DOMAIN [tag |-> x]
                /\ "participants" \notin DOMAIN [tag |-> x, subject |-> y]
                /\ "participants" \notin DOMAIN [tag |-> x, group |-> y]
                /\ "participants" \notin DOMAIN [tag |-> x, body |-> y]
                /\ "participants" \notin DOMAIN [tag |-> x, code |-> y]
                /\ "participants" \notin DOMAIN [tag |-> x, expiration |-> y]
                /\ "participants" \notin DOMAIN [tag |-> x, mode |-> y]
                /\ "participants" \notin DOMAIN [tag |-> x, state |-> y]
  OBVIOUS
<1>6. ASSUME op.do \in GroupDo PROVE GroupNode(group_node(op))
  <2>1. CASE op.do \in {"metadata", "description", "invite"}
    BY <1>1, <1>5, <2>1, QueryNode DEF group_node, NamesGroup, GroupDo
  <2>2. CASE op.do \in {"participants", "or_invite", "requests"}
    BY <1>1, <1>2, <1>3, <1>4, <2>2, QueryNode DEF group_node, NamesGroup, NamesMembers, GroupDo
  <2>3. CASE op.do \in {"fetch_all", "create", "leave"}
    BY <1>1, <1>5, <2>3, QueryNode DEF group_node, NamesGroup, GroupDo
  <2>4. CASE op.do \in {"subject", "list_requests", "code", "revoke"}
    BY <1>1, <1>5, <2>4, QueryNode DEF group_node, NamesGroup, GroupDo
  <2>5. CASE op.do \in {"accept", "info", "setting", "ephemeral", "add_mode", "approval"}
    BY <1>1, <1>5, <2>5, QueryNode DEF group_node, NamesGroup, GroupDo
  <2>6. QED
    BY <1>6, <2>1, <2>2, <2>3, <2>4, <2>5 DEF GroupDo
<1>7. ASSUME op.do \in CommunityDo PROVE GroupNode(community_node(op))
  <2>1. CASE op.do \in {"c_metadata", "c_description", "c_linked"}
    BY <1>1, <1>5, <2>1, QueryNode DEF community_node, NamesGroup, CommunityDo
  <2>2. CASE op.do \in {"c_requests", "c_participants"}
    BY <1>1, <1>2, <1>3, <1>4, <2>2, QueryNode DEF community_node, NamesGroup, NamesMembers, CommunityDo
  <2>3. CASE op.do \in {"c_fetch_all", "c_create", "c_create_group", "c_leave"}
    BY <1>1, <1>5, <2>3, QueryNode DEF community_node, NamesGroup, CommunityDo
  <2>4. CASE op.do \in {"c_subject", "c_link", "c_unlink", "c_list_requests", "c_code", "c_revoke"}
    BY <1>1, <1>5, <2>4, QueryNode DEF community_node, NamesGroup, CommunityDo
  <2>5. CASE op.do \in {"c_accept", "c_info", "c_setting", "c_ephemeral", "c_add_mode", "c_approval"}
    BY <1>1, <1>5, <2>5, QueryNode DEF community_node, NamesGroup, CommunityDo
  <2>6. QED
    BY <1>7, <2>1, <2>2, <2>3, <2>4, <2>5 DEF CommunityDo
<1>8. QED
  BY <1>6, <1>7 DEF op

\* Every number has a LID, all it ever had are in "once", and the members of a group are numbers.
ServerInv ==
  /\ \A n \in Numbers : lid_of[n] \in Lids /\ [pn |-> n, lid |-> lid_of[n]] \in once
  /\ once \subseteq [pn : Numbers, lid : Lids]
  /\ DOMAIN groups = GroupIds /\ \A j \in GroupIds : "members" \in DOMAIN groups[j] /\ groups[j].members \subseteq Numbers

\* What the client remembers was true once.
MemoryInv ==
  /\ rows \subseteq once /\ Known(creds, once) /\ Known(disk, once)
  /\ Tabled(creds, rows) /\ Tabled(disk, rows)

\* What a call asks, holds and is told.
HasAnswer(c) == call[c].answer # None /\ call[c].answer.error = None
BlockNode(node, jid, pairs) ==
  LET asked == jid_normalized_user(jid)
  IN /\ asked \in {node.lid, node.pn} \/ [pn |-> asked, lid |-> node.lid] \in pairs
     /\ node.action = "block" => [pn |-> node.pn, lid |-> node.lid] \in pairs
Blocks(c) == BlockNode(call[c].node.child, plan.does[c].jid, once)
Holds(c) ==
  (plan.does[c] # None /\ call[c].pc = "asked") =>
    /\ plan.does[c].do \in OfGroups =>
         GroupNode(call[c].node) /\ (HasAnswer(c) => Truths(GroupEntries(call[c].answer.listed), once))
    /\ (plan.does[c].do \in {"block", "devices"} /\ call[c].node.xmlns = "usync" /\ HasAnswer(c)) =>
         Truths(call[c].answer.entries, once)
    /\ plan.does[c].do = "modify" => Known(call[c].copy, once) /\ Tabled(call[c].copy, rows)
    /\ plan.does[c].do = "block" /\ call[c].step = "last" => Blocks(c)

NumbersInv == ServerInv /\ MemoryInv /\ \A c \in Callers : Holds(c)

-----------------------------------------------------------------------------

\* What was true stays true.
LEMMA KnownGrows ==
  ASSUME NEW pairs, NEW more, pairs \subseteq more
  PROVE  /\ \A map : Known(map, pairs) => Known(map, more)
         /\ \A entries : Truths(entries, pairs) => Truths(entries, more)
BY DEF Known, Truths

\* What else was told stays true: "once" and the table only grow.
LEMMA HoldsStays ==
  ASSUME NEW c \in Callers, Holds(c), call'[c] = call[c], plan' = plan, base' = base,
         once \subseteq once', HasRow(rows) \subseteq HasRow(rows')
  PROVE  Holds(c)'
<1>1. \A map : Known(map, once) => Known(map, once')
  BY KnownGrows
<1>2. \A entries : Truths(entries, once) => Truths(entries, once')
  BY KnownGrows
<1>3. Tabled(call[c].copy, rows) => Tabled(call[c].copy, rows)'
  BY DEF Tabled
<1>4. HasAnswer(c)' <=> HasAnswer(c)
  BY DEF HasAnswer
<1>5. Blocks(c) => Blocks(c)'
  BY DEF Blocks, BlockNode
<1>6. ASSUME plan.does[c] # None, call[c].pc = "asked"
      PROVE  /\ plan.does[c].do \in OfGroups =>
                  GroupNode(call'[c].node) /\ (HasAnswer(c)' => Truths(GroupEntries(call'[c].answer.listed), once'))
             /\ (plan.does[c].do \in {"block", "devices"} /\ call'[c].node.xmlns = "usync" /\ HasAnswer(c)') =>
                  Truths(call'[c].answer.entries, once')
             /\ plan.does[c].do = "modify" => Known(call'[c].copy, once') /\ Tabled(call[c].copy, rows)'
             /\ plan.does[c].do = "block" /\ call'[c].step = "last" => Blocks(c)'
  BY <1>1, <1>2, <1>3, <1>4, <1>5, <1>6 DEF Holds
<1>7. QED
  BY <1>6 DEF Holds

\* Storing true entries.
LEMMA StoreKeeps ==
  ASSUME ServerInv, MemoryInv, NEW entries, Truths(entries, once), once' = once, base' = base,
         creds' = store_lid_pn_mappings(creds, entries),
         disk' \in {creds', disk}, rows' = IF base = "database" THEN save_lid_pn_mapping(rows, entries) ELSE rows
  PROVE  MemoryInv' /\ HasRow(rows) \subseteq HasRow(rows')
<1> DEFINE saved == save_lid_pn_mapping(rows, entries)
<1>1. rows \in SUBSET once /\ Known(creds, once)
  BY DEF MemoryInv
<1>2. /\ Known(creds', once) /\ saved \subseteq once /\ HasRow(rows) \subseteq HasRow(saved)
      /\ DOMAIN creds'.lid_pn \subseteq DOMAIN creds.lid_pn \cup HasRow(saved)
  BY <1>1, StoredIs
<1> HIDE DEF saved
<1>3. rows' \subseteq once /\ HasRow(rows) \subseteq HasRow(rows')
  BY <1>1, <1>2 DEF saved
<1>4. Tabled(creds, rows) /\ Tabled(disk, rows)
  BY DEF MemoryInv
<1>5. Tabled(creds, rows)' /\ Tabled(disk, rows)'
  BY <1>2, <1>4 DEF Tabled, saved
<1>6. QED
  BY <1>2, <1>3, <1>5 DEF MemoryInv

\* What a step of a call stores: entries it was told, or the copy it holds.
LEMMA MemoryStays ==
  ASSUME BaseInv, NumbersInv, NEW c \in Callers, Starts(c) \/ Serves(c) \/ Resumes(c)
  PROVE  MemoryInv' /\ HasRow(rows) \subseteq HasRow(rows')
<1>1. Frame(c) /\ ProtocolNext(c) /\ OfItsKind(c) /\ UNCHANGED fixed
  BY StepIs DEF Steady
<1>2. once' = once /\ base' = base /\ plan.does[c] # None
  BY <1>1 DEF Frame, fixed, OfItsKind
<1>3. ServerInv /\ MemoryInv /\ Holds(c) /\ Protocol(c)
  BY DEF NumbersInv, BaseInv
<1>4. ASSUME call[c].pc = "asked", plan.does[c].do \in {"block", "devices"}, call[c].node.xmlns = "usync", call[c].answer # None
      PROVE  Truths(Entries(call[c].answer), once)
  <2>1. CASE call[c].answer.error = None
    BY <1>2, <1>3, <1>4, <2>1 DEF Holds, HasAnswer, Entries
  <2>2. CASE call[c].answer.error # None
    BY <2>2 DEF Entries, Truths
  <2>3. QED
    BY <2>1, <2>2
<1>5. CASE UNCHANGED <<creds, disk, rows>>
  BY <1>2, <1>3, <1>5 DEF MemoryInv, Tabled
<1>6. CASE BlockRefreshed(c)
  <2>1. call[c].pc = "asked" /\ call[c].answer # None /\ call[c].step = "refresh"
    BY <1>6 DEF BlockRefreshed, Answered
  <2>2. plan.does[c].do = "block" /\ call[c].node.xmlns = "usync"
    BY <1>3, <2>1 DEF Protocol, Asks
  <2>3. StoreEntries(Entries(call[c].answer), TRUE)
    BY <1>6 DEF BlockRefreshed
  <2>4. Truths(Entries(call[c].answer), once)
    BY <1>4, <2>1, <2>2
  <2>5. QED
    BY <1>2, <1>3, <2>3, <2>4, StoreKeeps DEF StoreEntries
<1>7. CASE DevicesListed(c)
  <2>1. call[c].pc = "asked" /\ call[c].answer # None /\ plan.does[c].do = "devices"
    BY <1>7 DEF DevicesListed, Answered
  <2>2. call[c].node.xmlns = "usync"
    BY <1>3, <2>1, KindsApart DEF Protocol, Asks, Singles, OfBusiness
  <2>3. UNCHANGED local \/ StoreEntries(Entries(call[c].answer), FALSE)
    BY <1>7 DEF DevicesListed
  <2>4. Truths(Entries(call[c].answer), once)
    BY <1>4, <2>1, <2>2
  <2>5. CASE UNCHANGED local
    BY <1>5, <2>5 DEF local
  <2>6. CASE StoreEntries(Entries(call[c].answer), FALSE)
    BY <1>2, <1>3, <2>6, <2>4, StoreKeeps DEF StoreEntries
  <2>7. QED
    BY <2>3, <2>5, <2>6
<1>8. CASE ChatModified(c)
  <2>1. call[c].pc = "asked" /\ plan.does[c].do = "modify"
    BY <1>8 DEF ChatModified, Granting, Answered
  <2>2. Known(call[c].copy, once) /\ Tabled(call[c].copy, rows)
    BY <1>2, <1>3, <2>1 DEF Holds
  <2>3. creds' = call[c].copy /\ disk' = call[c].copy /\ rows' = rows
    BY <1>8 DEF ChatModified
  <2>4. Tabled(creds, rows)' /\ Tabled(disk, rows)'
    BY <1>2, <2>2, <2>3 DEF Tabled
  <2>5. QED
    BY <1>2, <1>3, <2>2, <2>3, <2>4 DEF MemoryInv
<1>9. CASE GroupRead(c) \/ GroupEnds(c)
  <2>1. Granting(c) /\ call[c].node.xmlns = "w:g2" /\ (UNCHANGED local \/ store_group_mappings(call[c].answer))
    BY <1>9 DEF GroupRead, GroupEnds
  <2>2. plan.does[c].do \in OfGroups
    BY <1>3, <2>1, GroupsHave DEF Protocol, Asks, Granting, Answered
  <2>3. Truths(GroupEntries(call[c].answer.listed), once)
    BY <1>2, <1>3, <2>1, <2>2 DEF Holds, HasAnswer, Granting, Answered
  <2>4. CASE UNCHANGED local
    BY <1>5, <2>4 DEF local
  <2>5. CASE store_group_mappings(call[c].answer)
    BY <1>2, <1>3, <2>3, <2>5, StoreKeeps DEF store_group_mappings
  <2>6. QED
    BY <2>1, <2>4, <2>5
<1>10. QED
  BY <1>1, <1>5, <1>6, <1>7, <1>8, <1>9 DEF Frame

\* The server gives no group a member without a number.
LEMMA GrantedMembers ==
  ASSUME NEW g, "members" \in DOMAIN g, g.members \subseteq Numbers, NEW child, NEW took \in SUBSET Numbers
  PROVE  "members" \in DOMAIN Changed(g, child, took) /\ Changed(g, child, took).members \subseteq Numbers
<1> DEFINE told == Change(child, took)
           kept == Granted(g, child, took)
<1>1. "members" \in DOMAIN kept /\ kept.members \subseteq Numbers
  BY DEF Granted
<1>2. "members" \notin DOMAIN told
  BY DEF Change
<1>3. QED
  BY <1>1, <1>2 DEF Changed

\* The server keeps to its numbers and groups.
LEMMA ServerStays ==
  ASSUME BaseInv, NumbersInv, NEW c \in Callers, Starts(c) \/ Serves(c) \/ Resumes(c)
  PROVE  ServerInv'
<1>1. Frame(c) /\ ServerInv
  BY StepIs DEF NumbersInv
<1>2. once' = once /\ lid_of' = lid_of
  BY <1>1 DEF Frame
<1>3. CASE UNCHANGED groups
  BY <1>1, <1>2, <1>3 DEF ServerInv
<1>4. CASE ChangeGroup(c)
  <2>1. call[c].pc = "asked" /\ call[c].node.xmlns = "w:g2" /\ Protocol(c) /\ Holds(c)
    BY <1>4 DEF ChangeGroup, Waiting, BaseInv, NumbersInv
  <2>2. plan.does[c] # None /\ plan.does[c].do \in OfGroups
    BY <2>1, GroupsHave DEF Protocol, Asks
  <2>3. GroupNode(call[c].node)
    BY <2>1, <2>2 DEF Holds
  <2>4. PICK took \in SUBSET Numbers, j \in {Target(groups, call[c].node, Spare)} :
          groups' = [groups EXCEPT ![j] = groups[j]] \/ groups' = [groups EXCEPT ![j] = Changed(groups[j], call[c].node.child, took)]
    <3> DEFINE asked == IF "participants" \in DOMAIN call[c].node.child THEN Members(call[c].node.child) ELSE {}
    <3>1. SUBSET asked \subseteq SUBSET Numbers
      BY <2>3 DEF GroupNode
    <3> DEFINE j == Target(groups, call[c].node, Spare)
               child == call[c].node.child
               pending(described) == child.tag = "invite" /\ "code" \in DOMAIN child /\ ~described
    <3>2. PICK took \in SUBSET asked, described \in BOOLEAN :
            groups' = [groups EXCEPT ![j] = IF pending(described) THEN groups[j] ELSE Changed(groups[j], child, took)]
      BY <1>4 DEF ChangeGroup
    <3>3. took \in SUBSET Numbers
      BY <3>1
    <3> HIDE DEF asked, j, child, pending
    <3>4. CASE pending(described)
      BY <3>2, <3>3, <3>4 DEF child, j
    <3>5. CASE ~pending(described)
      <4>1. groups' = [groups EXCEPT ![j] = Changed(groups[j], child, took)]
        BY <3>2, <3>5
      <4>2. QED
        BY <3>3, <4>1 DEF child, j
    <3>6. QED
      BY <3>4, <3>5
  <2>5. \A i \in GroupIds : "members" \in DOMAIN groups'[i] /\ groups'[i].members \subseteq Numbers
    BY <1>1, <2>4, GrantedMembers DEF ServerInv
  <2>6. DOMAIN groups' = GroupIds
    BY <1>1, <2>4 DEF ServerInv
  <2>7. QED
    BY <1>1, <1>2, <2>5, <2>6 DEF ServerInv
<1>5. QED
  BY <1>1, <1>3, <1>4 DEF Frame

\* What asking, ending, answering and refusing do to a call.
LEMMA Effects ==
  ASSUME Shape, NEW c \in Callers
  PROVE  /\ \A why, fields : Ends(c, why, fields) /\ Fresh(fields) => call'[c].pc = "done"
         /\ \A node, step, fields : Ask(c, node, step, fields) /\ Fresh(fields) =>
              call'[c].pc = "asked" /\ call'[c].node = node /\ call'[c].answer = None /\ call'[c].step = step
         /\ \A answer, made : Answers(c, answer, made) =>
              /\ call'[c].pc = call[c].pc /\ call'[c].node = call[c].node /\ call'[c].step = call[c].step
              /\ call'[c].copy = call[c].copy /\ call'[c].answer = [error |-> None] ++ answer
         /\ Refuse(c) =>
              /\ call'[c].pc = call[c].pc /\ call'[c].node = call[c].node /\ call'[c].step = call[c].step
              /\ call'[c].copy = call[c].copy /\ call'[c].answer.error # None
<1>1. \A why, fields : Ends(c, why, fields) /\ Fresh(fields) => call'[c].pc = "done"
  BY EndsIs DEF Fresh
<1>2. \A node, step, fields : Ask(c, node, step, fields) /\ Fresh(fields) =>
              call'[c].pc = "asked" /\ call'[c].node = node /\ call'[c].answer = None /\ call'[c].step = step
  BY AskIs DEF Fresh
<1>3. \A answer, made : Answers(c, answer, made) =>
              /\ call'[c].pc = call[c].pc /\ call'[c].node = call[c].node /\ call'[c].step = call[c].step
              /\ call'[c].copy = call[c].copy /\ call'[c].answer = [error |-> None] ++ answer
  BY AnswersIs, FieldsAre DEF Rest
<1>4. ASSUME Refuse(c)
      PROVE  /\ call'[c].pc = call[c].pc /\ call'[c].node = call[c].node /\ call'[c].step = call[c].step
             /\ call'[c].copy = call[c].copy /\ call'[c].answer.error # None
  <2>1. PICK text \in {"refused", "account_reachout_restricted"} : Set(c, [answer |-> [error |-> text]])
    BY <1>4 DEF Refuse
  <2>2. Rest(c, [answer |-> [error |-> text]], {})
    BY <2>1, SetIs
  <2>3. DOMAIN [answer |-> [error |-> text]] = {"answer"} /\ [answer |-> [error |-> text]].answer.error = text
    OBVIOUS
  <2>4. text # None
    BY NoneAssumption
  <2>5. QED
    BY <2>2, <2>3, <2>4, FieldsAre DEF Rest
<1>5. QED
  BY <1>1, <1>2, <1>3, <1>4

\* Fields that leave the course of a call alone.
LEMMA FreshAre ==
  /\ Fresh(NoChange)
  /\ \A x : Fresh([told |-> x]) /\ Fresh([todo |-> x]) /\ Fresh([copy |-> x]) /\ Fresh([cut |-> x]) /\ Fresh([got |-> x]) /\ Fresh([made |-> x])
  /\ \A f, g : Fresh(f) /\ Fresh(g) => Fresh(f ++ g)
<1>1. Fresh(NoChange)
  BY DEF Fresh, NoChange
<1>2. \A x : Fresh([told |-> x]) /\ Fresh([todo |-> x]) /\ Fresh([copy |-> x]) /\ Fresh([cut |-> x]) /\ Fresh([got |-> x]) /\ Fresh([made |-> x])
  BY DEF Fresh
<1>3. \A f, g : Fresh(f) /\ Fresh(g) => Fresh(f ++ g)
  BY PlusDomain DEF Fresh
<1>4. QED
  BY <1>1, <1>2, <1>3

\* A record over another.
LEMMA PlusIs == \A f, g, x : x \in DOMAIN f \cup DOMAIN g => (f ++ g)[x] = IF x \in DOMAIN f THEN f[x] ELSE g[x]
BY DEF ++

\* What a step of a call about a group asks, and what it is told.
HoldsGroup(c) ==
  call'[c].pc = "asked" => GroupNode(call'[c].node) /\ (HasAnswer(c)' => Truths(GroupEntries(call'[c].answer.listed), once))

\* A request about a group is made with nothing answered yet.
LEMMA GroupAsks ==
  ASSUME Shape, NEW c \in Callers, NEW node, NEW step, NEW fields, Ask(c, node, step, fields), Fresh(fields), GroupNode(node)
  PROVE  HoldsGroup(c)
BY Effects DEF HoldsGroup, HasAnswer

\* Every step of a call about a group asks about what there is, and is told the truth.
LEMMA GroupHolds ==
  ASSUME BaseInv, NumbersInv, NEW c \in Callers, plan.does[c] # None, plan.does[c].do \in OfGroups, GroupStep(c)
  PROVE  HoldsGroup(c)
<1>1. Shape /\ plan \in Plans /\ Holds(c) /\ Protocol(c) /\ ServerInv
  BY DEF BaseInv, NumbersInv
<1>2. \A why, fields : Ends(c, why, fields) /\ Fresh(fields) => HoldsGroup(c)
  BY <1>1, Effects DEF HoldsGroup
<1>3. Fresh(NoChange) /\ \A x : Fresh([told |-> x]) /\ Fresh([cut |-> x]) /\ Fresh([todo |-> x]) /\ Fresh([made |-> x])
  BY FreshAre
<1>4. plan.does[c].do \in NamesGroup => plan.does[c].jid \in GroupIds
  BY <1>1, PlansAssumption DEF Asked
<1>5. {"metadata", "description", "c_description", "invite", "or_invite"} \subseteq NamesGroup
  BY DEF NamesGroup, GroupDo, CommunityDo
<1>6. ASSUME plan.does[c].do \in NamesGroup
      PROVE  /\ \A x : x # "leave" => GroupNode(group_query_node(plan.does[c].jid, "get", [tag |-> x]))
             /\ \A text, id : GroupNode(group_update_description_node(plan.does[c].jid, text, id))
  <2>1. \A x, y, z : /\ "participants" \notin DOMAIN [tag |-> x] /\ [tag |-> x].tag = x
                     /\ "participants" \notin DOMAIN [tag |-> x, body |-> y, prev |-> z]
    OBVIOUS
  <2>2. \A text, id : GroupNode(group_update_description_node(plan.does[c].jid, text, id))
    BY <1>4, <1>6, <2>1, QueryNode DEF group_update_description_node
  <2>3. \A x : x # "leave" => GroupNode(group_query_node(plan.does[c].jid, "get", [tag |-> x]))
    BY <1>4, <1>6, <2>1, QueryNode
  <2>4. QED
    BY <2>2, <2>3
<1>7. CASE BeginGroup(c)
  <2>1. \/ \E why : Ends(c, why, NoChange)
        \/ Ask(c, IF plan.does[c].do \in GroupDo THEN group_node(plan.does[c]) ELSE community_node(plan.does[c]), "first", NoChange)
    BY <1>7 DEF BeginGroup
  <2>2. GroupNode(IF plan.does[c].do \in GroupDo THEN group_node(plan.does[c]) ELSE community_node(plan.does[c]))
    BY <1>1, GroupNodes DEF OfGroups
  <2>3. QED
    BY <1>1, <1>2, <1>3, <2>1, <2>2, GroupAsks
<1>8. CASE ReadGroup(c)
  <2> DEFINE node == call[c].node
             j == Target(groups, node, Spare)
             about == IF node.child.tag = "participating" THEN {k \in GroupIds : groups[k].joined} ELSE {j}
  <2>1. call[c].pc = "asked" /\ node.type = "get" /\ None \notin about
    BY <1>8 DEF ReadGroup, Waiting
  <2>2. GroupNode(node)
    BY <1>1, <2>1 DEF Holds
  <2>3. j = None \/ j \in GroupIds
    <3>1. j \in {None, Spare} \/ j \in DOMAIN groups \/ (j = node.to /\ node.to # GroupServer) \/ node.child.tag = "leave"
      <4> DEFINE held == {k \in DOMAIN groups : groups[k].code = node.child.code}
      <4>1. held # {} => (CHOOSE k \in held : TRUE) \in DOMAIN groups
        OBVIOUS
      <4> HIDE DEF held
      <4>2. CASE node.to # GroupServer
        BY <4>2 DEF Target
      <4>3. CASE node.to = GroupServer /\ node.child.tag = "invite"
        <5>1. j = IF held = {} THEN None ELSE CHOOSE k \in held : TRUE
          BY <4>3 DEF Target, held
        <5>2. CASE held = {}
          BY <5>1, <5>2
        <5>3. CASE held # {}
          <6>1. j = CHOOSE k \in held : TRUE
            BY <5>1, <5>3
          <6>2. QED
            BY <4>1, <5>3, <6>1
        <5>4. QED
          BY <5>2, <5>3
      <4>4. CASE node.to = GroupServer /\ node.child.tag = "create"
        BY <4>4 DEF Target
      <4>5. CASE node.to = GroupServer /\ node.child.tag \notin {"leave", "create", "invite"}
        BY <4>5 DEF Target
      <4>6. QED
        BY <4>2, <4>3, <4>4, <4>5
    <3>2. QED
      BY <1>1, <2>1, <2>2, <3>1, AskingAssumption DEF GroupNode, ServerInv
  <2>4. about \subseteq GroupIds
    BY <2>1, <2>3
  <2>5. PICK shown, admin \in BOOLEAN :
          Answers(c, [id |-> j, group |-> IF j = None THEN None ELSE groups[j], listed |-> Listed(about, shown),
                      refused |-> << >>, code |-> IF admin /\ j # None THEN groups[j].code ELSE None], NoChange)
    BY <1>8 DEF ReadGroup
  <2> DEFINE group == IF j = None THEN None ELSE groups[j]
             code == IF admin /\ j # None THEN groups[j].code ELSE None
             answer == [id |-> j, group |-> group, listed |-> Listed(about, shown), refused |-> << >>, code |-> code]
  <2>6. "listed" \in DOMAIN answer /\ answer.listed = Listed(about, shown) /\ Answers(c, answer, NoChange)
    BY <2>5
  <2> HIDE DEF answer
  <2>7. /\ call'[c].pc = call[c].pc /\ call'[c].node = call[c].node
        /\ call'[c].answer.listed = Listed(about, shown)
    BY <1>1, <2>6, Effects, PlusIs
  <2>8. Truths(GroupEntries(Listed(about, shown)), once)
    <3>1. \A k \in about : groups[k].members \subseteq Numbers
      BY <1>1, <2>4 DEF ServerInv
    <3>2. \A n \in Numbers : lid_of[n] \in Lids /\ [pn |-> n, lid |-> lid_of[n]] \in once
      BY <1>1 DEF ServerInv
    <3> HIDE DEF about
    <3>3. QED
      BY <3>1, <3>2, ListedTrue
  <2>9. QED
    BY <2>2, <2>7, <2>8 DEF HoldsGroup
<1>9. CASE ChangeGroup(c)
  <2>1. call[c].pc = "asked"
    BY <1>9 DEF ChangeGroup, Waiting
  <2>2. GroupNode(call[c].node)
    BY <1>1, <2>1 DEF Holds
  <2>3. PICK x, y, z, u, made : Answers(c, [id |-> x, group |-> y, listed |-> << >>, refused |-> z, code |-> u], made)
    BY <1>9, Zenon DEF ChangeGroup
  <2> DEFINE answer == [id |-> x, group |-> y, listed |-> << >>, refused |-> z, code |-> u]
  <2>4. "listed" \in DOMAIN answer /\ answer.listed = << >> /\ Answers(c, answer, made)
    BY <2>3
  <2> HIDE DEF answer
  <2>5. call'[c].pc = call[c].pc /\ call'[c].node = call[c].node /\ call'[c].answer.listed = << >>
    BY <1>1, <2>4, Effects, PlusIs
  <2>6. Truths(GroupEntries(<< >>), once)
    BY DEF Truths, GroupEntries
  <2>7. QED
    BY <2>2, <2>5, <2>6 DEF HoldsGroup
<1>10. CASE GroupRead(c)
  <2> DEFINE op == plan.does[c]
             metadata == parse_group_metadata(call[c].answer)
  <2>1. call[c].pc = "asked" /\ call[c].step \in {"first", "meta"}
    BY <1>10 DEF GroupRead, Granting, Answered
  <2>2. \/ \E why : Ends(c, why, NoChange)
        \/ /\ op.do \in {"description", "c_description"}
           /\ Ask(c, group_update_description_node(op.jid, op.description, metadata.desc_id), "set", NoChange)
        \/ /\ op.do \in {"invite", "or_invite"}
           /\ Ask(c, group_query_node(op.jid, "get", [tag |-> "invite"]), "code", NoChange)
    BY <1>10 DEF GroupRead
  <2> HIDE DEF op, metadata
  <2>3. QED
    BY <1>1, <1>2, <1>3, <1>5, <1>6, <2>2, GroupAsks DEF op
<1>11. CASE GroupCode(c)
  <2>1. CASE \E why : Ends(c, why, NoChange)
    BY <1>2, <1>3, <2>1
  <2>2. CASE Set(c, [pc |-> "send", node |-> None, answer |-> None])
    <3>1. call'[c].pc = "send"
      BY <1>1, <2>2, SetIs, FieldsAre DEF Rest
    <3>2. QED
      BY <3>1 DEF HoldsGroup
  <2>3. QED
    BY <1>11, <2>1, <2>2 DEF GroupCode
<1>12. CASE GroupEnds(c)
  <2>1. (\E why : Ends(c, why, NoChange)) \/ \E why, x : Ends(c, why, [told |-> x])
    BY <1>12 DEF GroupEnds
  <2>2. QED
    BY <1>2, <1>3, <2>1
<1>13. CASE GroupRefused(c)
  <2>1. \/ \E why : Ends(c, why, NoChange)
        \/ \E why, x, y : Ends(c, why, [told |-> x, made |-> y])
        \/ /\ plan.does[c].do = "or_invite"
           /\ \E x : Ask(c, group_query_node(plan.does[c].jid, "get", [tag |-> "query"]), "meta", [todo |-> x])
    BY <1>13 DEF GroupRefused
  <2>2. \A x, y : Fresh([told |-> x, made |-> y])
    BY DEF Fresh
  <2>3. QED
    BY <1>1, <1>2, <1>3, <1>5, <1>6, <2>1, <2>2, GroupAsks
<1>14. CASE InviteSent(c)
  <2>1. \/ \E why : Ends(c, why, NoChange)
        \/ \E why, x, y : Ends(c, why, [told |-> x] ++ [made |-> y])
        \/ /\ plan.does[c].do = "or_invite"
           /\ \E x, y : Ask(c, group_query_node(plan.does[c].jid, "get", [tag |-> "query"]), "meta", [todo |-> x] ++ [made |-> y])
    BY <1>14 DEF InviteSent
  <2>2. \A x, y : Fresh([told |-> x] ++ [made |-> y]) /\ Fresh([todo |-> x] ++ [made |-> y])
    BY <1>3, FreshAre, Zenon
  <2>3. QED
    BY <1>1, <1>2, <1>3, <1>5, <1>6, <2>1, <2>2, GroupAsks
<1>15. CASE InviteFails(c)
  BY <1>2, <1>3, <1>15 DEF InviteFails
<1>16. CASE Refuse(c)
  <2>1. call[c].pc = "asked"
    BY <1>16 DEF Refuse
  <2>2. GroupNode(call[c].node)
    BY <1>1, <2>1 DEF Holds
  <2>3. QED
    BY <1>1, <1>16, <2>2, Effects DEF HoldsGroup, HasAnswer
<1>17. CASE QueryLate(c)
  <2>1. plan.does[c].do \notin {"exists", "product"}
    BY KindsApart, GroupsApart DEF Singles, Uploading, Uploads, Mutations
  <2>2. Ends(c, "TimeoutError", [cut |-> TRUE])
    BY <1>17, <2>1 DEF QueryLate
  <2>3. QED
    BY <1>2, <1>3, <2>2
<1>18. QED
  BY <1>7, <1>8, <1>9, <1>10, <1>11, <1>12, <1>13, <1>14, <1>15, <1>16, <1>17 DEF GroupStep

\* What the client looks up was true once, or it finds nothing.
LEMMA LookupsTrue ==
  ASSUME NEW table, NEW map, NEW pairs, pairs \subseteq [pn : Numbers, lid : Lids],
         table \subseteq pairs, Known(map, pairs)
  PROVE  /\ \A pn : \A lid \in lid_for_pn(table, map, pn) : lid # None => [pn |-> pn, lid |-> lid] \in pairs
         /\ \A lid : \A pn \in pn_for_lid(table, map, lid) : pn # None => [pn |-> pn, lid |-> lid] \in pairs
<1>1. \A r \in table : r = [pn |-> r.pn, lid |-> r.lid] /\ r \in pairs
  OBVIOUS
<1>2. ASSUME NEW pn, NEW lid \in lid_for_pn(table, map, pn), lid # None PROVE [pn |-> pn, lid |-> lid] \in pairs
  <2> DEFINE held == {r.lid : r \in {x \in table : x.pn = pn}}
  <2>1. CASE held # {}
    <3>1. lid \in held
      BY <1>2, <2>1 DEF lid_for_pn
    <3>2. QED
      BY <1>1, <3>1
  <2>2. CASE held = {} /\ pn \in DOMAIN map.pn_lid
    <3>1. lid = map.pn_lid[pn]
      BY <1>2, <2>2 DEF lid_for_pn
    <3>2. QED
      BY <2>2, <3>1 DEF Known
  <2>3. CASE held = {} /\ pn \notin DOMAIN map.pn_lid
    BY <1>2, <2>3 DEF lid_for_pn
  <2>4. QED
    BY <2>1, <2>2, <2>3
<1>3. ASSUME NEW lid, NEW pn \in pn_for_lid(table, map, lid), pn # None PROVE [pn |-> pn, lid |-> lid] \in pairs
  <2> DEFINE held == {r.pn : r \in {x \in table : x.lid = lid}}
  <2>1. CASE held # {}
    <3>1. pn \in held
      BY <1>3, <2>1 DEF pn_for_lid
    <3>2. QED
      BY <1>1, <3>1
  <2>2. CASE held = {} /\ lid \in DOMAIN map.lid_pn
    <3>1. pn = map.lid_pn[lid]
      BY <1>3, <2>2 DEF pn_for_lid
    <3>2. QED
      BY <2>2, <3>1 DEF Known
  <2>3. CASE held = {} /\ lid \notin DOMAIN map.lid_pn
    BY <1>3, <2>3 DEF pn_for_lid
  <2>4. QED
    BY <2>1, <2>2, <2>3
<1>4. QED
  BY <1>2, <1>3

\* What a call about a contact asks, and what it is told.
HoldsBlock(c) ==
  call'[c].pc = "asked" =>
    /\ (call'[c].node.xmlns = "usync" /\ HasAnswer(c)') => Truths(call'[c].answer.entries, once)
    /\ plan.does[c].do = "block" /\ call'[c].step = "last" => BlockNode(call'[c].node.child, plan.does[c].jid, once)

\* What the server says of an address is true.
LEMMA ServedBlock ==
  ASSUME BaseInv, NumbersInv, NEW c \in Callers, plan.does[c] # None, plan.does[c].do \in {"block", "devices"},
         AnswerUsync(c) \/ ServeContact(c) \/ Refuse(c)
  PROVE  HoldsBlock(c)
<1>1. Shape /\ Holds(c) /\ ServerInv
  BY DEF BaseInv, NumbersInv
<1>2. call[c].pc = "asked" /\ call'[c].node = call[c].node /\ call'[c].step = call[c].step
  <2>1. call[c].pc = "asked"
    BY DEF AnswerUsync, ServeContact, Refuse, Waiting
  <2>2. \/ \E answer, made : Answers(c, answer, made)
        \/ Refuse(c)
    BY DEF AnswerUsync, ServeContact
  <2>3. QED
    BY <1>1, <2>1, <2>2, Effects
<1>3. plan.does[c].do = "block" /\ call'[c].step = "last" => BlockNode(call'[c].node.child, plan.does[c].jid, once)
  BY <1>1, <1>2 DEF Holds, Blocks
<1>4. CASE AnswerUsync(c)
  <2> DEFINE asked == call[c].node.child
             entries == [i \in DOMAIN asked |-> EntryOf(asked[i])]
             answer == [entries |-> entries]
  <2>1. Answers(c, answer, NoChange)
    BY <1>4 DEF AnswerUsync
  <2>2. "entries" \in DOMAIN answer /\ answer.entries = entries
    OBVIOUS
  <2>3. Truths(entries, once)
    BY <1>1, EntryTrue DEF Truths, ServerInv
  <2> HIDE DEF answer, entries
  <2>4. call'[c].answer = [error |-> None] ++ answer
    BY <1>1, <2>1, Effects
  <2>5. "entries" \notin DOMAIN [error |-> None]
    OBVIOUS
  <2>6. call'[c].answer.entries = entries
    BY <2>2, <2>4, <2>5, PlusIs
  <2>7. QED
    BY <1>3, <2>3, <2>6 DEF HoldsBlock
<1>5. CASE ServeContact(c)
  <2>1. call[c].node.xmlns # "usync"
    BY <1>5 DEF ServeContact, Waiting
  <2>2. QED
    BY <1>2, <1>3, <2>1 DEF HoldsBlock
<1>6. CASE Refuse(c)
  BY <1>1, <1>3, <1>6, Effects DEF HoldsBlock, HasAnswer
<1>7. QED
  BY <1>4, <1>5, <1>6

\* The pair a call blocks is one it found.
LEMMA BlockAsks ==
  ASSUME BaseInv, NEW c \in Callers, NEW lid, NEW pn,
         Ask(c, block_status_node(plan.does[c].action, lid, pn), "last", NoChange),
         LET asked == jid_normalized_user(plan.does[c].jid)
         IN \/ lid = asked /\ (plan.does[c].action = "block" => [pn |-> pn, lid |-> lid] \in once)
            \/ pn = asked /\ [pn |-> pn, lid |-> lid] \in once
  PROVE  HoldsBlock(c)
<1> DEFINE node == block_status_node(plan.does[c].action, lid, pn)
<1>1. /\ node.xmlns = "blocklist" /\ node.child.action = plan.does[c].action /\ node.child.lid = lid
      /\ plan.does[c].action = "block" => node.child.pn = pn
  BY DEF block_status_node, Query
<1> HIDE DEF node
<1>2. call'[c].node = node
  BY Effects, FreshAre DEF BaseInv, node
<1>3. BlockNode(node.child, plan.does[c].jid, once)
  BY <1>1 DEF BlockNode
<1>4. QED
  BY <1>1, <1>2, <1>3 DEF HoldsBlock

\* Every step of a call that blocks, or looks for devices, is told the truth and sends it.
LEMMA BlockHolds ==
  ASSUME BaseInv, NumbersInv, NEW c \in Callers, plan.does[c] # None,
         (plan.does[c].do = "block" /\ BlockStep(c)) \/ (plan.does[c].do = "devices" /\ DevicesStep(c))
  PROVE  HoldsBlock(c)
<1>1. Shape /\ ServerInv /\ MemoryInv
  BY DEF BaseInv, NumbersInv
<1>2. \A why, fields : Ends(c, why, fields) /\ Fresh(fields) => HoldsBlock(c)
  BY <1>1, Effects DEF HoldsBlock
<1>3. Fresh(NoChange) /\ \A x : Fresh([cut |-> x])
  BY FreshAre
<1>4. \A node, step : Ask(c, node, step, NoChange) /\ step # "last" => HoldsBlock(c)
  BY <1>1, <1>3, Effects DEF HoldsBlock, HasAnswer
<1>5. CASE AnswerUsync(c) \/ ServeContact(c) \/ Refuse(c)
  BY <1>5, ServedBlock
<1>6. CASE update_block_status(c)
  <2> DEFINE jid == jid_normalized_user(plan.does[c].jid)
  <2>1. /\ \A pn : \A lid \in lid_for_pn(rows, creds, pn) : lid # None => [pn |-> pn, lid |-> lid] \in once
        /\ \A lid : \A pn \in pn_for_lid(rows, creds, lid) : pn # None => [pn |-> pn, lid |-> lid] \in once
    BY <1>1, LookupsTrue DEF ServerInv, MemoryInv
  <2>2. \/ \E why : Ends(c, why, NoChange)
        \/ Ask(c, Query("usync", <<jid>>), "refresh", NoChange)
        \/ \E pn \in pn_for_lid(rows, creds, jid) :
             /\ plan.does[c].action = "block" => pn # None
             /\ Ask(c, block_status_node(plan.does[c].action, jid, pn), "last", NoChange)
        \/ \E lid \in lid_for_pn(rows, creds, jid) :
             lid # None /\ Ask(c, block_status_node(plan.does[c].action, lid, jid), "last", NoChange)
    BY <1>6 DEF update_block_status
  <2>3. ASSUME NEW pn \in pn_for_lid(rows, creds, jid), plan.does[c].action = "block" => pn # None,
               Ask(c, block_status_node(plan.does[c].action, jid, pn), "last", NoChange)
        PROVE  HoldsBlock(c)
    BY <2>1, <2>3, BlockAsks
  <2>4. ASSUME NEW lid \in lid_for_pn(rows, creds, jid), lid # None,
               Ask(c, block_status_node(plan.does[c].action, lid, jid), "last", NoChange)
        PROVE  HoldsBlock(c)
    BY <2>1, <2>4, BlockAsks
  <2>5. QED
    BY <1>2, <1>3, <1>4, <2>2, <2>3, <2>4
<1>7. CASE BlockRefreshed(c)
  <2> DEFINE jid == jid_normalized_user(plan.does[c].jid)
  <2>1. MemoryInv' /\ once' = once
    BY <1>7, MemoryStays, StepIs DEF Resumes, Frame
  <2>2. \A pn : \A lid \in lid_for_pn(rows', creds', pn) : lid # None => [pn |-> pn, lid |-> lid] \in once
    BY <1>1, <2>1, LookupsTrue DEF ServerInv, MemoryInv
  <2>3. \/ \E why : Ends(c, why, NoChange)
        \/ \E lid \in lid_for_pn(rows', creds', jid) :
             lid # None /\ Ask(c, block_status_node(plan.does[c].action, lid, jid), "last", NoChange)
    BY <1>7 DEF BlockRefreshed
  <2>4. ASSUME NEW lid \in lid_for_pn(rows', creds', jid), lid # None,
               Ask(c, block_status_node(plan.does[c].action, lid, jid), "last", NoChange)
        PROVE  HoldsBlock(c)
    BY <2>2, <2>4, BlockAsks
  <2>5. QED
    BY <1>2, <1>3, <2>3, <2>4
<1>8. CASE ContactEnds(c) \/ DevicesListed(c)
  BY <1>2, <1>3, <1>8 DEF ContactEnds, DevicesListed
<1>9. CASE get_usync_devices(c)
  BY <1>4, <1>9 DEF get_usync_devices
<1>10. CASE QueryLate(c)
  BY <1>2, <1>3, <1>10 DEF QueryLate
<1>11. QED
  BY <1>5, <1>6, <1>7, <1>8, <1>9, <1>10 DEF BlockStep, DevicesStep

\* The copy that chat_modify holds is what the credentials were.
LEMMA ModifyHolds ==
  ASSUME BaseInv, NumbersInv, NEW c \in Callers, plan.does[c] # None, plan.does[c].do = "modify", ModifyStep(c)
  PROVE  call'[c].pc = "asked" => Known(call'[c].copy, once) /\ Tabled(call'[c].copy, rows)
<1>1. Shape /\ MemoryInv /\ Holds(c)
  BY DEF BaseInv, NumbersInv
<1>2. \A why, fields : Ends(c, why, fields) /\ Fresh(fields) => call'[c].pc = "done"
  BY <1>1, Effects
<1>3. Fresh(NoChange) /\ \A x : Fresh([cut |-> x])
  BY FreshAre
<1>4. CASE chat_modify(c)
  <2>1. Ask(c, Query("app_state", None), "first", [copy |-> creds])
    BY <1>4 DEF chat_modify
  <2>2. DOMAIN [copy |-> creds] = {"copy"} /\ [copy |-> creds].copy = creds
    OBVIOUS
  <2>3. call'[c].copy = creds
    BY <1>1, <2>1, <2>2, AskIs, FieldsAre DEF Rest
  <2>4. QED
    BY <1>1, <2>3 DEF MemoryInv
<1>5. CASE ServeContact(c) \/ Refuse(c)
  <2>1. call[c].pc = "asked"
    BY <1>5 DEF ServeContact, Waiting, Refuse
  <2>2. call'[c].copy = call[c].copy
    BY <1>1, <1>5, Effects DEF ServeContact
  <2>3. QED
    BY <1>1, <2>1, <2>2 DEF Holds
<1>6. CASE ChatModified(c) \/ ContactEnds(c) \/ QueryLate(c)
  BY <1>2, <1>3, <1>6 DEF ChatModified, ContactEnds, QueryLate
<1>7. QED
  BY <1>4, <1>5, <1>6 DEF ModifyStep

\* So every step of a call holds what is true.
LEMMA StepHolds ==
  ASSUME BaseInv, NumbersInv, NEW c \in Callers, Starts(c) \/ Serves(c) \/ Resumes(c)
  PROVE  Holds(c)'
<1>1. Frame(c) /\ OfItsKind(c) /\ UNCHANGED fixed
  BY StepIs DEF Steady
<1>2. once' = once /\ base' = base /\ plan' = plan /\ plan.does[c] # None
  BY <1>1 DEF Frame, fixed, OfItsKind
<1>3. HasRow(rows) \subseteq HasRow(rows')
  BY MemoryStays
<1>4. plan.does[c].do \in OfGroups => HoldsGroup(c)
  BY <1>1, <1>2, KindIs, GroupHolds
<1>5. plan.does[c].do \in {"block", "devices"} => HoldsBlock(c)
  BY <1>1, <1>2, KindIs, BlockHolds
<1>6. (plan.does[c].do = "modify" /\ call'[c].pc = "asked") => Known(call'[c].copy, once) /\ Tabled(call'[c].copy, rows)
  BY <1>1, <1>2, KindIs, ModifyHolds
<1>7. Tabled(call'[c].copy, rows) => Tabled(call[c].copy, rows)'
  BY <1>2, <1>3 DEF Tabled
<1>8. BlockNode(call'[c].node.child, plan.does[c].jid, once) => Blocks(c)'
  BY <1>2 DEF Blocks
<1>9. QED
  BY <1>2, <1>4, <1>5, <1>6, <1>7, <1>8 DEF Holds, HoldsGroup, HoldsBlock

\* A step of the call's time, of the numbers or of the process leaves what is held true.
LEMMA NumbersStays == ASSUME BaseInv, NumbersInv, [Next]_vars PROVE NumbersInv'
<1>1. ServerInv /\ MemoryInv /\ Shape
  BY DEF BaseInv, NumbersInv
<1>2. ASSUME NEW c \in Callers, Starts(c) \/ Serves(c) \/ Resumes(c) PROVE NumbersInv'
  <2>1. Others(c) /\ Frame(c) /\ UNCHANGED fixed
    BY <1>2, StepIs DEF Steady
  <2>2. MemoryInv' /\ HasRow(rows) \subseteq HasRow(rows')
    BY <1>2, MemoryStays
  <2>3. ServerInv'
    BY <1>2, ServerStays
  <2>4. Holds(c)'
    BY <1>2, StepHolds
  <2>5. \A d \in Callers : d # c => Holds(d)'
    BY <2>1, <2>2, HoldsStays DEF Others, Frame, fixed, NumbersInv
  <2>6. QED
    BY <2>2, <2>3, <2>4, <2>5 DEF NumbersInv
<1>3. ASSUME ServerInv', MemoryInv', plan' = plan, base' = base, once \subseteq once', rows' = rows,
             \A c \in Callers : call'[c] = call[c] \/ call'[c].pc = "done"
      PROVE  NumbersInv'
  <2>1. \A c \in Callers : Holds(c)'
    BY <1>3, HoldsStays DEF NumbersInv, Holds
  <2>2. QED
    BY <1>3, <2>1 DEF NumbersInv
<1>4. CASE MediaRetried
  <2>1. UNCHANGED <<plan, base, creds, disk, rows, groups, lid_of, once>>
    BY <1>1, <1>4, RetriedIs DEF fixed, local, server
  <2>2. \A c \in Callers : call'[c] = call[c] \/ call'[c].pc = "done"
    BY <1>1, <1>4, RetriedIs
  <2>3. ServerInv' /\ MemoryInv'
    BY <1>1, <2>1 DEF ServerInv, MemoryInv, Tabled
  <2>4. QED
    BY <1>3, <2>1, <2>2, <2>3
<1>5. CASE Crash
  <2>1. UNCHANGED <<plan, base, disk, rows, groups, lid_of, once>> /\ creds' = disk
    BY <1>5 DEF Crash, fixed, server
  <2>2. \A c \in Callers : call'[c] = call[c] \/ call'[c].pc = "done"
    BY <1>1, <1>5, CrashIs, Zenon DEF Idle
  <2>3. ServerInv' /\ MemoryInv'
    BY <1>1, <2>1 DEF ServerInv, MemoryInv, Tabled
  <2>4. QED
    BY <1>3, <2>1, <2>2, <2>3
<1>6. CASE Move
  <2>1. UNCHANGED <<plan, base, call, creds, disk, rows, groups>>
    BY <1>6 DEF Move, fixed, local
  <2>2. PICK f \in [Numbers -> Lids] : lid_of' = f /\ once' = once \cup {[pn |-> n, lid |-> f[n]] : n \in Numbers}
    BY <1>6 DEF Move
  <2>3. once \subseteq once'
    BY <2>2
  <2>4. ServerInv'
    BY <1>1, <2>1, <2>2 DEF ServerInv
  <2>5. MemoryInv'
    BY <1>1, <2>1, <2>3, KnownGrows DEF MemoryInv, Tabled
  <2>6. QED
    BY <1>3, <2>1, <2>3, <2>4, <2>5
<1>7. CASE Tick \/ UNCHANGED vars
  <2>1. UNCHANGED <<plan, base, call, creds, disk, rows, groups, lid_of, once>>
    BY <1>7 DEF Tick, vars, fixed, local, server
  <2>2. ServerInv' /\ MemoryInv'
    BY <1>1, <2>1 DEF ServerInv, MemoryInv, Tabled
  <2>3. QED
    BY <1>3, <2>1, <2>2
<1>8. QED
  BY <1>2, <1>4, <1>5, <1>6, <1>7 DEF Next

\* Nothing is remembered at first.
LEMMA NumbersBegin == ASSUME Init PROVE NumbersInv
<1>1. lid_of \in [Numbers -> Lids]
  BY NumbersAssumption DEF Init, AskingInit
<1>2. ServerInv
  <2>1. DOMAIN groups = GroupIds
    BY DEF Init, AskingInit
  <2>2. ASSUME NEW j \in GroupIds PROVE "members" \in DOMAIN groups[j] /\ groups[j].members \subseteq Numbers
    BY DEF Init, AskingInit
  <2>3. once = {[pn |-> n, lid |-> lid_of[n]] : n \in Numbers}
    BY DEF Init, AskingInit
  <2>4. QED
    BY <1>1, <2>1, <2>2, <2>3 DEF ServerInv
<1>3. MemoryInv
  BY DEF Init, AskingInit, MemoryInv, Known, Tabled, NoMapping
<1>4. \A c \in Callers : Holds(c)
  BY DEF Init, AskingInit, Holds, Idle
<1>5. QED
  BY <1>2, <1>3, <1>4 DEF NumbersInv

\* All that is remembered of numbers and LIDs was true once, whatever happens.
THEOREM NumbersInvariant == Spec => [](BaseInv /\ NumbersInv)
<1>1. Init => BaseInv /\ NumbersInv
  BY NumbersBegin DEF Init, AskingInit, BaseInv, Shape, Protocol, Fields, Idle
<1>2. BaseInv /\ NumbersInv /\ [Next]_vars => BaseInv' /\ NumbersInv'
  BY BaseStays, NumbersStays
<1>3. QED
  BY <1>1, <1>2, PTL DEF Spec

\* The pair that goes out is one the server gave, whichever call learned it (_resolve_blocklist_jids).
THEOREM BlocksRight == Spec => []BlocksPair
<1>1. NumbersInv => BlocksPair
  <2> SUFFICES ASSUME NumbersInv, NEW c \in Callers,
                      plan.does[c] # None /\ plan.does[c].do = "block" /\ call[c].pc = "asked" /\ call[c].step = "last"
               PROVE  LET node == call[c].node.child
                          asked == jid_normalized_user(plan.does[c].jid)
                      IN /\ asked \in {node.lid, node.pn} \cup {r.pn : r \in {x \in once : x.lid = node.lid}}
                         /\ node.action = "block" => [pn |-> node.pn, lid |-> node.lid] \in once
    BY DEF BlocksPair
  <2>1. BlockNode(call[c].node.child, plan.does[c].jid, once)
    BY DEF NumbersInv, Holds, Blocks
  <2>2. \A x, y : [pn |-> x, lid |-> y].pn = x /\ [pn |-> x, lid |-> y].lid = y
    OBVIOUS
  <2>3. QED
    BY <2>1, <2>2 DEF BlockNode
<1>2. QED
  BY <1>1, NumbersInvariant, PTL

\* What resolved once resolves from then on: only the table is sure to keep it.
THEOREM LearnedKept == Spec => LearnedStays
<1> DEFINE Resolved == base = "database" =>
             \A lid \in Lids : None \notin pn_for_lid(rows, creds, lid) => None \notin pn_for_lid(rows', creds', lid)
<1>1. ASSUME BaseInv, NumbersInv, [Next]_vars PROVE Resolved
  <2>1. MemoryInv /\ ServerInv /\ Shape
    BY <1>1 DEF NumbersInv, BaseInv
  <2>2. HasRow(rows) \subseteq HasRow(rows')
    <3>1. CASE \E c \in Callers : Starts(c) \/ Serves(c) \/ Resumes(c)
      BY <1>1, <3>1, MemoryStays
    <3>2. CASE MediaRetried \/ Tick \/ Move \/ Crash \/ UNCHANGED vars
      <4>1. rows' = rows
        BY <3>2, Zenon DEF MediaRetried, Tick, Move, Crash, vars, local
      <4>2. QED
        BY <4>1
    <3>3. QED
      BY <1>1, <3>1, <3>2 DEF Next
  <2>3. MemoryInv' /\ ServerInv'
    BY <1>1, NumbersStays DEF NumbersInv
  <2>4. ASSUME base = "database", NEW lid \in Lids, None \notin pn_for_lid(rows, creds, lid) PROVE lid \in HasRow(rows)
    <3> DEFINE held == {r.pn : r \in {x \in rows : x.lid = lid}}
    <3>1. held # {} \/ lid \in DOMAIN creds.lid_pn
      BY <2>4, Zenon DEF pn_for_lid
    <3>2. held # {} => lid \in HasRow(rows)
      BY DEF HasRow
    <3>3. QED
      BY <2>1, <2>4, <3>1, <3>2 DEF MemoryInv, Tabled
  <2>5. ASSUME NEW lid \in HasRow(rows') PROVE None \notin pn_for_lid(rows', creds', lid)
    <3> DEFINE held == {r.pn : r \in {x \in rows' : x.lid = lid}}
    <3>1. held # {}
      BY <2>5 DEF HasRow
    <3>2. held \subseteq Numbers
      BY <2>3 DEF MemoryInv, ServerInv
    <3>3. pn_for_lid(rows', creds', lid) = held
      BY <3>1 DEF pn_for_lid
    <3>4. QED
      BY <3>2, <3>3, NumbersAssumption
  <2>6. QED
    BY <2>2, <2>4, <2>5
<1>2. QED
  BY <1>1, NumbersInvariant, PTL DEF Spec, LearnedStays

-----------------------------------------------------------------------------
(* Tokens of trusted contacts                                              *)

\* What is kept of an address is at least as new as all that was stored for it and is good.
StoreFresh ==
  \A s \in stored : ~is_tc_token_expired(s.timestamp, now) =>
    s.at \in DOMAIN tokens /\ tokens[s.at].timestamp >= s.timestamp
Times ==
  /\ now \in Nat
  /\ \A j \in DOMAIN tokens : tokens[j] \in [timestamp : Nat]
  /\ \A s \in stored : s.timestamp \in Nat

\* What a call about tokens is given, and what goes out with a picture's request.
Issued(answer) == answer.tokens = << >> \/ \E t \in Nat : answer.tokens = <<[timestamp |-> t]>>
GoodToken(child) == child.token # None => ~is_tc_token_expired(child.token.timestamp, child.time)
Bears(c) ==
  (plan.does[c] # None /\ call[c].pc = "asked") =>
    /\ plan.does[c].do = "tokens" => (HasAnswer(c) => Issued(call[c].answer))
    /\ plan.does[c].do = "picture" => GoodToken(call[c].node.child)
TokenInv == Times /\ StoreFresh /\ \A c \in Callers : Bears(c)

\* Of what is held and what comes, the newest stays.
LEMMA NewestIs ==
  ASSUME NEW held, \A j \in DOMAIN held : held[j] \in [timestamp : Nat], NEW t \in Nat, NEW j
  PROVE  /\ Newest(held, <<[timestamp |-> t]>>, j) \in [timestamp : Nat]
         /\ Newest(held, <<[timestamp |-> t]>>, j).timestamp >= t
         /\ j \in DOMAIN held => Newest(held, <<[timestamp |-> t]>>, j).timestamp >= held[j].timestamp
<1> DEFINE new == [timestamp |-> t]
           some == (IF j \in DOMAIN held THEN <<held[j]>> ELSE << >>) \o <<new>>
           best == CHOOSE i \in Kept(some) : TRUE
<1>1. Newest(held, <<new>>, j) = some[best]
  BY DEF Newest
<1>2. new.timestamp = t /\ new \in [timestamp : Nat]
  OBVIOUS
<1>3. \A x, y : <<x>> \o <<y>> = <<x, y>> /\ << >> \o <<y>> = <<y>>
  <2>1. ASSUME NEW x, NEW y PROVE <<x>> \o <<y>> = <<x, y>>
    <3> DEFINE s == <<x>> \o <<y>>
               pair == <<x, y>>
    <3>1. <<x>> \in Seq({x, y}) /\ <<y>> \in Seq({x, y}) /\ Len(<<x>>) = 1 /\ Len(<<y>>) = 1
      OBVIOUS
    <3>2. s \in Seq({x, y}) /\ Len(s) = 2 /\ s[1] = x /\ s[2] = y
      BY <3>1, ConcatProperties
    <3>3. pair \in Seq({x, y}) /\ Len(pair) = 2 /\ pair[1] = x /\ pair[2] = y
      OBVIOUS
    <3> HIDE DEF s, pair
    <3>4. s = pair
      BY <3>2, <3>3, SeqEqual
    <3>5. QED
      BY <3>4 DEF s, pair
  <2>2. ASSUME NEW y PROVE << >> \o <<y>> = <<y>>
    OBVIOUS
  <2>3. QED
    BY <2>1, <2>2, Zenon
<1> HIDE DEF new
<1>4. CASE j \in DOMAIN held
  <2>1. some = <<held[j], new>>
    BY <1>4, <1>3
  <2> DEFINE two == <<held[j], new>>
  <2>2. DOMAIN two = {1, 2} /\ two[1] = held[j] /\ two[2] = new
    OBVIOUS
  <2>3. held[j].timestamp \in Nat /\ held[j] \in [timestamp : Nat]
    BY <1>4
  <2> HIDE DEF two
  <2>4. Kept(two) # {}
    <3>1. CASE held[j].timestamp > t
      <4>1. 1 \in Kept(two)
        BY <1>2, <2>2, <2>3, <3>1 DEF Kept
      <4>2. QED
        BY <4>1
    <3>2. CASE ~(held[j].timestamp > t)
      <4>1. 2 \in Kept(two)
        BY <1>2, <2>2, <2>3, <3>2 DEF Kept
      <4>2. QED
        BY <4>1
    <3>3. QED
      BY <3>1, <3>2
  <2>5. (CHOOSE i \in Kept(two) : TRUE) \in Kept(two)
    BY <2>4
  <2>6. \A i \in Kept(two) : i \in {1, 2} /\ two[i].timestamp >= t /\ two[i].timestamp >= held[j].timestamp
    BY <1>2, <2>2, <2>3 DEF Kept
  <2>7. \A i \in {1, 2} : two[i].timestamp \in Nat /\ two[i] \in [timestamp : Nat]
    BY <1>2, <2>2, <2>3
  <2>8. Newest(held, <<new>>, j) = two[CHOOSE i \in Kept(two) : TRUE]
    BY <1>1, <2>1 DEF two
  <2>9. QED
    BY <2>5, <2>6, <2>7, <2>8 DEF new
<1>5. CASE j \notin DOMAIN held
  <2>1. some = <<new>>
    BY <1>5, <1>3
  <2> DEFINE one == <<new>>
  <2>2. DOMAIN one = {1} /\ one[1] = new
    OBVIOUS
  <2> HIDE DEF one
  <2>3. Kept(one) = {1}
    BY <1>2, <2>2 DEF Kept
  <2>4. Newest(held, <<new>>, j) = one[1]
    BY <1>1, <2>1, <2>3 DEF one
  <2>5. QED
    BY <1>2, <1>5, <2>2, <2>4 DEF new
<1>6. QED
  BY <1>4, <1>5

\* A step of a call keeps the newest token.
LEMMA TokensKept ==
  ASSUME BaseInv, TokenInv, NEW c \in Callers, Starts(c) \/ Serves(c) \/ Resumes(c)
  PROVE  (Times /\ StoreFresh)'
<1>1. Frame(c) /\ OfItsKind(c) /\ Protocol(c) /\ Bears(c) /\ Times /\ StoreFresh
  BY StepIs DEF BaseInv, TokenInv
<1>2. now' = now /\ plan.does[c] # None /\ NumBuckets \in Nat
  BY <1>1, AskingAssumption DEF Frame, OfItsKind
<1>3. CASE UNCHANGED <<tokens, stored>>
  BY <1>1, <1>2, <1>3 DEF Times, StoreFresh
<1>4. CASE TokensIssued(c)
  <2> DEFINE given == call[c].answer.tokens
             jids == call[c].node.child
  <2>1. Issued(call[c].answer)
    BY <1>1, <1>2, <1>4 DEF TokensIssued, Granting, Answered, Bears, HasAnswer
  <2>2. PICK at \in [DOMAIN jids -> UNION {TokenJids(jids[i]) : i \in DOMAIN jids}] :
          /\ tokens' = IF given = << >> THEN tokens
                       ELSE store_tc_tokens_from_iq_result(tokens, given, {at[i] : i \in DOMAIN jids})
          /\ stored' = stored \cup [at : {at[i] : i \in DOMAIN jids}, timestamp : {given[k].timestamp : k \in DOMAIN given}]
    BY <1>4 DEF TokensIssued
  <2>3. CASE given = << >>
    <3>1. stored' = stored /\ tokens' = tokens
      BY <2>2, <2>3
    <3>2. QED
      BY <1>3, <3>1
  <2>4. ASSUME NEW t \in Nat, given = <<[timestamp |-> t]>> PROVE (Times /\ StoreFresh)'
    <3> DEFINE addresses == {at[i] : i \in DOMAIN jids}
    <3>1. DOMAIN given = {1} /\ given[1].timestamp = t /\ given # << >>
      BY <2>4
    <3>2. stored' = stored \cup [at : addresses, timestamp : {t}]
      BY <2>2, <3>1
    <3>3. tokens' = [j \in addresses |-> Newest(tokens, given, j)] ++ tokens
      BY <2>2, <3>1 DEF store_tc_tokens_from_iq_result
    <3> HIDE DEF addresses
    <3>4. /\ DOMAIN tokens' = addresses \cup DOMAIN tokens
          /\ \A j \in addresses : tokens'[j] = Newest(tokens, given, j)
          /\ \A j \in DOMAIN tokens \ addresses : tokens'[j] = tokens[j]
      BY <3>3 DEF ++
    <3>5. \A j : /\ Newest(tokens, given, j) \in [timestamp : Nat]
                 /\ Newest(tokens, given, j).timestamp >= t
                 /\ j \in DOMAIN tokens => Newest(tokens, given, j).timestamp >= tokens[j].timestamp
      BY <1>1, <2>4, NewestIs DEF Times
    <3>6. \A j \in DOMAIN tokens : tokens'[j].timestamp \in Nat /\ tokens'[j].timestamp >= tokens[j].timestamp
      BY <1>1, <3>4, <3>5 DEF Times
    <3>7. Times'
      BY <1>1, <1>2, <3>2, <3>4, <3>5 DEF Times
    <3>8. StoreFresh'
      <4> SUFFICES ASSUME NEW s \in stored', ~is_tc_token_expired(s.timestamp, now)
                   PROVE  s.at \in DOMAIN tokens' /\ tokens'[s.at].timestamp >= s.timestamp
        BY <1>2 DEF StoreFresh
      <4>1. CASE s \in stored
        <5>1. s.at \in DOMAIN tokens /\ tokens[s.at].timestamp >= s.timestamp
          BY <1>1, <4>1 DEF StoreFresh
        <5>2. tokens[s.at].timestamp \in Nat /\ s.timestamp \in Nat
          BY <1>1, <4>1, <5>1 DEF Times
        <5>3. QED
          BY <3>4, <3>6, <5>1, <5>2
      <4>2. CASE s \in [at : addresses, timestamp : {t}]
        <5>1. s.at \in addresses /\ s.timestamp = t
          BY <4>2
        <5>2. QED
          BY <3>4, <3>5, <5>1
      <4>3. QED
        BY <3>2, <4>1, <4>2
    <3>9. QED
      BY <3>7, <3>8
  <2>5. QED
    BY <2>1, <2>3, <2>4 DEF Issued
<1>5. CASE profile_picture_url(c)
  <2>1. PICK at : tokens' = TokensAfterBuild(tokens, at, now)
    BY <1>5 DEF profile_picture_url
  <2>2. stored' = stored
    BY <1>5 DEF profile_picture_url
  <2>3. CASE build_tc_token(tokens, at, now) # None
    BY <1>3, <2>1, <2>2, <2>3 DEF TokensAfterBuild
  <2>4. CASE build_tc_token(tokens, at, now) = None
    <3>1. tokens' = [j \in DOMAIN tokens \ {at} |-> tokens[j]]
      BY <2>1, <2>4 DEF TokensAfterBuild
    <3>2. Times'
      BY <1>1, <1>2, <2>2, <3>1 DEF Times
    <3>3. CASE at \in DOMAIN tokens => is_tc_token_expired(tokens[at].timestamp, now)
      <4> SUFFICES ASSUME NEW s \in stored, ~is_tc_token_expired(s.timestamp, now)
                   PROVE  s.at \in DOMAIN tokens' /\ tokens'[s.at].timestamp >= s.timestamp
        BY <1>2, <2>2, <3>2 DEF StoreFresh
      <4>1. s.at \in DOMAIN tokens /\ tokens[s.at].timestamp >= s.timestamp
        BY <1>1 DEF StoreFresh
      <4>2. tokens[s.at].timestamp \in Nat /\ s.timestamp \in Nat
        BY <1>1, <4>1 DEF Times
      <4>3. s.at # at
        BY <1>1, <1>2, <3>3, <4>1, <4>2 DEF is_tc_token_expired, Times
      <4>4. QED
        BY <3>1, <4>1, <4>3
    <3>4. CASE at \in DOMAIN tokens /\ ~is_tc_token_expired(tokens[at].timestamp, now)
      <4>1. tokens[at] = None
        BY <2>4, <3>4 DEF build_tc_token
      <4>2. QED
        BY <1>1, <3>4, <4>1, NoneAssumption DEF Times
    <3>5. QED
      BY <3>2, <3>3, <3>4
  <2>5. QED
    BY <2>3, <2>4
<1>6. QED
  BY <1>1, <1>3, <1>4, <1>5 DEF Frame

\* What the server issues is one token with a time, or none.
LEMMA TokensBear ==
  ASSUME BaseInv, TokenInv, NEW c \in Callers, plan.does[c] # None, plan.does[c].do = "tokens", TokensStep(c)
  PROVE  call'[c].pc = "asked" => (HasAnswer(c)' => Issued(call'[c].answer))
<1>1. Shape /\ Times /\ Bears(c)
  BY DEF BaseInv, TokenInv
<1>2. \A why, fields : Ends(c, why, fields) /\ Fresh(fields) => call'[c].pc = "done"
  BY <1>1, Effects
<1>3. Fresh(NoChange) /\ \A x : Fresh([cut |-> x])
  BY FreshAre
<1>4. CASE issue_privacy_tokens(c)
  <2>1. (\E why : Ends(c, why, NoChange)) \/ \E node : Ask(c, node, "first", NoChange)
    BY <1>4 DEF issue_privacy_tokens
  <2>2. QED
    BY <1>1, <1>2, <1>3, <2>1, Effects DEF HasAnswer
<1>5. CASE AnswerTokens(c)
  <2>1. PICK some \in {<< >>, <<[timestamp |-> now]>>} : Answers(c, [tokens |-> some], NoChange)
    BY <1>5 DEF AnswerTokens
  <2> DEFINE answer == [tokens |-> some]
  <2>2. "tokens" \in DOMAIN answer /\ answer.tokens = some /\ "tokens" \notin DOMAIN [error |-> None]
    OBVIOUS
  <2> HIDE DEF answer
  <2>3. call'[c].answer.tokens = some
    BY <1>1, <2>1, <2>2, Effects, PlusIs DEF answer
  <2>4. QED
    BY <1>1, <2>3 DEF Issued, Times
<1>6. CASE Refuse(c)
  BY <1>1, <1>6, Effects DEF HasAnswer
<1>7. CASE TokensIssued(c) \/ ContactEnds(c) \/ QueryLate(c)
  <2>1. \E why : Ends(c, why, NoChange) \/ Ends(c, why, [cut |-> TRUE])
    BY <1>7 DEF TokensIssued, ContactEnds, QueryLate
  <2>2. QED
    BY <1>2, <1>3, <2>1
<1>8. QED
  BY <1>4, <1>5, <1>6, <1>7 DEF TokensStep

\* A request for a picture bears a good token, or none.
LEMMA PictureBears ==
  ASSUME BaseInv, TokenInv, NEW c \in Callers, plan.does[c] # None, plan.does[c].do = "picture", PictureStep(c)
  PROVE  call'[c].pc = "asked" => GoodToken(call'[c].node.child)
<1>1. Shape /\ Times /\ Bears(c)
  BY DEF BaseInv, TokenInv
<1>2. \A why, fields : Ends(c, why, fields) /\ Fresh(fields) => call'[c].pc = "done"
  BY <1>1, Effects
<1>3. Fresh(NoChange) /\ \A x : Fresh([cut |-> x])
  BY FreshAre
<1>4. CASE profile_picture_url(c)
  <2>1. PICK at : Ask(c, Query("picture", [at |-> at, token |-> build_tc_token(tokens, at, now), time |-> now]), "first", NoChange)
    BY <1>4 DEF profile_picture_url
  <2> DEFINE child == [at |-> at, token |-> build_tc_token(tokens, at, now), time |-> now]
             node == Query("picture", child)
  <2>2. child.token = build_tc_token(tokens, at, now) /\ child.time = now
    OBVIOUS
  <2> HIDE DEF child
  <2>3. node.child = child
    BY DEF Query
  <2> HIDE DEF node
  <2>4. call'[c].node = node
    BY <1>1, <1>3, <2>1, Effects DEF node, child
  <2>5. GoodToken(child)
    BY <2>2 DEF GoodToken, build_tc_token
  <2>6. QED
    BY <2>3, <2>4, <2>5
<1>5. CASE ServeContact(c) \/ Refuse(c)
  <2>1. call[c].pc = "asked"
    BY <1>5 DEF ServeContact, Waiting, Refuse
  <2>2. call'[c].node = call[c].node
    BY <1>1, <1>5, Effects DEF ServeContact
  <2>3. QED
    BY <1>1, <2>1, <2>2 DEF Bears
<1>6. CASE ContactEnds(c) \/ QueryLate(c)
  <2>1. \E why : Ends(c, why, NoChange) \/ Ends(c, why, [cut |-> TRUE])
    BY <1>6 DEF ContactEnds, QueryLate
  <2>2. QED
    BY <1>2, <1>3, <2>1
<1>7. QED
  BY <1>4, <1>5, <1>6 DEF PictureStep

\* Every step keeps the newest token.
LEMMA TokensStay == ASSUME BaseInv, TokenInv, [Next]_vars PROVE TokenInv'
<1>1. Times /\ StoreFresh /\ Shape
  BY DEF BaseInv, TokenInv
<1>2. ASSUME NEW c \in Callers, Starts(c) \/ Serves(c) \/ Resumes(c) PROVE TokenInv'
  <2>1. Others(c) /\ OfItsKind(c) /\ plan' = plan
    BY <1>2, StepIs DEF Steady, fixed
  <2>2. (Times /\ StoreFresh)'
    BY <1>2, TokensKept
  <2>3. Bears(c)'
    <3>1. plan.does[c] # None
      BY <2>1 DEF OfItsKind
    <3>2. (plan.does[c].do = "tokens" /\ call'[c].pc = "asked") => (HasAnswer(c)' => Issued(call'[c].answer))
      BY <2>1, <3>1, KindIs, TokensBear
    <3>3. (plan.does[c].do = "picture" /\ call'[c].pc = "asked") => GoodToken(call'[c].node.child)
      BY <2>1, <3>1, KindIs, PictureBears
    <3>4. QED
      BY <2>1, <3>2, <3>3 DEF Bears
  <2>4. \A d \in Callers : d # c => Bears(d)'
    BY <2>1 DEF Others, TokenInv, Bears, HasAnswer
  <2>5. QED
    BY <2>2, <2>3, <2>4 DEF TokenInv
<1>3. ASSUME UNCHANGED <<plan, tokens, stored>>, now' \in Nat, now' >= now,
             \A c \in Callers : call'[c] = call[c] \/ call'[c].pc = "done"
      PROVE  TokenInv'
  <2>1. \A c \in Callers : Bears(c)'
    BY <1>3 DEF TokenInv, Bears, HasAnswer
  <2>2. Times'
    BY <1>1, <1>3 DEF Times
  <2>3. \A s \in stored : ~is_tc_token_expired(s.timestamp, now') => ~is_tc_token_expired(s.timestamp, now)
    BY <1>1, <1>3, AskingAssumption DEF is_tc_token_expired, Times
  <2>4. StoreFresh'
    BY <1>1, <1>3, <2>3 DEF StoreFresh
  <2>5. QED
    BY <2>1, <2>2, <2>4 DEF TokenInv
<1>4. now \in Nat
  BY <1>1 DEF Times
<1>5. CASE MediaRetried
  <2>1. UNCHANGED <<plan, tokens, stored, now>>
    BY <1>1, <1>5, RetriedIs DEF fixed, local
  <2>2. QED
    BY <1>1, <1>3, <1>4, <1>5, <2>1, RetriedIs
<1>6. CASE Crash
  <2>1. UNCHANGED <<plan, tokens, stored, now>>
    BY <1>6 DEF Crash, fixed
  <2>2. \A c \in Callers : call'[c] = call[c] \/ call'[c].pc = "done"
    BY <1>1, <1>6, CrashIs, Zenon DEF Idle
  <2>3. QED
    BY <1>3, <1>4, <2>1, <2>2
<1>7. CASE Tick \/ Move \/ UNCHANGED vars
  <2>1. UNCHANGED <<plan, tokens, stored, call>> /\ now' \in {now, now + 1}
    BY <1>7 DEF Tick, Move, vars, fixed, local
  <2>2. QED
    BY <1>3, <1>4, <2>1
<1>8. QED
  BY <1>2, <1>5, <1>6, <1>7 DEF Next

\* A token that goes out is good, and the newest good one is never lost (privacy_tokens.py).
THEOREM TokensFresh == Spec => []TokenFresh
<1>1. Init => BaseInv /\ TokenInv
  <2> SUFFICES ASSUME Init PROVE BaseInv /\ TokenInv
    OBVIOUS
  <2>1. BaseInv
    BY DEF Init, AskingInit, BaseInv, Shape, Protocol, Fields, Idle
  <2>2. Times /\ StoreFresh
    BY DEF Init, AskingInit, Times, StoreFresh
  <2>3. \A c \in Callers : Bears(c)
    BY DEF Init, AskingInit, Bears, Idle
  <2>4. QED
    BY <2>1, <2>2, <2>3 DEF TokenInv
<1>2. BaseInv /\ TokenInv /\ [Next]_vars => BaseInv' /\ TokenInv'
  BY BaseStays, TokensStay
<1>3. TokenInv => TokenFresh
  <2> SUFFICES ASSUME TokenInv PROVE TokenFresh
    OBVIOUS
  <2>1. ASSUME NEW c \in Callers, plan.does[c] # None /\ plan.does[c].do = "picture" /\ call[c].pc = "asked",
               call[c].node.child.token # None
        PROVE  ~is_tc_token_expired(call[c].node.child.token.timestamp, call[c].node.child.time)
    BY <2>1 DEF TokenInv, Bears, GoodToken
  <2>2. StoreFresh
    BY DEF TokenInv
  <2>3. QED
    BY <2>1, <2>2 DEF TokenFresh, StoreFresh
<1>4. QED
  BY <1>1, <1>2, <1>3, PTL DEF Spec

-----------------------------------------------------------------------------
(* Lists: what is picked from one, and one made of several.                *)

\* A set of numbers that is not empty has a least one.
LEMMA Least ==
  ASSUME NEW T \in SUBSET Nat, T # {}
  PROVE  \E x \in T : \A y \in T : x <= y
<1>1. PICK x \in T : \A y \in T : ~(<<y, x>> \in OpToRel(<, Nat))
  BY NatLessThanWellFounded, WFMin, Zenon
<1>2. \A y \in T : ~(y < x)
  BY <1>1 DEF OpToRel
<1> QED
  BY <1>2

\* f is what Picked makes of the first 0 to n elements of s.
IsPick(s, kept, n, f) ==
  f = [i \in 0 .. n |-> IF i = 0 THEN << >> ELSE IF i \in kept THEN Append(f[i - 1], s[i]) ELSE f[i - 1]]

\* The recursive function of Picked exists, for as long a list as is wanted.
LEMMA PickExists ==
  ASSUME NEW s, NEW kept, NEW n \in Nat
  PROVE  \E f : IsPick(s, kept, n, f)
<1> DEFINE T == {m \in Nat : ~\E f : IsPick(s, kept, m, f)}
<1> SUFFICES ASSUME T # {} PROVE FALSE
  OBVIOUS
<1>1. PICK m \in T : \A y \in T : m <= y
  BY Least
<1>2. CASE m = 0
  <2> DEFINE g == [i \in 0 .. 0 |-> << >>]
  <2>1. \A i \in 0 .. 0 : g[i] = IF i = 0 THEN << >> ELSE IF i \in kept THEN Append(g[i - 1], s[i]) ELSE g[i - 1]
    OBVIOUS
  <2>2. g = [i \in 0 .. 0 |-> g[i]]
    OBVIOUS
  <2> HIDE DEF g
  <2>3. IsPick(s, kept, 0, g)
    BY <2>1, <2>2 DEF IsPick
  <2> QED
    BY <1>2, <2>3
<1>3. CASE m # 0
  <2>1. m - 1 \in Nat /\ ~(m <= m - 1)
    BY <1>3
  <2>2. PICK f : IsPick(s, kept, m - 1, f)
    BY <1>1, <2>1
  <2> DEFINE g == [i \in 0 .. m |-> IF i = m THEN IF i \in kept THEN Append(f[i - 1], s[i]) ELSE f[i - 1] ELSE f[i]]
  <2>3. ASSUME NEW i \in 0 .. m
        PROVE  g[i] = IF i = 0 THEN << >> ELSE IF i \in kept THEN Append(g[i - 1], s[i]) ELSE g[i - 1]
    <3>1. CASE i = 0
      BY <1>3, <2>2, <3>1 DEF IsPick
    <3>2. CASE i # 0
      <4>1. i - 1 \in 0 .. (m - 1) /\ i - 1 # m /\ i - 1 \in 0 .. m
        BY <3>2
      <4>2. g[i - 1] = f[i - 1]
        BY <4>1
      <4>3. CASE i = m
        BY <3>2, <4>2, <4>3
      <4>4. CASE i # m
        <5>1. i \in 0 .. (m - 1)
          BY <4>4
        <5>2. f[i] = IF i \in kept THEN Append(f[i - 1], s[i]) ELSE f[i - 1]
          BY <2>2, <3>2, <5>1 DEF IsPick
        <5> QED
          BY <3>2, <4>2, <4>4, <5>2
      <4> QED
        BY <4>3, <4>4
    <3> QED
      BY <3>1, <3>2
  <2>4. IsPick(s, kept, m, g)
    <3> HIDE DEF g
    <3>1. g = [i \in 0 .. m |-> g[i]]
      BY DEF g
    <3> QED
      BY <2>3, <3>1 DEF IsPick
  <2> QED
    BY <1>1, <2>4
<1> QED
  BY <1>2, <1>3

\* t is picked from the first n elements of s: it holds those that are kept, and no two of
\* them are the same if they are not in s.
PickedOf(S, s, kept, n, t) ==
  /\ t \in Seq(S) /\ Len(t) <= n
  /\ \A k \in DOMAIN t : \E i \in kept : i <= n /\ t[k] = s[i]
  /\ \A i \in kept : i <= n => \E k \in DOMAIN t : t[k] = s[i]
  /\ (\A i, k \in kept : s[i] = s[k] => i = k) => \A i, k \in DOMAIN t : t[i] = t[k] => i = k

\* One element more.
LEMMA PickedMore ==
  ASSUME NEW S, NEW s \in Seq(S), NEW kept \in SUBSET DOMAIN s, NEW n \in DOMAIN s, NEW t,
         PickedOf(S, s, kept, n - 1, t)
  PROVE  PickedOf(S, s, kept, n, IF n \in kept THEN Append(t, s[n]) ELSE t)
<1>1. n \in Nat \ {0} /\ kept \subseteq Nat /\ s[n] \in S /\ t \in Seq(S) /\ Len(t) \in Nat /\ Len(t) <= n - 1 /\ Len(t) <= n
  BY DEF PickedOf
<1>2. \A i \in kept : i <= n - 1 \/ i = n \/ ~(i <= n)
  BY <1>1
<1>3. CASE n \notin kept
  <2>1. \A i \in kept : i <= n <=> i <= n - 1
    BY <1>1, <1>2, <1>3
  <2> QED
    BY <1>1, <1>3, <2>1 DEF PickedOf
<1>4. CASE n \in kept
  <2> DEFINE u == Append(t, s[n])
             m == Len(t)
  <2>1. u \in Seq(S) /\ m \in Nat /\ DOMAIN t = 1 .. m /\ DOMAIN u = 1 .. (m + 1) /\ u[m + 1] = s[n]
        /\ (\A k \in 1 .. m : u[k] = t[k]) /\ Len(u) <= n
    BY <1>1
  <2> HIDE DEF u, m
  <2>2. \A k \in DOMAIN u : \E i \in kept : i <= n /\ u[k] = s[i]
    <3>1. TAKE k \in DOMAIN u
    <3>2. CASE k = m + 1
      BY <1>1, <1>4, <2>1, <3>2
    <3>3. CASE k # m + 1
      <4>1. k \in 1 .. m
        BY <2>1, <3>3
      <4>2. PICK i \in kept : i <= n - 1 /\ t[k] = s[i]
        BY <2>1, <4>1 DEF PickedOf
      <4>3. i <= n
        BY <1>1, <4>2
      <4> QED
        BY <2>1, <4>1, <4>2, <4>3
    <3> QED
      BY <3>2, <3>3
  <2>3. \A i \in kept : i <= n => \E k \in DOMAIN u : u[k] = s[i]
    <3>1. SUFFICES ASSUME NEW i \in kept, i <= n PROVE \E k \in DOMAIN u : u[k] = s[i]
      OBVIOUS
    <3>2. CASE i = n
      <4>1. m + 1 \in DOMAIN u
        BY <2>1
      <4> QED
        BY <2>1, <3>2, <4>1
    <3>3. CASE i # n
      <4>1. i <= n - 1
        BY <1>2, <3>1, <3>3
      <4>2. PICK k \in DOMAIN t : t[k] = s[i]
        BY <4>1 DEF PickedOf
      <4>3. k \in 1 .. m /\ k \in 1 .. (m + 1)
        BY <2>1, <4>2
      <4> QED
        BY <2>1, <4>2, <4>3
    <3> QED
      BY <3>2, <3>3
  <2>4. (\A i, k \in kept : s[i] = s[k] => i = k) => \A i, k \in DOMAIN u : u[i] = u[k] => i = k
    <3>1. SUFFICES ASSUME \A i, k \in kept : s[i] = s[k] => i = k, NEW i \in DOMAIN u, NEW k \in DOMAIN u, u[i] = u[k]
                   PROVE  i = k
      OBVIOUS
    <3>2. \A j \in 1 .. m : u[j] # u[m + 1]
      <4>1. SUFFICES ASSUME NEW j \in 1 .. m, u[j] = u[m + 1] PROVE FALSE
        OBVIOUS
      <4>2. PICK l \in kept : l <= n - 1 /\ t[j] = s[l]
        BY <2>1, <4>1 DEF PickedOf
      <4>3. l = n
        BY <1>4, <2>1, <3>1, <4>1, <4>2
      <4> QED
        BY <1>1, <4>2, <4>3
    <3>3. \A j, l \in 1 .. m : u[j] = u[l] => j = l
      BY <2>1, <3>1 DEF PickedOf
    <3>4. (i \in 1 .. m \/ i = m + 1) /\ (k \in 1 .. m \/ k = m + 1)
      BY <2>1, <3>1
    <3> QED
      BY <3>1, <3>2, <3>3, <3>4
  <2>5. PickedOf(S, s, kept, n, u)
    BY <2>1, <2>2, <2>3, <2>4 DEF PickedOf
  <2> QED
    BY <1>4, <2>5 DEF u
<1> QED
  BY <1>3, <1>4

\* What Picked looks up at the end of s.
LEMMA PickedLast ==
  ASSUME NEW S, NEW s \in Seq(S), NEW kept
  PROVE  \E f : IsPick(s, kept, Len(s), f) /\ Picked(s, kept) = f[Len(s)]
<1> DEFINE f == CHOOSE g : IsPick(s, kept, Len(s), g)
<1>1. IsPick(s, kept, Len(s), f)
  BY PickExists
<1>2. f = CHOOSE g : g = [i \in 0 .. Len(s) |-> IF i = 0 THEN << >> ELSE IF i \in kept THEN Append(g[i - 1], s[i]) ELSE g[i - 1]]
  BY DEF IsPick
<1> HIDE DEF f
<1>3. Picked(s, kept) = f[Len(s)]
  BY <1>2 DEF Picked
<1> QED
  BY <1>1, <1>3

\* What Picked returns.
LEMMA PickedIs ==
  ASSUME NEW S, NEW s \in Seq(S), NEW kept \in SUBSET DOMAIN s
  PROVE  PickedOf(S, s, kept, Len(s), Picked(s, kept))
<1>1. Len(s) \in Nat /\ DOMAIN s = 1 .. Len(s)
  OBVIOUS
<1>2. PICK f : IsPick(s, kept, Len(s), f) /\ Picked(s, kept) = f[Len(s)]
  BY PickedLast
<1> DEFINE T == {n \in 0 .. Len(s) : ~PickedOf(S, s, kept, n, f[n])}
<1>3. SUFFICES ASSUME T # {} PROVE FALSE
  BY <1>1, <1>2
<1>4. PICK n \in T : \A m \in T : n <= m
  <2>1. T \in SUBSET Nat
    BY <1>1
  <2> QED
    BY <1>3, <2>1, Least
<1>5. CASE n = 0
  <2>1. f[0] = << >>
    BY <1>1, <1>2 DEF IsPick
  <2>2. \A i \in kept : ~(i <= 0)
    BY <1>1
  <2>3. PickedOf(S, s, kept, 0, << >>)
    BY <2>2 DEF PickedOf
  <2> QED
    BY <1>5, <2>1, <2>3
<1>6. CASE n # 0
  <2>1. n \in DOMAIN s /\ n - 1 \in 0 .. Len(s) /\ ~(n <= n - 1)
    BY <1>1, <1>6
  <2>2. PickedOf(S, s, kept, n - 1, f[n - 1])
    BY <1>4, <2>1
  <2>3. f[n] = IF n \in kept THEN Append(f[n - 1], s[n]) ELSE f[n - 1]
    BY <1>2, <1>6 DEF IsPick
  <2> QED
    BY <2>1, <2>2, <2>3, PickedMore
<1> QED
  BY <1>5, <1>6

\* Picking every element leaves the list as it is.
LEMMA PickedAll ==
  ASSUME NEW S, NEW s \in Seq(S), NEW kept, DOMAIN s \subseteq kept
  PROVE  Picked(s, kept) = s
<1>1. Len(s) \in Nat /\ DOMAIN s = 1 .. Len(s)
  OBVIOUS
<1>2. PICK f : IsPick(s, kept, Len(s), f) /\ Picked(s, kept) = f[Len(s)]
  BY PickedLast
<1> DEFINE T == {n \in 0 .. Len(s) : f[n] # SubSeq(s, 1, n)}
<1>3. SUFFICES ASSUME T # {} PROVE FALSE
  <2>1. SubSeq(s, 1, Len(s)) = s
    OBVIOUS
  <2> QED
    BY <1>1, <1>2, <2>1
<1>4. PICK n \in T : \A m \in T : n <= m
  <2>1. T \in SUBSET Nat
    BY <1>1
  <2> QED
    BY <1>3, <2>1, Least
<1>5. CASE n = 0
  <2>1. f[0] = << >>
    BY <1>1, <1>2 DEF IsPick
  <2>2. SubSeq(s, 1, 0) = << >>
    BY SubSeqEmpty
  <2> QED
    BY <1>5, <2>1, <2>2
<1>6. CASE n # 0
  <2>1. n \in DOMAIN s /\ n - 1 \in 0 .. Len(s) /\ ~(n <= n - 1)
    BY <1>1, <1>6
  <2>2. f[n - 1] = SubSeq(s, 1, n - 1)
    BY <1>4, <2>1
  <2>3. f[n] = Append(f[n - 1], s[n])
    BY <1>2, <1>6, <2>1 DEF IsPick
  <2>4. Append(SubSeq(s, 1, n - 1), s[n]) = SubSeq(s, 1, n)
    BY <1>1, <2>1
  <2> QED
    BY <2>2, <2>3, <2>4
<1> QED
  BY <1>5, <1>6

-----------------------------------------------------------------------------
\* FlattenSeq of one list, and of two.
IsFlat(s, f) == f = [i \in 1 .. Len(s) |-> IF i = 1 THEN s[i] ELSE f[i - 1] \o s[i]]

LEMMA FlattenIs ==
  ASSUME NEW s, s # << >>, \E f : IsFlat(s, f)
  PROVE  \E f : IsFlat(s, f) /\ FlattenSeq(s) = f[Len(s)]
<1> DEFINE f == CHOOSE g : IsFlat(s, g)
<1>1. IsFlat(s, f)
  OBVIOUS
<1>2. f = CHOOSE g : g = [i \in 1 .. Len(s) |-> IF i = 1 THEN s[i] ELSE g[i - 1] \o s[i]]
  BY DEF IsFlat
<1> HIDE DEF f
<1>3. FlattenSeq(s) = f[Len(s)]
  BY <1>2 DEF FlattenSeq
<1> QED
  BY <1>1, <1>3

LEMMA FlattenOne ==
  ASSUME NEW s, Len(s) = 1, s # << >>
  PROVE  FlattenSeq(s) = s[1]
<1> DEFINE g == [i \in 1 .. 1 |-> s[1]]
<1>1. g = [i \in 1 .. 1 |-> IF i = 1 THEN s[i] ELSE g[i - 1] \o s[i]]
  OBVIOUS
<1>2. IsFlat(s, g)
  BY <1>1 DEF IsFlat
<1>3. PICK f : IsFlat(s, f) /\ FlattenSeq(s) = f[Len(s)]
  BY <1>2, FlattenIs
<1> QED
  BY <1>3 DEF IsFlat

LEMMA FlattenTwo ==
  ASSUME NEW s, Len(s) = 2, s # << >>
  PROVE  FlattenSeq(s) = s[1] \o s[2]
<1> DEFINE g == [i \in 1 .. 2 |-> IF i = 1 THEN s[1] ELSE s[1] \o s[2]]
<1>1. g = [i \in 1 .. 2 |-> IF i = 1 THEN s[i] ELSE g[i - 1] \o s[i]]
  <2>1. \A i \in 1 .. 2 : i = 1 \/ i = 2
    OBVIOUS
  <2>2. g[1] = s[1] /\ g[2] = s[1] \o s[2]
    OBVIOUS
  <2>3. \A i \in 1 .. 2 : g[i] = IF i = 1 THEN s[i] ELSE g[i - 1] \o s[i]
    BY <2>1, <2>2
  <2>4. g = [i \in 1 .. 2 |-> g[i]]
    OBVIOUS
  <2> HIDE DEF g
  <2> QED
    BY <2>3, <2>4
<1> HIDE DEF g
<1>2. IsFlat(s, g)
  BY <1>1 DEF IsFlat
<1>3. PICK f : IsFlat(s, f) /\ FlattenSeq(s) = f[Len(s)]
  BY <1>2, FlattenIs
<1>4. f[2] = f[1] \o s[2] /\ f[1] = s[1]
  BY <1>3 DEF IsFlat
<1> QED
  BY <1>3, <1>4

\* What is picked from a list comes from it, once if the list has everything once.
LEMMA PickedKeeps ==
  ASSUME NEW S, NEW s \in Seq(S), NEW kept \in SUBSET DOMAIN s
  PROVE  /\ Picked(s, kept) \in Seq(S) /\ Len(Picked(s, kept)) <= Len(s)
         /\ \A k \in DOMAIN Picked(s, kept) : \E i \in kept : Picked(s, kept)[k] = s[i]
         /\ \A i \in kept : \E k \in DOMAIN Picked(s, kept) : Picked(s, kept)[k] = s[i]
         /\ (\A i, k \in kept : s[i] = s[k] => i = k) => IsInjective(Picked(s, kept))
<1>1. PickedOf(S, s, kept, Len(s), Picked(s, kept))
  BY PickedIs
<1>2. \A i \in kept : i <= Len(s)
  OBVIOUS
<1> QED
  BY <1>1, <1>2 DEF PickedOf, IsInjective

-----------------------------------------------------------------------------
(* on_whatsapp: whose number is on the service.                            *)

\* The numbers a call should find.
Wanted(c) == ToSet(plan.does[c].numbers) \cap Numbers
OfArguments(c) == Seq(ToSet(plan.does[c].numbers))

\* What it still has to ask about, and has found.
Finding(c, todo, alone, got, cut) ==
  /\ todo \in OfArguments(c) /\ alone \in OfArguments(c) /\ got \in Seq(Wanted(c)) /\ IsInjective(got)
  /\ ~cut => alone = << >> /\ Wanted(c) \subseteq ToSet(got) \cup ToSet(todo)

Finds(c) ==
  (plan.does[c] # None /\ plan.does[c].do = "exists") =>
    /\ call[c].pc = "idle" => call[c] = Idle
    /\ call[c].pc = "asked" =>
         /\ call[c].node.child \in OfArguments(c)
         /\ Finding(c, call[c].todo \o call[c].node.child, call[c].alone, call[c].got, call[c].cut)
         /\ call[c].todo \in OfArguments(c)
         /\ HasAnswer(c) => /\ call[c].answer.numbers \in Seq(Wanted(c))
                            /\ ToSet(call[c].answer.numbers) = ToSet(call[c].node.child) \cap Numbers
    /\ call[c].pc = "done" /\ call[c].result = "ok" => Finding(c, call[c].todo, << >>, call[c].got, call[c].cut)
FindInv == \A c \in Callers : Finds(c)

\* The elements of lists that are put together.
LEMMA ToSetConcat ==
  ASSUME NEW S, NEW s \in Seq(S), NEW t \in Seq(S)
  PROVE  s \o t \in Seq(S) /\ ToSet(s \o t) = ToSet(s) \cup ToSet(t)
<1>1. /\ s \o t \in Seq(S) /\ Len(s) \in Nat /\ Len(t) \in Nat /\ DOMAIN s = 1 .. Len(s) /\ DOMAIN t = 1 .. Len(t)
      /\ DOMAIN (s \o t) = 1 .. (Len(s) + Len(t))
      /\ \A i \in 1 .. (Len(s) + Len(t)) : (s \o t)[i] = IF i <= Len(s) THEN s[i] ELSE t[i - Len(s)]
  BY ConcatProperties
<1> DEFINE u == s \o t
<1> HIDE DEF u
<1>2. ASSUME NEW x \in ToSet(u) PROVE x \in ToSet(s) \cup ToSet(t)
  <2>1. PICK i \in DOMAIN u : x = u[i]
    BY <1>2 DEF ToSet
  <2>2. CASE i <= Len(s)
    BY <1>1, <2>1, <2>2 DEF u, ToSet
  <2>3. CASE ~(i <= Len(s))
    <3>1. i - Len(s) \in 1 .. Len(t) /\ x = t[i - Len(s)]
      BY <1>1, <2>1, <2>3 DEF u
    <3> QED
      BY <1>1, <3>1 DEF ToSet
  <2> QED
    BY <2>2, <2>3
<1>3. ASSUME NEW i \in DOMAIN s PROVE s[i] \in ToSet(u)
  <2>1. i \in DOMAIN u /\ u[i] = s[i]
    BY <1>1 DEF u
  <2> QED
    BY <2>1 DEF ToSet
<1>4. ASSUME NEW i \in DOMAIN t PROVE t[i] \in ToSet(u)
  <2>1. i + Len(s) \in DOMAIN u /\ ~(i + Len(s) <= Len(s)) /\ (i + Len(s)) - Len(s) = i
    BY <1>1 DEF u
  <2>2. u[i + Len(s)] = t[i]
    BY <1>1, <2>1 DEF u
  <2> QED
    BY <2>1, <2>2 DEF ToSet
<1>5. ToSet(u) = ToSet(s) \cup ToSet(t)
  BY <1>2, <1>3, <1>4 DEF ToSet
<1> QED
  BY <1>1, <1>5 DEF u

\* A chunk and what comes after it are the whole.
LEMMA ChunkIs ==
  ASSUME NEW S, NEW s \in Seq(S)
  PROVE  /\ Chunk(s) \in Seq(S) /\ AfterChunk(s) \in Seq(S)
         /\ ToSet(s) \subseteq ToSet(AfterChunk(s)) \cup ToSet(Chunk(s))
<1> DEFINE n == IF Len(s) < ChunkSize THEN Len(s) ELSE ChunkSize
<1>1. n \in 0 .. Len(s) /\ Len(s) \in Nat /\ DOMAIN s = 1 .. Len(s)
  BY ChunkAssumption
<1>2. Chunk(s) = SubSeq(s, 1, n)
  BY DEF Chunk
<1> HIDE DEF n
<1>3. Chunk(s) \in Seq(S) /\ Len(Chunk(s)) = n /\ \A i \in 1 .. n : Chunk(s)[i] = s[i]
  BY <1>1, <1>2
<1>4. AfterChunk(s) = SubSeq(s, n + 1, Len(s))
  BY <1>3 DEF AfterChunk
<1>5. /\ AfterChunk(s) \in Seq(S) /\ Len(AfterChunk(s)) = Len(s) - n
      /\ \A i \in 1 .. (Len(s) - n) : AfterChunk(s)[i] = s[n + i]
  <2>1. n + 1 \in 1 .. (Len(s) + 1) /\ Len(s) - (n + 1) + 1 = Len(s) - n
    BY <1>1
  <2>2. \A i \in 1 .. (Len(s) - n) : (n + 1) + i - 1 = n + i
    BY <1>1
  <2>3. (\A i \in (n + 1) .. Len(s) : s[i] \in S) /\ n + 1 \in Int /\ Len(s) \in Int
    BY <1>1
  <2>4. /\ SubSeq(s, n + 1, Len(s)) \in Seq(S)
        /\ Len(SubSeq(s, n + 1, Len(s))) = IF n + 1 <= Len(s) THEN Len(s) - (n + 1) + 1 ELSE 0
        /\ \A i \in 1 .. (Len(s) - (n + 1) + 1) : SubSeq(s, n + 1, Len(s))[i] = s[(n + 1) + i - 1]
    BY <2>3, SubSeqProperties
  <2>5. Len(s) - n = IF n + 1 <= Len(s) THEN Len(s) - (n + 1) + 1 ELSE 0
    <3>1. \A l \in Nat : \A m \in 0 .. l : l - m = IF m + 1 <= l THEN l - (m + 1) + 1 ELSE 0
      OBVIOUS
    <3> QED
      BY <1>1, <3>1, Zenon
  <2> QED
    BY <1>4, <2>1, <2>2, <2>4, <2>5
<1>6. DOMAIN Chunk(s) = 1 .. n /\ DOMAIN AfterChunk(s) = 1 .. (Len(s) - n)
  BY <1>3, <1>5
<1>7. ASSUME NEW i \in DOMAIN s PROVE s[i] \in ToSet(AfterChunk(s)) \cup ToSet(Chunk(s))
  <2>1. CASE i <= n
    BY <1>1, <1>3, <1>6, <2>1 DEF ToSet
  <2>2. CASE ~(i <= n)
    <3>1. i - n \in 1 .. (Len(s) - n) /\ n + (i - n) = i
      BY <1>1, <2>2
    <3>2. AfterChunk(s)[i - n] = s[i]
      BY <1>5, <3>1
    <3> QED
      BY <1>6, <3>1, <3>2 DEF ToSet
  <2> QED
    BY <2>1, <2>2
<1> QED
  BY <1>3, <1>5, <1>7 DEF ToSet

\* The numbers that are gathered: those there were and those there are now, each once.
LEMMA GatherIs ==
  ASSUME NEW S, NEW got \in Seq(S), NEW numbers \in Seq(S), IsInjective(got)
  PROVE  /\ Gather(got, numbers) \in Seq(S) /\ IsInjective(Gather(got, numbers))
         /\ ToSet(got) \cup ToSet(numbers) \subseteq ToSet(Gather(got, numbers))
<1> DEFINE before(i) == got \o SubSeq(numbers, 1, i - 1)
           kept == {i \in DOMAIN numbers : numbers[i] \notin ToSet(before(i))}
           new == Picked(numbers, kept)
<1>1. Len(numbers) \in Nat /\ DOMAIN numbers = 1 .. Len(numbers) /\ kept \subseteq DOMAIN numbers
  OBVIOUS
<1>2. ASSUME NEW i \in DOMAIN numbers
      PROVE  ToSet(before(i)) = ToSet(got) \cup {numbers[k] : k \in 1 .. (i - 1)}
  <2> DEFINE t == SubSeq(numbers, 1, i - 1)
  <2>1. t \in Seq(S) /\ DOMAIN t = 1 .. (i - 1) /\ \A k \in 1 .. (i - 1) : t[k] = numbers[k]
    BY <1>1
  <2> HIDE DEF t
  <2>2. ToSet(got \o t) = ToSet(got) \cup ToSet(t)
    BY <2>1, ToSetConcat
  <2>3. ToSet(t) = {numbers[k] : k \in 1 .. (i - 1)}
    BY <2>1 DEF ToSet
  <2> QED
    BY <2>2, <2>3 DEF t
<1> HIDE DEF before
<1>3. \A i \in kept : numbers[i] \notin ToSet(got) /\ \A k \in 1 .. (i - 1) : numbers[k] # numbers[i]
  BY <1>2
<1>4. \A i, k \in kept : numbers[i] = numbers[k] => i = k
  <2>1. SUFFICES ASSUME NEW i \in kept, NEW k \in kept, numbers[i] = numbers[k] PROVE i = k
    OBVIOUS
  <2>2. i \in 1 .. Len(numbers) /\ k \in 1 .. Len(numbers)
    BY <1>1
  <2>3. ~(i < k) /\ ~(k < i)
    BY <1>3, <2>1, <2>2
  <2> QED
    BY <2>2, <2>3
<1> HIDE DEF kept
<1>5. /\ new \in Seq(S) /\ IsInjective(new)
      /\ \A k \in DOMAIN new : \E i \in kept : new[k] = numbers[i]
      /\ \A i \in kept : \E k \in DOMAIN new : new[k] = numbers[i]
  BY <1>1, <1>4, PickedKeeps, Zenon
<1> HIDE DEF new
<1>6. Gather(got, numbers) = got \o new
  BY DEF Gather, new, kept, before
<1>7. got \o new \in Seq(S) /\ ToSet(got \o new) = ToSet(got) \cup ToSet(new)
  BY <1>5, ToSetConcat
<1>8. \A i \in DOMAIN got, k \in DOMAIN new : got[i] # new[k]
  BY <1>3, <1>5 DEF ToSet
<1>9. IsInjective(got \o new)
  <2>1. /\ Len(got) \in Nat /\ Len(new) \in Nat /\ DOMAIN got = 1 .. Len(got) /\ DOMAIN new = 1 .. Len(new)
        /\ DOMAIN (got \o new) = 1 .. (Len(got) + Len(new))
        /\ \A i \in 1 .. (Len(got) + Len(new)) : (got \o new)[i] = IF i <= Len(got) THEN got[i] ELSE new[i - Len(got)]
    BY <1>5, ConcatProperties
  <2>2. (\A i, k \in DOMAIN got : got[i] = got[k] => i = k) /\ \A i, k \in DOMAIN new : new[i] = new[k] => i = k
    BY <1>5 DEF IsInjective
  <2>3. SUFFICES ASSUME NEW i \in 1 .. (Len(got) + Len(new)), NEW k \in 1 .. (Len(got) + Len(new)), (got \o new)[i] = (got \o new)[k]
                 PROVE  i = k
    BY <2>1 DEF IsInjective
  <2>4. CASE i <= Len(got) /\ k <= Len(got)
    BY <2>1, <2>2, <2>3, <2>4
  <2>5. CASE ~(i <= Len(got)) /\ ~(k <= Len(got))
    <3>1. i - Len(got) \in 1 .. Len(new) /\ k - Len(got) \in 1 .. Len(new)
      BY <2>1, <2>5
    <3>2. i - Len(got) = k - Len(got)
      BY <2>1, <2>2, <2>3, <2>5, <3>1
    <3> QED
      BY <2>1, <3>2
  <2>6. CASE i <= Len(got) /\ ~(k <= Len(got))
    <3>1. i \in DOMAIN got /\ k - Len(got) \in DOMAIN new
      BY <2>1, <2>6
    <3> QED
      BY <1>8, <2>1, <2>3, <2>6, <3>1
  <2>7. CASE ~(i <= Len(got)) /\ k <= Len(got)
    <3>1. k \in DOMAIN got /\ i - Len(got) \in DOMAIN new
      BY <2>1, <2>7
    <3> QED
      BY <1>8, <2>1, <2>3, <2>7, <3>1
  <2> QED
    BY <2>4, <2>5, <2>6, <2>7
<1>10. ASSUME NEW i \in DOMAIN numbers PROVE numbers[i] \in ToSet(got) \cup ToSet(new)
  <2> DEFINE T == {k \in 1 .. Len(numbers) : numbers[k] = numbers[i]}
  <2>1. T \in SUBSET Nat /\ T # {}
    BY <1>1
  <2>2. PICK k \in T : \A y \in T : k <= y
    BY <2>1, Least
  <2>3. \A y \in 1 .. (k - 1) : numbers[y] # numbers[i]
    BY <1>1, <2>2
  <2>4. numbers[k] = numbers[i] /\ k \in DOMAIN numbers
    BY <1>1, <2>2
  <2>5. CASE numbers[i] \in ToSet(got)
    BY <2>5
  <2>6. CASE numbers[i] \notin ToSet(got)
    <3>1. numbers[k] \notin ToSet(before(k))
      BY <1>2, <2>3, <2>4, <2>6
    <3>2. k \in kept
      BY <2>4, <3>1 DEF kept
    <3>3. PICK m \in DOMAIN new : new[m] = numbers[k]
      BY <1>5, <3>2
    <3> QED
      BY <2>4, <3>3 DEF ToSet
  <2> QED
    BY <2>5, <2>6
<1>11. ToSet(numbers) \subseteq ToSet(got) \cup ToSet(new)
  BY <1>10 DEF ToSet
<1> QED
  BY <1>6, <1>7, <1>9, <1>11

\* What on_whatsapp does next keeps what it has found and has to find.
LEMMA NextFinds ==
  ASSUME Shape, NEW c \in Callers, NEW fields, Fresh(fields), NextChunk(c, fields), plan' = plan,
         plan.does[c] # None, plan.does[c].do = "exists",
         NEW todo, NEW alone, NEW got, NEW cut, Finding(c, todo, alone, got, cut),
         todo = IF "todo" \in DOMAIN fields THEN fields.todo ELSE call[c].todo,
         alone = IF "alone" \in DOMAIN fields THEN fields.alone ELSE call[c].alone,
         got = IF "got" \in DOMAIN fields THEN fields.got ELSE call[c].got,
         cut = IF "cut" \in DOMAIN fields THEN fields.cut ELSE call[c].cut
  PROVE  Finds(c)'
<1> DEFINE S == ToSet(plan.does[c].numbers)
           k == fields ++ call[c]
           late == now >= k.end
           more == [alone |-> Tail(k.alone), due |-> k.end]
           rest == [todo |-> AfterChunk(k.todo), due |-> k.end]
<1>1. k.todo = todo /\ k.alone = alone /\ k.got = got /\ k.cut = cut
  BY PlusIs, FieldsAre DEF Shape
<1>2. \/ alone # << >> /\ ~late /\ Ask(c, Query("contact", <<Head(alone)>>), "alone", more ++ fields)
      \/ alone = << >> /\ todo # << >> /\ ~late /\ Ask(c, Query("contact", Chunk(todo)), "chunk", rest ++ fields)
      \/ \E why : Ends(c, why, fields)
  <2> HIDE DEF more, rest
  <2>1. \/ k.alone # << >> /\ ~late /\ Ask(c, Query("contact", <<Head(k.alone)>>), "alone", more ++ fields)
        \/ k.alone = << >> /\ k.todo # << >> /\ ~late /\ Ask(c, Query("contact", Chunk(k.todo)), "chunk", rest ++ fields)
        \/ \E why : Ends(c, why, fields)
    BY DEF NextChunk, more, rest
  <2> QED
    BY <1>1, <2>1
<1>3. more = [alone |-> Tail(alone), due |-> k.end] /\ rest = [todo |-> AfterChunk(todo), due |-> k.end]
  BY <1>1
<1>4. DOMAIN more = {"alone", "due"} /\ more.alone = Tail(alone) /\ DOMAIN rest = {"todo", "due"} /\ rest.todo = AfterChunk(todo)
  <2> HIDE DEF k
  <2> QED
    BY <1>3
<1> HIDE DEF more, rest, k, late, S
<1>5. /\ DOMAIN (more ++ fields) = {"alone", "due"} \cup DOMAIN fields
      /\ DOMAIN (rest ++ fields) = {"todo", "due"} \cup DOMAIN fields
  BY <1>4, PlusDomain
<1>6. Fresh(more ++ fields) /\ Fresh(rest ++ fields)
  BY <1>5 DEF Fresh
<1>7. /\ todo \in Seq(S) /\ alone \in Seq(S) /\ got \in Seq(Wanted(c)) /\ IsInjective(got)
      /\ ~cut => alone = << >> /\ Wanted(c) \subseteq ToSet(got) \cup ToSet(todo)
  BY DEF Finding, OfArguments, S
<1>8. ASSUME NEW child, call'[c].pc = "asked", call'[c].node = Query("contact", child), call'[c].answer = None, child \in Seq(S),
             call'[c].todo \in Seq(S), call'[c].alone \in Seq(S), call'[c].got = got, call'[c].cut = cut,
             ~cut => call'[c].alone = << >> /\ ToSet(todo) \subseteq ToSet(call'[c].todo) \cup ToSet(child)
      PROVE  Finds(c)'
  <2>1. call'[c].node.child = child
    BY <1>8 DEF Query
  <2>2. ToSet(call'[c].todo \o child) = ToSet(call'[c].todo) \cup ToSet(child) /\ call'[c].todo \o child \in Seq(S)
    BY <1>8, ToSetConcat
  <2>3. Finding(c, call'[c].todo \o child, call'[c].alone, call'[c].got, call'[c].cut)
    BY <1>7, <1>8, <2>2 DEF Finding, OfArguments, S
  <2>4. Finding(c, call[c].todo \o call[c].node.child, call[c].alone, call[c].got, call[c].cut)'
    BY <2>1, <2>3 DEF Finding, OfArguments, Wanted
  <2>5. ~HasAnswer(c)'
    BY <1>8 DEF HasAnswer
  <2> QED
    BY <1>8, <2>1, <2>4, <2>5 DEF Finds, OfArguments, S
<1>9. CASE alone # << >> /\ Ask(c, Query("contact", <<Head(alone)>>), "alone", more ++ fields)
  <2>1. /\ call'[c].pc = "asked" /\ call'[c].node = Query("contact", <<Head(alone)>>) /\ call'[c].answer = None
        /\ Rest(c, more ++ fields, {"pc", "node", "answer", "step", "due"})
    BY <1>6, <1>9, AskIs DEF Fresh
  <2>2. (more ++ fields).alone = Tail(alone) /\ \A f \in {"todo", "got", "cut"} \cap DOMAIN fields : (more ++ fields)[f] = fields[f]
    <3>1. "alone" \in DOMAIN more /\ "todo" \notin DOMAIN more /\ "got" \notin DOMAIN more /\ "cut" \notin DOMAIN more
      BY <1>4
    <3> QED
      BY <1>4, <3>1, PlusIs, Zenon
  <2>3. call'[c].alone = Tail(alone) /\ call'[c].todo = todo /\ call'[c].got = got /\ call'[c].cut = cut
    BY <1>5, <2>1, <2>2, FieldsAre DEF Rest
  <2>4. Head(alone) \in S /\ Tail(alone) \in Seq(S)
    BY <1>7, <1>9
  <2>5. <<Head(alone)>> \in Seq(S)
    BY <2>4
  <2> QED
    BY <1>7, <1>8, <1>9, <2>1, <2>3, <2>4, <2>5
<1>10. CASE alone = << >> /\ Ask(c, Query("contact", Chunk(todo)), "chunk", rest ++ fields)
  <2>1. /\ call'[c].pc = "asked" /\ call'[c].node = Query("contact", Chunk(todo)) /\ call'[c].answer = None
        /\ Rest(c, rest ++ fields, {"pc", "node", "answer", "step", "due"})
    BY <1>6, <1>10, AskIs DEF Fresh
  <2>2. (rest ++ fields).todo = AfterChunk(todo) /\ \A f \in {"alone", "got", "cut"} \cap DOMAIN fields : (rest ++ fields)[f] = fields[f]
    BY <1>4, PlusIs
  <2>3. call'[c].alone = alone /\ call'[c].todo = AfterChunk(todo) /\ call'[c].got = got /\ call'[c].cut = cut
    BY <1>5, <2>1, <2>2, FieldsAre DEF Rest
  <2> QED
    BY <1>7, <1>8, <1>10, <2>1, <2>3, ChunkIs
<1>11. CASE \E why : Ends(c, why, fields)
  <2>1. call'[c].pc = "done" /\ Rest(c, fields, {"pc", "node", "answer", "result"})
    BY <1>11, EndsIs DEF Fresh
  <2>2. call'[c].todo = todo /\ call'[c].got = got /\ call'[c].cut = cut
    BY <2>1, FieldsAre DEF Rest
  <2>3. Finding(c, call'[c].todo, << >>, call'[c].got, call'[c].cut)
    BY <1>7, <2>2 DEF Finding, OfArguments, S
  <2>4. Finding(c, call[c].todo, << >>, call[c].got, call[c].cut)'
    BY <2>3 DEF Finding, OfArguments, Wanted
  <2> QED
    BY <2>1, <2>4 DEF Finds
<1> QED
  BY <1>2, <1>9, <1>10, <1>11

\* The arguments that are asked about hold every number that could be found.
LEMMA AskableIs ==
  ASSUME NEW c \in Callers, plan \in Plans, plan.does[c] # None, plan.does[c].do = "exists"
  PROVE  Askable(plan.does[c].numbers) \in OfArguments(c) /\ Wanted(c) \subseteq ToSet(Askable(plan.does[c].numbers))
<1> DEFINE numbers == plan.does[c].numbers
           kept == {i \in DOMAIN numbers : numbers[i] # None /\ numbers[i].server # "lid"}
<1>1. numbers \in Seq(ToSet(numbers))
  BY PlansAssumption DEF Asked
<1>2. \A n \in Numbers : n # None /\ n.server # "lid"
  BY NumbersAssumption DEF is_pn
<1> HIDE DEF numbers
<1>3. /\ Picked(numbers, kept) \in Seq(ToSet(numbers))
      /\ \A i \in kept : \E k \in DOMAIN Picked(numbers, kept) : Picked(numbers, kept)[k] = numbers[i]
  <2>1. kept \in SUBSET DOMAIN numbers
    OBVIOUS
  <2> HIDE DEF kept
  <2> QED
    BY <1>1, <2>1, PickedKeeps
<1>4. \A i \in DOMAIN numbers : numbers[i] \in Numbers => i \in kept
  BY <1>2
<1>5. Askable(numbers) = Picked(numbers, kept)
  BY DEF Askable
<1> HIDE DEF kept
<1> QED
  BY <1>3, <1>4, <1>5 DEF Wanted, OfArguments, ToSet, numbers

\* A refusal changes the answer alone.
LEMMA RefuseIs ==
  ASSUME Shape, NEW c \in Callers, Refuse(c)
  PROVE  /\ call[c].pc = "asked" /\ ~HasAnswer(c)' /\ \A f \in Fields \ {"answer"} : call'[c][f] = call[c][f]
         /\ call'[c].answer # None => call'[c].answer.error # None
<1>1. PICK text \in {"refused", "account_reachout_restricted"} : Set(c, [answer |-> [error |-> text]])
  BY DEF Refuse
<1>2. Rest(c, [answer |-> [error |-> text]], {}) /\ call[c].pc = "asked"
  BY <1>1, SetIs DEF Refuse
<1>3. DOMAIN [answer |-> [error |-> text]] = {"answer"} /\ [answer |-> [error |-> text]].answer.error = text
  OBVIOUS
<1>4. ~HasAnswer(c)' /\ (call'[c].answer # None => call'[c].answer.error # None)
  BY <1>2, <1>3, NoneAssumption, FieldsAre DEF Rest, HasAnswer
<1> QED
  BY <1>2, <1>3, <1>4 DEF Rest

\* Every step of the call.
LEMMA ExistsFinds ==
  ASSUME BaseInv, NEW c \in Callers, Finds(c), plan.does[c] # None, plan.does[c].do = "exists", ExistsStep(c), plan' = plan
  PROVE  Finds(c)'
<1> DEFINE S == ToSet(plan.does[c].numbers)
<1>1. Shape /\ plan \in Plans /\ Protocol(c)
  BY DEF BaseInv
<1>2. OfArguments(c) = Seq(S)
  BY DEF OfArguments
<1>3. CASE on_whatsapp(c)
  <2> DEFINE some == Askable(plan.does[c].numbers)
             fields == [todo |-> some, end |-> now + Timeout]
  <2>1. NextChunk(c, fields) /\ call[c] = Idle
    BY <1>3 DEF on_whatsapp, Begins, Finds
  <2>2. DOMAIN fields = {"todo", "end"} /\ fields.todo = some
    OBVIOUS
  <2>3. call[c].alone = << >> /\ call[c].got = << >> /\ call[c].cut = FALSE
    BY <2>1 DEF Idle
  <2>4. Finding(c, some, << >>, << >>, FALSE)
    BY <1>1, AskableIs DEF Finding, OfArguments, IsInjective
  <2> HIDE DEF fields, some
  <2> QED
    BY <1>1, <2>1, <2>2, <2>3, <2>4, NextFinds DEF Fresh
<1>4. CASE AnswerContacts(c)
  <2> DEFINE asked == call[c].node.child
             kept == {i \in DOMAIN asked : asked[i] \in Numbers}
             known == Picked(asked, kept)
  <2>1. call[c].pc = "asked" /\ Answers(c, [numbers |-> known], NoChange)
    BY <1>4 DEF AnswerContacts, Waiting
  <2>2. asked \in Seq(S) /\ S \cap Numbers = Wanted(c)
    BY <2>1, <1>2 DEF Finds, Wanted
  <2>3. /\ call'[c].answer = [error |-> None] ++ [numbers |-> known]
        /\ Rest(c, NoChange, {"answer", "made"})
    BY <1>1, <2>1, AnswersIs
  <2>4. call'[c].answer.numbers = known
    BY <2>3, PlusIs
  <2>5. \A f \in Fields \ {"answer", "made"} : call'[c][f] = call[c][f]
    BY <2>3, FieldsAre DEF Rest
  <2> HIDE DEF asked, kept
  <2>6. /\ known \in Seq(S)
        /\ \A k \in DOMAIN known : \E i \in kept : known[k] = asked[i]
        /\ \A i \in kept : \E k \in DOMAIN known : known[k] = asked[i]
    <3>1. kept \in SUBSET DOMAIN asked
      BY DEF kept
    <3> QED
      BY <2>2, <3>1, PickedKeeps
  <2> HIDE DEF known
  <2>7. ToSet(known) = ToSet(asked) \cap Numbers
    BY <2>6 DEF kept, ToSet
  <2>8. known \in Seq(Wanted(c))
    <3>1. DOMAIN known = 1 .. Len(known) /\ Len(known) \in Nat
      BY <2>6
    <3>2. \A k \in DOMAIN known : known[k] \in Wanted(c)
      BY <2>2, <2>6 DEF kept
    <3> QED
      BY <2>6, <3>1, <3>2
  <2>9. call'[c].pc = "asked" /\ call'[c].node = call[c].node /\ call'[c].todo = call[c].todo /\ call'[c].alone = call[c].alone
        /\ call'[c].got = call[c].got /\ call'[c].cut = call[c].cut
    BY <2>1, <2>5, FieldsAre
  <2> QED
    BY <2>1, <2>4, <2>7, <2>8, <2>9 DEF Finds, Finding, OfArguments, Wanted, asked
<1>5. CASE NumbersFound(c)
  <2> DEFINE gathered == Gather(call[c].got, call[c].answer.numbers)
             fields == [got |-> gathered]
  <2>1. call[c].pc = "asked" /\ HasAnswer(c) /\ NextChunk(c, fields)
    BY <1>5 DEF NumbersFound, Granting, Answered, HasAnswer
  <2>2. DOMAIN fields = {"got"} /\ fields.got = gathered
    OBVIOUS
  <2>3. /\ Finding(c, call[c].todo \o call[c].node.child, call[c].alone, call[c].got, call[c].cut)
        /\ call[c].todo \in Seq(S) /\ call[c].node.child \in Seq(S)
        /\ call[c].answer.numbers \in Seq(Wanted(c)) /\ ToSet(call[c].answer.numbers) = ToSet(call[c].node.child) \cap Numbers
    BY <1>2, <2>1 DEF Finds
  <2>4. ToSet(call[c].todo \o call[c].node.child) = ToSet(call[c].todo) \cup ToSet(call[c].node.child)
    BY <2>3, ToSetConcat
  <2>5. call[c].got \in Seq(Wanted(c)) /\ IsInjective(call[c].got)
    BY <2>3 DEF Finding
  <2>6. /\ gathered \in Seq(Wanted(c)) /\ IsInjective(gathered)
        /\ ToSet(call[c].got) \cup ToSet(call[c].answer.numbers) \subseteq ToSet(gathered)
    BY <2>3, <2>5, GatherIs
  <2>7. Wanted(c) \subseteq Numbers
    BY DEF Wanted
  <2> HIDE DEF gathered, fields
  <2>8. Finding(c, call[c].todo, call[c].alone, gathered, call[c].cut)
    BY <1>2, <2>3, <2>4, <2>6, <2>7 DEF Finding
  <2> QED
    BY <1>1, <2>1, <2>2, <2>8, NextFinds DEF Fresh
<1>6. CASE ContactEnds(c)
  <2>1. call[c].pc = "asked" /\ call[c].step \in {"alone", "chunk"}
    <3>1. call[c].pc = "asked"
      BY <1>6 DEF ContactEnds, Granting, Refused, Answered
    <3>2. Asks("exists", call[c].node.xmlns, call[c].step)
      BY <1>1, <3>1 DEF Protocol
    <3>3. "exists" \notin OfGroups \cup Reading \cup OfChannels \cup Uploading \cup Profiles
      BY KindsApart DEF Singles, OfBusiness
    <3> QED
      BY <3>1, <3>2, <3>3 DEF Asks
  <2>2. Refused(c)
    BY <1>6, <2>1 DEF ContactEnds
  <2>3. Ends(c, "IQError", NoChange)
    BY <1>6, <2>2 DEF ContactEnds
  <2>4. call'[c].pc = "done" /\ call'[c].result = "IQError"
    BY <1>1, <2>3, EndsIs, FieldsAre
  <2> QED
    BY <2>4 DEF Finds
<1>7. CASE Refuse(c)
  <2>1. call[c].pc = "asked" /\ ~HasAnswer(c)' /\ \A f \in Fields \ {"answer"} : call'[c][f] = call[c][f]
    BY <1>1, <1>7, RefuseIs
  <2>2. call'[c].pc = "asked" /\ call'[c].node = call[c].node /\ call'[c].todo = call[c].todo /\ call'[c].alone = call[c].alone
        /\ call'[c].got = call[c].got /\ call'[c].cut = call[c].cut
    BY <2>1, FieldsAre
  <2> QED
    BY <2>1, <2>2 DEF Finds, Finding, OfArguments, Wanted
<1>8. CASE QueryLate(c)
  <2> DEFINE asked == call[c].node.child
             more == IF call[c].step = "chunk" /\ Len(asked) > 1 THEN [alone |-> asked] ELSE NoChange
             fields == [cut |-> TRUE] ++ more
  <2>1. call[c].pc = "asked" /\ NextChunk(c, fields)
    BY <1>8 DEF QueryLate, NumbersLate
  <2>2. DOMAIN more \subseteq {"alone"} /\ ("alone" \in DOMAIN more => more.alone = asked)
    BY FieldsAre
  <2>3. DOMAIN fields \subseteq {"cut", "alone"} /\ fields.cut = TRUE /\ "cut" \in DOMAIN fields /\ ("alone" \in DOMAIN fields => fields.alone = asked)
    <3>1. DOMAIN [cut |-> TRUE] = {"cut"} /\ [cut |-> TRUE].cut = TRUE
      OBVIOUS
    <3> DEFINE late == [cut |-> TRUE]
    <3>2. fields = late ++ more /\ DOMAIN late = {"cut"} /\ late.cut = TRUE
      BY <3>1
    <3> HIDE DEF more, late, fields
    <3>3. DOMAIN fields = {"cut"} \cup DOMAIN more
      BY <3>2, PlusDomain
    <3>4. fields.cut = TRUE
      BY <3>2, PlusIs
    <3>5. "alone" \in DOMAIN more => fields.alone = more.alone
      BY <3>2, PlusIs
    <3> QED
      BY <2>2, <3>3, <3>4, <3>5
  <2>4. /\ Finding(c, call[c].todo \o call[c].node.child, call[c].alone, call[c].got, call[c].cut)
        /\ call[c].todo \in Seq(S) /\ asked \in Seq(S)
    BY <1>2, <2>1 DEF Finds
  <2> DEFINE alone == IF "alone" \in DOMAIN fields THEN fields.alone ELSE call[c].alone
  <2> HIDE DEF asked, more, fields
  <2>5. Finding(c, call[c].todo, alone, call[c].got, TRUE)
    BY <1>2, <2>3, <2>4 DEF Finding
  <2> HIDE DEF alone
  <2>6. /\ alone = IF "alone" \in DOMAIN fields THEN fields.alone ELSE call[c].alone
        /\ call[c].todo = IF "todo" \in DOMAIN fields THEN fields.todo ELSE call[c].todo
        /\ call[c].got = IF "got" \in DOMAIN fields THEN fields.got ELSE call[c].got
        /\ TRUE = IF "cut" \in DOMAIN fields THEN fields.cut ELSE call[c].cut
    BY <2>3 DEF alone
  <2>7. Fresh(fields)
    BY <2>3 DEF Fresh
  <2> QED
    BY <1>1, <2>1, <2>5, <2>6, <2>7, NextFinds
<1> QED
  BY <1>3, <1>4, <1>5, <1>6, <1>7, <1>8 DEF ExistsStep

\* What a call of this kind has found stays so while others go on.
LEMMA FindStays == ASSUME BaseInv, FindInv, [Next]_vars PROVE FindInv'
<1>1. ASSUME NEW c \in Callers, Starts(c) \/ Serves(c) \/ Resumes(c) PROVE FindInv'
  <2>1. Others(c) /\ plan' = plan /\ OfItsKind(c)
    BY <1>1, StepIs DEF Steady, fixed
  <2>2. Finds(c)'
    BY <2>1, KindIs, ExistsFinds DEF FindInv, Finds
  <2>3. \A d \in Callers : d # c => Finds(d)'
    BY <2>1 DEF FindInv, Others, Finds, Finding, HasAnswer, OfArguments, Wanted
  <2> QED
    BY <2>2, <2>3 DEF FindInv
<1>2. CASE MediaRetried
  <2>1. plan' = plan
    BY <1>2, RetriedIs DEF BaseInv, fixed
  <2>2. ASSUME NEW c \in Callers, plan.does[c] # None, plan.does[c].do = "exists" PROVE call'[c] = call[c]
    <3>1. call[c].pc # "media"
      BY <2>2 DEF BaseInv, Protocol, Placed, AccountDo, Uploads, Mutations
    <3> QED
      BY <1>2, <3>1, RetriedIs DEF BaseInv
  <2> QED
    BY <2>1, <2>2, ZenonT(30) DEF FindInv, Finds, Finding, HasAnswer, OfArguments, Wanted
<1>3. CASE Crash
  <2>1. plan' = plan
    BY <1>3, CrashIs DEF BaseInv, fixed
  <2>2. [Idle EXCEPT !.pc = "done", !.result = "crash"].result = "crash" /\ [Idle EXCEPT !.pc = "done", !.result = "crash"].pc = "done"
    BY DEF Idle
  <2>3. \A c \in Callers : call'[c] = call[c] \/ (call'[c].pc = "done" /\ call'[c].result = "crash")
    BY <1>3, <2>2, CrashIs DEF BaseInv
  <2> QED
    BY <2>1, <2>3, ZenonT(30) DEF FindInv, Finds, Finding, HasAnswer, OfArguments, Wanted
<1>4. CASE Tick \/ Move \/ UNCHANGED vars
  BY <1>4, ZenonT(30) DEF FindInv, Finds, Finding, HasAnswer, OfArguments, Wanted, Tick, Move, vars, fixed
<1>5. QED
  BY <1>1, <1>2, <1>3, <1>4 DEF Next

\* A list without repetitions is as long as the set of what it holds.
LEMMA DistinctLength ==
  ASSUME NEW S, NEW s \in Seq(S), IsInjective(s)
  PROVE  Cardinality({s[i] : i \in DOMAIN s}) = Len(s)
<1> DEFINE T == {s[i] : i \in DOMAIN s}
<1>1. Len(s) \in Nat /\ DOMAIN s = 1 .. Len(s)
  OBVIOUS
<1>2. s \in [1 .. Len(s) -> T] /\ \A a, b \in 1 .. Len(s) : s[a] = s[b] => a = b
  BY <1>1 DEF IsInjective
<1>3. \A t \in T : \E i \in 1 .. Len(s) : s[i] = t
  BY <1>1
<1>4. s \in Bijection(1 .. Len(s), T)
  BY <1>2, <1>3 DEF Bijection, Injection, Surjection, IsInjective
<1>5. ExistsBijection(1 .. Len(s), T)
  BY <1>4 DEF ExistsBijection
<1> HIDE DEF T
<1> QED
  BY <1>1, <1>5, FS_CountingElements DEF T

\* on_whatsapp returns each number it was asked about once, and all that are on the service if
\* no query of it timed out and it left none for want of time.
THEOREM NumbersFoundRight == Spec => []NumbersAnswered
<1>1. Init => FindInv
  BY DEF Init, AskingInit, FindInv, Finds, Idle
<1>2. FindInv => NumbersAnswered
  <2> SUFFICES ASSUME FindInv, NEW c \in Callers, Ended(c, {"exists"}, "ok")
               PROVE  LET got == call[c].got
                          found == {got[i] : i \in DOMAIN got}
                          wanted == {plan.does[c].numbers[i] : i \in DOMAIN plan.does[c].numbers} \cap Numbers
                      IN /\ Cardinality(found) = Len(got) /\ found \subseteq wanted
                         /\ ~call[c].cut /\ call[c].todo = << >> => found = wanted
    BY DEF NumbersAnswered
  <2> DEFINE got == call[c].got
  <2>1. Finding(c, call[c].todo, << >>, got, call[c].cut)
    BY DEF FindInv, Finds, Ended
  <2>2. got \in Seq(Wanted(c)) /\ IsInjective(got) /\ (~call[c].cut => Wanted(c) \subseteq ToSet(got) \cup ToSet(call[c].todo))
    BY <2>1 DEF Finding
  <2>3. Wanted(c) = {plan.does[c].numbers[i] : i \in DOMAIN plan.does[c].numbers} \cap Numbers
    BY DEF Wanted, ToSet
  <2>4. ToSet(got) = {got[i] : i \in DOMAIN got} /\ ToSet(<< >>) = {}
    BY DEF ToSet
  <2> HIDE DEF got
  <2>5. ToSet(got) \subseteq Wanted(c)
    BY <2>2, <2>4
  <2>6. Cardinality(ToSet(got)) = Len(got)
    BY <2>2, <2>4, DistinctLength
  <2> QED
    BY <2>2, <2>3, <2>4, <2>5, <2>6 DEF got
<1> QED
  BY <1>1, <1>2, BaseInvariant, FindStays, PTL DEF Spec

-----------------------------------------------------------------------------
(* read_messages and send_receipts: who is told that what was read.        *)

\* The messages of others that a list of keys names.
OfOthers(keys) == {i \in DOMAIN keys : keys[i].chat # None /\ keys[i].id # None /\ ~keys[i].from_me}

\* A list of receipts is right for the keys if each pair of a chat and an author is there once,
\* with the messages of others that are theirs.
Covers(keys, some) ==
  /\ \A f \in DOMAIN some : \A id \in ToSet(some[f].ids) : \E i \in OfOthers(keys) :
       keys[i].id = id /\ some[f].to = keys[i].chat /\ some[f].participant = keys[i].participant
  /\ \A i \in OfOthers(keys) : \E f \in DOMAIN some :
       some[f].to = keys[i].chat /\ some[f].participant = keys[i].participant /\ keys[i].id \in ToSet(some[f].ids)
  /\ \A f, g \in DOMAIN some : some[f].to = some[g].to /\ some[f].participant = some[g].participant => f = g

\* So is what the keys are put together as.
LEMMA AggregateIs ==
  ASSUME NEW S, NEW keys \in Seq(S)
  PROVE  /\ Covers(keys, aggregate_message_keys(keys))
         /\ \E n \in Nat : DOMAIN aggregate_message_keys(keys) = 1 .. n
         /\ \A f \in DOMAIN aggregate_message_keys(keys) : DOMAIN aggregate_message_keys(keys)[f] = {"to", "participant", "ids"}
<1> DEFINE wanted == OfOthers(keys)
           read == Picked(keys, wanted)
           pair(k) == <<k.chat, k.participant>>
           news == {i \in DOMAIN read : \A k \in 1 .. (i - 1) : pair(read[k]) # pair(read[i])}
           firsts == Picked(read, news)
           alike(f) == {i \in DOMAIN read : pair(read[i]) = pair(firsts[f])}
           same(f) == Picked(read, alike(f))
           ids(f) == [i \in DOMAIN same(f) |-> same(f)[i].id]
           some == [f \in DOMAIN firsts |-> [to |-> firsts[f].chat, participant |-> firsts[f].participant, ids |-> ids(f)]]
<1>1. aggregate_message_keys(keys) = some
  BY DEF aggregate_message_keys, OfOthers
<1>2. wanted \subseteq DOMAIN keys
  BY DEF OfOthers
<1>3. /\ read \in Seq(S)
      /\ \A k \in DOMAIN read : \E i \in wanted : read[k] = keys[i]
      /\ \A i \in wanted : \E k \in DOMAIN read : read[k] = keys[i]
  <2>1. wanted \in SUBSET DOMAIN keys
    BY <1>2
  <2> HIDE DEF wanted
  <2> QED
    BY <2>1, PickedKeeps
<1> HIDE DEF read, wanted
<1>4. DOMAIN read = 1 .. Len(read) /\ Len(read) \in Nat
  BY <1>3
<1>5. \A i, k \in news : pair(read[i]) = pair(read[k]) => i = k
  <2>1. SUFFICES ASSUME NEW i \in news, NEW k \in news, pair(read[i]) = pair(read[k]) PROVE i = k
    OBVIOUS
  <2>2. i \in 1 .. Len(read) /\ k \in 1 .. Len(read)
    BY <1>4
  <2>3. ~(i < k) /\ ~(k < i)
    BY <1>4, <2>1, <2>2
  <2> QED
    BY <1>4, <2>2, <2>3
<1>6. \A i \in DOMAIN read : \E k \in news : pair(read[k]) = pair(read[i])
  <2>1. TAKE i \in DOMAIN read
  <2> DEFINE T == {k \in 1 .. Len(read) : pair(read[k]) = pair(read[i])}
  <2>2. T \in SUBSET Nat /\ T # {}
    BY <1>4
  <2>3. PICK k \in T : \A y \in T : k <= y
    BY <2>2, Least
  <2>4. \A y \in 1 .. (k - 1) : pair(read[y]) # pair(read[k])
    BY <1>4, <2>3
  <2> QED
    BY <1>4, <2>3, <2>4
<1>7. /\ firsts \in Seq(S) /\ IsInjective(firsts)
      /\ \A f \in DOMAIN firsts : \E i \in news : firsts[f] = read[i]
      /\ \A i \in news : \E f \in DOMAIN firsts : firsts[f] = read[i]
  <2>1. news \in SUBSET DOMAIN read /\ \A i, k \in news : read[i] = read[k] => i = k
    BY <1>5
  <2> HIDE DEF news
  <2> QED
    BY <1>3, <2>1, PickedKeeps
<1> HIDE DEF firsts
<1>8. \A f \in DOMAIN firsts : /\ \A k \in DOMAIN same(f) : \E i \in alike(f) : same(f)[k] = read[i]
                               /\ \A i \in alike(f) : \E k \in DOMAIN same(f) : same(f)[k] = read[i]
  <2>1. TAKE f \in DOMAIN firsts
  <2>2. alike(f) \in SUBSET DOMAIN read
    OBVIOUS
  <2> HIDE DEF alike
  <2> QED
    BY <1>3, <2>2, PickedKeeps
<1>9. \A f \in DOMAIN firsts : ToSet(ids(f)) = {read[i].id : i \in alike(f)}
  <2>1. TAKE f \in DOMAIN firsts
  <2>2. ToSet(ids(f)) = {same(f)[k].id : k \in DOMAIN same(f)}
    <3> HIDE DEF same
    <3> QED
      BY DEF ToSet
  <2> HIDE DEF same, alike, ids
  <2> QED
    BY <1>8, <2>2
<1>10. /\ DOMAIN some = DOMAIN firsts
       /\ \A f \in DOMAIN firsts : some[f].to = firsts[f].chat /\ some[f].participant = firsts[f].participant /\ some[f].ids = ids(f)
       /\ \A f \in DOMAIN firsts : DOMAIN some[f] = {"to", "participant", "ids"}
  <2> HIDE DEF ids
  <2> QED  OBVIOUS
<1> HIDE DEF some, ids, same
<1>11. \A f \in DOMAIN some : \A id \in ToSet(some[f].ids) : \E i \in wanted :
         keys[i].id = id /\ some[f].to = keys[i].chat /\ some[f].participant = keys[i].participant
  <2>1. TAKE f \in DOMAIN some
  <2>2. TAKE id \in ToSet(some[f].ids)
  <2>3. PICK k \in alike(f) : id = read[k].id
    BY <1>9, <1>10
  <2>4. PICK i \in wanted : read[k] = keys[i]
    BY <1>3
  <2>5. read[k].chat = firsts[f].chat /\ read[k].participant = firsts[f].participant
    BY <2>3
  <2> QED
    BY <1>10, <2>3, <2>4, <2>5
<1>12. \A i \in wanted : \E f \in DOMAIN some :
         some[f].to = keys[i].chat /\ some[f].participant = keys[i].participant /\ keys[i].id \in ToSet(some[f].ids)
  <2>1. TAKE i \in wanted
  <2>2. PICK k \in DOMAIN read : read[k] = keys[i]
    BY <1>3
  <2>3. PICK m \in news : pair(read[m]) = pair(read[k])
    BY <1>6
  <2>4. PICK f \in DOMAIN firsts : firsts[f] = read[m]
    BY <1>7
  <2>5. k \in alike(f)
    BY <2>3, <2>4
  <2>6. firsts[f].chat = keys[i].chat /\ firsts[f].participant = keys[i].participant
    BY <2>2, <2>3, <2>4
  <2>7. keys[i].id \in ToSet(ids(f))
    BY <1>9, <2>2, <2>5
  <2> QED
    BY <1>10, <2>6, <2>7
<1>13. \A f, g \in DOMAIN some : some[f].to = some[g].to /\ some[f].participant = some[g].participant => f = g
  <2>1. SUFFICES ASSUME NEW f \in DOMAIN firsts, NEW g \in DOMAIN firsts,
                        firsts[f].chat = firsts[g].chat, firsts[f].participant = firsts[g].participant
                 PROVE  f = g
    BY <1>10
  <2>2. PICK i \in news : firsts[f] = read[i]
    BY <1>7
  <2>3. PICK k \in news : firsts[g] = read[k]
    BY <1>7
  <2>4. i = k
    BY <1>5, <2>1, <2>2, <2>3
  <2> QED
    BY <1>7, <2>2, <2>3, <2>4 DEF IsInjective
<1>14. DOMAIN some = 1 .. Len(firsts) /\ Len(firsts) \in Nat
  BY <1>7, <1>10
<1> QED
  BY <1>1, <1>10, <1>11, <1>12, <1>13, <1>14 DEF Covers, wanted

\* The receipts of a call, of one type.
Receipts(c, type) ==
  LET some == aggregate_message_keys(plan.does[c].keys) IN [i \in DOMAIN some |-> build_receipt_node(some[i], type)]

\* Some are sent and the others are still to be sent; those that their authors see, only if the
\* account shows them.
Sent(c, got, todo) ==
  \E type : /\ \E S : got \in Seq(S) /\ todo \in Seq(S)
            /\ got \o todo = Receipts(c, type)
            /\ type = "read" /\ plan.does[c].do = "read_messages" => c \in account.seen

Reads(c) ==
  (plan.does[c] # None /\ plan.does[c].do \in {"read_messages", "send_receipts"}) =>
    /\ call[c].pc \in {"idle", "asked"} => call[c].got = << >>
    /\ call[c].pc = "asked" /\ HasAnswer(c) /\ ReceiptType(parse_privacy_settings(call[c].answer)) = "read" => c \in account.seen
    /\ call[c].pc = "receipts" => Sent(c, call[c].got, call[c].todo)
    /\ call[c].pc = "done" => \/ call[c].got = << >> /\ call[c].result # "ok"
                              \/ \E rest : Sent(c, call[c].got, rest) /\ (call[c].result = "ok" => rest = << >>)
SeenInv == {"seen", "readreceipts"} \subseteq DOMAIN account
ReadInv == SeenInv /\ \A c \in Callers : Reads(c)

\* What becomes known of the account does not make a call forget that receipts were shown.
LEMMA KnowsSeen ==
  ASSUME SeenInv, NEW fields, Knows(fields), "seen" \in DOMAIN fields => account.seen \subseteq fields.seen
  PROVE  SeenInv' /\ account.seen \subseteq account'.seen
<1>1. account' = fields ++ account /\ "seen" \in DOMAIN account
  BY DEF Knows, SeenInv
<1>2. DOMAIN account' = DOMAIN fields \cup DOMAIN account
  BY <1>1, PlusDomain
<1>3. account'["seen"] = IF "seen" \in DOMAIN fields THEN fields["seen"] ELSE account["seen"]
  BY <1>1, PlusIs
<1> QED
  BY <1>2, <1>3 DEF SeenInv

\* The calls during which receipts were shown are never forgotten.
LEMMA SeenGrows ==
  ASSUME SeenInv, NEW c \in Callers, Frame(c)
  PROVE  SeenInv' /\ account.seen \subseteq account'.seen
<1>1. CASE account_call(c)
  <2> DEFINE f == [seen |-> IF account.readreceipts = "all" THEN account.seen \cup {c} ELSE account.seen]
  <2>1. Knows(f)
    BY <1>1 DEF account_call
  <2>2. DOMAIN f = {"seen"} /\ account.seen \subseteq f.seen
    OBVIOUS
  <2> HIDE DEF f
  <2> QED
    BY <2>1, <2>2, KnowsSeen
<1>2. CASE ServeAccount(c)
  <2>1. PICK value, more : Knows([readreceipts |-> value, seen |-> account.seen \cup more])
    BY <1>2, Zenon DEF ServeAccount
  <2> DEFINE f == [readreceipts |-> value, seen |-> account.seen \cup more]
  <2>2. DOMAIN f = {"seen", "readreceipts"} /\ account.seen \subseteq f.seen
    OBVIOUS
  <2> HIDE DEF f
  <2> QED
    BY <2>1, <2>2, KnowsSeen DEF f
<1>3. CASE ServeChannel(c)
  <2>1. PICK value : Knows([channels |-> value])
    BY <1>3, Zenon DEF ServeChannel
  <2> DEFINE f == [channels |-> value]
  <2>2. DOMAIN f = {"channels"}
    OBVIOUS
  <2> HIDE DEF f
  <2> QED
    BY <2>1, <2>2, KnowsSeen DEF f
<1>4. CASE ServeProfile(c)
  <2>1. PICK after : account' = [account EXCEPT !.business = after]
    BY <1>4 DEF ServeProfile
  <2> QED
    BY <2>1 DEF SeenInv
<1>5. CASE ChannelNotified(c)
  <2>1. PICK said, told : Knows([said |-> said, told |-> told])
    BY <1>5 DEF ChannelNotified
  <2> DEFINE f == [said |-> said, told |-> told]
  <2>2. DOMAIN f = {"said", "told"}
    OBVIOUS
  <2> HIDE DEF f
  <2> QED
    BY <2>1, <2>2, KnowsSeen DEF f
<1> QED
  BY <1>1, <1>2, <1>3, <1>4, <1>5 DEF Frame, SeenInv

\* One receipt more is sent.
LEMMA MoveOne ==
  ASSUME NEW S, NEW got \in Seq(S), NEW todo \in Seq(S), todo # << >>
  PROVE  Append(got, Head(todo)) \in Seq(S) /\ Tail(todo) \in Seq(S) /\ Append(got, Head(todo)) \o Tail(todo) = got \o todo
<1>1. Head(todo) \in S /\ Tail(todo) \in Seq(S) /\ Append(got, Head(todo)) \in Seq(S)
  OBVIOUS
<1>2. Len(Append(got, Head(todo)) \o Tail(todo)) = Len(got \o todo)
  BY <1>1
<1>3. \A i \in 1 .. Len(got \o todo) : (Append(got, Head(todo)) \o Tail(todo))[i] = (got \o todo)[i]
  <2>1. TAKE i \in 1 .. Len(got \o todo)
  <2>2. CASE i <= Len(got)
    BY <1>1, <2>2
  <2>3. CASE i = Len(got) + 1
    BY <1>1, <2>3
  <2>4. CASE i > Len(got) + 1
    <3>1. i - (Len(got) + 1) \in 1 .. Len(Tail(todo))
      BY <1>1, <2>4
    <3>2. (Append(got, Head(todo)) \o Tail(todo))[i] = Tail(todo)[i - (Len(got) + 1)]
      BY <1>1, <2>4
    <3>3. Tail(todo)[i - (Len(got) + 1)] = todo[i - Len(got)]
      BY <3>1, <2>4
    <3> QED
      BY <2>4, <3>2, <3>3
  <2> QED
    BY <2>2, <2>3, <2>4
<1> QED
  BY <1>1, <1>2, <1>3

\* The receipts of a call are a list.
LEMMA ReceiptsAre ==
  ASSUME NEW c \in Callers, plan \in Plans, plan.does[c] # None, plan.does[c].do \in {"read_messages", "send_receipts"}, NEW type
  PROVE  LET some == aggregate_message_keys(plan.does[c].keys)
             all == Receipts(c, type)
         IN /\ Covers(plan.does[c].keys, some) /\ DOMAIN all = DOMAIN some
            /\ \E S : all \in Seq(S)
            /\ \A i \in DOMAIN all : /\ all[i].to = some[i].to /\ all[i].participant = some[i].participant /\ all[i].ids = some[i].ids
                                     /\ all[i].type = type
<1> DEFINE keys == plan.does[c].keys
           some == aggregate_message_keys(keys)
           all == Receipts(c, type)
<1>1. keys \in Seq(ToSet(keys))
  BY PlansAssumption DEF Asked
<1>2. /\ Covers(keys, some) /\ \E n \in Nat : DOMAIN some = 1 .. n
      /\ \A f \in DOMAIN some : DOMAIN some[f] = {"to", "participant", "ids"}
  BY <1>1, AggregateIs
<1>3. all = [i \in DOMAIN some |-> [type |-> type] ++ some[i]]
  BY DEF Receipts, build_receipt_node
<1> HIDE DEF some, all
<1>4. ASSUME NEW i \in DOMAIN some
      PROVE  LET r == [type |-> type] ++ some[i]
             IN r.to = some[i].to /\ r.participant = some[i].participant /\ r.ids = some[i].ids /\ r.type = type
  <2> DEFINE f == [type |-> type]
             g == some[i]
  <2>1. DOMAIN f = {"type"} /\ f.type = type /\ DOMAIN g = {"to", "participant", "ids"}
    BY <1>2, <1>4
  <2> HIDE DEF f, g
  <2>2. (f ++ g).to = g.to /\ (f ++ g).participant = g.participant /\ (f ++ g).ids = g.ids /\ (f ++ g).type = type
    BY <2>1, PlusIs
  <2> QED
    BY <2>2 DEF f, g
<1>5. \E S : all \in Seq(S)
  <2> DEFINE S == {all[i] : i \in DOMAIN some}
  <2>1. all \in Seq(S)
    BY <1>2, <1>3
  <2> QED
    BY <2>1
<1> QED
  BY <1>2, <1>3, <1>4, <1>5 DEF some, all

\* Reading and the other calls about the account are a kind of their own.
LEMMA ReadingIs == ASSUME NEW c \in Callers, OfItsKind(c), plan.does[c].do \in Reading PROVE ReadingStep(c)
<1>1. Reading \cap (OfGroups \cup OfChannels \cup Uploading \cup OfBusiness \cup Singles) = {}
  BY GroupsApart, KindsApart DEF Reading, AccountDo, OfChannels, ChannelDo, Simple, Uploading, Uploads, Mutations, OfBusiness,
                                 Catalogs, Profiles
<1> QED
  BY <1>1 DEF OfItsKind, Singles

\* What was sent stays sent.
LEMMA SentStays ==
  ASSUME plan' = plan, account.seen \subseteq account'.seen, NEW c \in Callers, call'[c] = call[c], Reads(c)
  PROVE  Reads(c)'
<1>1. \A got, todo : Sent(c, got, todo) =>
        \E type : /\ \E S : got \in Seq(S) /\ todo \in Seq(S)
                  /\ got \o todo = Receipts(c, type)'
                  /\ type = "read" /\ plan'.does[c].do = "read_messages" => c \in account'.seen
  BY DEF Sent, Receipts
<1>2. ASSUME Sent(c, call[c].got, call[c].todo) PROVE Sent(c, call[c].got, call[c].todo)'
  <2>1. \E type : /\ \E S : call[c].got \in Seq(S) /\ call[c].todo \in Seq(S)
                  /\ call[c].got \o call[c].todo = Receipts(c, type)'
                  /\ type = "read" /\ plan'.does[c].do = "read_messages" => c \in account'.seen
    BY <1>1, <1>2
  <2> QED
    BY <2>1 DEF Sent
<1>3. \A rest : Sent(c, call[c].got, rest) => Sent(c, call[c].got, rest)'
  BY <1>1 DEF Sent
<1> QED
  BY <1>2, <1>3 DEF Reads, HasAnswer

\* Every step of such a call.
LEMMA ReadingReads ==
  ASSUME BaseInv, NEW c \in Callers, Reads(c), plan.does[c] # None, plan.does[c].do \in {"read_messages", "send_receipts"},
         ReadingStep(c), plan' = plan, account.seen \subseteq account'.seen, ProtocolNext(c)
  PROVE  Reads(c)'
<1> DEFINE op == plan.does[c]
<1>1. Shape /\ plan \in Plans /\ Protocol(c)
  BY DEF BaseInv
<1>2. \A got, todo, type :
        /\ \E S : got \in Seq(S) /\ todo \in Seq(S)
        /\ got \o todo = Receipts(c, type)
        /\ type = "read" /\ plan.does[c].do = "read_messages" => c \in account'.seen
        => \E x : /\ \E S : got \in Seq(S) /\ todo \in Seq(S)
                  /\ got \o todo = Receipts(c, x)'
                  /\ x = "read" /\ plan'.does[c].do = "read_messages" => c \in account'.seen
  BY DEF Receipts
<1>3. \A got, todo : Sent(c, got, todo) =>
        \E x : /\ \E S : got \in Seq(S) /\ todo \in Seq(S)
               /\ got \o todo = Receipts(c, x)'
               /\ x = "read" /\ plan'.does[c].do = "read_messages" => c \in account'.seen
  BY DEF Receipts, Sent
<1>4. CASE account_call(c)
  <2>1. Ask(c, Query("privacy_settings", op), "first", NoChange) /\ call[c].pc = "idle"
    BY <1>4 DEF account_call, Begins
  <2>2. call'[c].pc = "asked" /\ call'[c].answer = None /\ call'[c].got = call[c].got
    BY <1>1, <2>1, AskIs, FieldsAre DEF Rest
  <2> QED
    BY <2>1, <2>2 DEF Reads, HasAnswer
<1>5. ASSUME NEW type, NEW fields, Set(c, fields), DOMAIN fields \cap {"got", "result"} = {}, {"pc", "todo"} \subseteq DOMAIN fields,
             fields.pc = "receipts", fields.todo = Receipts(c, type), call[c].got = << >>,
             type = "read" /\ op.do = "read_messages" => c \in account'.seen
      PROVE  Reads(c)'
  <2>1. Rest(c, fields, {})
    BY <1>1, <1>5, SetIs
  <2>2. call'[c].pc = "receipts" /\ call'[c].got = << >> /\ call'[c].todo = Receipts(c, type)
    BY <1>5, <2>1, FieldsAre DEF Rest
  <2>3. PICK S : Receipts(c, type) \in Seq(S)
    BY <1>1, ReceiptsAre
  <2>4. << >> \o Receipts(c, type) = Receipts(c, type) /\ << >> \in Seq(S)
    BY <2>3
  <2> HIDE DEF op
  <2>5. \E x : /\ \E T : << >> \in Seq(T) /\ Receipts(c, type) \in Seq(T)
               /\ << >> \o Receipts(c, type) = Receipts(c, x)'
               /\ x = "read" /\ plan'.does[c].do = "read_messages" => c \in account'.seen
    <3>1. type = "read" /\ plan.does[c].do = "read_messages" => c \in account'.seen
      BY <1>5 DEF op
    <3>2. \E T : << >> \in Seq(T) /\ Receipts(c, type) \in Seq(T)
      BY <2>3, <2>4
    <3>3. Receipts(c, type)' = Receipts(c, type)
      BY DEF Receipts
    <3> QED
      BY <2>4, <3>1, <3>2, <3>3
  <2>6. Sent(c, call[c].got, call[c].todo)'
    BY <2>2, <2>5 DEF Sent
  <2> QED
    BY <2>2, <2>6 DEF Reads
<1>6. CASE send_receipts(c)
  <2> DEFINE fields == [pc |-> "receipts", todo |-> Receipts(c, op.type)]
  <2>1. Set(c, fields) /\ op.do = "send_receipts" /\ call[c].got = << >>
    BY <1>6 DEF send_receipts, Begins, Receipts, Reads
  <2>2. DOMAIN fields = {"pc", "todo"} /\ fields.pc = "receipts" /\ fields.todo = Receipts(c, op.type)
    OBVIOUS
  <2> HIDE DEF fields
  <2> QED
    BY <1>5, <2>1, <2>2
<1>7. CASE ServeAccount(c)
  <2> DEFINE value == IF call[c].node.child.do = "update_privacy" /\ call[c].node.child.name = "readreceipts"
                      THEN call[c].node.child.value ELSE account.readreceipts
             more == IF value = "all" THEN {x \in Callers : call[x].pc \notin {"idle", "done"}} ELSE {}
             fields == [readreceipts |-> value, seen |-> account.seen \cup more]
  <2>1. call[c].pc = "asked" /\ Knows(fields)
    BY <1>7 DEF ServeAccount, Waiting
  <2>2. PICK settings \in {None, [last |-> "all"], [readreceipts |-> value]} : Answers(c, [privacy |-> settings], NoChange)
    BY <1>7 DEF ServeAccount
  <2>3. value = "all" => c \in account'.seen
    <3>1. value = "all" => c \in more
      BY <2>1
    <3>2. DOMAIN fields = {"readreceipts", "seen"} /\ fields.seen = account.seen \cup more
      OBVIOUS
    <3> HIDE DEF fields, value, more
    <3>3. account'["seen"] = fields["seen"]
      BY <2>1, <3>2, PlusIs DEF Knows
    <3> QED
      BY <3>1, <3>2, <3>3
  <2> HIDE DEF value, more
  <2>4. /\ call'[c].answer = [error |-> None] ++ [privacy |-> settings]
        /\ Rest(c, NoChange, {"answer", "made"})
    BY <1>1, <2>2, AnswersIs
  <2>5. call'[c].answer.privacy = settings
    BY <2>4, PlusIs
  <2>6. ReceiptType(parse_privacy_settings(call'[c].answer)) = "read" => c \in account'.seen
    <3>1. parse_privacy_settings(call'[c].answer) \in {<< >>, [last |-> "all"], [readreceipts |-> value]}
      BY <2>5 DEF parse_privacy_settings
    <3>2. "readreceipts" \notin DOMAIN << >> /\ "readreceipts" \notin DOMAIN [last |-> "all"]
      OBVIOUS
    <3>3. [readreceipts |-> value].readreceipts = value
      OBVIOUS
    <3> QED
      BY <2>3, <3>1, <3>2, <3>3 DEF ReceiptType
  <2>7. call'[c].pc = "asked" /\ call'[c].got = call[c].got
    BY <2>1, <2>4, FieldsAre DEF Rest
  <2> QED
    BY <2>1, <2>6, <2>7 DEF Reads
<1>8. CASE AccountRead(c)
  <2>1. call[c].pc = "asked" /\ HasAnswer(c) /\ op.do = "read_messages"
    BY <1>8 DEF AccountRead, Granting, Answered, HasAnswer, AccountDo
  <2> DEFINE type == ReceiptType(parse_privacy_settings(call[c].answer))
             fields == [pc |-> "receipts", node |-> None, answer |-> None, todo |-> Receipts(c, type)]
  <2>2. Set(c, fields) /\ call[c].got = << >> /\ (type = "read" => c \in account.seen)
    BY <1>8, <2>1 DEF AccountRead, Receipts, Reads
  <2> HIDE DEF type
  <2>3. DOMAIN fields = {"pc", "node", "answer", "todo"} /\ fields.pc = "receipts" /\ fields.todo = Receipts(c, type)
    OBVIOUS
  <2> HIDE DEF fields
  <2> QED
    BY <1>5, <2>2, <2>3
<1>9. CASE ReceiptSent(c)
  <2> DEFINE got == call[c].got
             todo == call[c].todo
             fields == [todo |-> Tail(todo), got |-> Append(got, Head(todo))]
  <2>1. Sent(c, got, todo)
    BY <1>9 DEF ReceiptSent, Reads
  <2>2. CASE \/ todo = << >> /\ Ends(c, "ok", NoChange)
             \/ Ends(c, "SendError", NoChange)
    <3>1. call'[c].pc = "done" /\ call'[c].got = got /\ (call'[c].result = "ok" => todo = << >>)
      BY <1>1, <2>2, EndsIs, FieldsAre DEF Rest
    <3>2. \E rest : Sent(c, call[c].got, rest)' /\ (call'[c].result = "ok" => rest = << >>)
      BY <1>3, <2>1, <3>1 DEF Sent
    <3> QED
      BY <3>1, <3>2 DEF Reads
  <2>3. CASE todo # << >> /\ Set(c, fields)
    <3>1. DOMAIN fields = {"todo", "got"} /\ fields.todo = Tail(todo) /\ fields.got = Append(got, Head(todo))
      OBVIOUS
    <3> HIDE DEF fields
    <3>2. call'[c].pc = "receipts" /\ call'[c].todo = Tail(todo) /\ call'[c].got = Append(got, Head(todo))
      BY <1>1, <1>9, <2>3, <3>1, SetIs, FieldsAre DEF Rest, ReceiptSent
    <3> HIDE DEF got, todo
    <3>3. Sent(c, Append(got, Head(todo)), Tail(todo))
      <4>1. PICK type : /\ \E S : got \in Seq(S) /\ todo \in Seq(S)
                        /\ got \o todo = Receipts(c, type)
                        /\ type = "read" /\ plan.does[c].do = "read_messages" => c \in account.seen
        BY <2>1 DEF Sent
      <4>2. PICK S : got \in Seq(S) /\ todo \in Seq(S)
        BY <4>1
      <4>3. Append(got, Head(todo)) \in Seq(S) /\ Tail(todo) \in Seq(S) /\ Append(got, Head(todo)) \o Tail(todo) = got \o todo
        BY <2>3, <4>2, MoveOne
      <4> HIDE DEF op
      <4> QED
        BY <4>1, <4>3 DEF Sent
    <3>4. \E x : /\ \E S : Append(got, Head(todo)) \in Seq(S) /\ Tail(todo) \in Seq(S)
                 /\ Append(got, Head(todo)) \o Tail(todo) = Receipts(c, x)'
                 /\ x = "read" /\ plan'.does[c].do = "read_messages" => c \in account'.seen
      BY <1>3, <3>3
    <3>5. Sent(c, call[c].got, call[c].todo)'
      BY <3>2, <3>4 DEF Sent
    <3> QED
      BY <3>2, <3>5 DEF Reads
  <2> QED
    BY <1>9, <2>2, <2>3 DEF ReceiptSent
<1>10. CASE AccountEnds(c)
  <2>1. call[c].pc = "asked" /\ Ends(c, "IQError", NoChange)
    BY <1>10 DEF AccountEnds, Granting, Refused, Answered
  <2>2. call'[c].pc = "done" /\ call'[c].result = "IQError" /\ call'[c].got = call[c].got
    BY <1>1, <2>1, EndsIs, FieldsAre DEF Rest
  <2> QED
    BY <2>1, <2>2 DEF Reads
<1>11. CASE Refuse(c)
  <2>1. call[c].pc = "asked" /\ ~HasAnswer(c)' /\ call'[c].got = call[c].got /\ call'[c].pc = "asked"
    BY <1>1, <1>11, RefuseIs, FieldsAre
  <2> QED
    BY <2>1 DEF Reads
<1>12. CASE QueryLate(c)
  <2>1. call[c].pc = "asked" /\ Ends(c, "TimeoutError", [cut |-> TRUE])
    BY <1>12 DEF QueryLate
  <2>2. DOMAIN [cut |-> TRUE] = {"cut"}
    OBVIOUS
  <2>3. call'[c].pc = "done" /\ call'[c].result = "TimeoutError" /\ call'[c].got = call[c].got
    BY <1>1, <2>1, <2>2, EndsIs, FieldsAre DEF Rest
  <2> QED
    BY <2>1, <2>3 DEF Reads
<1> QED
  BY <1>4, <1>6, <1>7, <1>8, <1>9, <1>10, <1>11, <1>12 DEF ReadingStep

\* Nothing that others do changes what such a call has told.
LEMMA ReadsStay == ASSUME BaseInv, ReadInv, [Next]_vars PROVE ReadInv'
<1>1. ASSUME NEW c \in Callers, Starts(c) \/ Serves(c) \/ Resumes(c) PROVE ReadInv'
  <2>1. Others(c) /\ plan' = plan /\ OfItsKind(c) /\ Frame(c) /\ ProtocolNext(c)
    BY <1>1, StepIs DEF Steady, fixed
  <2>2. SeenInv' /\ account.seen \subseteq account'.seen
    BY <2>1, SeenGrows DEF ReadInv
  <2>3. Reads(c)'
    <3>1. CASE plan.does[c] # None /\ plan.does[c].do \in {"read_messages", "send_receipts"}
      <4>1. plan.does[c].do \in Reading
        BY <3>1 DEF Reading, AccountDo
      <4> QED
        BY <2>1, <2>2, <3>1, <4>1, ReadingIs, ReadingReads DEF ReadInv
    <3>2. CASE ~(plan.does[c] # None /\ plan.does[c].do \in {"read_messages", "send_receipts"})
      BY <2>1, <3>2 DEF Reads
    <3> QED
      BY <3>1, <3>2
  <2>4. \A d \in Callers : d # c => Reads(d)'
    BY <2>1, <2>2, SentStays DEF ReadInv, Others
  <2> QED
    BY <2>2, <2>3, <2>4 DEF ReadInv
<1>2. CASE MediaRetried
  <2>1. plan' = plan /\ account' = account
    BY <1>2, RetriedIs DEF BaseInv, fixed, server
  <2>2. ASSUME NEW c \in Callers, plan.does[c] # None, plan.does[c].do \in {"read_messages", "send_receipts"} PROVE call'[c] = call[c]
    <3>1. call[c].pc # "media"
      BY <2>2 DEF BaseInv, Protocol, Placed, Uploads, Mutations
    <3> QED
      BY <1>2, <3>1, RetriedIs DEF BaseInv
  <2>3. ASSUME NEW c \in Callers PROVE Reads(c)'
    <3>1. CASE plan.does[c] # None /\ plan.does[c].do \in {"read_messages", "send_receipts"}
      BY <2>1, <2>2, <3>1, SentStays DEF ReadInv
    <3>2. CASE ~(plan.does[c] # None /\ plan.does[c].do \in {"read_messages", "send_receipts"})
      BY <2>1, <3>2 DEF Reads
    <3> QED
      BY <3>1, <3>2
  <2> QED
    BY <2>1, <2>3 DEF ReadInv, SeenInv
<1>3. CASE Crash
  <2>1. plan' = plan /\ account' = account
    BY <1>3, CrashIs DEF BaseInv, fixed, Crash, server
  <2>2. LET k == [Idle EXCEPT !.pc = "done", !.result = "crash"] IN k.result = "crash" /\ k.pc = "done" /\ k.got = << >>
    BY DEF Idle
  <2>3. ASSUME NEW c \in Callers PROVE Reads(c)'
    <3>1. CASE call'[c] = call[c]
      BY <2>1, <3>1, SentStays DEF ReadInv
    <3>2. CASE call'[c].pc = "done" /\ call'[c].result = "crash" /\ call'[c].got = << >>
      BY <3>2 DEF Reads
    <3> QED
      BY <1>3, <2>2, <3>1, <3>2, CrashIs DEF BaseInv
  <2> QED
    BY <2>1, <2>3 DEF ReadInv, SeenInv
<1>4. CASE Tick \/ Move \/ UNCHANGED vars
  <2>1. plan' = plan /\ account' = account /\ call' = call
    BY <1>4 DEF Tick, Move, vars, fixed, server
  <2> QED
    BY <2>1, SentStays DEF ReadInv, SeenInv
<1>5. QED
  BY <1>1, <1>2, <1>3, <1>4 DEF Next

\* A message is told to be read to its author only if the account showed its receipts during the
\* call; each message of others once, and all of them if the call returns.
THEOREM ReadToldRight == Spec => []ReadTold
<1>1. Init => ReadInv
  BY DEF Init, AskingInit, ReadInv, SeenInv, Reads, Idle
<1>2. BaseInv /\ ReadInv => ReadTold
  <2> SUFFICES ASSUME BaseInv, ReadInv, NEW c \in Callers, plan.does[c] # None, plan.does[c].do \in {"read_messages", "send_receipts"}
               PROVE  LET sent == call[c].got
                          keys == plan.does[c].keys
                          under(i) == {k \in DOMAIN sent : /\ sent[k].to = keys[i].chat /\ sent[k].participant = keys[i].participant
                                                          /\ keys[i].id \in ToSet(sent[k].ids)}
                      IN /\ (sent # << >> /\ sent[1].type = "read" /\ plan.does[c].do = "read_messages") => c \in account.seen
                         /\ \A i \in OfOthers(keys) : Cardinality(under(i)) <= 1
                                /\ (Ended(c, {"read_messages", "send_receipts"}, "ok") => under(i) # {})
                         /\ \A k \in DOMAIN sent : \A id \in ToSet(sent[k].ids) : \E i \in OfOthers(keys) : keys[i].id = id /\ k \in under(i)
    BY DEF ReadTold, OfOthers
  <2> DEFINE sent == call[c].got
             keys == plan.does[c].keys
             some == aggregate_message_keys(keys)
             under(i) == {k \in DOMAIN sent : /\ sent[k].to = keys[i].chat /\ sent[k].participant = keys[i].participant
                                              /\ keys[i].id \in ToSet(sent[k].ids)}
  <2>1. Placed(plan.does[c].do, call[c].pc) \/ call[c].pc = "idle"
    BY DEF ReadInv, BaseInv, Protocol
  <2>2. CASE sent = << >> /\ ~Ended(c, {"read_messages", "send_receipts"}, "ok")
    <3>1. DOMAIN sent = {} /\ \A i : under(i) = {}
      BY <2>2
    <3>2. Cardinality({}) <= 1
      BY FS_EmptySet
    <3> HIDE DEF sent, under
    <3> QED
      BY <2>2, <3>1, <3>2 DEF sent, under
  <2>3. CASE \E rest : Sent(c, sent, rest) /\ (Ended(c, {"read_messages", "send_receipts"}, "ok") => rest = << >>)
    <3>1. PICK rest : Sent(c, sent, rest) /\ (Ended(c, {"read_messages", "send_receipts"}, "ok") => rest = << >>)
      BY <2>3
    <3>2. PICK type : /\ \E S : sent \in Seq(S) /\ rest \in Seq(S)
                      /\ sent \o rest = Receipts(c, type)
                      /\ type = "read" /\ plan.does[c].do = "read_messages" => c \in account.seen
      BY <3>1 DEF Sent
    <3> DEFINE all == Receipts(c, type)
    <3>3. /\ Covers(keys, some) /\ DOMAIN all = DOMAIN some
          /\ \A i \in DOMAIN all : /\ all[i].to = some[i].to /\ all[i].participant = some[i].participant /\ all[i].ids = some[i].ids
                                   /\ all[i].type = type
      BY ReceiptsAre DEF BaseInv
    <3>4. /\ DOMAIN sent \subseteq DOMAIN all /\ \A k \in DOMAIN sent : sent[k] = all[k]
          /\ rest = << >> => DOMAIN sent = DOMAIN all
          /\ sent # << >> => 1 \in DOMAIN sent
      <4> HIDE DEF sent, all
      <4>1. sent \o rest = all
        BY <3>2 DEF all
      <4>2. PICK S : sent \in Seq(S) /\ rest \in Seq(S)
        BY <3>2
      <4>3. Len(all) = Len(sent) + Len(rest) /\ DOMAIN all = 1 .. Len(all) /\ \A k \in 1 .. Len(sent) : sent[k] = all[k]
        BY <4>1, <4>2
      <4>4. DOMAIN sent = 1 .. Len(sent) /\ Len(sent) \in Nat /\ Len(rest) \in Nat /\ (rest = << >> => Len(rest) = 0)
            /\ (sent # << >> => Len(sent) # 0)
        BY <4>2
      <4>5. DOMAIN sent \subseteq DOMAIN all /\ (sent # << >> => 1 \in DOMAIN sent)
        BY <4>3, <4>4
      <4>6. rest = << >> => DOMAIN sent = DOMAIN all
        BY <4>3, <4>4
      <4> QED
        BY <4>3, <4>4, <4>5, <4>6, Zenon
    <3> HIDE DEF sent, all, some, keys
    <3>5. \A k \in DOMAIN sent : k \in DOMAIN some /\ sent[k].to = some[k].to /\ sent[k].participant = some[k].participant
                                 /\ sent[k].ids = some[k].ids /\ sent[k].type = type
      BY <3>3, <3>4
    <3>6. ASSUME NEW i \in OfOthers(keys)
          PROVE  Cardinality(under(i)) <= 1 /\ (Ended(c, {"read_messages", "send_receipts"}, "ok") => under(i) # {})
      <4>1. \A k, l \in under(i) : k = l
        BY <3>3, <3>5 DEF Covers
      <4>2. Cardinality(under(i)) <= 1
        <5>1. under(i) = {} \/ \E k : under(i) = {k}
          BY <4>1, Zenon
        <5> DEFINE u == under(i)
        <5>2. u = {} \/ \E k : u = {k}
          BY <5>1
        <5> HIDE DEF u
        <5>3. Cardinality(u) \in {0, 1}
          BY <5>2, FS_EmptySet, FS_Singleton
        <5> QED
          BY <5>3 DEF u
      <4>3. ASSUME Ended(c, {"read_messages", "send_receipts"}, "ok") PROVE under(i) # {}
        <5>1. DOMAIN sent = DOMAIN some
          BY <3>1, <3>3, <3>4, <4>3
        <5>2. PICK f \in DOMAIN some :
                some[f].to = keys[i].chat /\ some[f].participant = keys[i].participant /\ keys[i].id \in ToSet(some[f].ids)
          BY <3>3 DEF Covers
        <5> QED
          BY <3>5, <5>1, <5>2
      <4> QED
        BY <4>2, <4>3
    <3>7. \A k \in DOMAIN sent : \A id \in ToSet(sent[k].ids) : \E i \in OfOthers(keys) : keys[i].id = id /\ k \in under(i)
      <4>1. TAKE k \in DOMAIN sent
      <4>2. TAKE id \in ToSet(sent[k].ids)
      <4>3. PICK i \in OfOthers(keys) : keys[i].id = id /\ some[k].to = keys[i].chat /\ some[k].participant = keys[i].participant
        BY <3>3, <3>5 DEF Covers
      <4> QED
        BY <3>5, <4>3
    <3>8. (sent # << >> /\ sent[1].type = "read" /\ plan.does[c].do = "read_messages") => c \in account.seen
      BY <3>2, <3>4, <3>5
    <3> QED
      BY <3>6, <3>7, <3>8 DEF sent, keys
  <2>4. \/ sent = << >> /\ ~Ended(c, {"read_messages", "send_receipts"}, "ok")
        \/ \E rest : Sent(c, sent, rest) /\ (Ended(c, {"read_messages", "send_receipts"}, "ok") => rest = << >>)
    <3>1. call[c].pc \in {"idle", "asked", "done", "receipts"}
      BY <2>1 DEF Placed, Uploads, Mutations, BaseInv, Protocol
    <3> QED
      BY <3>1 DEF ReadInv, Reads, Ended
  <2> QED
    BY <2>2, <2>3, <2>4
<1> QED
  BY <1>1, <1>2, BaseInvariant, ReadsStay, PTL DEF Spec

-----------------------------------------------------------------------------
(* What is told of a group, and what the server did.                       *)

\* An event says what was done, and all of it unless the call tells nobody.
Agrees(op, told, made) ==
  /\ \A x \in DOMAIN told : x \in DOMAIN made /\ told[x] = made[x]
  /\ op.do \notin Silent => DOMAIN made \subseteq DOMAIN told \cup {"invited"}

FirstNode(op) == IF op.do \in GroupDo THEN group_node(op) ELSE community_node(op)
EventOf(op, answer) == IF op.do \in GroupDo THEN group_event(op, answer) ELSE community_event(op, answer)
Lacks(op, answer) == op.do \in NeedsGroup /\ parse_group_metadata(answer) = None

\* A call that tells nobody agrees with anything; and so does an event of just what was done.
LEMMA AgreeingIs ==
  /\ \A op, told, made : told = made => Agrees(op, told, made)
  /\ \A op, told, made : op.do \in Silent /\ told = << >> => Agrees(op, told, made)
BY DEF Agrees

\* What a request changes, by its name.
LEMMA ChangeIs ==
  ASSUME NEW child, NEW took
  PROVE  /\ child.tag = "subject" => Change(child, took) = [subject |-> child.body]
         /\ child.tag = "description" => Change(child, took) = [desc |-> child.body]
         /\ child.tag = "leave" => Change(child, took) = [joined |-> FALSE]
         /\ child.tag = "create" => Change(child, took) = [subject |-> child.subject, joined |-> TRUE]
         /\ child.tag = "invite" /\ "code" \in DOMAIN child => Change(child, took) = [joined |-> TRUE]
         /\ child.tag \in {"announcement", "not_announcement"} => Change(child, took) = [announce |-> child.tag = "announcement"]
         /\ child.tag \in {"locked", "unlocked"} => Change(child, took) = [locked |-> child.tag = "locked"]
         /\ child.tag = "not_ephemeral" => Change(child, took) = [ephemeral |-> 0]
         /\ child.tag = "ephemeral" => Change(child, took) = [ephemeral |-> child.expiration]
         /\ child.tag = "member_add_mode" => Change(child, took) = [add_mode |-> child.mode]
         /\ child.tag = "membership_approval_mode" => Change(child, took) = [approval |-> child.state]
         /\ child.tag \in AboutMembers => Change(child, took) = [took |-> took]
BY DEF Change, AboutMembers

\* What a call about a group does at the server is what it will tell.
LEMMA GroupTold ==
  ASSUME NEW op, op.do \in GroupDo, ~Unsupported(op), NEW answer, NEW took, NEW made,
         group_node(op).type = "set",
         "participants" \in DOMAIN group_node(op).child => group_node(op).child.tag \in AboutMembers,
         Took(parse_participant_update(answer)) = took,
         made = IF group_node(op).child.tag = "invite" /\ "code" \in DOMAIN group_node(op).child /\ answer.id = None
                THEN NoChange ELSE Change(group_node(op).child, took),
         op.do = "create" => parse_group_metadata(answer) = None \/ answer.group.subject = op.subject
  PROVE  Lacks(op, answer) \/ Agrees(op, group_event(op, answer), made)
<1> DEFINE node == group_node(op)
<1>1. \A to, type, child : group_query_node(to, type, child).type = type /\ group_query_node(to, type, child).child = child
  BY DEF group_query_node
<1>2. CASE op.do \in {"metadata", "description", "invite", "fetch_all", "list_requests", "code", "info"}
  <2>1. node.type = "get"
    BY <1>1, <1>2 DEF group_node
  <2> QED
    BY <2>1
<1>3. CASE op.do = "create"
  <2>1. node.child = [tag |-> "create", subject |-> op.subject]
    BY <1>1, <1>3 DEF group_node
  <2>10. node.child.tag = "create" /\ node.child.subject = op.subject
    BY <2>1
  <2>11. Change(node.child, took) = [subject |-> node.child.subject, joined |-> TRUE]
    BY <2>10, ChangeIs
  <2>2. made = [subject |-> op.subject, joined |-> TRUE]
    BY <2>10, <2>11
  <2>3. group_event(op, answer) = [subject |-> answer.group.subject, joined |-> TRUE]
    BY <1>3 DEF group_event
  <2> QED
    BY <1>3, <2>2, <2>3, AgreeingIs DEF Lacks, NeedsGroup
<1>4. CASE op.do = "leave"
  <2>1. node.child = [tag |-> "leave", group |-> op.jid]
    BY <1>1, <1>4 DEF group_node
  <2>10. node.child.tag = "leave" /\ node.child.group = op.jid
    BY <2>1
  <2>2. made = [joined |-> FALSE]
    BY <2>10, ChangeIs, Zenon
  <2>3. group_event(op, answer) = [joined |-> FALSE]
    BY <1>4 DEF group_event
  <2> QED
    BY <2>2, <2>3, AgreeingIs
<1>5. CASE op.do = "subject"
  <2>1. node.child = [tag |-> "subject", body |-> op.subject]
    BY <1>1, <1>5 DEF group_node
  <2>10. node.child.tag = "subject" /\ node.child.body = op.subject
    BY <2>1
  <2>2. made = [subject |-> op.subject]
    BY <2>10, ChangeIs
  <2>3. group_event(op, answer) = [subject |-> op.subject]
    BY <1>5 DEF group_event
  <2> QED
    BY <2>2, <2>3, AgreeingIs
<1>6. CASE op.do \in {"participants", "or_invite", "requests"}
  <2>1. node.child = [tag |-> op.action, participants |-> op.participants]
    BY <1>1, <1>6 DEF group_node
  <2>2. op.action \in AboutMembers /\ node.child.tag = op.action
    BY <2>1
  <2>3. made = [took |-> took]
    BY <2>2 DEF Change, AboutMembers
  <2>4. group_event(op, answer) = [took |-> took]
    BY <1>6 DEF group_event
  <2> QED
    BY <2>3, <2>4, AgreeingIs
<1>7. CASE op.do = "revoke"
  <2>1. group_event(op, answer) = << >>
    BY <1>7 DEF group_event
  <2> QED
    BY <1>7, <2>1, AgreeingIs DEF Silent
<1>8. CASE op.do = "accept"
  <2>1. node.child = [tag |-> "invite", code |-> op.code]
    BY <1>1, <1>8 DEF group_node
  <2>10. node.child.tag = "invite" /\ node.child.code = op.code /\ "code" \in DOMAIN node.child
    BY <2>1
  <2>2. made = IF answer.id = None THEN << >> ELSE [joined |-> TRUE]
    BY <2>10, ChangeIs DEF NoChange
  <2>3. group_event(op, answer) = IF answer.id = None THEN << >> ELSE [joined |-> TRUE]
    BY <1>8 DEF group_event
  <2> QED
    BY <2>2, <2>3, AgreeingIs
<1>9. CASE op.do = "setting"
  <2>1. node.child = [tag |-> op.setting, expiration |-> op.value]
    BY <1>1, <1>9 DEF group_node
  <2>2. op.setting \in {"announcement", "not_announcement", "locked", "unlocked", "ephemeral"}
    BY <1>9 DEF Unsupported
  <2>3. node.child.tag = op.setting /\ node.child.expiration = op.value
    BY <2>1
  <2>4. made = CASE op.setting \in {"announcement", "not_announcement"} -> [announce |-> op.setting = "announcement"]
                 [] op.setting \in {"locked", "unlocked"} -> [locked |-> op.setting = "locked"]
                 [] OTHER -> [ephemeral |-> op.value]
    BY <2>2, <2>3, ChangeIs
  <2>5. group_event(op, answer) = made
    BY <1>9, <2>4 DEF group_event, SettingRead
  <2> QED
    BY <2>5, AgreeingIs
<1>10. CASE op.do = "ephemeral"
  <2>1. node.child = IF op.expiration = 0 THEN [tag |-> "not_ephemeral"] ELSE [tag |-> "ephemeral", expiration |-> op.expiration]
    BY <1>1, <1>10 DEF group_node
  <2>10. /\ op.expiration = 0 => node.child.tag = "not_ephemeral"
         /\ op.expiration # 0 => node.child.tag = "ephemeral" /\ node.child.expiration = op.expiration
    BY <2>1
  <2>2. made = [ephemeral |-> op.expiration]
    BY <2>10, ChangeIs
  <2>3. group_event(op, answer) = [ephemeral |-> op.expiration]
    BY <1>10 DEF group_event
  <2> QED
    BY <2>2, <2>3, AgreeingIs
<1>11. CASE op.do = "add_mode"
  <2>1. node.child = [tag |-> "member_add_mode", mode |-> op.mode]
    BY <1>1, <1>11 DEF group_node
  <2>10. node.child.tag = "member_add_mode" /\ node.child.mode = op.mode
    BY <2>1
  <2>2. made = [add_mode |-> op.mode]
    BY <2>10, ChangeIs
  <2>3. group_event(op, answer) = [add_mode |-> op.mode]
    BY <1>11 DEF group_event
  <2> QED
    BY <2>2, <2>3, AgreeingIs
<1>12. CASE op.do = "approval"
  <2>1. node.child = [tag |-> "membership_approval_mode", state |-> op.mode]
    BY <1>1, <1>12 DEF group_node
  <2>10. node.child.tag = "membership_approval_mode" /\ node.child.state = op.mode
    BY <2>1
  <2>2. made = [approval |-> op.mode]
    BY <2>10, ChangeIs
  <2>3. group_event(op, answer) = [approval |-> op.mode]
    BY <1>12 DEF group_event
  <2> QED
    BY <2>2, <2>3, AgreeingIs
<1> QED
  BY <1>2, <1>3, <1>4, <1>5, <1>6, <1>7, <1>8, <1>9, <1>10, <1>11, <1>12 DEF GroupDo

\* So it is for a community.
LEMMA CommunityTold ==
  ASSUME NEW op, op.do \in CommunityDo, NEW answer, NEW took, NEW made,
         community_node(op).type = "set",
         "participants" \in DOMAIN community_node(op).child => community_node(op).child.tag \in AboutMembers,
         Took(parse_participant_update(answer)) = took,
         made = IF community_node(op).child.tag = "invite" /\ "code" \in DOMAIN community_node(op).child /\ answer.id = None
                THEN NoChange ELSE Change(community_node(op).child, took),
         op.do \in {"c_create", "c_create_group"} => parse_group_metadata(answer) = None \/ answer.group.subject = op.subject
  PROVE  Lacks(op, answer) \/ Agrees(op, community_event(op, answer), made)
<1> DEFINE node == community_node(op)
<1>1. \A to, type, child : group_query_node(to, type, child).type = type /\ group_query_node(to, type, child).child = child
  BY DEF group_query_node
<1>2. CASE op.do \in {"c_metadata", "c_description", "c_linked", "c_fetch_all", "c_list_requests", "c_code", "c_info"}
  <2>1. node.type = "get"
    BY <1>1, <1>2 DEF community_node
  <2> QED
    BY <2>1
<1>3. CASE op.do \in {"c_create", "c_create_group"}
  <2>1. node.child = [tag |-> "create", subject |-> op.subject]
    BY <1>1, <1>3 DEF community_node
  <2>10. node.child.tag = "create" /\ node.child.subject = op.subject
    BY <2>1
  <2>11. Change(node.child, took) = [subject |-> node.child.subject, joined |-> TRUE]
    BY <2>10, ChangeIs
  <2>2. made = [subject |-> op.subject, joined |-> TRUE]
    BY <2>10, <2>11
  <2>3. community_event(op, answer) = [subject |-> answer.group.subject, joined |-> TRUE]
    BY <1>3 DEF community_event
  <2> QED
    BY <1>3, <2>2, <2>3, AgreeingIs DEF Lacks, NeedsGroup
<1>4. CASE op.do = "c_leave"
  <2>1. node.child = [tag |-> "leave", group |-> op.jid]
    BY <1>1, <1>4 DEF community_node
  <2>10. node.child.tag = "leave" /\ node.child.group = op.jid
    BY <2>1
  <2>2. made = [joined |-> FALSE]
    BY <2>10, ChangeIs, Zenon
  <2>3. community_event(op, answer) = [joined |-> FALSE]
    BY <1>4 DEF community_event
  <2> QED
    BY <2>2, <2>3, AgreeingIs
<1>5. CASE op.do = "c_subject"
  <2>1. node.child = [tag |-> "subject", body |-> op.subject]
    BY <1>1, <1>5 DEF community_node
  <2>10. node.child.tag = "subject" /\ node.child.body = op.subject
    BY <2>1
  <2>2. made = [subject |-> op.subject]
    BY <2>10, ChangeIs
  <2>3. community_event(op, answer) = [subject |-> op.subject]
    BY <1>5 DEF community_event
  <2> QED
    BY <2>2, <2>3, AgreeingIs
<1>6. CASE op.do = "c_participants"
  <2>1. node.child = [tag |-> op.action, participants |-> op.participants]
    BY <1>1, <1>6 DEF community_node
  <2>2. op.action \in AboutMembers /\ node.child.tag = op.action
    BY <2>1
  <2>3. made = [took |-> took]
    BY <2>2 DEF Change, AboutMembers
  <2>4. community_event(op, answer) = [took |-> took]
    BY <1>6 DEF community_event
  <2> QED
    BY <2>3, <2>4, AgreeingIs
<1>7. CASE op.do \in Silent
  <2>1. community_event(op, answer) = << >>
    BY <1>7 DEF community_event, Silent
  <2> QED
    BY <1>7, <2>1, AgreeingIs
<1> QED
  BY <1>2, <1>3, <1>4, <1>5, <1>6, <1>7 DEF CommunityDo, Silent

\* The calls that read a group before they do anything else, or only that.
Readers == {"description", "c_description", "invite", "metadata", "c_metadata", "c_linked"}

\* A question tells nothing of what it asks, unless the call goes on.
LEMMA QuestionTold ==
  ASSUME NEW op, op.do \in OfGroups, op.do \notin Readers, FirstNode(op).type = "get", NEW answer
  PROVE  EventOf(op, answer) = << >>
<1>1. \A to, type, child : group_query_node(to, type, child).type = type
  BY DEF group_query_node
<1>2. CASE op.do \in GroupDo
  <2>1. op.do \in {"fetch_all", "list_requests", "code", "info"}
    <3>1. op.do \in {"create", "leave", "subject", "participants", "or_invite", "requests"} => group_node(op).type = "set"
      BY <1>1 DEF group_node
    <3>2. op.do \in {"revoke", "accept", "setting", "ephemeral", "add_mode", "approval"} => group_node(op).type = "set"
      BY <1>1 DEF group_node
    <3> QED
      BY <1>2, <3>1, <3>2 DEF FirstNode, GroupDo, Readers
  <2>2. group_event(op, answer) = << >>
    BY <2>1 DEF group_event
  <2> QED
    BY <1>2, <2>2 DEF EventOf
<1>3. CASE op.do \notin GroupDo
  <2>1. op.do \in CommunityDo
    BY <1>3 DEF OfGroups
  <2>2. op.do \in {"c_fetch_all", "c_list_requests", "c_code", "c_info"}
    <3>1. op.do \in {"c_create", "c_create_group", "c_leave", "c_subject", "c_link", "c_unlink", "c_requests", "c_participants"}
            => community_node(op).type = "set"
      BY <1>1 DEF community_node
    <3>2. op.do \in {"c_revoke", "c_accept", "c_ephemeral", "c_setting", "c_add_mode", "c_approval"} => community_node(op).type = "set"
      BY <1>1 DEF community_node
    <3> QED
      BY <1>3, <2>1, <3>1, <3>2 DEF FirstNode, CommunityDo, Readers
  <2>3. community_event(op, answer) = << >>
    BY <2>2 DEF community_event
  <2> QED
    BY <1>3, <2>3 DEF EventOf
<1> QED
  BY <1>2, <1>3

\* The calls that begin by reading ask for it.
LEMMA ReadersAsk == \A op : op.do \in Readers => FirstNode(op).type = "get"
<1>1. \A to, type, child : group_query_node(to, type, child).type = type
  BY DEF group_query_node
<1>2. \A op : op.do \in {"description", "invite", "metadata"} => group_node(op).type = "get"
  BY <1>1 DEF group_node
<1>3. \A op : op.do \in {"c_description", "c_metadata", "c_linked"} => community_node(op).type = "get"
  BY <1>1 DEF community_node
<1>4. {"description", "invite", "metadata"} \subseteq GroupDo /\ {"c_description", "c_metadata", "c_linked"} \cap GroupDo = {}
  BY DEF GroupDo
<1> QED
  BY <1>2, <1>3, <1>4 DEF FirstNode, Readers

\* Whom a call that invites has invited, and that the others are still to be.
Invited(c) == IF "invited" \in DOMAIN call[c].made THEN call[c].made.invited ELSE {}
Inviting(c) ==
  IF plan.does[c].do = "or_invite"
  THEN /\ DOMAIN call[c].made \subseteq {"invited"} /\ call[c].todo \in Seq(Numbers) /\ call[c].todo # << >>
       /\ Invited(c) \cup ToSet(call[c].todo) = Members(plan.does[c])
  ELSE DOMAIN call[c].made = {}

\* What a call asks at each of its steps.
Requests(c) ==
  /\ call[c].step = "first" => call[c].node = FirstNode(plan.does[c])
  /\ call[c].step = "set" => \E id : call[c].node = group_update_description_node(plan.does[c].jid, plan.does[c].description, id)
  /\ call[c].step \in {"meta", "code"} => call[c].node.type = "get"

Tells(c) ==
  LET op == plan.does[c] IN
  (op # None /\ op.do \in OfGroups) =>
    /\ call[c].pc # "done" => DOMAIN call[c].told = {}
    /\ call[c].pc = "idle" => DOMAIN call[c].made = {}
    /\ call[c].pc \in {"asked", "send"} => ~Unsupported(op)
    /\ call[c].pc = "asked" =>
         /\ Requests(c)
         /\ call[c].step \in {"first", "set"} /\ ~HasAnswer(c) => DOMAIN call[c].made = {}
         /\ call[c].step = "first" /\ HasAnswer(c) /\ op.do \in Readers => DOMAIN call[c].made = {}
         /\ call[c].step = "first" /\ HasAnswer(c) /\ op.do \notin Readers =>
              Lacks(op, call[c].answer) \/ Agrees(op, EventOf(op, call[c].answer), call[c].made)
         /\ call[c].step = "set" /\ HasAnswer(c) => Agrees(op, EventOf(op, call[c].answer), call[c].made)
         /\ call[c].step \in {"meta", "code"} => Inviting(c)
    /\ call[c].pc = "send" => Inviting(c)
    /\ call[c].pc = "done" /\ call[c].result = "ok" => Agrees(op, call[c].told, call[c].made)

GroupsInv == DOMAIN groups = GroupIds /\ \A j \in GroupIds : "subject" \in DOMAIN groups[j]
TellInv == GroupsInv /\ \A c \in Callers : Tells(c)

\* The server's groups keep their fields.
LEMMA FieldsStay ==
  ASSUME GroupsInv, NEW c \in Callers, Frame(c)
  PROVE  GroupsInv'
<1>1. CASE UNCHANGED groups
  BY <1>1 DEF GroupsInv
<1>2. CASE ChangeGroup(c)
  <2> DEFINE j == Target(groups, call[c].node, Spare)
             child == call[c].node.child
             asked == IF "participants" \in DOMAIN child THEN Members(child) ELSE {}
             pending(described) == child.tag = "invite" /\ "code" \in DOMAIN child /\ ~described
  <2>1. PICK took \in SUBSET asked, described \in BOOLEAN :
          groups' = [groups EXCEPT ![j] = IF pending(described) THEN groups[j] ELSE Changed(groups[j], child, took)]
    BY <1>2 DEF ChangeGroup
  <2> HIDE DEF j, child, asked, pending
  <2>2. \A g : DOMAIN Granted(g, child, took) = DOMAIN g
    BY DEF Granted
  <2>3. \A g : DOMAIN Changed(g, child, took) = DOMAIN g
    BY <2>2 DEF Changed
  <2>4. PICK after : groups' = [groups EXCEPT ![j] = after] /\ DOMAIN after = DOMAIN groups[j]
    BY <2>1, <2>3
  <2> QED
    BY <2>4 DEF GroupsInv
<1> QED
  BY <1>1, <1>2 DEF Frame

\* Agreeing is of what was done, not of how it is written.
LEMMA AgreesWith ==
  ASSUME NEW op, NEW told, NEW made, NEW more, Agrees(op, told, made), DOMAIN more = DOMAIN made, \A x \in DOMAIN made : more[x] = made[x]
  PROVE  Agrees(op, told, more)
BY DEF Agrees

\* Those that were granted are those that the answer names without an error.
LEMMA TookIs ==
  ASSUME NEW asked, NEW took \in SUBSET asked, NEW answer, answer.refused = [p \in asked |-> p \notin took]
  PROVE  Took(parse_participant_update(answer)) = took
<1>1. parse_participant_update(answer) = [p \in asked |-> IF p \notin took THEN "error" ELSE "200"]
  BY DEF parse_participant_update
<1>2. \A p \in asked : parse_participant_update(answer)[p] = "200" <=> p \in took
  BY <1>1
<1>3. DOMAIN parse_participant_update(answer) = asked
  BY <1>1
<1> QED
  BY <1>2, <1>3 DEF Took

\* What stands for no answer is not one: constants are not told apart from records by what they are.
NoAnswer == \A fields : ([error |-> None] ++ fields) # None

\* What the server does for the first request of a call is what will be told, with an answer that
\* lets the client see it.
LEMMA ChangeAgrees ==
  ASSUME NoAnswer, BaseInv, GroupsInv, NEW c \in Callers, Tells(c), plan.does[c] # None, plan.does[c].do \in OfGroups, ChangeGroup(c)
  PROVE  /\ call[c].pc = "asked" /\ call'[c].pc = "asked" /\ call[c].step \in {"first", "set"} /\ call'[c].told = call[c].told
         /\ call'[c].node = call[c].node /\ call'[c].step = call[c].step
         /\ call[c].step = "first" => /\ plan.does[c].do \notin Readers
                                      /\ \/ Lacks(plan.does[c], call'[c].answer)
                                         \/ Agrees(plan.does[c], EventOf(plan.does[c], call'[c].answer), call'[c].made)
         /\ call[c].step = "set" => Agrees(plan.does[c], EventOf(plan.does[c], call'[c].answer), call'[c].made)
         /\ HasAnswer(c)'
<1> DEFINE op == plan.does[c]
           node == call[c].node
           child == node.child
           j == Target(groups, node, Spare)
           asked == IF "participants" \in DOMAIN child THEN Members(child) ELSE {}
           pending(described) == child.tag = "invite" /\ "code" \in DOMAIN child /\ ~described
           after(took, described) == IF pending(described) THEN groups[j] ELSE Changed(groups[j], child, took)
           answer(took, described) ==
             [id |-> IF described THEN j ELSE None, group |-> IF described THEN after(took, described) ELSE None, listed |-> << >>,
              refused |-> [p \in asked |-> p \notin took], code |-> after(took, described).code]
           made(took, described) == IF pending(described) THEN NoChange ELSE Change(child, took)
<1>1. Shape /\ plan \in Plans /\ Protocol(c)
  BY DEF BaseInv
<1>2. /\ call[c].pc = "asked" /\ call[c].answer = None /\ node.type = "set" /\ j # None
      /\ "participants" \in DOMAIN child => child.tag \in AboutMembers
  BY DEF ChangeGroup, Waiting
<1>3. PICK took \in SUBSET asked, described \in BOOLEAN : Answers(c, answer(took, described), made(took, described))
  BY DEF ChangeGroup
<1> DEFINE done == made(took, described)
           said == answer(took, described)
<1>4. said.id = (IF described THEN j ELSE None) /\ said.group = (IF described THEN after(took, described) ELSE None)
      /\ said.refused = [p \in asked |-> p \notin took]
  OBVIOUS
<1>5. DOMAIN said = {"id", "group", "listed", "refused", "code"}
  OBVIOUS
<1>6. done = IF pending(described) THEN NoChange ELSE Change(child, took)
  OBVIOUS
<1>7. Answers(c, said, done)
  BY <1>3
<1> HIDE DEF said, done, asked, answer, made
<1>8. /\ call'[c].answer = [error |-> None] ++ said /\ call'[c].made = done ++ call[c].made
      /\ Rest(c, NoChange, {"answer", "made"})
  BY <1>1, <1>7, AnswersIs
<1>9. /\ call'[c].answer.id = said.id /\ call'[c].answer.group = said.group /\ call'[c].answer.refused = said.refused
      /\ call'[c].answer.error = None
  <2>1. DOMAIN [error |-> None] = {"error"} /\ [error |-> None].error = None
    OBVIOUS
  <2> QED
    BY <1>5, <1>8, <2>1, PlusIs
<1>10. call'[c].pc = "asked" /\ call'[c].told = call[c].told /\ call'[c].node = call[c].node /\ call'[c].step = call[c].step
  BY <1>2, <1>8, FieldsAre DEF Rest
<1>11. call[c].step \in {"first", "set"} /\ Requests(c) /\ ~Unsupported(op) /\ DOMAIN call[c].made = {}
  <2>1. call[c].step \in {"first", "set", "meta", "code"}
    BY <1>1, <1>2, KindsApart, GroupsApart DEF Protocol, Asks, Singles, Uploading, Uploads, Mutations, OfBusiness, Catalogs
  <2>2. Requests(c) /\ ~Unsupported(op)
    BY <1>2 DEF Tells
  <2>3. call[c].step \in {"first", "set"}
    BY <1>2, <2>1, <2>2 DEF Requests
  <2> QED
    BY <1>2, <2>2, <2>3 DEF Tells, HasAnswer
<1>12. DOMAIN call'[c].made = DOMAIN done /\ \A x \in DOMAIN done : call'[c].made[x] = done[x]
  <2>1. DOMAIN call'[c].made = DOMAIN done \cup DOMAIN call[c].made
    BY <1>8, PlusDomain
  <2>2. \A x \in DOMAIN done : call'[c].made[x] = done[x]
    BY <1>8, PlusIs
  <2> QED
    BY <1>11, <2>1, <2>2
<1>13. Took(parse_participant_update(call'[c].answer)) = took
  BY <1>4, <1>9, TookIs
<1>14. done = IF child.tag = "invite" /\ "code" \in DOMAIN child /\ call'[c].answer.id = None THEN NoChange ELSE Change(child, took)
  <2>1. call'[c].answer.id = None <=> ~described
    BY <1>2, <1>4, <1>9
  <2> QED
    BY <1>6, <2>1
<1>15. ASSUME call[c].step = "first" PROVE op.do \notin Readers
  BY <1>2, <1>11, <1>15, ReadersAsk DEF Requests
<1>16. ASSUME call[c].step = "first", op.do \in {"create", "c_create", "c_create_group"}
       PROVE  parse_group_metadata(call'[c].answer) = None \/ call'[c].answer.group.subject = op.subject
  <2>1. node = group_query_node(GroupServer, "set", [tag |-> "create", subject |-> op.subject])
    BY <1>11, <1>16 DEF Requests, FirstNode, group_node, community_node, GroupDo
  <2>2. node.to = GroupServer /\ child.tag = "create" /\ child.subject = op.subject
    BY <2>1 DEF group_query_node
  <2>3. j = Spare
    BY <2>2 DEF Target
  <2>4. "subject" \in DOMAIN groups[j]
    BY <2>3, AskingAssumption DEF GroupsInv
  <2>5. ~pending(described)
    BY <2>2
  <2>6. Changed(groups[j], child, took).subject = op.subject
    <3> DEFINE told == Change(child, took)
               kept == Granted(groups[j], child, took)
    <3>1. told = [subject |-> child.subject, joined |-> TRUE]
      BY <2>2, ChangeIs
    <3>2. kept = groups[j]
      BY <2>2 DEF Granted
    <3>3. Changed(groups[j], child, took) = [f \in DOMAIN kept |-> IF f \in DOMAIN told THEN told[f] ELSE kept[f]]
      BY DEF Changed
    <3>4. "subject" \in DOMAIN told /\ told.subject = op.subject
      BY <2>2, <3>1
    <3> HIDE DEF told, kept, op, j, child
    <3> QED
      BY <2>4, <3>2, <3>3, <3>4
  <2>7. CASE described
    BY <1>4, <1>9, <2>5, <2>6, <2>7
  <2>8. CASE ~described
    BY <1>4, <1>9, <2>8 DEF parse_group_metadata
  <2> QED
    BY <2>7, <2>8
<1>17. ASSUME call[c].step = "first"
       PROVE  Lacks(op, call'[c].answer) \/ Agrees(op, EventOf(op, call'[c].answer), done)
  <2>1. node = FirstNode(op)
    BY <1>11, <1>17 DEF Requests
  <2> HIDE DEF op, j, child, pending, after
  <2>2. CASE op.do \in GroupDo
    <3>1. node = group_node(op) /\ EventOf(op, call'[c].answer) = group_event(op, call'[c].answer)
      BY <2>1, <2>2 DEF FirstNode, EventOf
    <3> QED
      BY <1>2, <1>11, <1>13, <1>14, <1>16, <1>17, <2>2, <3>1, GroupTold DEF child, op
  <2>3. CASE op.do \notin GroupDo
    <3>1. node = community_node(op) /\ EventOf(op, call'[c].answer) = community_event(op, call'[c].answer) /\ op.do \in CommunityDo
      BY <2>1, <2>3 DEF FirstNode, EventOf, OfGroups, op
    <3> QED
      BY <1>2, <1>13, <1>14, <1>16, <1>17, <3>1, CommunityTold DEF child, op
  <2> QED
    BY <2>2, <2>3
<1>18. ASSUME call[c].step = "set" PROVE Agrees(op, EventOf(op, call'[c].answer), done)
  <2>1. op.do \in {"description", "c_description"}
    BY <1>1, <1>2, <1>18, KindsApart, GroupsApart DEF Protocol, Asks, Singles, Uploading, Uploads, Mutations
  <2>2. PICK id : node = group_update_description_node(op.jid, op.description, id)
    BY <1>11, <1>18 DEF Requests
  <2>3. child = [tag |-> "description", body |-> op.description, prev |-> id]
    BY <2>2 DEF group_update_description_node, group_query_node
  <2>4. child.tag = "description" /\ child.body = op.description
    BY <2>3
  <2>5. done = [desc |-> op.description]
    BY <1>14, <2>4, ChangeIs
  <2>6. EventOf(op, call'[c].answer) = [desc |-> op.description]
    BY <2>1 DEF EventOf, group_event, community_event, GroupDo
  <2> QED
    BY <2>5, <2>6, AgreeingIs
<1>19. \A told : Agrees(op, told, done) => Agrees(op, told, call'[c].made)
  BY <1>12, AgreesWith
<1>20. HasAnswer(c)'
  <2>1. call'[c].answer # None
    BY <1>8 DEF NoAnswer
  <2> QED
    BY <1>9, <2>1 DEF HasAnswer
<1> QED
  BY <1>2, <1>9, <1>10, <1>11, <1>15, <1>17, <1>18, <1>19, <1>20

\* A call that has done nothing tells nothing.
LEMMA NothingAgrees == \A op, told, made : DOMAIN told = {} /\ DOMAIN made = {} => Agrees(op, told, made)
BY DEF Agrees

\* Every step of a call about a group.
LEMMA GroupTells ==
  ASSUME NoAnswer, BaseInv, GroupsInv, NEW c \in Callers, Tells(c), plan.does[c] # None, plan.does[c].do \in OfGroups, GroupStep(c), plan' = plan,
         ProtocolNext(c)
  PROVE  Tells(c)'
<1> DEFINE op == plan.does[c]
<1>1. Shape /\ plan \in Plans /\ Protocol(c) /\ plan'.does[c] = op
  BY DEF BaseInv
<1>2. \A why : Ends(c, why, NoChange) =>
        /\ call'[c].pc = "done" /\ call'[c].result = why /\ call'[c].told = call[c].told /\ call'[c].made = call[c].made
  BY <1>1, EndsIs, FieldsAre DEF Rest
<1>3. \A why : Ends(c, why, NoChange) /\ why # "ok" => Tells(c)'
  BY <1>1, <1>2 DEF Tells
<1>4. ASSUME Ends(c, "ok", NoChange), call[c].pc # "done", DOMAIN call[c].made = {} PROVE Tells(c)'
  <2>1. call'[c].pc = "done" /\ DOMAIN call'[c].told = {} /\ DOMAIN call'[c].made = {}
    BY <1>2, <1>4 DEF Tells
  <2> QED
    BY <1>1, <2>1, NothingAgrees DEF Tells
<1>5. ASSUME NEW step \in {"meta", "code"}, NEW x, NEW fields, Fresh(fields), "told" \notin DOMAIN fields,
             Ask(c, group_query_node(op.jid, "get", x), step, fields), call[c].pc # "done", ~Unsupported(op), Inviting(c)'
      PROVE  Tells(c)'
  <2>1. /\ call'[c].pc = "asked" /\ call'[c].node = group_query_node(op.jid, "get", x) /\ call'[c].step = step
        /\ call'[c].told = call[c].told
    BY <1>1, <1>5, AskIs, FieldsAre DEF Fresh, Rest
  <2>2. call'[c].node.type = "get"
    BY <2>1 DEF group_query_node
  <2> QED
    BY <1>1, <1>5, <2>1, <2>2 DEF Tells, Requests
<1>6. CASE BeginGroup(c)
  <2>1. call[c].pc = "idle"
    BY <1>6 DEF BeginGroup, Begins
  <2>2. CASE Ends(c, "ValueError", NoChange)
    BY <1>3, <2>2
  <2>3. CASE ~Unsupported(op) /\ Ask(c, FirstNode(op), "first", NoChange)
    <3>1. /\ call'[c].pc = "asked" /\ call'[c].node = FirstNode(op) /\ call'[c].step = "first" /\ call'[c].answer = None
          /\ call'[c].told = call[c].told /\ call'[c].made = call[c].made
      BY <1>1, <2>3, AskIs, FieldsAre DEF Rest
    <3>2. DOMAIN call'[c].told = {} /\ DOMAIN call'[c].made = {}
      BY <2>1, <3>1 DEF Tells
    <3> QED
      BY <1>1, <2>3, <3>1, <3>2 DEF Tells, Requests, HasAnswer
  <2> QED
    BY <1>6, <2>2, <2>3 DEF BeginGroup, FirstNode
<1>7. CASE ReadGroup(c)
  <2>1. call[c].pc = "asked" /\ call[c].answer = None /\ call[c].node.type = "get"
    BY <1>7 DEF ReadGroup, Waiting
  <2>2. PICK answer : Answers(c, answer, NoChange)
    BY <1>7 DEF ReadGroup
  <2>3. call'[c].made = NoChange ++ call[c].made /\ Rest(c, NoChange, {"answer", "made"})
    BY <1>1, <2>2, AnswersIs
  <2>4. DOMAIN call'[c].made = DOMAIN call[c].made /\ \A x \in DOMAIN call[c].made : call'[c].made[x] = call[c].made[x]
    <3>1. DOMAIN NoChange = {}
      BY FieldsAre
    <3>2. DOMAIN call'[c].made = DOMAIN NoChange \cup DOMAIN call[c].made
      BY <2>3, PlusDomain
    <3>3. \A x \in DOMAIN call[c].made : call'[c].made[x] = IF x \in DOMAIN NoChange THEN NoChange[x] ELSE call[c].made[x]
      BY <2>3, PlusIs
    <3> QED
      BY <3>1, <3>2, <3>3
  <2>5. /\ call'[c].pc = "asked" /\ call'[c].step = call[c].step /\ call'[c].node = call[c].node /\ call'[c].todo = call[c].todo
        /\ call'[c].told = call[c].told
    BY <2>1, <2>3, FieldsAre DEF Rest
  <2>6. Requests(c) /\ ~Unsupported(op) /\ ~HasAnswer(c)
    BY <2>1 DEF Tells, HasAnswer
  <2>7. Requests(c)'
    BY <1>1, <2>5, <2>6 DEF Requests
  <2>8. Inviting(c) => Inviting(c)'
    BY <1>1, <2>4, <2>5 DEF Inviting, Invited
  <2>9. ASSUME call[c].step = "first", op.do \notin Readers PROVE Agrees(op, EventOf(op, call'[c].answer), call'[c].made)
    <3>1. FirstNode(op).type = "get"
      BY <2>1, <2>6, <2>9 DEF Requests
    <3>2. EventOf(op, call'[c].answer) = << >>
      BY <2>9, <3>1, QuestionTold
    <3>3. DOMAIN call'[c].made = {}
      BY <2>1, <2>4, <2>6, <2>9 DEF Tells
    <3>4. DOMAIN << >> = {}
      OBVIOUS
    <3> QED
      BY <3>2, <3>3, <3>4, NothingAgrees
  <2>10. call[c].step # "set"
    <3>1. \A id : group_update_description_node(op.jid, op.description, id).type = "set"
      BY DEF group_update_description_node, group_query_node
    <3> QED
      BY <2>1, <2>6, <3>1 DEF Requests
  <2>11. call[c].step = "first" => DOMAIN call'[c].made = {}
    BY <2>1, <2>4, <2>6 DEF Tells
  <2>12. call[c].step \in {"meta", "code"} => Inviting(c)
    BY <2>1 DEF Tells
  <2>13. DOMAIN call'[c].told = {}
    BY <2>1, <2>5 DEF Tells
  <2> HIDE DEF op
  <2> QED
    BY <1>1, <2>5, <2>6, <2>7, <2>8, <2>9, <2>10, <2>11, <2>12, <2>13 DEF Tells
<1>8. CASE ChangeGroup(c)
  <2>1. /\ call[c].pc = "asked" /\ call'[c].pc = "asked" /\ call[c].step \in {"first", "set"} /\ call'[c].told = call[c].told
        /\ call'[c].node = call[c].node /\ call'[c].step = call[c].step
        /\ call[c].step = "first" => /\ op.do \notin Readers
                                     /\ \/ Lacks(op, call'[c].answer)
                                        \/ Agrees(op, EventOf(op, call'[c].answer), call'[c].made)
        /\ call[c].step = "set" => Agrees(op, EventOf(op, call'[c].answer), call'[c].made)
        /\ HasAnswer(c)'
    BY <1>8, ChangeAgrees
  <2>2. Requests(c) /\ ~Unsupported(op) /\ DOMAIN call[c].told = {}
    BY <2>1 DEF Tells
  <2>3. Requests(c)'
    BY <1>1, <2>1, <2>2 DEF Requests
  <2> HIDE DEF op
  <2> QED
    BY <1>1, <2>1, <2>2, <2>3 DEF Tells
<1>9. CASE GroupRead(c)
  <2> DEFINE metadata == parse_group_metadata(call[c].answer)
  <2>1. /\ call[c].pc = "asked" /\ HasAnswer(c)
        /\ (call[c].step = "first" /\ op.do \in Readers) \/ call[c].step = "meta"
    BY <1>9 DEF GroupRead, Granting, Answered, HasAnswer, Readers
  <2>2. ~Unsupported(op) /\ DOMAIN call[c].told = {} /\ (call[c].step = "first" => DOMAIN call[c].made = {}) /\ (call[c].step = "meta" => Inviting(c))
    BY <2>1 DEF Tells
  <2>3. call[c].step = "meta" => op.do = "or_invite"
    BY <1>1, <2>1, KindsApart, GroupsApart DEF Protocol, Asks, Singles, Uploading, Uploads, Mutations, OfBusiness, Catalogs
  <2>4. \/ Ends(c, "ValueError", NoChange) \/ Ends(c, "AttributeError", NoChange)
        \/ Ends(c, "ok", NoChange) /\ op.do # "or_invite"
        \/ /\ op.do \in {"description", "c_description"}
           /\ Ask(c, group_update_description_node(op.jid, op.description, metadata.desc_id), "set", NoChange)
        \/ /\ op.do \in {"invite", "or_invite"}
           /\ Ask(c, group_query_node(op.jid, "get", [tag |-> "invite"]), "code", NoChange)
    BY <1>9 DEF GroupRead
  <2> HIDE DEF metadata
  <2>5. CASE Ends(c, "ok", NoChange) /\ op.do # "or_invite"
    BY <1>4, <2>1, <2>2, <2>3, <2>5
  <2>6. CASE /\ op.do \in {"description", "c_description"}
             /\ Ask(c, group_update_description_node(op.jid, op.description, metadata.desc_id), "set", NoChange)
    <3>1. /\ call'[c].pc = "asked" /\ call'[c].step = "set" /\ call'[c].answer = None
          /\ call'[c].node = group_update_description_node(op.jid, op.description, metadata.desc_id)
          /\ call'[c].told = call[c].told /\ call'[c].made = call[c].made
      BY <1>1, <2>6, AskIs, FieldsAre DEF Rest
    <3> QED
      BY <1>1, <2>1, <2>2, <2>3, <2>6, <3>1 DEF Tells, Requests, HasAnswer
  <2>7. CASE /\ op.do \in {"invite", "or_invite"}
             /\ Ask(c, group_query_node(op.jid, "get", [tag |-> "invite"]), "code", NoChange)
    <3>1. call'[c].todo = call[c].todo /\ call'[c].made = call[c].made
      BY <1>1, <2>7, AskIs, FieldsAre DEF Rest
    <3>2. op.do = "or_invite" => call[c].step = "meta"
      BY <2>1 DEF Readers
    <3>3. Inviting(c)
      BY <2>1, <2>2, <2>3, <2>7, <3>2 DEF Inviting
    <3>4. Inviting(c)'
      BY <1>1, <3>1, <3>3 DEF Inviting, Invited
    <3>5. Fresh(NoChange) /\ "told" \notin DOMAIN NoChange
      BY FreshAre, FieldsAre
    <3> QED
      BY <1>5, <2>1, <2>2, <2>7, <3>4, <3>5
  <2> QED
    BY <1>3, <2>4, <2>5, <2>6, <2>7
<1>10. CASE GroupCode(c)
  <2>1. call[c].pc = "asked" /\ HasAnswer(c) /\ call[c].step = "code"
    BY <1>10 DEF GroupCode, Granting, Answered, HasAnswer
  <2>2. Inviting(c) /\ DOMAIN call[c].told = {} /\ ~Unsupported(op)
    BY <2>1 DEF Tells
  <2>3. CASE Set(c, [pc |-> "send", node |-> None, answer |-> None])
    <3> DEFINE fields == [pc |-> "send", node |-> None, answer |-> None]
    <3>1. DOMAIN fields = {"pc", "node", "answer"} /\ fields.pc = "send"
      OBVIOUS
    <3> HIDE DEF fields
    <3>2. call'[c].pc = "send" /\ call'[c].told = call[c].told /\ call'[c].made = call[c].made /\ call'[c].todo = call[c].todo
      BY <1>1, <2>3, <3>1, SetIs, FieldsAre DEF Rest, fields
    <3>3. Inviting(c)'
      BY <1>1, <2>2, <3>2 DEF Inviting, Invited
    <3> QED
      BY <1>1, <2>2, <3>2, <3>3 DEF Tells
  <2> QED
    BY <1>3, <1>10, <2>3 DEF GroupCode
<1>11. CASE GroupEnds(c)
  <2> DEFINE told == EventOf(op, call[c].answer)
  <2>1. /\ call[c].pc = "asked" /\ HasAnswer(c) /\ call[c].step \in {"first", "set"}
        /\ call[c].step = "first" => op.do \notin Readers
    BY <1>11 DEF GroupEnds, Granting, Answered, HasAnswer, Readers
  <2>2. \/ Ends(c, "ValueError", NoChange)
        \/ ~(call[c].step = "first" /\ Lacks(op, call[c].answer)) /\ Ends(c, "ok", [told |-> told])
    BY <1>11 DEF GroupEnds, Lacks, EventOf
  <2>3. CASE ~(call[c].step = "first" /\ Lacks(op, call[c].answer)) /\ Ends(c, "ok", [told |-> told])
    <3>1. Agrees(op, told, call[c].made)
      BY <2>1, <2>3 DEF Tells
    <3>2. DOMAIN [told |-> told] = {"told"} /\ [told |-> told].told = told
      OBVIOUS
    <3> HIDE DEF told
    <3>3. call'[c].pc = "done" /\ call'[c].told = told /\ call'[c].made = call[c].made
      BY <1>1, <2>3, <3>2, EndsIs, FieldsAre DEF Rest
    <3> QED
      BY <1>1, <3>1, <3>3 DEF Tells
  <2> QED
    BY <1>3, <2>2, <2>3
<1>12. CASE GroupRefused(c)
  <2>1. call[c].pc = "asked" /\ ~HasAnswer(c)
    BY <1>12 DEF GroupRefused, Refused, Answered, HasAnswer
  <2>2. \/ Ends(c, "IQError", NoChange)
        \/ op.do = "or_invite" /\ call[c].step = "first" /\ Ends(c, "ok", [told |-> [invited |-> {}], made |-> [invited |-> {}]])
        \/ /\ op.do = "or_invite" /\ call[c].step = "first" /\ op.participants # << >>
           /\ Ask(c, group_query_node(op.jid, "get", [tag |-> "query"]), "meta", [todo |-> op.participants])
    BY <1>12 DEF GroupRefused
  <2>3. CASE Ends(c, "ok", [told |-> [invited |-> {}], made |-> [invited |-> {}]])
    <3> DEFINE none == [invited |-> {}]
               fields == [told |-> none, made |-> none]
    <3>1. DOMAIN fields = {"told", "made"} /\ fields.told = none /\ fields.made = none
      OBVIOUS
    <3> HIDE DEF fields, none
    <3>4. Ends(c, "ok", fields)
      BY <2>3 DEF fields, none
    <3>2. call'[c].pc = "done" /\ call'[c].told = none /\ call'[c].made = none
      BY <1>1, <3>1, <3>4, EndsIs, FieldsAre DEF Rest
    <3>3. Agrees(op, none, none)
      BY AgreeingIs
    <3> HIDE DEF op
    <3> QED
      BY <1>1, <3>2, <3>3 DEF Tells
  <2>4. CASE /\ op.do = "or_invite" /\ call[c].step = "first" /\ op.participants # << >>
             /\ Ask(c, group_query_node(op.jid, "get", [tag |-> "query"]), "meta", [todo |-> op.participants])
    <3> DEFINE fields == [todo |-> op.participants]
    <3>1. DOMAIN fields = {"todo"} /\ fields.todo = op.participants
      OBVIOUS
    <3> HIDE DEF fields
    <3>2. Ask(c, group_query_node(op.jid, "get", [tag |-> "query"]), "meta", fields)
      BY <2>4 DEF fields
    <3>3. call'[c].todo = op.participants /\ call'[c].made = call[c].made
      BY <1>1, <3>1, <3>2, AskIs, FieldsAre DEF Rest
    <3>4. DOMAIN call[c].made = {} /\ ~Unsupported(op)
      BY <2>1, <2>4 DEF Tells
    <3>5. op.participants \in Seq(Numbers)
      BY <1>1, <2>4, PlansAssumption DEF Asked, NamesMembers
    <3>6. ToSet(op.participants) = Members(op)
      BY DEF ToSet, Members
    <3>7. Inviting(c)'
      BY <1>1, <2>4, <3>3, <3>4, <3>5, <3>6 DEF Inviting, Invited
    <3>8. Fresh(fields) /\ "told" \notin DOMAIN fields
      BY <3>1 DEF Fresh
    <3> QED
      BY <1>5, <2>1, <3>2, <3>4, <3>7, <3>8
  <2> QED
    BY <1>3, <2>2, <2>3, <2>4
<1>13. CASE InviteSent(c)
  <2> DEFINE sent == {Head(call[c].todo)} \cup Invited(c)
             made == [invited |-> sent] ++ call[c].made
             done == [made |-> made]
             told == [invited |-> Members(op)]
             last == [told |-> told] ++ done
             next == [todo |-> Tail(call[c].todo)] ++ done
  <2>1. call[c].pc = "send" /\ op.do \in {"invite", "or_invite"}
    BY <1>13 DEF InviteSent
  <2>2. Inviting(c) /\ DOMAIN call[c].told = {}
    BY <2>1 DEF Tells
  <2>3. CASE op.do = "invite"
    <3>1. Ends(c, "ok", NoChange)
      BY <1>13, <2>3 DEF InviteSent
    <3> QED
      BY <1>4, <2>1, <2>2, <2>3, <3>1 DEF Inviting
  <2>4. CASE op.do = "or_invite"
    <3>1. \/ Len(call[c].todo) = 1 /\ Ends(c, "ok", last)
          \/ Len(call[c].todo) # 1 /\ Ask(c, group_query_node(op.jid, "get", [tag |-> "query"]), "meta", next)
      BY <1>13, <2>4 DEF InviteSent, Invited
    <3>2. /\ DOMAIN call[c].made \subseteq {"invited"} /\ call[c].todo \in Seq(Numbers) /\ call[c].todo # << >>
          /\ Invited(c) \cup ToSet(call[c].todo) = Members(op)
      BY <2>2, <2>4 DEF Inviting
    <3>3. DOMAIN [invited |-> sent] = {"invited"} /\ [invited |-> sent].invited = sent
      OBVIOUS
    <3>4. DOMAIN told = {"invited"} /\ told.invited = Members(op)
      OBVIOUS
    <3> HIDE DEF sent, told
    <3>5. DOMAIN made = {"invited"} /\ made.invited = sent
      <4> DEFINE one == [invited |-> sent]
      <4> HIDE DEF one
      <4>1. DOMAIN one = {"invited"} /\ one.invited = sent
        BY <3>3 DEF one
      <4>2. made = one ++ call[c].made
        BY DEF one
      <4> HIDE DEF made
      <4>3. DOMAIN made = DOMAIN one \cup DOMAIN call[c].made
        BY <4>2, PlusDomain
      <4>4. made["invited"] = one["invited"]
        BY <4>1, <4>2, PlusIs
      <4> QED
        BY <3>2, <4>1, <4>3, <4>4
    <3> HIDE DEF made
    <3>6. DOMAIN done = {"made"} /\ done.made = made /\ DOMAIN [told |-> told] = {"told"} /\ [told |-> told].told = told
          /\ DOMAIN [todo |-> Tail(call[c].todo)] = {"todo"} /\ [todo |-> Tail(call[c].todo)].todo = Tail(call[c].todo)
      OBVIOUS
    <3> HIDE DEF done
    <3>7. DOMAIN last = {"told", "made"} /\ last.told = told /\ last.made = made
      <4> DEFINE one == [told |-> told]
      <4> HIDE DEF one
      <4>1. DOMAIN one = {"told"} /\ one.told = told /\ last = one ++ done
        BY <3>6 DEF one
      <4> HIDE DEF last
      <4>2. DOMAIN last = DOMAIN one \cup DOMAIN done
        BY <4>1, PlusDomain
      <4>3. last["told"] = one["told"]
        BY <4>1, PlusIs
      <4>4. last["made"] = done["made"]
        BY <3>6, <4>1, PlusIs
      <4> QED
        BY <3>6, <4>1, <4>2, <4>3, <4>4
    <3>8. DOMAIN next = {"todo", "made"} /\ next.todo = Tail(call[c].todo) /\ next.made = made
      <4> DEFINE one == [todo |-> Tail(call[c].todo)]
      <4> HIDE DEF one
      <4>1. DOMAIN one = {"todo"} /\ one.todo = Tail(call[c].todo) /\ next = one ++ done
        BY <3>6 DEF one
      <4> HIDE DEF next
      <4>2. DOMAIN next = DOMAIN one \cup DOMAIN done
        BY <4>1, PlusDomain
      <4>3. next["todo"] = one["todo"]
        BY <4>1, PlusIs
      <4>4. next["made"] = done["made"]
        BY <3>6, <4>1, PlusIs
      <4> QED
        BY <3>6, <4>1, <4>2, <4>3, <4>4
    <3> HIDE DEF last, next
    <3>9. ToSet(call[c].todo) = {Head(call[c].todo)} \cup ToSet(Tail(call[c].todo)) /\ Tail(call[c].todo) \in Seq(Numbers)
          /\ (Len(call[c].todo) = 1 <=> Tail(call[c].todo) = << >>)
      <4> DEFINE s == call[c].todo
      <4>1. s \in Seq(Numbers) /\ s # << >>
        BY <3>2
      <4> HIDE DEF s
      <4>2. DOMAIN s = 1 .. Len(s) /\ Len(s) \in Nat /\ Len(s) # 0 /\ Tail(s) \in Seq(Numbers) /\ Len(Tail(s)) = Len(s) - 1
            /\ Head(s) = s[1] /\ DOMAIN Tail(s) = 1 .. (Len(s) - 1) /\ \A i \in 1 .. (Len(s) - 1) : Tail(s)[i] = s[i + 1]
        BY <4>1
      <4>3. ToSet(s) = {s[i] : i \in 1 .. Len(s)} /\ ToSet(Tail(s)) = {Tail(s)[i] : i \in 1 .. (Len(s) - 1)}
        BY <4>2 DEF ToSet
      <4>4. ToSet(s) \subseteq {Head(s)} \cup ToSet(Tail(s))
        <5>1. ASSUME NEW i \in 1 .. Len(s) PROVE s[i] \in {Head(s)} \cup ToSet(Tail(s))
          <6>1. CASE i = 1
            BY <4>2, <6>1
          <6>2. CASE i # 1
            <7>1. i - 1 \in 1 .. (Len(s) - 1) /\ (i - 1) + 1 = i
              BY <4>2, <6>2
            <7> QED
              BY <4>2, <4>3, <7>1
          <6> QED
            BY <6>1, <6>2
        <5> QED
          BY <4>3, <5>1
      <4>5. {Head(s)} \cup ToSet(Tail(s)) \subseteq ToSet(s)
        <5>1. \A i \in 1 .. (Len(s) - 1) : i + 1 \in 1 .. Len(s)
          BY <4>2
        <5>2. 1 \in 1 .. Len(s)
          BY <4>2
        <5> QED
          BY <4>2, <4>3, <5>1, <5>2
      <4>6. Len(s) = 1 <=> Tail(s) = << >>
        <5> DEFINE t == Tail(s)
        <5> HIDE DEF t
        <5>1. t \in Seq(Numbers) /\ Len(t) = Len(s) - 1
          BY <4>2 DEF t
        <5>2. Len(t) = 0 <=> t = << >>
          BY <5>1, EmptySeq
        <5>3. Len(s) = 1 <=> Len(t) = 0
          BY <4>2, <5>1
        <5> QED
          BY <5>2, <5>3 DEF t
      <4> QED
        BY <4>2, <4>4, <4>5, <4>6 DEF s
    <3>10. sent \cup ToSet(Tail(call[c].todo)) = Members(op)
      BY <3>2, <3>9 DEF sent
    <3>11. CASE Len(call[c].todo) = 1 /\ Ends(c, "ok", last)
      <4>1. call'[c].pc = "done" /\ call'[c].told = told /\ call'[c].made = made
        BY <1>1, <3>7, <3>11, EndsIs, FieldsAre DEF Rest
      <4>2. ToSet(<< >>) = {}
        BY DEF ToSet
      <4>3. sent = Members(op)
        BY <3>9, <3>10, <3>11, <4>2
      <4>4. Agrees(op, told, made)
        BY <3>4, <3>5, <4>3 DEF Agrees
      <4> QED
        BY <1>1, <4>1, <4>4 DEF Tells
    <3>12. CASE Len(call[c].todo) # 1 /\ Ask(c, group_query_node(op.jid, "get", [tag |-> "query"]), "meta", next)
      <4>5. Rest(c, next, {"pc", "node", "answer", "step", "due"})
        BY <1>1, <3>12, AskIs
      <4>1. call'[c].todo = Tail(call[c].todo) /\ call'[c].made = made
        BY <3>8, <4>5, FieldsAre DEF Rest
      <4>2. Inviting(c)'
        BY <1>1, <2>4, <3>5, <3>9, <3>10, <3>12, <4>1 DEF Inviting, Invited
      <4>3. Fresh(next) /\ "told" \notin DOMAIN next
        BY <3>8 DEF Fresh
      <4>4. ~Unsupported(op)
        BY <2>1 DEF Tells
      <4> QED
        BY <1>5, <2>1, <3>12, <4>2, <4>3, <4>4
    <3> QED
      BY <3>1, <3>11, <3>12
  <2> QED
    BY <2>1, <2>3, <2>4
<1>14. CASE InviteFails(c)
  BY <1>3, <1>14 DEF InviteFails
<1>15. CASE Refuse(c)
  <2>1. /\ call[c].pc = "asked" /\ ~HasAnswer(c)' /\ ~HasAnswer(c)
        /\ call'[c].pc = "asked" /\ call'[c].step = call[c].step /\ call'[c].node = call[c].node /\ call'[c].told = call[c].told
        /\ call'[c].made = call[c].made /\ call'[c].todo = call[c].todo
    BY <1>1, <1>15, RefuseIs, FieldsAre DEF Refuse, HasAnswer
  <2>2. Requests(c) => Requests(c)'
    BY <1>1, <2>1 DEF Requests
  <2>3. Inviting(c) => Inviting(c)'
    BY <1>1, <2>1 DEF Inviting, Invited
  <2> QED
    BY <1>1, <2>1, <2>2, <2>3 DEF Tells
<1>16. CASE QueryLate(c)
  <2>1. op.do \notin {"exists", "product"}
    BY KindsApart, GroupsApart DEF Singles, Uploading, Uploads, Mutations
  <2>2. Ends(c, "TimeoutError", [cut |-> TRUE])
    BY <1>16, <2>1 DEF QueryLate
  <2>3. DOMAIN [cut |-> TRUE] = {"cut"}
    OBVIOUS
  <2>4. call'[c].pc = "done" /\ call'[c].result = "TimeoutError"
    BY <1>1, <2>2, <2>3, EndsIs
  <2> QED
    BY <1>1, <2>4 DEF Tells
<1> QED
  BY <1>6, <1>7, <1>8, <1>9, <1>10, <1>11, <1>12, <1>13, <1>14, <1>15, <1>16 DEF GroupStep

\* A call that is as it was still tells the truth.
LEMMA TellsSame == ASSUME NEW c \in Callers, Tells(c), call'[c] = call[c], plan' = plan PROVE Tells(c)'
BY DEF Tells, Requests, Inviting, Invited, HasAnswer

\* A call that a crash ended, or that is not about a group, has nothing to tell.
LEMMA TellsNothing ==
  ASSUME NEW c \in Callers, plan' = plan,
         \/ plan.does[c] = None \/ plan.does[c].do \notin OfGroups
         \/ call'[c].pc = "done" /\ call'[c].result # "ok"
  PROVE  Tells(c)'
BY DEF Tells

\* Every step keeps it.
LEMMA TellsStay == ASSUME NoAnswer, BaseInv, TellInv, [Next]_vars PROVE TellInv'
<1>1. ASSUME NEW c \in Callers, Starts(c) \/ Serves(c) \/ Resumes(c) PROVE TellInv'
  <2>1. Others(c) /\ plan' = plan /\ OfItsKind(c) /\ Frame(c) /\ ProtocolNext(c)
    BY <1>1, StepIs DEF Steady, fixed
  <2>2. GroupsInv'
    BY <2>1, FieldsStay DEF TellInv
  <2>3. Tells(c)'
    <3>1. CASE plan.does[c] # None /\ plan.does[c].do \in OfGroups
      <4>1. GroupStep(c)
        BY <2>1, <3>1, KindIs
      <4> QED
        BY <2>1, <3>1, <4>1, GroupTells DEF TellInv
    <3>2. CASE ~(plan.does[c] # None /\ plan.does[c].do \in OfGroups)
      BY <2>1, <3>2, TellsNothing
    <3> QED
      BY <3>1, <3>2
  <2>4. \A d \in Callers : d # c => Tells(d)'
    BY <2>1, TellsSame DEF TellInv, Others
  <2> QED
    BY <2>2, <2>3, <2>4 DEF TellInv
<1>2. CASE MediaRetried
  <2>1. plan' = plan /\ groups' = groups
    BY <1>2, RetriedIs DEF BaseInv, fixed, server
  <2>2. ASSUME NEW c \in Callers, plan.does[c] # None, plan.does[c].do \in OfGroups PROVE call'[c] = call[c]
    <3>1. call[c].pc # "media"
      BY <2>2 DEF BaseInv, Protocol, Placed, Uploads, Mutations, OfGroups, GroupDo, CommunityDo
    <3> QED
      BY <1>2, <3>1, RetriedIs DEF BaseInv
  <2> QED
    BY <2>1, <2>2, TellsSame, TellsNothing DEF TellInv, GroupsInv
<1>3. CASE Crash
  <2>1. plan' = plan /\ groups' = groups
    BY <1>3, CrashIs DEF BaseInv, fixed, Crash, server
  <2>2. LET k == [Idle EXCEPT !.pc = "done", !.result = "crash"] IN k.result = "crash" /\ k.pc = "done"
    BY DEF Idle
  <2>3. ASSUME NEW c \in Callers PROVE Tells(c)'
    <3>1. call'[c] = call[c] \/ (call'[c].pc = "done" /\ call'[c].result = "crash")
      BY <1>3, <2>2, CrashIs DEF BaseInv
    <3> QED
      BY <2>1, <3>1, TellsSame, TellsNothing DEF TellInv
  <2> QED
    BY <2>1, <2>3 DEF TellInv, GroupsInv
<1>4. CASE Tick \/ Move \/ UNCHANGED vars
  <2>1. plan' = plan /\ groups' = groups /\ call' = call
    BY <1>4 DEF Tick, Move, vars, fixed, server
  <2> QED
    BY <2>1, TellsSame DEF TellInv, GroupsInv
<1>5. QED
  BY <1>1, <1>2, <1>3, <1>4 DEF Next

\* What the events of a call say happened to a group, the server did for that call; and a call that
\* returns has told everything the server did for it.
THEOREM EventsToldRight == ASSUME NoAnswer PROVE Spec => []EventsTell
<1>1. Init => TellInv
  <2> SUFFICES ASSUME Init PROVE TellInv
    OBVIOUS
  <2>1. GroupsInv
    BY DEF Init, AskingInit, GroupsInv
  <2>2. ASSUME NEW c \in Callers PROVE Tells(c)
    <3>1. DOMAIN Idle.told = {} /\ DOMAIN Idle.made = {} /\ Idle.pc = "idle"
      BY FieldsAre DEF Idle
    <3>2. call[c] = Idle
      BY DEF Init, AskingInit
    <3> QED
      BY <3>1, <3>2 DEF Tells
  <2> QED
    BY <2>1, <2>2 DEF TellInv
<1>2. TellInv => EventsTell
  BY DEF TellInv, Tells, EventsTell, Ended, Agrees, OfGroups
<1>3. BaseInv /\ TellInv /\ [Next]_vars => TellInv'
  BY TellsStay
<1> QED
  BY <1>1, <1>2, <1>3, BaseInvariant, PTL DEF Spec

-----------------------------------------------------------------------------
(* A product that was looked for.                                          *)

Edited == {plan.does[d].id : d \in {x \in Callers : plan.does[x] # None /\ plan.does[x].do = "product_update"}}
Own(c) == {i \in DOMAIN products : products[i].by = c}
Standing(c) == {i \in Own(c) \ Edited : ~products[i].gone}

\* A product has the name it was made with unless somebody edits it.
ProductsInv ==
  /\ \E S : products \in Seq(S)
  /\ \A i \in DOMAIN products :
       /\ {"name", "by", "gone"} \subseteq DOMAIN products[i] /\ products[i].gone \in BOOLEAN
       /\ \A c \in Callers : products[i].by = c =>
            /\ plan.does[c] # None /\ plan.does[c].do = "product"
            /\ i \notin Edited => products[i].name = plan.does[c].name

\* What a call that looks for its product reads of the catalog.
Lists(c, listed) ==
  Len(products) <= RecoverPage =>
    /\ IsFiniteSet(DOMAIN listed)
    /\ \A i \in Standing(c) : \E k \in DOMAIN listed : listed[k].id = i /\ listed[k].name = plan.does[c].name

\* A call about a product asks for what it was called with, and looks for it only once it has given up.
Looks(c) == call[c].pc = "asked" /\ call[c].step = "recover"
Shops(c) ==
  LET op == plan.does[c] IN
  /\ (op # None /\ op.do = "product_update" /\ call[c].pc = "asked" /\ call[c].step = "update") =>
       call[c].node = Query("product_edit", product_node(op.id, op))
  /\ (op # None /\ op.do = "product") =>
       /\ call[c].cut => call[c].pc = "done" \/ Looks(c)
       /\ call[c].pc = "asked" /\ call[c].step = "create" => call[c].node = Query("product_add", product_node(None, op))
       /\ Looks(c) => /\ call[c].node = Query("catalog", catalog_node(RecoverPage, None))
                      /\ (HasAnswer(c) /\ call[c].answer.catalog # None) => Lists(c, call[c].answer.catalog)
       /\ call[c].pc = "done" /\ call[c].result = "ok" /\ call[c].cut /\ Len(products) <= RecoverPage =>
            (Standing(c) # {} => call[c].got[1] \in Own(c))
ShopInv == ProductsInv /\ \A c \in Callers : Shops(c)

\* What is given of a product is its name and if it is hidden.
LEMMA GivenIs ==
  ASSUME NEW id, NEW op, NEW old
  PROVE  LET node == product_node(id, op)
             new == Given(node, {"name", "hidden"}) ++ old
         IN /\ node.id = id /\ DOMAIN old \subseteq DOMAIN new
            /\ \A f \in DOMAIN old \ {"name", "hidden"} : new[f] = old[f]
            /\ "name" \in DOMAIN op /\ op.name # None => new.name = op.name
            /\ "name" \in DOMAIN op /\ op.name = None /\ "name" \in DOMAIN old => new.name = old.name
<1> DEFINE origin == CASE "origin" \notin DOMAIN op -> "not said"
                       [] "origin" \in DOMAIN op /\ op.origin = None -> "exempt"
                       [] OTHER -> op.origin
           said == [id |-> id, images |-> op.images, origin |-> origin]
           given == Given(op, {"name", "hidden"})
           node == product_node(id, op)
           part == Given(node, {"name", "hidden"})
           new == part ++ old
<1>1. node = said ++ given
  BY DEF product_node
<1>2. DOMAIN said = {"id", "images", "origin"} /\ said.id = id
  OBVIOUS
<1> HIDE DEF said
<1>3. DOMAIN given = {g \in {"name", "hidden"} \cap DOMAIN op : op[g] # None} /\ \A f \in DOMAIN given : given[f] = op[f]
  BY Zenon DEF Given
<1> HIDE DEF given, node
<1>4. DOMAIN node = {"id", "images", "origin"} \cup DOMAIN given
  BY <1>1, <1>2, PlusDomain
<1>5. node["id"] = id /\ \A f \in DOMAIN given : node[f] = op[f]
  <2>1. node["id"] = said["id"]
    BY <1>1, <1>2, PlusIs
  <2>2. \A f \in DOMAIN given : f \notin DOMAIN said
    BY <1>2, <1>3
  <2>3. \A f \in DOMAIN given : node[f] = given[f]
    BY <1>1, <2>2, PlusIs
  <2> QED
    BY <1>2, <1>3, <2>1, <2>3
<1>6. DOMAIN part = {g \in {"name", "hidden"} \cap DOMAIN node : node[g] # None} /\ \A f \in DOMAIN part : part[f] = node[f]
  BY Zenon DEF Given
<1> HIDE DEF part
<1>7. DOMAIN part = DOMAIN given /\ \A f \in DOMAIN part : part[f] = op[f]
  BY <1>3, <1>4, <1>5, <1>6
<1>8. DOMAIN new = DOMAIN part \cup DOMAIN old
  BY PlusDomain
<1>9. /\ \A f \in DOMAIN part : new[f] = part[f]
      /\ \A f \in DOMAIN old : f \notin DOMAIN part => new[f] = old[f]
  BY PlusIs
<1> HIDE DEF new
<1>10. \A f \in DOMAIN old \ {"name", "hidden"} : new[f] = old[f]
  BY <1>3, <1>7, <1>9
<1>11. ASSUME "name" \in DOMAIN op, op.name # None PROVE new.name = op.name
  BY <1>3, <1>7, <1>9, <1>11
<1>12. ASSUME "name" \in DOMAIN op, op.name = None, "name" \in DOMAIN old PROVE new.name = old.name
  BY <1>3, <1>7, <1>9, <1>12
<1> QED
  BY <1>5, <1>8, <1>10, <1>11, <1>12 DEF node, new, part

\* The products only grow in number, are not somebody else's and do not come back.
Later(d) ==
  /\ Len(products)' <= RecoverPage => Len(products) <= RecoverPage
  /\ Standing(d)' \subseteq Standing(d) /\ Own(d) \subseteq Own(d)'

\* What the server does with the products is as they are.
LEMMA ServedIs ==
  ASSUME BaseInv, ShopInv, NEW c \in Callers, ServeProducts(c), plan' = plan
  PROVE  /\ ProductsInv' /\ \A d \in Callers : d # c => Later(d)
         /\ call[c].pc = "asked" /\ call[c].step \in {"create", "update", "delete"}
         /\ \A f \in Fields \ {"answer", "made"} : call'[c][f] = call[c][f]
<1> DEFINE node == call[c].node.child
           op == plan.does[c]
<1>1. Shape /\ plan \in Plans /\ Protocol(c) /\ Shops(c)
  BY DEF BaseInv, ShopInv
<1>2. \A what : Answers(c, what, NoChange) => \A f \in Fields \ {"answer", "made"} : call'[c][f] = call[c][f]
  BY <1>1, AnswersIs, FieldsAre DEF Rest
<1>3. PICK S : products \in Seq(S)
  BY DEF ShopInv, ProductsInv
<1>4. DOMAIN products = 1 .. Len(products) /\ Len(products) \in Nat
  BY <1>3
<1>5. Edited' = Edited
  BY DEF Edited
<1>6. \A i \in DOMAIN products :
        /\ {"name", "by", "gone"} \subseteq DOMAIN products[i] /\ products[i].gone \in BOOLEAN
        /\ \A d \in Callers : products[i].by = d =>
             /\ plan.does[d] # None /\ plan.does[d].do = "product"
             /\ i \notin Edited => products[i].name = plan.does[d].name
  BY DEF ShopInv, ProductsInv
<1>7. CASE /\ Waiting(c, "product_add")
           /\ products' = Append(products, Given(node, {"name", "hidden"}) ++ [name |-> None, hidden |-> None, by |-> c, gone |-> FALSE])
           /\ Answers(c, [product |-> Len(products) + 1], NoChange)
  <2> DEFINE old == [name |-> None, hidden |-> None, by |-> c, gone |-> FALSE]
             new == Given(node, {"name", "hidden"}) ++ old
  <2>1. call[c].pc = "asked" /\ op # None /\ op.do = "product" /\ call[c].step = "create"
    BY <1>1, <1>7, NodesAre DEF Waiting, Protocol, Asks
  <2>2. node = product_node(None, op)
    BY <1>1, <2>1 DEF Shops, Query
  <2>3. "name" \in DOMAIN op
    BY <1>1, <2>1, PlansAssumption DEF Asked
  <2>4. DOMAIN old = {"name", "hidden", "by", "gone"} /\ old.name = None /\ old.by = c /\ old.gone = FALSE
    OBVIOUS
  <2> HIDE DEF old
  <2>5. DOMAIN old \subseteq DOMAIN new /\ (\A f \in DOMAIN old \ {"name", "hidden"} : new[f] = old[f])
        /\ (op.name # None => new.name = op.name) /\ (op.name = None => new.name = None)
    BY <2>2, <2>3, <2>4, GivenIs
  <2>6. products' = Append(products, new)
    BY <1>7 DEF old
  <2> HIDE DEF new, node
  <2>7. products' \in Seq(S \cup {new}) /\ Len(products') = Len(products) + 1 /\ DOMAIN products' = 1 .. (Len(products) + 1)
        /\ (\A i \in 1 .. Len(products) : products'[i] = products[i]) /\ products'[Len(products) + 1] = new
    <3>1. products \in Seq(S \cup {new})
      BY <1>3
    <3> QED
      BY <2>6, <3>1
  <2>8. {"name", "by", "gone"} \subseteq DOMAIN new /\ new.gone = FALSE /\ new.by = c /\ new.name = op.name
    BY <2>4, <2>5
  <2>9. \A i \in DOMAIN products' : (i \in DOMAIN products /\ products'[i] = products[i]) \/ (i = Len(products) + 1 /\ products'[i] = new)
    <3>1. \A i \in 1 .. (Len(products) + 1) : i \in 1 .. Len(products) \/ i = Len(products) + 1
      BY <1>4
    <3> QED
      BY <1>4, <2>7, <3>1
  <2>10. ProductsInv'
    <3>1. \A i \in DOMAIN products' :
            /\ {"name", "by", "gone"} \subseteq DOMAIN products'[i] /\ products'[i].gone \in BOOLEAN
            /\ \A d \in Callers : products'[i].by = d =>
                 /\ plan.does[d] # None /\ plan.does[d].do = "product"
                 /\ i \notin Edited => products'[i].name = plan.does[d].name
      <4>1. ASSUME NEW i \in DOMAIN products'
            PROVE  /\ {"name", "by", "gone"} \subseteq DOMAIN products'[i] /\ products'[i].gone \in BOOLEAN
                   /\ \A d \in Callers : products'[i].by = d =>
                        /\ plan.does[d] # None /\ plan.does[d].do = "product"
                        /\ i \notin Edited => products'[i].name = plan.does[d].name
        <5>1. CASE i \in DOMAIN products /\ products'[i] = products[i]
          BY <1>6, <5>1
        <5>2. CASE products'[i] = new
          BY <2>1, <2>8, <5>2
        <5> QED
          BY <2>9, <5>1, <5>2
      <4> QED
        BY <4>1
    <3> QED
      BY <1>5, <2>7, <3>1 DEF ProductsInv
  <2>11. ASSUME NEW d \in Callers, d # c PROVE Later(d)
    <3>1. Own(d)' = Own(d)
      BY <1>4, <2>7, <2>8, <2>9, <2>11 DEF Own
    <3>2. Standing(d)' \subseteq Standing(d)
      BY <1>4, <1>5, <2>7, <3>1 DEF Standing, Own
    <3>3. Len(products)' <= RecoverPage => Len(products) <= RecoverPage
      BY <1>4, <2>7, AskingAssumption
    <3> QED
      BY <3>1, <3>2, <3>3 DEF Later
  <2> QED
    BY <1>2, <1>7, <2>1, <2>10, <2>11
<1>8. ASSUME DOMAIN products' = DOMAIN products, \E T : products' \in Seq(T), \A i \in DOMAIN products :
               /\ DOMAIN products[i] \subseteq DOMAIN products'[i] /\ products'[i].by = products[i].by
               /\ products'[i].gone \in BOOLEAN /\ (products[i].gone => products'[i].gone)
               /\ i \notin Edited => products'[i].name = products[i].name
      PROVE  ProductsInv' /\ \A d \in Callers : Later(d)
  <2>1. ProductsInv'
    <3>1. \A i \in DOMAIN products' :
            /\ {"name", "by", "gone"} \subseteq DOMAIN products'[i] /\ products'[i].gone \in BOOLEAN
            /\ \A d \in Callers : products'[i].by = d =>
                 /\ plan.does[d] # None /\ plan.does[d].do = "product"
                 /\ i \notin Edited => products'[i].name = plan.does[d].name
      BY <1>6, <1>8
    <3> QED
      BY <1>5, <1>8, <3>1 DEF ProductsInv
  <2>2. ASSUME NEW d \in Callers PROVE Later(d)
    <3>1. Own(d)' = Own(d)
      BY <1>8 DEF Own
    <3>2. Standing(d)' \subseteq Standing(d)
      BY <1>5, <1>8, <3>1 DEF Standing, Own
    <3>3. Len(products)' = Len(products)
      BY <1>3, <1>4, <1>8
    <3> QED
      BY <3>1, <3>2, <3>3 DEF Later
  <2> QED
    BY <2>1, <2>2
<1>9. CASE /\ Waiting(c, "product_edit")
           /\ products' = [products EXCEPT ![node.id] = Given(node, {"name", "hidden"}) ++ @]
           /\ \E product \in {node.id, None} : Answers(c, [product |-> product], NoChange)
  <2>1. call[c].pc = "asked" /\ op # None /\ op.do = "product_update" /\ call[c].step = "update"
    BY <1>1, <1>9, NodesAre DEF Waiting, Protocol, Asks
  <2>2. node = product_node(op.id, op)
    BY <1>1, <2>1 DEF Shops, Query
  <2>3. node.id = op.id
    <3>1. product_node(op.id, op).id = op.id /\ DOMAIN op \subseteq DOMAIN (Given(product_node(op.id, op), {"name", "hidden"}) ++ op)
      BY GivenIs
    <3> QED
      BY <2>2, <3>1
  <2>4. op.id \in Edited
    BY <1>1, <2>1 DEF Edited
  <2> DEFINE old == products[node.id]
             new == Given(node, {"name", "hidden"}) ++ old
  <2>5. products' = [products EXCEPT ![node.id] = new]
    BY <1>9
  <2> HIDE DEF old
  <2>6. DOMAIN old \subseteq DOMAIN new /\ \A f \in DOMAIN old \ {"name", "hidden"} : new[f] = old[f]
    <3> DEFINE made == Given(product_node(op.id, op), {"name", "hidden"}) ++ old
    <3>1. DOMAIN old \subseteq DOMAIN made
      BY GivenIs
    <3>2. \A f \in DOMAIN old \ {"name", "hidden"} : made[f] = old[f]
      BY GivenIs
    <3>3. new = made
      BY <2>2
    <3> HIDE DEF made, new
    <3> QED
      BY <3>1, <3>2, <3>3
  <2> HIDE DEF node, new
  <2>7. DOMAIN products' = DOMAIN products /\ \A i \in DOMAIN products : products'[i] = IF i = node.id THEN new ELSE products[i]
    BY <2>5
  <2>8. products' \in Seq(S \cup {new})
    <3>1. \A i \in 1 .. Len(products) : products[i] \in S
      BY <1>3
    <3>2. products' = [i \in 1 .. Len(products) |-> IF i = node.id THEN new ELSE products[i]]
      BY <1>4, <2>5
    <3> QED
      BY <1>4, <3>1, <3>2
  <2>9. ASSUME NEW i \in DOMAIN products
        PROVE  /\ DOMAIN products[i] \subseteq DOMAIN products'[i] /\ products'[i].by = products[i].by
               /\ products'[i].gone \in BOOLEAN /\ (products[i].gone => products'[i].gone)
               /\ i \notin Edited => products'[i].name = products[i].name
    <3>1. {"name", "by", "gone"} \subseteq DOMAIN products[i] /\ products[i].gone \in BOOLEAN
      BY <1>6
    <3>2. CASE i = node.id
      BY <2>3, <2>4, <2>6, <2>7, <3>1, <3>2 DEF old
    <3>3. CASE i # node.id
      BY <2>7, <3>1, <3>3
    <3> QED
      BY <3>2, <3>3
  <2>10. ProductsInv' /\ \A d \in Callers : Later(d)
    BY <1>8, <2>7, <2>8, <2>9
  <2> QED
    BY <1>2, <1>9, <2>1, <2>10
<1>10. CASE /\ Waiting(c, "product_delete")
            /\ products' = [i \in DOMAIN products |-> [products[i] EXCEPT !.gone = @ \/ i \in node]]
            /\ Answers(c, [deleted |-> Cardinality({i \in node \cap DOMAIN products : ~products[i].gone})], NoChange)
  <2>1. call[c].pc = "asked" /\ call[c].step = "delete"
    BY <1>1, <1>10, NodesAre DEF Waiting, Protocol, Asks
  <2> HIDE DEF node
  <2>2. DOMAIN products' = DOMAIN products /\ \A i \in DOMAIN products : products'[i] = [products[i] EXCEPT !.gone = @ \/ i \in node]
    BY <1>10
  <2>3. products' \in Seq({products'[i] : i \in DOMAIN products})
    <3> DEFINE T == {products'[i] : i \in DOMAIN products}
    <3>1. \A i \in 1 .. Len(products) : products'[i] \in T
      BY <1>4
    <3> HIDE DEF T
    <3>2. products' = [i \in 1 .. Len(products) |-> products'[i]]
      BY <1>4, <1>10
    <3> QED
      BY <1>4, <3>1, <3>2 DEF T
  <2>4. ASSUME NEW i \in DOMAIN products
        PROVE  /\ DOMAIN products[i] \subseteq DOMAIN products'[i] /\ products'[i].by = products[i].by
               /\ products'[i].gone \in BOOLEAN /\ (products[i].gone => products'[i].gone)
               /\ i \notin Edited => products'[i].name = products[i].name
    <3>1. {"name", "by", "gone"} \subseteq DOMAIN products[i] /\ products[i].gone \in BOOLEAN
      BY <1>6
    <3> QED
      BY <2>2, <3>1
  <2>5. ProductsInv' /\ \A d \in Callers : Later(d)
    BY <1>8, <2>2, <2>3, <2>4
  <2> QED
    BY <1>2, <1>10, <2>1, <2>5
<1> QED
  BY <1>7, <1>9, <1>10 DEF ServeProducts

\* A call that is as it was is right about the products as they are now.
LEMMA ShopsSame == ASSUME NEW c \in Callers, Shops(c), call'[c] = call[c], plan' = plan, Later(c) PROVE Shops(c)'
<1>1. HasAnswer(c)' = HasAnswer(c) /\ Looks(c)' = Looks(c)
  BY DEF HasAnswer, Looks
<1>2. \A listed : Lists(c, listed) => Lists(c, listed)'
  BY DEF Lists, Later
<1>3. Lists(c, call[c].answer.catalog)' <=> Lists(c, call[c].answer.catalog)'
  OBVIOUS
<1>4. Lists(c, call[c].answer.catalog) => Lists(c, call[c].answer.catalog)'
  BY DEF Lists, Later
<1> QED
  BY <1>1, <1>4 DEF Shops, Later

\* As long as nothing of them changes.
LEMMA LaterSame == ASSUME products' = products, plan' = plan PROVE \A d \in Callers : Later(d)
BY DEF Later, Standing, Own, Edited

\* The first page of the catalog lists every product there is, if there are not too many.
PageOf(page) ==
  \E wanted, rest : /\ DOMAIN There \subseteq wanted /\ rest = Picked(There, wanted)
                    /\ page = SubSeq(rest, 1, IF Len(rest) < RecoverPage THEN Len(rest) ELSE RecoverPage)
LEMMA PageIs ==
  ASSUME ProductsInv, NEW c \in Callers, plan.does[c] # None, plan.does[c].do = "product", NEW page, NEW listed, PageOf(page),
         DOMAIN listed = DOMAIN page, \A k \in DOMAIN page : listed[k].id = page[k] /\ listed[k].name = products[page[k]].name
  PROVE  Lists(c, listed)
<1>12. PICK wanted, rest : /\ DOMAIN There \subseteq wanted /\ rest = Picked(There, wanted)
                           /\ page = SubSeq(rest, 1, IF Len(rest) < RecoverPage THEN Len(rest) ELSE RecoverPage)
  BY DEF PageOf
<1> DEFINE ids == [i \in DOMAIN products |-> i]
           kept == {i \in DOMAIN products : ~products[i].gone}
<1>1. PICK S : products \in Seq(S)
  BY DEF ProductsInv
<1>2. DOMAIN products = 1 .. Len(products) /\ Len(products) \in Nat
  BY <1>1
<1>3. ids \in Seq(Nat) /\ Len(ids) = Len(products) /\ DOMAIN ids = DOMAIN products /\ \A i \in DOMAIN products : ids[i] = i
  <2>1. \A i \in 1 .. Len(products) : i \in Nat
    OBVIOUS
  <2> QED
    BY <1>2, <2>1
<1>4. kept \in SUBSET DOMAIN ids
  BY <1>3
<1>5. There = Picked(ids, kept)
  BY DEF There
<1>6. \A i \in Standing(c) : i \in kept /\ products[i].name = plan.does[c].name
  BY DEF Standing, Own, ProductsInv
<1> HIDE DEF ids, kept
<1>7. There \in Seq(Nat) /\ Len(There) <= Len(products) /\ \A i \in kept : \E k \in DOMAIN There : There[k] = ids[i]
  BY <1>3, <1>4, <1>5, PickedKeeps
<1> DEFINE all == There
<1>8. all \in Seq(Nat) /\ Len(all) <= Len(products) /\ \A i \in kept : \E k \in DOMAIN all : all[k] = ids[i]
  BY <1>7
<1>9. rest = Picked(all, wanted) /\ DOMAIN all \subseteq wanted
  BY <1>12
<1> HIDE DEF all
<1>10. rest = all
  BY <1>8, <1>9, PickedAll
<1>11. ASSUME Len(products) <= RecoverPage
       PROVE  IsFiniteSet(DOMAIN listed) /\ \A i \in Standing(c) : \E k \in DOMAIN listed : listed[k].id = i /\ listed[k].name = plan.does[c].name
  <2>1. Len(all) \in Nat /\ RecoverPage \in Nat /\ DOMAIN all = 1 .. Len(all)
    BY <1>8, AskingAssumption
  <2>2. (IF Len(all) < RecoverPage THEN Len(all) ELSE RecoverPage) = Len(all)
    <3>1. \A n, m, p \in Nat : n <= m /\ m <= p => (IF n < p THEN n ELSE p) = n
      OBVIOUS
    <3> QED
      BY <1>2, <1>8, <1>11, <2>1, <3>1, Zenon
  <2>3. page = SubSeq(all, 1, Len(all))
    BY <1>10, <1>12, <2>2
  <2>4. page = all
    <3>1. SubSeq(all, 1, Len(all)) = all
      BY <1>8
    <3> QED
      BY <2>3, <3>1
  <2>5. IsFiniteSet(1 .. Len(all))
    BY <2>1, FS_Interval
  <2>6. DOMAIN listed = 1 .. Len(all) /\ \A k \in 1 .. Len(all) : listed[k].id = all[k] /\ listed[k].name = products[all[k]].name
    BY <2>1, <2>4
  <2>7. ASSUME NEW i \in Standing(c) PROVE \E k \in DOMAIN listed : listed[k].id = i /\ listed[k].name = plan.does[c].name
    <3>1. i \in kept /\ i \in DOMAIN products /\ ids[i] = i
      BY <1>3, <1>6 DEF Standing, Own
    <3>2. PICK k \in DOMAIN all : all[k] = i
      BY <1>8, <3>1
    <3>3. k \in DOMAIN listed /\ listed[k].id = i /\ listed[k].name = products[i].name
      BY <2>1, <2>6, <3>2
    <3>4. products[i].name = plan.does[c].name
      BY <1>6
    <3> QED
      BY <3>3, <3>4
  <2> QED
    BY <2>5, <2>6, <2>7
<1> QED
  BY <1>11 DEF Lists

\* The one product of that name is that of the call, if it is on the page.
LEMMA RecoveredIs ==
  ASSUME NEW c \in Callers, NEW listed, Lists(c, listed), recovered(listed, plan.does[c].name) # None,
         Len(products) <= RecoverPage, Standing(c) # {}
  PROVE  recovered(listed, plan.does[c].name) \in Own(c)
<1> DEFINE matches == {i \in DOMAIN listed : listed[i].name = plan.does[c].name}
<1>1. Cardinality(matches) = 1 /\ recovered(listed, plan.does[c].name) = listed[CHOOSE i \in matches : TRUE].id
  BY DEF recovered
<1>2. PICK i \in Standing(c) : TRUE
  OBVIOUS
<1>3. IsFiniteSet(DOMAIN listed) /\ \E k \in DOMAIN listed : listed[k].id = i /\ listed[k].name = plan.does[c].name
  BY <1>2 DEF Lists
<1>4. PICK k \in matches : listed[k].id = i
  BY <1>3
<1>5. IsFiniteSet(matches)
  BY <1>3, FS_Subset
<1> HIDE DEF matches
<1>6. \E m : matches = {m}
  BY <1>1, <1>5, FS_Singleton
<1>7. (CHOOSE j \in matches : TRUE) = k
  BY <1>4, <1>6
<1> QED
  BY <1>1, <1>4, <1>7 DEF Standing

\* Every step of a call that makes or changes a product.
LEMMA ShopKeeps ==
  ASSUME BaseInv, ShopInv, NEW c \in Callers, plan.does[c] # None, plan.does[c].do \in Mutations, UploadStep(c), plan' = plan,
         products' = products \/ ServeProducts(c)
  PROVE  Shops(c)'
<1> DEFINE op == plan.does[c]
<1>1. Shape /\ plan \in Plans /\ Protocol(c) /\ Shops(c) /\ plan'.does[c] = op /\ op # None /\ op.do \in {"product", "product_update"}
  BY DEF BaseInv, ShopInv, Mutations
<1>2. op.do = "product" /\ call[c].cut => call[c].pc = "done" \/ Looks(c)
  BY <1>1 DEF Shops
<1> DEFINE Alone == op.do = "product" => ~call[c].cut
<1>3. call[c].pc \notin {"asked", "done"} => Alone
  BY <1>2 DEF Looks
<1>4. call[c].pc = "asked" /\ call[c].step # "recover" => Alone
  BY <1>2 DEF Looks
<1> HIDE DEF op
<1>5. ASSUME call'[c].pc = "done", call'[c].result # "ok" PROVE Shops(c)'
  BY <1>1, <1>5 DEF Shops, Looks
<1>6. ASSUME call'[c].pc = "done", call'[c].cut = call[c].cut, Alone PROVE Shops(c)'
  BY <1>1, <1>6 DEF Shops, Looks
<1>7. ASSUME call'[c].pc \notin {"asked", "done"}, call'[c].cut = call[c].cut, Alone PROVE Shops(c)'
  BY <1>1, <1>7 DEF Shops, Looks
<1>8. ASSUME call'[c].pc = "asked", call'[c].step = "conn", call'[c].cut = call[c].cut, Alone PROVE Shops(c)'
  BY <1>1, <1>8 DEF Shops, Looks
<1>9. \A why, fields : Ends(c, why, fields) /\ Fresh(fields) =>
        /\ call'[c].pc = "done" /\ call'[c].result = why
        /\ \A f \in Fields \ {"pc", "node", "answer", "result"} : call'[c][f] = IF f \in DOMAIN fields THEN fields[f] ELSE call[c][f]
  BY <1>1, EndsIs DEF Fresh, Rest
<1>10. ASSUME NEW fields, Fresh(fields), "cut" \notin DOMAIN fields, MutateProduct(c, fields), Alone PROVE Shops(c)'
  <2> DEFINE product == product_node(None, op)
             update == product_node(op.id, op)
  <2>1. IF op.do = "product" THEN Ask(c, Query("product_add", product), "create", fields)
        ELSE Ask(c, Query("product_edit", update), "update", fields)
    BY <1>10 DEF MutateProduct, op
  <2>2. \A node, step : Ask(c, node, step, fields) =>
          /\ call'[c].pc = "asked" /\ call'[c].node = node /\ call'[c].step = step /\ call'[c].cut = call[c].cut
    BY <1>1, <1>10, AskIs, FieldsAre DEF Fresh, Rest
  <2> HIDE DEF product, update
  <2>3. /\ call'[c].pc = "asked" /\ call'[c].cut = call[c].cut
        /\ op.do = "product" => call'[c].step = "create" /\ call'[c].node = Query("product_add", product)
        /\ op.do # "product" => call'[c].step = "update" /\ call'[c].node = Query("product_edit", update)
    BY <2>1, <2>2
  <2> QED
    BY <1>1, <1>10, <2>3 DEF Shops, Looks, product, update
<1>11. ASSUME \A f \in Fields \ {"answer", "made"} : call'[c][f] = call[c][f], products' = products,
              Looks(c)' /\ HasAnswer(c)' => (call'[c].answer.catalog # None => Lists(c, call[c].answer.catalog)')
       PROVE  Shops(c)'
  <2>1. /\ call'[c].pc = call[c].pc /\ call'[c].step = call[c].step /\ call'[c].node = call[c].node /\ call'[c].cut = call[c].cut
        /\ call'[c].result = call[c].result /\ call'[c].got = call[c].got
    BY <1>11, FieldsAre
  <2>2. Later(c) /\ (Looks(c)' <=> Looks(c))
    BY <1>11, <2>1, LaterSame DEF Looks
  <2> QED
    BY <1>1, <1>11, <2>1, <2>2 DEF Shops, Later
<1>12. CASE upload_call(c)
  <2>1. call[c].pc = "idle" /\ Alone
    BY <1>3, <1>12 DEF upload_call, Begins
  <2> DEFINE images == ToUpload(op.images)
  <2>2. (images = << >> /\ MutateProduct(c, NoChange)) \/ BeginUpload(c, FALSE, [todo |-> images])
    BY <1>1, <1>12 DEF upload_call, Mutations, op
  <2>3. CASE MutateProduct(c, NoChange)
    BY <1>10, <2>1, <2>3, FreshAre, FieldsAre
  <2>4. CASE BeginUpload(c, FALSE, [todo |-> images])
    <3>1. DOMAIN [todo |-> images] = {"todo"}
      OBVIOUS
    <3>2. Fresh([todo |-> images])
      BY <3>1 DEF Fresh
    <3> DEFINE fields == [todo |-> images]
    <3> HIDE DEF fields
    <3>3. DOMAIN fields = {"todo"} /\ Fresh(fields) /\ BeginUpload(c, FALSE, fields)
      BY <2>4, <3>1, <3>2 DEF fields
    <3>5. \/ call'[c].pc = "upload" /\ Rest(c, fields, {"pc", "node", "answer", "hosts", "alone"})
          \/ call'[c].pc = "asked" /\ call'[c].step = "conn" /\ Rest(c, fields, {"pc", "node", "answer", "step", "due"})
      BY <1>1, <3>3, BeginUploadIs
    <3>4. \/ call'[c].pc = "upload" /\ call'[c].cut = call[c].cut
          \/ call'[c].pc = "asked" /\ call'[c].step = "conn" /\ call'[c].cut = call[c].cut
      BY <3>3, <3>5, FieldsAre DEF Rest
    <3> QED
      BY <1>7, <1>8, <2>1, <3>4
  <2> QED
    BY <2>2, <2>3, <2>4
<1>13. CASE AnswerConn(c) \/ SetCover(c)
  <2>1. call[c].pc = "asked" /\ call[c].node.xmlns \in {"w:m", "cover"} /\ \E answer : Answers(c, answer, NoChange)
    BY <1>13 DEF AnswerConn, SetCover, Waiting
  <2>2. call[c].step # "recover"
    BY <1>1, <2>1 DEF Protocol, Asks
  <2>3. \A f \in Fields \ {"answer", "made"} : call'[c][f] = call[c][f]
    BY <1>1, <2>1, AnswersIs, FieldsAre DEF Rest
  <2>4. products' = products
    BY <1>13 DEF AnswerConn, SetCover, server
  <2>5. call'[c].step = call[c].step
    BY <2>3, FieldsAre
  <2> QED
    BY <1>11, <2>2, <2>3, <2>4, <2>5 DEF Looks
<1>14. CASE ServeProducts(c)
  <2>1. call[c].pc = "asked" /\ call[c].step \in {"create", "update", "delete"} /\ \A f \in Fields \ {"answer", "made"} : call'[c][f] = call[c][f]
    BY <1>14, ServedIs
  <2>2. /\ call'[c].pc = call[c].pc /\ call'[c].step = call[c].step /\ call'[c].node = call[c].node /\ call'[c].cut = call[c].cut
    BY <2>1, FieldsAre
  <2> QED
    BY <1>1, <2>1, <2>2 DEF Shops, Looks
<1>15. CASE ServeCatalog(c)
  <2> DEFINE node == call[c].node.child
             wanted == {k \in DOMAIN There : node.after = None \/ There[k] > node.after}
             rest == Picked(There, wanted)
             page == SubSeq(rest, 1, IF Len(rest) < node.limit THEN Len(rest) ELSE node.limit)
             listed == [k \in DOMAIN page |-> [id |-> page[k], name |-> products[page[k]].name]]
             next == IF Len(page) = Len(rest) THEN None ELSE page[Len(page)]
  <2>1. call[c].pc = "asked" /\ call[c].node.xmlns = "catalog" /\ \E catalog \in {None, listed} : Answers(c, [catalog |-> catalog, next |-> next], NoChange)
    BY <1>15, Zenon DEF ServeCatalog, Waiting
  <2>2. PICK catalog \in {None, listed} : Answers(c, [catalog |-> catalog, next |-> next], NoChange)
    BY <2>1, Zenon
  <2>3. op.do = "product" /\ call[c].step = "recover"
    BY <1>1, <2>1, Zenon DEF Protocol, Asks, OfBusiness, Catalogs, Profiles, op
  <2>4. call[c].node = Query("catalog", catalog_node(RecoverPage, None))
    BY <1>1, <2>1, <2>3, Zenon DEF Shops, Looks
  <2>5. node = [limit |-> RecoverPage, after |-> None]
    BY <2>4 DEF Query, catalog_node
  <2>6. node.limit = RecoverPage /\ node.after = None
    BY <2>5
  <2> HIDE DEF node
  <2>7. rest = Picked(There, wanted) /\ DOMAIN There \subseteq wanted
    BY <2>6
  <2> HIDE DEF rest, wanted
  <2>8. page = SubSeq(rest, 1, IF Len(rest) < RecoverPage THEN Len(rest) ELSE RecoverPage)
    BY <2>6
  <2> HIDE DEF page
  <2>9. Lists(c, listed)
    <3>1. DOMAIN listed = DOMAIN page /\ \A k \in DOMAIN page : listed[k].id = page[k] /\ listed[k].name = products[page[k]].name
      OBVIOUS
    <3> HIDE DEF listed
    <3>2. ProductsInv /\ plan.does[c] # None /\ plan.does[c].do = "product"
      BY <1>1, <2>3 DEF ShopInv, op
    <3>3. PageOf(page)
      BY <2>7, <2>8 DEF PageOf
    <3> QED
      BY <3>1, <3>2, <3>3, PageIs
  <2> HIDE DEF listed, next
  <2>10. /\ call'[c].answer = [error |-> None] ++ [catalog |-> catalog, next |-> next]
         /\ \A f \in Fields \ {"answer", "made"} : call'[c][f] = call[c][f]
    BY <1>1, <2>2, AnswersIs, FieldsAre DEF Rest
  <2>11. call'[c].answer.catalog = catalog
    <3> DEFINE e == [error |-> None]
               a == [catalog |-> catalog, next |-> next]
    <3>1. "catalog" \notin DOMAIN e /\ "catalog" \in DOMAIN a /\ a.catalog = catalog
      OBVIOUS
    <3>2. call'[c].answer = e ++ a
      BY <2>10
    <3> HIDE DEF e, a
    <3> QED
      BY <3>1, <3>2, PlusIs
  <2>12. products' = products
    BY <1>15, Zenon DEF ServeCatalog, server
  <2>13. catalog # None => Lists(c, catalog)
    BY <2>2, <2>9
  <2>14. Later(c)
    BY <2>12, LaterSame
  <2>15. Lists(c, call[c].answer.catalog)' \/ call'[c].answer.catalog = None
    BY <1>1, <2>11, <2>13, <2>14 DEF Lists, Later
  <2> QED
    BY <1>11, <2>10, <2>12, <2>15
<1>16. CASE ConnRead(c)
  <2>1. call[c].pc = "asked" /\ call[c].step = "conn" /\ Alone
    BY <1>4, <1>16 DEF ConnRead, Granting, Answered
  <2>2. Ends(c, "MediaError", NoChange) \/ \E hosts : Upload(c, hosts, NoChange)
    BY <1>1, <1>16 DEF ConnRead, op
  <2>3. ASSUME NEW hosts, Upload(c, hosts, NoChange) PROVE Shops(c)'
    <3>1. call'[c].pc = "upload" /\ call'[c].cut = call[c].cut
      BY <1>1, <2>3, UploadIs, FreshAre, FieldsAre DEF Rest
    <3> QED
      BY <1>7, <2>1, <3>1
  <2> QED
    BY <1>5, <1>9, <2>2, <2>3, FreshAre
<1>17. CASE UploadTried(c)
  <2> DEFINE left == Tail(call[c].todo)
             hosts == call[c].alone
  <2>1. call[c].pc = "upload" /\ Alone
    BY <1>3, <1>17 DEF UploadTried
  <2>2. \/ Ends(c, "MediaError", NoChange) \/ Set(c, [alone |-> Tail(hosts)])
        \/ Set(c, [todo |-> left, alone |-> call[c].hosts]) \/ MutateProduct(c, [todo |-> << >>])
    BY <1>1, <1>17 DEF UploadTried, op
  <2>3. ASSUME NEW fields, Set(c, fields), DOMAIN fields \subseteq {"todo", "alone"} PROVE Shops(c)'
    <3>1. call'[c].pc = "upload" /\ call'[c].cut = call[c].cut
      BY <1>1, <2>1, <2>3, SetIs, FieldsAre DEF Rest
    <3> QED
      BY <1>7, <2>1, <3>1
  <2>4. \A x, y : DOMAIN [alone |-> x] = {"alone"} /\ DOMAIN [todo |-> x] = {"todo"} /\ DOMAIN [todo |-> x, alone |-> y] = {"todo", "alone"}
    OBVIOUS
  <2>5. CASE Set(c, [alone |-> Tail(hosts)])
    BY <2>3, <2>4, <2>5
  <2>6. CASE Set(c, [todo |-> left, alone |-> call[c].hosts])
    BY <2>3, <2>4, <2>6
  <2>7. CASE MutateProduct(c, [todo |-> << >>])
    BY <1>10, <2>1, <2>4, <2>7, FreshAre
  <2> QED
    BY <1>5, <1>9, <2>2, <2>5, <2>6, <2>7, FreshAre
<1>18. CASE UploadUsed(c)
  <2>1. Ends(c, "IQError", NoChange)
    <3>1. ~(call[c].pc = "asked" /\ call[c].step = "cover")
      BY <1>1 DEF Protocol, Asks
    <3> QED
      BY <1>1, <1>18, <3>1 DEF UploadUsed, Granting, Answered, op
  <2> QED
    BY <1>5, <1>9, <2>1, FreshAre
<1>19. CASE ProductRead(c)
  <2>1. call[c].pc = "asked" /\ call[c].step \in {"create", "update", "page"} /\ Alone
    BY <1>4, <1>19 DEF ProductRead, Granting, Answered
  <2>2. \E got : Ends(c, "ok", [got |-> got])
    BY <1>19 DEF ProductRead
  <2>3. \A got : DOMAIN [got |-> got] = {"got"}
    OBVIOUS
  <2>4. call'[c].pc = "done" /\ call'[c].cut = call[c].cut
    <3>1. PICK got : Ends(c, "ok", [got |-> got])
      BY <2>2
    <3> DEFINE fields == [got |-> got]
    <3>2. DOMAIN fields = {"got"} /\ Fresh(fields) /\ Ends(c, "ok", fields)
      BY <2>3, <3>1, FreshAre
    <3> HIDE DEF fields
    <3> QED
      BY <1>9, <3>2, FieldsAre
  <2> QED
    BY <1>6, <2>1, <2>4
<1>20. CASE ProductRecovered(c)
  <2> DEFINE listed == parse_catalog(call[c].answer).products
             product == recovered(listed, op.name)
  <2>1. call[c].pc = "asked" /\ call[c].step = "recover" /\ HasAnswer(c)
    BY <1>20 DEF ProductRecovered, Granting, Answered, HasAnswer
  <2>2. IF product = None THEN Ends(c, "TimeoutError", NoChange) ELSE Ends(c, "ok", [got |-> <<product>>])
    BY <1>20 DEF ProductRecovered, op
  <2>3. op.do = "product"
    BY <1>1, <2>1 DEF Protocol, Asks, OfBusiness, Catalogs, Profiles
  <2>4. products' = products
    BY <1>20 DEF ProductRecovered, server
  <2>5. CASE Ends(c, "TimeoutError", NoChange)
    BY <1>5, <1>9, <2>5, FreshAre
  <2>6. CASE product # None /\ Ends(c, "ok", [got |-> <<product>>])
    <3>1. call[c].answer.catalog # None
      <4>1. ASSUME call[c].answer.catalog = None PROVE FALSE
        <5>1. listed = << >>
          BY <4>1 DEF parse_catalog
        <5>2. {i \in DOMAIN << >> : << >>[i].name = op.name} = {}
          OBVIOUS
        <5>3. Cardinality({}) = 0
          BY FS_EmptySet
        <5> HIDE DEF listed
        <5>4. product = None
          BY <5>1, <5>2, <5>3 DEF recovered
        <5> QED
          BY <2>6, <5>4
      <4> QED
        BY <4>1
    <3>2. listed = call[c].answer.catalog
      BY <3>1 DEF parse_catalog
    <3>3. Lists(c, listed)
      BY <1>1, <2>1, <2>3, <3>1, <3>2 DEF Shops, Looks
    <3> HIDE DEF listed
    <3>4. ASSUME Len(products) <= RecoverPage, Standing(c) # {} PROVE product \in Own(c)
      BY <2>6, <3>3, <3>4, RecoveredIs DEF op
    <3> DEFINE fields == [got |-> <<product>>]
    <3> HIDE DEF product
    <3>5. DOMAIN fields = {"got"} /\ Fresh(fields) /\ fields.got[1] = product
      BY FreshAre
    <3>6. Ends(c, "ok", fields)
      BY <2>6
    <3> HIDE DEF fields
    <3>7. call'[c].pc = "done" /\ call'[c].got[1] = product
      BY <1>9, <3>5, <3>6, FieldsAre
    <3>8. Later(c)
      BY <2>4, LaterSame
    <3>9. Len(products)' <= RecoverPage => (Standing(c)' # {} => call'[c].got[1] \in Own(c)')
      BY <3>4, <3>7, <3>8 DEF Later
    <3> QED
      BY <1>1, <2>3, <3>7, <3>9 DEF Shops, Looks
  <2> QED
    BY <2>2, <2>5, <2>6
<1>21. CASE Refuse(c)
  <2>1. ~HasAnswer(c)' /\ \A f \in Fields \ {"answer"} : call'[c][f] = call[c][f]
    BY <1>1, <1>21, RefuseIs
  <2>2. products' = products
    BY <1>21 DEF Refuse, server
  <2> QED
    BY <1>11, <2>1, <2>2
<1>22. CASE QueryLate(c)
  <2>1. \/ Ends(c, "TimeoutError", [cut |-> TRUE])
        \/ op.do = "product" /\ Ask(c, Query("catalog", catalog_node(RecoverPage, None)), "recover", [cut |-> TRUE])
    BY <1>1, <1>22 DEF QueryLate, ProductLate, op
  <2>2. CASE Ends(c, "TimeoutError", [cut |-> TRUE])
    <3> DEFINE fields == [cut |-> TRUE]
    <3>1. Fresh(fields) /\ Ends(c, "TimeoutError", fields)
      BY <2>2, FreshAre
    <3> HIDE DEF fields
    <3> QED
      BY <1>5, <1>9, <3>1
  <2>3. CASE op.do = "product" /\ Ask(c, Query("catalog", catalog_node(RecoverPage, None)), "recover", [cut |-> TRUE])
    <3> DEFINE node == Query("catalog", catalog_node(RecoverPage, None))
    <3> HIDE DEF node
    <3>1. call'[c].pc = "asked" /\ call'[c].step = "recover" /\ call'[c].node = node /\ call'[c].answer = None
      BY <1>1, <2>3, FreshAre, AskIs DEF Fresh, node
    <3> QED
      BY <1>1, <2>3, <3>1 DEF Shops, Looks, HasAnswer, node
  <2> QED
    BY <2>1, <2>2, <2>3
<1>23. CASE refresh_media_conn(c)
  BY <1>1, <1>23 DEF refresh_media_conn, Begins, op
<1> QED
  BY <1>12, <1>13, <1>14, <1>15, <1>16, <1>17, <1>18, <1>19, <1>20, <1>21, <1>22, <1>23 DEF UploadStep

\* A step of a call about a product is a step of those that upload.
LEMMA MutatesIs == ASSUME NEW c \in Callers, OfItsKind(c), plan.does[c].do \in Mutations PROVE UploadStep(c)
<1>1. {"product", "product_update"} \cap (OfGroups \cup Reading \cup OfChannels \cup OfBusiness \cup Singles) = {}
  BY DEF Singles, OfGroups, GroupDo, CommunityDo, Reading, AccountDo, OfChannels, ChannelDo, Simple, OfBusiness, Catalogs, Profiles
<1> QED
  BY <1>1 DEF OfItsKind, Mutations, Singles

\* A call that does neither, or that a crash ended, has nothing to keep.
LEMMA ShopsNothing ==
  ASSUME NEW c \in Callers, plan' = plan,
         \/ plan.does[c] = None \/ plan.does[c].do \notin Mutations
         \/ call'[c].pc = "done" /\ call'[c].result # "ok"
  PROVE  Shops(c)'
BY DEF Shops, Mutations, Looks

\* Every step keeps it.
LEMMA ShopsStay == ASSUME BaseInv, ShopInv, [Next]_vars PROVE ShopInv'
<1>1. ASSUME products' = products, plan' = plan PROVE ProductsInv' /\ \A d \in Callers : Later(d)
  <2>1. Edited' = Edited
    BY <1>1 DEF Edited
  <2>2. \E S : products' \in Seq(S)
    BY <1>1 DEF ShopInv, ProductsInv
  <2>3. ProductsInv'
    BY <1>1, <2>1, <2>2 DEF ShopInv, ProductsInv
  <2> QED
    BY <1>1, <2>3, LaterSame
<1>2. ASSUME NEW c \in Callers, Starts(c) \/ Serves(c) \/ Resumes(c) PROVE ShopInv'
  <2>1. Others(c) /\ plan' = plan /\ OfItsKind(c) /\ Frame(c) /\ (products' = products \/ ServeProducts(c))
    BY <1>2, StepIs DEF Steady, fixed, Frame
  <2>2. ProductsInv' /\ \A d \in Callers : d # c => Later(d)
    BY <1>1, <2>1, ServedIs
  <2>3. Shops(c)'
    <3>1. CASE plan.does[c] # None /\ plan.does[c].do \in Mutations
      BY <2>1, <3>1, MutatesIs, ShopKeeps
    <3>2. CASE ~(plan.does[c] # None /\ plan.does[c].do \in Mutations)
      BY <2>1, <3>2, ShopsNothing
    <3> QED
      BY <3>1, <3>2
  <2>4. \A d \in Callers : d # c => Shops(d)'
    BY <2>1, <2>2, ShopsSame DEF ShopInv, Others
  <2> QED
    BY <2>2, <2>3, <2>4 DEF ShopInv
<1>3. CASE MediaRetried
  <2>1. plan' = plan /\ products' = products
    BY <1>3, RetriedIs DEF BaseInv, fixed, server
  <2>2. ASSUME NEW c \in Callers, plan.does[c] # None, plan.does[c].do \in Mutations PROVE call'[c] = call[c]
    <3>1. call[c].pc # "media"
      BY <2>2 DEF BaseInv, Protocol, Placed, Uploads, Mutations
    <3> QED
      BY <1>3, <3>1, RetriedIs DEF BaseInv
  <2> QED
    BY <1>1, <2>1, <2>2, ShopsSame, ShopsNothing DEF ShopInv
<1>4. CASE Crash
  <2>1. plan' = plan /\ products' = products
    BY <1>4, CrashIs DEF BaseInv, fixed, Crash, server
  <2>2. LET k == [Idle EXCEPT !.pc = "done", !.result = "crash"] IN k.result = "crash" /\ k.pc = "done"
    BY DEF Idle
  <2>3. ASSUME NEW c \in Callers PROVE Shops(c)'
    <3>1. call'[c] = call[c] \/ (call'[c].pc = "done" /\ call'[c].result = "crash")
      BY <1>4, <2>2, CrashIs DEF BaseInv
    <3> QED
      BY <1>1, <2>1, <3>1, ShopsSame, ShopsNothing DEF ShopInv
  <2> QED
    BY <1>1, <2>1, <2>3 DEF ShopInv
<1>5. CASE Tick \/ Move \/ UNCHANGED vars
  <2>1. plan' = plan /\ products' = products /\ call' = call
    BY <1>5 DEF Tick, Move, vars, fixed, server
  <2> QED
    BY <1>1, <2>1, ShopsSame DEF ShopInv
<1>6. QED
  BY <1>2, <1>3, <1>4, <1>5 DEF Next

\* A product that was looked for and found is that of the call, if the server made it and nobody edits it.
THEOREM RecoveredRight == Spec => []RecoveredOwn
<1>1. Init => ShopInv
  <2> SUFFICES ASSUME Init PROVE ShopInv
    OBVIOUS
  <2> DEFINE made(i) == [name |-> plan.named[i], hidden |-> None, by |-> None, gone |-> FALSE]
  <2>1. products = [i \in DOMAIN plan.named |-> made(i)] /\ plan \in Plans
    BY DEF Init, AskingInit
  <2>2. PICK S : plan.named \in Seq(S)
    BY <2>1, PlansAssumption
  <2>3. DOMAIN plan.named = 1 .. Len(plan.named) /\ Len(plan.named) \in Nat
    BY <2>2
  <2>4. \A i : {"name", "by", "gone"} \subseteq DOMAIN made(i) /\ made(i).gone = FALSE /\ made(i).by = None
    OBVIOUS
  <2> HIDE DEF made
  <2>5. products \in Seq({made(i) : i \in DOMAIN plan.named})
    <3> DEFINE T == {made(i) : i \in DOMAIN plan.named}
    <3>1. \A i \in 1 .. Len(plan.named) : made(i) \in T
      BY <2>3
    <3> HIDE DEF T
    <3>2. products = [i \in 1 .. Len(plan.named) |-> made(i)]
      BY <2>1, <2>3
    <3> QED
      BY <2>3, <3>1, <3>2 DEF T
  <2>6. ProductsInv
    BY <2>1, <2>4, <2>5, AskingAssumption DEF ProductsInv
  <2>7. ASSUME NEW c \in Callers PROVE Shops(c)
    <3>1. Idle.pc = "idle" /\ Idle.cut = FALSE
      BY DEF Idle
    <3>2. call[c] = Idle
      BY DEF Init, AskingInit
    <3> QED
      BY <3>1, <3>2 DEF Shops, Looks
  <2> QED
    BY <2>6, <2>7 DEF ShopInv
<1>2. ShopInv => RecoveredOwn
  <2> SUFFICES ASSUME ShopInv, NEW c \in Callers, Ended(c, {"product"}, "ok"), call[c].cut, Len(products) <= RecoverPage,
                      NEW i \in Own(c) \ Edited, ~products[i].gone
               PROVE  call[c].got[1] \in Own(c)
    BY DEF RecoveredOwn, Own, Edited
  <2>1. Standing(c) # {}
    BY DEF Standing
  <2> QED
    BY <2>1 DEF ShopInv, Shops, Ended
<1> QED
  BY <1>1, <1>2, BaseInvariant, ShopsStay, PTL DEF Spec

-----------------------------------------------------------------------------
(* What is told of a channel.                                              *)

\* What is picked of a longer list is picked of the shorter one first.
LEMMA PickedGrows ==
  ASSUME NEW S, NEW s \in Seq(S), NEW x \in S, NEW kept, NEW more, \A i \in DOMAIN s : i \in kept <=> i \in more
  PROVE  Picked(Append(s, x), more) = IF Len(s) + 1 \in more THEN Append(Picked(s, kept), x) ELSE Picked(s, kept)
<1> DEFINE t == Append(s, x)
           n == Len(s)
<1>1. t \in Seq(S) /\ Len(t) = n + 1 /\ n \in Nat /\ DOMAIN s = 1 .. n /\ (\A i \in 1 .. n : t[i] = s[i]) /\ t[n + 1] = x
  OBVIOUS
<1> HIDE DEF t
<1>2. PICK f : IsPick(s, kept, n, f) /\ Picked(s, kept) = f[n]
  BY PickedLast
<1>3. PICK g : IsPick(t, more, n + 1, g) /\ Picked(t, more) = g[n + 1]
  BY <1>1, PickedLast
<1> HIDE DEF n
<1>4. /\ \A i \in 0 .. n : f[i] = IF i = 0 THEN << >> ELSE IF i \in kept THEN Append(f[i - 1], s[i]) ELSE f[i - 1]
      /\ \A i \in 0 .. (n + 1) : g[i] = IF i = 0 THEN << >> ELSE IF i \in more THEN Append(g[i - 1], t[i]) ELSE g[i - 1]
  BY <1>2, <1>3 DEF IsPick
<1>5. \A i \in 0 .. n : g[i] = f[i]
  <2> DEFINE T == {i \in 0 .. n : g[i] # f[i]}
  <2>1. SUFFICES ASSUME T # {} PROVE FALSE
    OBVIOUS
  <2>5. T \in SUBSET Nat
    BY <1>1
  <2> HIDE DEF T
  <2>6. PICK i \in T : \A k \in T : i <= k
    BY <2>1, <2>5, Least
  <2> USE DEF T
  <2>2. i \in 0 .. n /\ g[i] # f[i] /\ \A k \in 0 .. n : g[k] # f[k] => i <= k
    BY <2>6
  <2>3. CASE i = 0
    <3>1. 0 \in 0 .. n /\ 0 \in 0 .. (n + 1)
      BY <1>1
    <3> QED
      BY <1>4, <2>2, <2>3, <3>1
  <2>4. CASE i # 0
    <3>1. i \in 1 .. n /\ i - 1 \in 0 .. n /\ ~(i <= i - 1) /\ i \in 0 .. (n + 1)
      BY <1>1, <2>2, <2>4
    <3>2. g[i - 1] = f[i - 1]
      BY <2>2, <3>1
    <3>3. t[i] = s[i] /\ (i \in kept <=> i \in more)
      BY <1>1, <3>1
    <3> QED
      BY <1>4, <2>2, <2>4, <3>1, <3>2, <3>3
  <2> QED
    BY <2>3, <2>4
<1>6. n + 1 \in 0 .. (n + 1) /\ n + 1 # 0 /\ (n + 1) - 1 = n /\ n \in 0 .. n
  BY <1>1
<1>7. g[n + 1] = IF n + 1 \in more THEN Append(f[n], x) ELSE f[n]
  BY <1>1, <1>4, <1>5, <1>6
<1> QED
  BY <1>2, <1>3, <1>7 DEF n, t

\* The facts that name a message.
Named(said) == Picked(said, {i \in DOMAIN said : said[i].what # None})

LEMMA NamedGrows ==
  ASSUME NEW S, NEW s \in Seq(S), NEW x \in S
  PROVE  Named(Append(s, x)) = IF x.what # None THEN Append(Named(s), x) ELSE Named(s)
<1> DEFINE t == Append(s, x)
           kept == {i \in DOMAIN s : s[i].what # None}
           more == {i \in DOMAIN t : t[i].what # None}
<1>1. DOMAIN s = 1 .. Len(s) /\ Len(s) \in Nat /\ DOMAIN t = 1 .. (Len(s) + 1) /\ (\A i \in 1 .. Len(s) : t[i] = s[i]) /\ t[Len(s) + 1] = x
  OBVIOUS
<1>2. \A i \in DOMAIN s : i \in kept <=> i \in more
  BY <1>1
<1>3. Len(s) + 1 \in more <=> x.what # None
  BY <1>1
<1> HIDE DEF kept, more
<1>4. Picked(t, more) = IF Len(s) + 1 \in more THEN Append(Picked(s, kept), x) ELSE Picked(s, kept)
  BY <1>2, PickedGrows
<1> QED
  BY <1>3, <1>4 DEF Named, kept, more

\* What was told is of the facts that name a message, one by one.
Matches(told, named) ==
  Len(told) = Len(named) /\ \A i \in DOMAIN named : \A field \in DOMAIN named[i] : told[i][field] = named[i][field]

\* The event of a fact, or none.
OneEvent(fact, events) ==
  IF fact.what # None THEN \E x : events = <<x>> /\ \A field \in DOMAIN fact : x[field] = fact[field] ELSE events = << >>

LEMMA MatchesMore ==
  ASSUME NEW S, NEW said \in Seq(S), NEW T, NEW told \in Seq(T), Matches(told, Named(said)), NEW fact \in S, NEW events, OneEvent(fact, events)
  PROVE  (\E U : told \o events \in Seq(U)) /\ Matches(told \o events, Named(Append(said, fact)))
<1> DEFINE named == Named(said)
<1>1. named \in Seq(S)
  <2> DEFINE kept == {i \in DOMAIN said : said[i].what # None}
  <2>1. kept \in SUBSET DOMAIN said
    OBVIOUS
  <2> HIDE DEF kept
  <2>2. Picked(said, kept) \in Seq(S)
    BY <2>1, PickedKeeps
  <2> QED
    BY <2>2 DEF kept, Named
<1>2. Named(Append(said, fact)) = IF fact.what # None THEN Append(named, fact) ELSE named
  BY NamedGrows
<1> HIDE DEF named
<1>3. CASE fact.what = None
  <2>1. told \o events = told
    BY <1>3 DEF OneEvent
  <2> QED
    BY <1>2, <1>3, <2>1 DEF named
<1>4. CASE fact.what # None
  <2>1. PICK x : events = <<x>> /\ \A field \in DOMAIN fact : x[field] = fact[field]
    BY <1>4 DEF OneEvent
  <2>2. told \in Seq(T \cup {x}) /\ <<x>> \in Seq(T \cup {x})
    OBVIOUS
  <2> DEFINE more == told \o <<x>>
             after == Append(named, fact)
  <2>3. more \in Seq(T \cup {x}) /\ Len(more) = Len(told) + 1 /\ (\A i \in 1 .. Len(told) : more[i] = told[i]) /\ more[Len(told) + 1] = x
    BY <2>2
  <2>4. /\ DOMAIN after = 1 .. (Len(named) + 1) /\ Len(after) = Len(named) + 1 /\ (\A i \in 1 .. Len(named) : after[i] = named[i])
        /\ after[Len(named) + 1] = fact /\ DOMAIN named = 1 .. Len(named) /\ Len(named) \in Nat
    BY <1>1
  <2>5. Len(told) = Len(named) /\ \A i \in DOMAIN named : \A field \in DOMAIN named[i] : told[i][field] = named[i][field]
    BY DEF Matches, named
  <2> HIDE DEF more, after
  <2>6. \A i \in DOMAIN after : i \in 1 .. Len(named) \/ i = Len(named) + 1
    BY <2>4
  <2>7. \A i \in DOMAIN after : \A field \in DOMAIN after[i] : more[i][field] = after[i][field]
    BY <2>1, <2>3, <2>4, <2>5, <2>6
  <2>8. Matches(more, after)
    BY <2>3, <2>4, <2>5, <2>7 DEF Matches
  <2> QED
    BY <1>2, <1>4, <2>1, <2>3, <2>8 DEF more, after
<1> QED
  BY <1>3, <1>4

\* What each fact is.
LEMMA FactIs ==
  ASSUME NEW f \in Facts
  PROVE  /\ DOMAIN f = {"event", "what", "value", "gone"}
         /\ \/ f.event = "newsletter.reaction"
            \/ f.event = "newsletter.view" /\ f.gone = FALSE
            \/ f.event = "newsletter-participants.update" /\ f.value = "ADMIN" /\ f.gone = FALSE
            \/ f.event = "newsletter-settings.update" /\ f.what = "name" /\ f.value = "news" /\ f.gone = FALSE
<1>1. CASE f \in [event : {"newsletter.reaction"}, what : {None, "m1"}, value : {"smile"}, gone : BOOLEAN]
  BY <1>1
<1>2. CASE f \in [event : {"newsletter.view"}, what : {"m1"}, value : {"7"}, gone : {FALSE}]
  BY <1>2
<1>3. CASE f \in [event : {"newsletter-participants.update"}, what : {"u1"}, value : {"ADMIN"}, gone : {FALSE}]
  BY <1>3
<1>4. CASE f \in [event : {"newsletter-settings.update"}, what : {"name"}, value : {"news"}, gone : {FALSE}]
  BY <1>4
<1> QED
  BY <1>1, <1>2, <1>3, <1>4 DEF Facts

\* An event with all that a fact says.
LEMMA SaidIs ==
  ASSUME NEW f, DOMAIN f = {"event", "what", "value", "gone"}, NEW id, NEW events,
         f.what # None => events = <<[event |-> f.event, id |-> id, what |-> f.what, value |-> f.value, gone |-> f.gone]>>,
         f.what = None => events = << >>
  PROVE  OneEvent(f, events)
<1> DEFINE x == [event |-> f.event, id |-> id, what |-> f.what, value |-> f.value, gone |-> f.gone]
<1>1. \A field \in DOMAIN f : x[field] = f[field]
  OBVIOUS
<1> HIDE DEF x
<1>2. f.what # None => events = <<x>>
  BY DEF x
<1> QED
  BY <1>1, <1>2 DEF OneEvent

\* A child of a plain notification is announced as the fact it is for.
LEMMA PlainTells == ASSUME NEW f \in Facts, NEW n PROVE OneEvent(f, NewsletterEvent(n, Child(f)))
<1> DEFINE said == [event |-> f.event, id |-> n.from, what |-> f.what, value |-> f.value, gone |-> f.gone]
<1>1. DOMAIN f = {"event", "what", "value", "gone"}
  BY FactIs
<1>2. SUFFICES /\ f.what # None => NewsletterEvent(n, Child(f)) = <<said>>
               /\ f.what = None => NewsletterEvent(n, Child(f)) = << >>
  BY <1>1, SaidIs
<1>3. CASE f.event = "newsletter.reaction"
  <2> DEFINE x == Child(f)
  <2>1. x = [tag |-> "reaction", server_id |-> f.what, code |-> f.value, removed |-> f.gone]
    BY <1>3 DEF Child
  <2>2. x.tag = "reaction" /\ x.server_id = f.what /\ x.code = f.value /\ x.removed = f.gone
    BY <2>1
  <2> HIDE DEF x
  <2>3. NewsletterEvent(n, x) = IF f.what # None
          THEN <<[event |-> "newsletter.reaction", id |-> n.from, what |-> f.what, value |-> f.value, gone |-> f.gone]>> ELSE << >>
    BY <2>2 DEF NewsletterEvent
  <2> QED
    BY <1>3, <2>3 DEF x
<1>4. CASE f.event = "newsletter.view" /\ f.gone = FALSE
  <2> DEFINE x == Child(f)
  <2>1. x = [tag |-> "view", server_id |-> f.what, count |-> f.value]
    BY <1>4 DEF Child
  <2>2. x.tag = "view" /\ x.server_id = f.what /\ x.count = f.value
    BY <2>1
  <2> HIDE DEF x
  <2>3. NewsletterEvent(n, x) = IF f.what # None
          THEN <<[event |-> "newsletter.view", id |-> n.from, what |-> f.what, value |-> f.value, gone |-> FALSE]>> ELSE << >>
    BY <2>2 DEF NewsletterEvent
  <2> QED
    BY <1>4, <2>3 DEF x
<1>5. CASE f.event = "newsletter-participants.update" /\ f.gone = FALSE
  <2> DEFINE x == Child(f)
  <2>1. x = [tag |-> "participant", user |-> f.what, role |-> f.value]
    BY <1>5 DEF Child
  <2>2. x.tag = "participant" /\ x.user = f.what /\ x.role = f.value
    BY <2>1
  <2> HIDE DEF x
  <2>3. NewsletterEvent(n, x) = IF f.what # None
          THEN <<[event |-> "newsletter-participants.update", id |-> n.from, what |-> f.what, value |-> f.value, gone |-> FALSE]>> ELSE << >>
    BY <2>2 DEF NewsletterEvent
  <2> QED
    BY <1>5, <2>3 DEF x
<1>6. CASE f.event = "newsletter-settings.update" /\ f.what = "name" /\ f.value = "news" /\ f.gone = FALSE
  <2> DEFINE x == Child(f)
  <2>1. x = [tag |-> "update", name |-> f.value]
    BY <1>6 DEF Child
  <2>2. x.tag = "update" /\ x.name = f.value
    BY <2>1
  <2> HIDE DEF x
  <2>3. f.value # None /\ f.what # None
    BY <1>6, FactsAssumption
  <2>4. NewsletterEvent(n, x) = <<[event |-> "newsletter-settings.update", id |-> n.from, what |-> "name", value |-> f.value, gone |-> FALSE]>>
    BY <2>2, <2>3 DEF NewsletterEvent
  <2> QED
    BY <1>6, <2>3, <2>4 DEF x
<1> QED
  BY <1>3, <1>4, <1>5, <1>6, FactIs

\* And so is an update of a notification by mex.
LEMMA MexTells ==
  ASSUME NEW f \in Facts, f.event \in {"newsletter-participants.update", "newsletter-settings.update"}, NEW g, g.event = f.event,
         NEW id, id # None
  PROVE  OneEvent(f, MexEvent(Operation(g), Update(id, f)))
<1> DEFINE said == [event |-> f.event, id |-> id, what |-> f.what, value |-> f.value, gone |-> f.gone]
           x == Update(id, f)
<1>1. DOMAIN f = {"event", "what", "value", "gone"}
  BY FactIs
<1>2. x.jid = id /\ x.user = f.what /\ x.name = f.value
  BY DEF Update
<1> HIDE DEF x
<1>3. SUFFICES /\ f.what # None => MexEvent(Operation(g), x) = <<said>>
               /\ f.what = None => MexEvent(Operation(g), x) = << >>
  BY <1>1, SaidIs DEF x
<1>4. CASE f.event = "newsletter-participants.update" /\ f.value = "ADMIN" /\ f.gone = FALSE
  <2>1. Operation(g) = "NotificationNewsletterAdminPromote"
    BY <1>4 DEF Operation
  <2>2. MexEvent(Operation(g), x) = IF f.what # None
          THEN <<[event |-> "newsletter-participants.update", id |-> id, what |-> f.what, value |-> "ADMIN", gone |-> FALSE]>> ELSE << >>
    BY <1>2, <2>1 DEF MexEvent
  <2> QED
    BY <1>4, <2>2
<1>5. CASE f.event = "newsletter-settings.update" /\ f.what = "name" /\ f.value = "news" /\ f.gone = FALSE
  <2>1. Operation(g) = "NotificationNewsletterUpdate"
    BY <1>5 DEF Operation
  <2>2. f.value # None /\ f.what # None
    BY <1>5, FactsAssumption
  <2>3. MexEvent(Operation(g), x) = <<[event |-> "newsletter-settings.update", id |-> id, what |-> "name", value |-> f.value, gone |-> FALSE]>>
    BY <1>2, <2>1, <2>2 DEF MexEvent
  <2> QED
    BY <1>5, <2>2, <2>3
<1> QED
  BY <1>4, <1>5, FactIs

SomeFacts == {<<f>> : f \in Facts} \cup (Facts \X Facts)

\* How long a list is.
IsList(s) == s = [i \in DOMAIN s |-> s[i]]

LEMMA LengthOf ==
  ASSUME NEW s, IsList(s), NEW n \in Nat \ {0}, DOMAIN s = 1 .. n
  PROVE  Len(s) = n /\ s # << >>
<1> DEFINE S == {s[i] : i \in 1 .. n}
           t == [i \in 1 .. n |-> s[i]]
<1>1. s = t
  BY DEF IsList
<1>2. t \in [1 .. n -> S]
  OBVIOUS
<1>6. DOMAIN t = 1 .. n /\ 1 \in DOMAIN t
  OBVIOUS
<1> HIDE DEF t, S
<1>3. t \in Seq(S)
  BY <1>2
<1>4. Len(t) \in Nat /\ DOMAIN t = 1 .. Len(t)
  BY <1>3
<1>5. Len(t) = n
  <2> DEFINE k == Len(t)
  <2>1. k \in Nat /\ 1 .. k = 1 .. n
    BY <1>4, <1>6, Zenon
  <2> HIDE DEF k
  <2>2. n \in 1 .. n /\ 1 \in 1 .. n
    OBVIOUS
  <2>3. n <= k
    BY <2>1, <2>2
  <2>4. k \in 1 .. n
    BY <2>1, <2>3
  <2> QED
    BY <2>3, <2>4 DEF k
<1> QED
  BY <1>1, <1>5, <1>6

\* Facts that come together are told one by one.
LEMMA AllMatch ==
  ASSUME NEW S, Facts \subseteq S, NEW said \in Seq(S), NEW T, NEW told \in Seq(T), Matches(told, Named(said)),
         NEW facts \in SomeFacts, NEW events, DOMAIN events = DOMAIN facts, IsList(events),
         \A i \in DOMAIN facts : OneEvent(facts[i], events[i])
  PROVE  (\E U : told \o FlattenSeq(events) \in Seq(U)) /\ Matches(told \o FlattenSeq(events), Named(said \o facts))
<1>1. \A i \in DOMAIN facts : \E U : events[i] \in Seq(U)
  <2>1. TAKE i \in DOMAIN facts
  <2>2. CASE facts[i].what = None
    <3>1. events[i] = << >>
      BY <2>2 DEF OneEvent
    <3> QED
      BY <3>1
  <2>3. CASE facts[i].what # None
    <3>1. PICK x : events[i] = <<x>>
      BY <2>3 DEF OneEvent
    <3>2. <<x>> \in Seq({x})
      OBVIOUS
    <3> QED
      BY <3>1, <3>2
  <2> QED
    BY <2>2, <2>3
<1>2. CASE \E f \in Facts : facts = <<f>>
  <2>1. PICK f \in Facts : facts = <<f>>
    BY <1>2
  <2>2. DOMAIN events = 1 .. 1 /\ facts[1] = f /\ 1 \in DOMAIN facts
    BY <2>1
  <2>3. Len(events) = 1 /\ events # << >>
    <3>1. IsList(events) /\ DOMAIN events = 1 .. 1 /\ 1 \in Nat \ {0}
      BY <2>2
    <3> QED
      BY ONLY <3>1, LengthOf
  <2>4. FlattenSeq(events) = events[1]
    BY <2>3, FlattenOne
  <2>5. said \o facts = Append(said, f)
    BY <2>1
  <2>6. OneEvent(f, events[1]) /\ f \in S
    BY <2>2
  <2> QED
    BY <2>4, <2>5, <2>6, MatchesMore
<1>3. CASE \E f, g \in Facts : facts = <<f, g>>
  <2>1. PICK f \in Facts, g \in Facts : facts = <<f, g>>
    BY <1>3
  <2>2. DOMAIN events = 1 .. 2 /\ facts[1] = f /\ facts[2] = g /\ 1 \in DOMAIN facts /\ 2 \in DOMAIN facts
    BY <2>1
  <2>3. Len(events) = 2 /\ events # << >>
    <3>1. IsList(events) /\ DOMAIN events = 1 .. 2 /\ 2 \in Nat \ {0}
      BY <2>2
    <3> QED
      BY ONLY <3>1, LengthOf
  <2>4. FlattenSeq(events) = events[1] \o events[2]
    BY <2>3, FlattenTwo
  <2>5. f \in S /\ g \in S /\ OneEvent(f, events[1]) /\ OneEvent(g, events[2])
    BY <2>2
  <2> DEFINE more == told \o events[1]
             longer == Append(said, f)
  <2>6. (\E U : more \in Seq(U)) /\ Matches(more, Named(longer)) /\ longer \in Seq(S)
    BY <2>5, MatchesMore
  <2>7. said \o facts = Append(longer, g)
    <3>1. said \o <<f, g>> = Append(Append(said, f), g)
      BY <2>5
    <3> QED
      BY <2>1, <3>1
  <2>8. told \o FlattenSeq(events) = more \o events[2]
    <3>1. PICK V : events[1] \in Seq(V)
      BY <1>1, <2>2
    <3>2. PICK W : events[2] \in Seq(W)
      BY <1>1, <2>2
    <3> DEFINE X == T \cup V \cup W
    <3>3. told \in Seq(X) /\ events[1] \in Seq(X) /\ events[2] \in Seq(X)
      BY <3>1, <3>2
    <3> HIDE DEF X
    <3> DEFINE a == events[1]
               b == events[2]
    <3>5. told \in Seq(X) /\ a \in Seq(X) /\ b \in Seq(X)
      BY <3>3
    <3> HIDE DEF a, b
    <3>4. told \o (a \o b) = (told \o a) \o b
      BY ONLY <3>5, ConcatAssociative
    <3> QED
      BY <2>4, <3>4 DEF a, b
  <2> HIDE DEF more, longer
  <2>9. PICK U : more \in Seq(U)
    BY <2>6
  <2>10. (\E X : more \o events[2] \in Seq(X)) /\ Matches(more \o events[2], Named(Append(longer, g)))
    BY <2>5, <2>6, <2>9, MatchesMore
  <2> QED
    BY <2>7, <2>8, <2>10
<1> QED
  BY <1>2, <1>3 DEF SomeFacts

\* A child has the tag of what it is about.
LEMMA ChildIs == \A f : Child(f).tag \in {"reaction", "view", "participant", "update"}
<1> TAKE f
<1>1. \/ Child(f) = [tag |-> "reaction", server_id |-> f.what, code |-> f.value, removed |-> f.gone]
      \/ Child(f) = [tag |-> "view", server_id |-> f.what, count |-> f.value]
      \/ Child(f) = [tag |-> "participant", user |-> f.what, role |-> f.value]
      \/ Child(f) = [tag |-> "update", name |-> f.value]
  BY DEF Child
<1> QED
  BY <1>1

\* The events of a plain notification are those of its facts.
LEMMA PlainEvents ==
  ASSUME NEW type \in {"newsletter", None}, NEW facts
  PROVE  LET n == Plain(type, Jid("n", "newsletter"), facts)
         IN ChannelEvents(n) = FlattenSeq([i \in DOMAIN facts |-> NewsletterEvent(n, Child(facts[i]))])
<1> DEFINE id == Jid("n", "newsletter")
           n == Plain(type, id, facts)
           info == parse_notification_info(n)
<1>1. /\ n.type = type /\ n.from = id /\ n.children = [i \in DOMAIN facts |-> Child(facts[i])]
      /\ n.tags = {Child(facts[i]).tag : i \in DOMAIN facts}
  BY DEF Plain
<1> HIDE DEF n
<1>2. info.type = type /\ info.from = id
  BY <1>1 DEF parse_notification_info
<1> HIDE DEF info
<1>3. id # None /\ is_newsletter(id)
  BY FactsAssumption DEF is_newsletter, Jid
<1> HIDE DEF id
<1>4. ~(n.type = "mex" \/ "mex" \in n.tags)
  <2>1. \A i : Child(facts[i]).tag # "mex"
    BY ChildIs
  <2> QED
    BY <1>1, <2>1, FactsAssumption
<1>5. ChannelEvents(n) = parse_newsletter_notification_events(n)
  BY <1>2, <1>3 DEF ChannelEvents, info
<1>6. parse_newsletter_notification_events(n) = FlattenSeq([i \in DOMAIN n.children |-> NewsletterEvent(n, n.children[i])])
  <2> DEFINE byMex == n.type = "mex" \/ "mex" \in n.tags
  <2>1. ~byMex /\ n.from # None
    BY <1>1, <1>3, <1>4
  <2>2. [i \in DOMAIN n.children |-> IF byMex THEN MexEvent(n.operation, n.children[i])
                                     ELSE IF n.from = None THEN << >> ELSE NewsletterEvent(n, n.children[i])]
        = [i \in DOMAIN n.children |-> NewsletterEvent(n, n.children[i])]
    <3> HIDE DEF byMex
    <3> QED
      BY <2>1
  <2> QED
    BY <2>2 DEF parse_newsletter_notification_events
<1>7. [i \in DOMAIN n.children |-> NewsletterEvent(n, n.children[i])] = [i \in DOMAIN facts |-> NewsletterEvent(n, Child(facts[i]))]
  BY <1>1
<1> QED
  BY <1>5, <1>6, <1>7 DEF n, id

\* And so are those of one by mex.
LEMMA MexEvents ==
  ASSUME NEW type \in {"mex", None}, NEW tag \in {"mex", "update"}, type = "mex" \/ tag = "mex", NEW facts
  PROVE  LET id == Jid("n", "newsletter")
         IN ChannelEvents(ByMex(type, tag, id, facts))
              = FlattenSeq([i \in DOMAIN facts |-> MexEvent(Operation(facts[1]), Update(id, facts[i]))])
<1> DEFINE id == Jid("n", "newsletter")
           n == ByMex(type, tag, id, facts)
           info == parse_notification_info(n)
<1>1. /\ n.type = type /\ n.operation = Operation(facts[1]) /\ n.children = [i \in DOMAIN facts |-> Update(id, facts[i])]
      /\ n.tags = {tag}
  BY DEF ByMex
<1> HIDE DEF n
<1>2. info.type = type /\ info.category = Category(type, {tag})
  BY <1>1 DEF parse_notification_info
<1> HIDE DEF info, id
<1>3. n.type = "mex" \/ "mex" \in n.tags
  BY <1>1
<1>4. info.category = "newsletter" \/ info.type \in {"newsletter", "mex"}
  <2>1. CASE type = "mex"
    BY <1>2, <2>1
  <2>2. CASE type = None /\ tag = "mex"
    <3> DEFINE of(types, some) == None \in types \/ {"mex"} \cap some # {}
    <3>1. ~of({"encrypt", "devices"}, {"count", "devices", "device"})
      BY FactsAssumption
    <3>2. ~of({"identity", "security"}, {"identity", "device-identity", "key-index-list"})
      BY FactsAssumption
    <3>3. ~of({"contacts", "contact"}, {"contact", "contacts"})
      BY FactsAssumption
    <3>4. of({"newsletter", "mex"}, {"newsletter", "mex"})
      OBVIOUS
    <3>6. ~of({"w:gp2", "group", "participant"}, {"participant", "participants", "add", "remove", "promote", "demote"})
      BY FactsAssumption
    <3>7. ~of({"app_state", "app-state", "sync", "server_sync"}, {"collection", "patch", "sync"})
      BY FactsAssumption
    <3>8. ~of({"privacy", "privacy_token"}, {"privacy", "token", "tokens"})
      BY FactsAssumption
    <3>9. ~of({"server_props", "props"}, {"server_props", "props"})
      BY FactsAssumption
    <3>5. Category(None, {"mex"}) = "newsletter"
      BY <3>1, <3>2, <3>3, <3>4, <3>6, <3>7, <3>8, <3>9 DEF Category
    <3> QED
      BY <1>2, <2>2, <3>5
  <2> QED
    BY <2>1, <2>2
<1>5. ChannelEvents(n) = parse_newsletter_notification_events(n)
  BY <1>4 DEF ChannelEvents, info
<1>6. parse_newsletter_notification_events(n) = FlattenSeq([i \in DOMAIN n.children |-> MexEvent(n.operation, n.children[i])])
  <2> DEFINE byMex == n.type = "mex" \/ "mex" \in n.tags
  <2>1. byMex
    BY <1>3
  <2>2. [i \in DOMAIN n.children |-> IF byMex THEN MexEvent(n.operation, n.children[i])
                                     ELSE IF n.from = None THEN << >> ELSE NewsletterEvent(n, n.children[i])]
        = [i \in DOMAIN n.children |-> MexEvent(n.operation, n.children[i])]
    <3> HIDE DEF byMex
    <3> QED
      BY <2>1
  <2> QED
    BY <2>2 DEF parse_newsletter_notification_events
<1>7. [i \in DOMAIN n.children |-> MexEvent(n.operation, n.children[i])]
        = [i \in DOMAIN facts |-> MexEvent(Operation(facts[1]), Update(id, facts[i]))]
  BY <1>1
<1> QED
  BY <1>5, <1>6, <1>7 DEF n, id

\* What was told of a channel matches what was said of it.
ToldInv ==
  /\ {"said", "told"} \subseteq DOMAIN account
  /\ account.said \in Seq(Facts)
  /\ \E S : account.told \in Seq(S)
  /\ Matches(account.told, Named(account.said))

\* What else is known of the account leaves that alone.
LEMMA KnowsElse ==
  ASSUME ToldInv, NEW fields, Knows(fields), "said" \notin DOMAIN fields, "told" \notin DOMAIN fields
  PROVE  ToldInv'
<1>1. account' = fields ++ account
  BY DEF Knows
<1>2. DOMAIN account' = DOMAIN fields \cup DOMAIN account
  BY <1>1, PlusDomain
<1>3. account'["said"] = account["said"] /\ account'["told"] = account["told"]
  BY <1>1, PlusIs DEF ToldInv
<1> QED
  BY <1>2, <1>3 DEF ToldInv

\* Nor is it what a step that is about something else changes.
LEMMA AccountSame == ASSUME ToldInv, account' = account PROVE ToldInv'
BY DEF ToldInv

\* More is said and told of a channel.
LEMMA KnowsNews ==
  ASSUME ToldInv, NEW facts \in SomeFacts, NEW events, IsList(events), DOMAIN events = DOMAIN facts,
         \A i \in DOMAIN facts : OneEvent(facts[i], events[i]),
         Knows([said |-> account.said \o facts, told |-> account.told \o FlattenSeq(events)])
  PROVE  ToldInv'
<1> DEFINE said == account.said \o facts
           told == account.told \o FlattenSeq(events)
           f == [said |-> said, told |-> told]
<1>1. (\E U : told \in Seq(U)) /\ Matches(told, Named(said))
  <2>1. PICK T : account.told \in Seq(T)
    BY DEF ToldInv
  <2> QED
    BY <2>1, AllMatch DEF ToldInv
<1>2. said \in Seq(Facts)
  <2>1. facts \in Seq(Facts)
    BY DEF SomeFacts
  <2> QED
    BY <2>1 DEF ToldInv
<1>3. Knows(f)
  OBVIOUS
<1>4. DOMAIN f = {"said", "told"} /\ f["said"] = said /\ f["told"] = told
  OBVIOUS
<1> HIDE DEF f, said, told
<1>5. DOMAIN account' = DOMAIN f \cup DOMAIN account
  BY <1>3, PlusDomain DEF Knows
<1>6. account'["said"] = said /\ account'["told"] = told
  BY <1>3, <1>4, PlusIs DEF Knows
<1> QED
  BY <1>1, <1>2, <1>4, <1>5, <1>6 DEF ToldInv

\* A notification tells what is said in it, in either form.
LEMMA NotifiedTells == ASSUME ToldInv, NEW c \in Callers, ChannelNotified(c) PROVE ToldInv'
<1> DEFINE id == Jid("n", "newsletter")
<1>1. PICK facts \in SomeFacts :
        \/ \E type \in {"newsletter", None} :
             Knows([said |-> account.said \o facts, told |-> account.told \o ChannelEvents(Plain(type, id, facts))])
        \/ /\ \A i \in DOMAIN facts : facts[i].event \in {"newsletter-participants.update", "newsletter-settings.update"}
           /\ \A i \in DOMAIN facts : facts[i].event = facts[1].event
           /\ \E type \in {"mex", None}, tag \in {"mex", "update"} :
                /\ type = "mex" \/ tag = "mex"
                /\ Knows([said |-> account.said \o facts, told |-> account.told \o ChannelEvents(ByMex(type, tag, id, facts))])
  BY DEF ChannelNotified, SomeFacts
<1>2. \A i \in DOMAIN facts : facts[i] \in Facts
  BY DEF SomeFacts
<1>3. CASE \E type \in {"newsletter", None} :
             Knows([said |-> account.said \o facts, told |-> account.told \o ChannelEvents(Plain(type, id, facts))])
  <2>1. PICK type \in {"newsletter", None} :
          Knows([said |-> account.said \o facts, told |-> account.told \o ChannelEvents(Plain(type, id, facts))])
    BY <1>3
  <2> DEFINE n == Plain(type, id, facts)
             events == [i \in DOMAIN facts |-> NewsletterEvent(n, Child(facts[i]))]
  <2>2. ChannelEvents(n) = FlattenSeq(events)
    BY PlainEvents, Zenon
  <2> HIDE DEF n
  <2>3. \A i \in DOMAIN facts : OneEvent(facts[i], events[i])
    BY <1>2, PlainTells
  <2>4. IsList(events) /\ DOMAIN events = DOMAIN facts
    BY DEF IsList
  <2> HIDE DEF events
  <2>5. Knows([said |-> account.said \o facts, told |-> account.told \o FlattenSeq(events)])
    BY <2>1, <2>2 DEF n
  <2> QED
    BY <2>3, <2>4, <2>5, KnowsNews
<1>4. CASE /\ \A i \in DOMAIN facts : facts[i].event \in {"newsletter-participants.update", "newsletter-settings.update"}
           /\ \A i \in DOMAIN facts : facts[i].event = facts[1].event
           /\ \E type \in {"mex", None}, tag \in {"mex", "update"} :
                /\ type = "mex" \/ tag = "mex"
                /\ Knows([said |-> account.said \o facts, told |-> account.told \o ChannelEvents(ByMex(type, tag, id, facts))])
  <2>1. PICK type \in {"mex", None}, tag \in {"mex", "update"} :
          /\ type = "mex" \/ tag = "mex"
          /\ Knows([said |-> account.said \o facts, told |-> account.told \o ChannelEvents(ByMex(type, tag, id, facts))])
    BY <1>4
  <2> DEFINE n == ByMex(type, tag, id, facts)
             g == facts[1]
             events == [i \in DOMAIN facts |-> MexEvent(Operation(g), Update(id, facts[i]))]
  <2>2. ChannelEvents(n) = FlattenSeq(events)
    BY <2>1, MexEvents
  <2> HIDE DEF n
  <2>3. \A i \in DOMAIN facts : OneEvent(facts[i], events[i])
    <3>1. id # None
      BY FactsAssumption
    <3>2. TAKE i \in DOMAIN facts
    <3>3. facts[i].event \in {"newsletter-participants.update", "newsletter-settings.update"} /\ g.event = facts[i].event
      BY <1>4
    <3>4. events[i] = MexEvent(Operation(g), Update(id, facts[i]))
      OBVIOUS
    <3>5. facts[i] \in Facts
      BY <1>2
    <3> HIDE DEF events, g, id
    <3>6. OneEvent(facts[i], MexEvent(Operation(g), Update(id, facts[i])))
      BY <3>1, <3>3, <3>5, MexTells
    <3> QED
      BY <3>4, <3>6
  <2>4. IsList(events) /\ DOMAIN events = DOMAIN facts
    BY DEF IsList
  <2> HIDE DEF events
  <2>5. Knows([said |-> account.said \o facts, told |-> account.told \o FlattenSeq(events)])
    BY <2>1, <2>2 DEF n
  <2> QED
    BY <2>3, <2>4, <2>5, KnowsNews
<1> QED
  BY <1>1, <1>3, <1>4

\* Every step of a caller, or of the server for it, keeps that.
LEMMA ToldStays == ASSUME ToldInv, NEW c \in Callers, Frame(c) PROVE ToldInv'
<1>1. CASE account_call(c)
  <2>1. PICK seen : Knows([seen |-> seen])
    BY <1>1 DEF account_call
  <2> DEFINE f == [seen |-> seen]
  <2>2. "said" \notin DOMAIN f /\ "told" \notin DOMAIN f /\ Knows(f)
    BY <2>1
  <2> HIDE DEF f
  <2> QED
    BY <2>2, KnowsElse
<1>2. CASE ServeAccount(c)
  <2>1. PICK value, seen : Knows([readreceipts |-> value, seen |-> seen])
    BY <1>2 DEF ServeAccount
  <2> DEFINE f == [readreceipts |-> value, seen |-> seen]
  <2>2. "said" \notin DOMAIN f /\ "told" \notin DOMAIN f /\ Knows(f)
    BY <2>1
  <2> HIDE DEF f
  <2> QED
    BY <2>2, KnowsElse
<1>3. CASE ServeChannel(c)
  <2>1. PICK value : Knows([channels |-> value])
    BY <1>3 DEF ServeChannel
  <2> DEFINE f == [channels |-> value]
  <2>2. "said" \notin DOMAIN f /\ "told" \notin DOMAIN f /\ Knows(f)
    BY <2>1
  <2> HIDE DEF f
  <2> QED
    BY <2>2, KnowsElse
<1>4. CASE ServeProfile(c)
  <2>1. PICK after : account' = [account EXCEPT !.business = after]
    BY <1>4 DEF ServeProfile
  <2> QED
    BY <2>1 DEF ToldInv
<1>5. CASE ChannelNotified(c)
  BY <1>5, NotifiedTells
<1> QED
  BY <1>1, <1>2, <1>3, <1>4, <1>5, AccountSame DEF Frame

\* What is said in a channel is told once, by the event for it and in its order.
THEOREM ChannelToldRight == Spec => []ChannelTold
<1>1. Init => ToldInv
  <2> SUFFICES ASSUME Init PROVE ToldInv
    OBVIOUS
  <2>1. {"said", "told"} \subseteq DOMAIN account /\ account.said = << >> /\ account.told = << >>
    BY DEF Init, AskingInit
  <2>2. Named(<< >>) = << >>
    <3> DEFINE s == << >>
               kept == {i \in DOMAIN s : s[i].what # None}
    <3>1. s \in Seq({}) /\ DOMAIN s \subseteq kept
      OBVIOUS
    <3> HIDE DEF s, kept
    <3>2. Picked(s, kept) = s
      BY <3>1, PickedAll
    <3> QED
      BY <3>2 DEF Named, s, kept
  <2>3. << >> \in Seq({}) /\ << >> \in Seq(Facts) /\ Len(<< >>) = 0 /\ DOMAIN << >> = {}
    OBVIOUS
  <2>4. Matches(<< >>, << >>)
    BY <2>3 DEF Matches
  <2> QED
    BY <2>1, <2>2, <2>3, <2>4 DEF ToldInv
<1>2. ToldInv => ChannelTold
  BY Zenon DEF ToldInv, ChannelTold, Matches, Named
<1>3. BaseInv /\ ToldInv /\ [Next]_vars => ToldInv'
  <2> SUFFICES ASSUME BaseInv, ToldInv, [Next]_vars PROVE ToldInv'
    OBVIOUS
  <2>1. ASSUME NEW c \in Callers, Starts(c) \/ Serves(c) \/ Resumes(c) PROVE ToldInv'
    <3>1. Frame(c)
      BY <2>1, StepIs
    <3> QED
      BY <3>1, ToldStays
  <2>2. CASE MediaRetried
    <3>1. account' = account
      BY <2>2, RetriedIs DEF BaseInv, fixed, server
    <3> QED
      BY <3>1, AccountSame
  <2>3. CASE Crash
    <3>1. account' = account
      BY <2>3, CrashIs DEF BaseInv, fixed, Crash, server
    <3> QED
      BY <3>1, AccountSame
  <2>4. CASE Tick \/ Move \/ UNCHANGED vars
    <3>1. account' = account
      BY <2>4 DEF Tick, Move, vars, fixed, server
    <3> QED
      BY <3>1, AccountSame
  <2> QED
    BY <2>1, <2>2, <2>3, <2>4 DEF Next
<1> QED
  BY <1>1, <1>2, <1>3, BaseInvariant, PTL DEF Spec
=============================================================================
