---------------------------- MODULE ContactCalls ----------------------------
(***************************************************************************)
(* The calls that need to know who a contact is: to block one, to show a    *)
(* trusted contact's picture, to find out which numbers are on the service.  *)
(* chat_modify is here because it works on a copy of the credentials that    *)
(* the mappings are a part of.                                             *)
(***************************************************************************)
EXTENDS Asking

CONSTANT ChunkSize   \* on_whatsapp's chunk_size
ASSUME ChunkAssumption == ChunkSize \in Nat \ {0}

-----------------------------------------------------------------------------
(* Blocking.  The server wants the LID, and to block also the number.      *)

block_status_node(action, lid, pn) ==
  Query("blocklist", [action |-> action, lid |-> lid, pn |-> IF action = "block" THEN pn ELSE None])

\* _resolve_blocklist_jids, up to the question it may have to ask.
update_block_status(c) ==
  LET op == plan.does[c]
      jid == jid_normalized_user(op.jid)
  IN /\ Begins(c, {"block"})
     /\ \/ /\ op.action \notin {"block", "unblock"} \/ ~(is_lid(jid) \/ is_pn(jid))
           /\ Ends(c, "ContactResolutionError", NoChange)
        \/ /\ op.action \in {"block", "unblock"} /\ is_lid(jid)
           /\ \E pn \in pn_for_lid(rows, creds, jid) :
                IF op.action = "block" /\ pn = None THEN Ends(c, "ContactResolutionError", NoChange)
                ELSE Ask(c, block_status_node(op.action, jid, pn), "last", NoChange)
        \/ /\ op.action \in {"block", "unblock"} /\ is_pn(jid)
           /\ \E lid \in lid_for_pn(rows, creds, jid) :
                IF lid = None THEN Ask(c, Query("usync", <<jid>>), "refresh", NoChange)
                ELSE Ask(c, block_status_node(op.action, lid, jid), "last", NoChange)
     /\ UNCHANGED <<now, fixed, local, server, bounds>>

\* What the server says of an address: a number's LID, and nothing new of a LID.
EntryOf(jid) == [id |-> jid, lid |-> IF jid \in Numbers THEN lid_of[jid] ELSE IF is_lid(jid) THEN jid ELSE None]

AnswerUsync(c) ==
  LET asked == call[c].node.child
  IN /\ Waiting(c, "usync")
     /\ Answers(c, [entries |-> [i \in DOMAIN asked |-> EntryOf(asked[i])]], NoChange)
     /\ UNCHANGED <<now, fixed, local, server, bounds>>

\* The mappings of an answer: the live ones, and the table.
StoreEntries(entries, saved) ==
  /\ creds' = store_lid_pn_mappings(creds, entries)
  /\ disk' = IF saved /\ creds' # creds THEN creds' ELSE disk
  /\ rows' = IF base = "database" THEN save_lid_pn_mapping(rows, entries) ELSE rows
  /\ UNCHANGED <<tokens, conn, stored>>

\* An error is an answer without entries: neither call looks at its type.
Entries(answer) == IF answer.error = None THEN answer.entries ELSE << >>

\* _refresh_lid_mapping, and the second look for the LID.
BlockRefreshed(c) ==
  LET op == plan.does[c]
      jid == jid_normalized_user(op.jid)
  IN /\ Answered(c) /\ call[c].step = "refresh"
     /\ StoreEntries(Entries(call[c].answer), TRUE)
     /\ \E lid \in lid_for_pn(rows', creds', jid) :
          IF lid = None THEN Ends(c, "ContactResolutionError", NoChange)
          ELSE Ask(c, block_status_node(op.action, lid, jid), "last", NoChange)
     /\ UNCHANGED <<now, fixed, server, bounds>>

\* The devices of some addresses; with the cache the answer is not kept.
get_usync_devices(c) ==
  /\ Begins(c, {"devices"})
  /\ Ask(c, Query("usync", plan.does[c].jids), "first", NoChange)
  /\ UNCHANGED <<now, fixed, local, server, bounds>>

DevicesListed(c) ==
  /\ Answered(c) /\ plan.does[c].do = "devices"
  /\ Ends(c, "ok", NoChange)
  /\ IF plan.does[c].use_cache THEN UNCHANGED local ELSE StoreEntries(Entries(call[c].answer), FALSE)
  /\ UNCHANGED <<now, fixed, server, bounds>>

-----------------------------------------------------------------------------
(* Tokens of trusted contacts.                                             *)

\* Where the token of an address is kept: under its LID, if that is known.
TokenJids(jid) ==
  {resolve_tc_token_jid(jid, lid) : lid \in IF is_lid(jid) THEN {None} ELSE lid_for_pn(rows, creds, jid)}

issue_privacy_tokens(c) ==
  LET given == plan.does[c].jids
      jids == dedupe_jids([i \in DOMAIN given |-> jid_normalized_user(given[i])])
  IN /\ Begins(c, {"tokens"})
     /\ IF jids = << >> THEN Ends(c, "ValueError", NoChange)
        ELSE Ask(c, Query("privacy", jids), "first", NoChange)
     /\ UNCHANGED <<now, fixed, local, server, bounds>>

\* The server gives a token that is good from now on, or none.
AnswerTokens(c) ==
  /\ Waiting(c, "privacy")
  /\ \E some \in {<< >>, <<[timestamp |-> now]>>} : Answers(c, [tokens |-> some], NoChange)
  /\ UNCHANGED <<now, fixed, local, server, bounds>>

\* All tokens of the answer are stored for each address that was asked for.
TokensIssued(c) ==
  LET given == call[c].answer.tokens
      jids == call[c].node.child
  IN /\ Granting(c) /\ plan.does[c].do = "tokens"
     /\ \E at \in [DOMAIN jids -> UNION {TokenJids(jids[i]) : i \in DOMAIN jids}] :
          LET addresses == {at[i] : i \in DOMAIN jids}
          IN /\ \A i \in DOMAIN jids : at[i] \in TokenJids(jids[i])
             /\ tokens' = IF given = << >> THEN tokens ELSE store_tc_tokens_from_iq_result(tokens, given, addresses)
             /\ stored' = stored \cup [at : addresses, timestamp : {given[k].timestamp : k \in DOMAIN given}]
     /\ Ends(c, "ok", NoChange)
     /\ UNCHANGED <<now, fixed, server, bounds, creds, disk, rows, conn>>

\* The picture of another user is asked for with the token held of that user.
profile_picture_url(c) ==
  LET jid == jid_normalized_user(plan.does[c].jid)
  IN /\ Begins(c, {"picture"})
     /\ \E at \in TokenJids(jid) :
          /\ tokens' = TokensAfterBuild(tokens, at, now)
          /\ Ask(c, Query("picture", [at |-> at, token |-> build_tc_token(tokens, at, now), time |-> now]),
                 "first", NoChange)
     /\ UNCHANGED <<now, fixed, server, bounds, creds, disk, rows, conn, stored>>

-----------------------------------------------------------------------------
(* chat_modify: it waits on a copy, and makes the copy the credentials.    *)

chat_modify(c) ==
  /\ Begins(c, {"modify"})
  /\ Ask(c, Query("app_state", None), "first", [copy |-> creds])
  /\ UNCHANGED <<now, fixed, local, server, bounds>>

ChatModified(c) ==
  /\ Granting(c) /\ plan.does[c].do = "modify"
  /\ creds' = call[c].copy /\ disk' = call[c].copy
  /\ Ends(c, "ok", NoChange)
  /\ UNCHANGED <<now, fixed, server, bounds, rows, tokens, conn, stored>>

-----------------------------------------------------------------------------
(* on_whatsapp: in chunks, and one by one after a chunk that timed out.    *)

\* Mutant: the first number after a chunk is left out.
AfterChunk_Skips(todo) == SubSeq(todo, ChunkSize + 2, Len(todo))

\* The numbers that a query is about.
Chunk(todo) == SubSeq(todo, 1, IF Len(todo) < ChunkSize THEN Len(todo) ELSE ChunkSize)
AfterChunk(todo) == SubSeq(todo, Len(Chunk(todo)) + 1, Len(todo))

\* What is asked next, if there is time left; no results at all and a timeout raise.
NextChunk(c, fields) ==
  LET k == fields ++ call[c]
      late == now >= k.end
  IN CASE k.alone # << >> /\ ~late ->
            Ask(c, Query("contact", <<Head(k.alone)>>), "alone",
                [alone |-> Tail(k.alone), due |-> k.end] ++ fields)
       [] k.alone = << >> /\ k.todo # << >> /\ ~late ->
            Ask(c, Query("contact", Chunk(k.todo)), "chunk", [todo |-> AfterChunk(k.todo), due |-> k.end] ++ fields)
       [] OTHER -> Ends(c, IF k.got = << >> /\ k.cut THEN "TimeoutError" ELSE "ok", fields)

\* Blank arguments and LIDs are not asked about.
Askable(numbers) == Picked(numbers, {i \in DOMAIN numbers : numbers[i] # None /\ numbers[i].server # "lid"})

on_whatsapp(c) ==
  /\ Begins(c, {"exists"})
  /\ NextChunk(c, [todo |-> Askable(plan.does[c].numbers), end |-> now + Timeout])
  /\ UNCHANGED <<now, fixed, local, server, bounds>>

\* The server knows its numbers, and says nothing of others.
AnswerContacts(c) ==
  LET asked == call[c].node.child
      known == Picked(asked, {i \in DOMAIN asked : asked[i] \in Numbers})
  IN /\ Waiting(c, "contact")
     /\ Answers(c, [numbers |-> known], NoChange)
     /\ UNCHANGED <<now, fixed, local, server, bounds>>

\* A number is among the results once.
Gather(got, numbers) == got \o Picked(numbers, {i \in DOMAIN numbers : numbers[i] \notin ToSet(got \o SubSeq(numbers, 1, i - 1))})

NumbersFound(c) ==
  /\ Granting(c) /\ plan.does[c].do = "exists"
  /\ NextChunk(c, [got |-> Gather(call[c].got, call[c].answer.numbers)])
  /\ UNCHANGED <<now, fixed, local, server, bounds>>

\* The query timed out: a chunk of several is asked again number by number.
NumbersLate(c) ==
  LET asked == call[c].node.child
  IN NextChunk(c, [cut |-> TRUE] ++ (IF call[c].step = "chunk" /\ Len(asked) > 1 THEN [alone |-> asked] ELSE NoChange))

-----------------------------------------------------------------------------
\* The server blocks, changes the app state or gives the picture.
ServeContact(c) ==
  /\ \E about \in {"blocklist", "app_state", "picture"} : Waiting(c, about)
  /\ Answers(c, NoChange, NoChange)
  /\ UNCHANGED <<now, fixed, local, server, bounds>>

ContactEnds(c) ==
  /\ \/ Granting(c) /\ (call[c].step = "last" \/ plan.does[c].do = "picture")
     \/ Refused(c) /\ plan.does[c].do \in {"block", "tokens", "picture", "modify", "exists"} /\ call[c].step # "refresh"
  /\ Ends(c, IF Refused(c) THEN "IQError" ELSE "ok", NoChange)
  /\ UNCHANGED <<now, fixed, local, server, bounds>>
=============================================================================
