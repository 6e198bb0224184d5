------------------------------ MODULE Contacts ------------------------------
(***************************************************************************)
(* What the client remembers about others: which LID goes with which phone  *)
(* number (the *_lid_* helpers of socket.py and the table of the databases) *)
(* and the trusted-contact tokens (privacy_tokens.py).                      *)
(*                                                                         *)
(* A mapping is [pn_lid, lid_pn], two functions over the addresses seen.    *)
(* The table is the set of its rows [lid, pn]: one row for each lid.        *)
(***************************************************************************)
EXTENDS Jids, FiniteSets, SequencesExt

CONSTANT NumBuckets   \* TC_TOKEN_NUM_BUCKETS: how many weeks a token lives

NoMapping == [pn_lid |-> << >>, lid_pn |-> << >>]

-----------------------------------------------------------------------------
(* Mappings.  An entry is [id, lid] of a usync answer or of a participant.  *)

Normalized(e) == [pn |-> jid_normalized_user(e.id), lid |-> jid_normalized_user(e.lid)]

\* Mutant: the two addresses may be of any kind.
Pairs_Any(entries) ==
  [i \in {k \in DOMAIN entries : entries[k].id # None /\ entries[k].lid # None} |-> Normalized(entries[i])]

\* What is stored of the entries, at their positions: those with a number and a LID, without
\* devices.
Usable(e) == e.id # None /\ e.lid # None /\ is_pn(e.id) /\ is_lid(e.lid)
Pairs(entries) == [i \in {k \in DOMAIN entries : Usable(entries[k])} |-> Normalized(entries[i])]

\* They are stored in turn: of the pairs with the same key, the last stays.
Lasts(pairs, key) == {i \in DOMAIN pairs : \A k \in DOMAIN pairs : k > i => pairs[k][key] # pairs[i][key]}

Overwritten(f, pairs, key, value) ==
  LET last == Lasts(pairs, key)
  IN [x \in {pairs[i][key] : i \in last} |-> pairs[CHOOSE i \in last : pairs[i][key] = x][value]] ++ f

store_lid_pn_mappings(map, entries) ==
  [pn_lid |-> Overwritten(map.pn_lid, Pairs(entries), "pn", "lid"),
   lid_pn |-> Overwritten(map.lid_pn, Pairs(entries), "lid", "pn")]

\* A row is keyed by its lid: the rows of a number's earlier lids stay.
save_lid_pn_mapping(rows, entries) ==
  LET pairs == Pairs(entries)
      last == Lasts(pairs, "lid")
  IN {r \in rows : \A i \in last : pairs[i].lid # r.lid} \cup {pairs[i] : i \in last}

\* The participants of a group that show a number.
GroupEntries(participants) ==
  [i \in {k \in DOMAIN participants : participants[k].phone_number # None} |->
     [id |-> participants[i].phone_number, lid |-> participants[i].jid]]

\* The select has no order: any row of the number may come first.
lid_for_pn(rows, map, pn) ==
  LET held == {r.lid : r \in {x \in rows : x.pn = pn}}
  IN CASE held # {} -> held
       [] held = {} /\ pn \in DOMAIN map.pn_lid -> {map.pn_lid[pn]}
       [] OTHER -> {None}

pn_for_lid(rows, map, lid) ==
  LET held == {r.pn : r \in {x \in rows : x.lid = lid}}
  IN CASE held # {} -> held
       [] held = {} /\ lid \in DOMAIN map.lid_pn -> {map.lid_pn[lid]}
       [] OTHER -> {None}

-----------------------------------------------------------------------------
(* Tokens.  The store holds [token, timestamp] for an address; time is in   *)
(* weeks (TC_TOKEN_BUCKET_DURATION).                                       *)

is_tc_token_expired(timestamp, now) == timestamp + NumBuckets <= now

resolve_tc_token_jid(jid, lid) == IF is_lid(jid) \/ lid = None THEN jid ELSE lid

\* Mutant: an answer that comes late takes the place of a newer token.
Kept_Any(some) == {Len(some)}

\* Of tokens that are stored in turn, one that is older than what is held is not kept.
Kept(some) ==
  {i \in DOMAIN some : \A k \in DOMAIN some :
     some[k].timestamp <= some[i].timestamp /\ (k > i => some[k].timestamp < some[i].timestamp)}

Newest(tokens, answer, j) ==
  LET some == (IF j \in DOMAIN tokens THEN <<tokens[j]>> ELSE << >>) \o answer
  IN some[CHOOSE i \in Kept(some) : TRUE]

\* Every token of the answer is stored for each of the addresses.
store_tc_tokens_from_iq_result(tokens, answer, addresses) ==
  [j \in addresses |-> Newest(tokens, answer, j)] ++ tokens

\* What goes into the request: the token, or None when there is none or it is too old.
build_tc_token(tokens, at, now) ==
  IF at \in DOMAIN tokens /\ ~is_tc_token_expired(tokens[at].timestamp, now) THEN tokens[at] ELSE None

\* One that is too old is forgotten.
TokensAfterBuild(tokens, at, now) ==
  IF build_tc_token(tokens, at, now) # None THEN tokens
  ELSE [j \in DOMAIN tokens \ {at} |-> tokens[j]]
=============================================================================
