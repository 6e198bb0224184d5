------------------------------ MODULE AppState ------------------------------
(***************************************************************************)
(* One app-state collection: its LT hash state in the credentials, the     *)
(* patches that chat_modify encodes and the snapshots and patches that     *)
(* sync_app_state applies, while key shares arrive and other operations    *)
(* commit copies of the credentials.                                       *)
(*                                                                         *)
(* A mutation is known by its value MAC, and the LT hash, a sum over value *)
(* MACs, by the set of them: two hashes, and two MACs over them, are equal *)
(* when the sets are.  The log holds the patches the server accepted, each *)
(* with the map that the collection has after it.                          *)
(***************************************************************************)
EXTENDS Naturals, Sequences

CONSTANTS Callers,     \* tasks that run operations of the client
          Others,      \* in the place of a caller: the account's other devices
          Indexes,     \* indexes of mutations
          Keys,        \* app-state sync keys
          NoKey,
          NoMac,
          MaxVersion   \* bound: patches in the log

Versions == 0..MaxVersion
\* A MAC covers the mutation's index and value, which the version and the author stand for.
Macs == [index : Indexes, at : 1..MaxVersion + 1, by : Callers \cup {Others}, key : Keys]

ASSUME AppStateAssumption ==
  /\ Others \notin Callers
  /\ NoKey \notin Keys
  /\ NoMac \notin Macs
  /\ MaxVersion \in Nat

Maps == {map \in [Indexes -> Macs \cup {NoMac}] :
           \A i \in Indexes : map[i] # NoMac => map[i].index = i}
MacsOf(map) == {map[i] : i \in Indexes} \ {NoMac}

\* LTHashState.  Not in the code: clean, whether every mutation up to the version is in it.
States == [version : 0..MaxVersion + 1, hash : SUBSET Macs, map : Maps, clean : BOOLEAN]
NoMap == [i \in Indexes |-> NoMac]
NoState == [version |-> 0, hash |-> {}, map |-> NoMap, clean |-> TRUE]

Patches == [index : Indexes,
            remove : BOOLEAN,
            mac : Macs,
            snapshotMac : SUBSET Macs,
            map : Maps,           \* the collection after the patch
            sound : BOOLEAN]      \* it was made from a state that was clean

Creds == [state : States,              \* app_state_sync_versions[collection]
          keys : SUBSET Keys,          \* app_state_sync_keys
          mine : Keys \cup {NoKey},    \* myAppStateKeyId
          blocked : Keys \cup {NoKey}] \* app_state_blocked_collections[collection]

VARIABLES
  log,       \* patches the server accepted
  creds,     \* the credentials
  pc,        \* where a caller is
  work,      \* the copy of the credentials a caller works on
  patch,     \* the patch a caller sends
  from,      \* version after which a caller asked for patches
  upto,      \* the last version of the answer
  state,     \* the state a sync applies patches to
  detached   \* syncs whose dictionary is no longer the credentials

vars == <<log, creds, pc, work, patch, from, upto, state, detached>>

TypeOK ==
  /\ log \in Seq(Patches) /\ Len(log) <= MaxVersion
  /\ creds \in Creds
  /\ pc \in [Callers -> {"idle", "copy", "modify", "accepted", "asks", "asksAll", "apply"}]
  /\ work \in [Callers -> Creds]
  /\ DOMAIN patch = Callers /\ \A c \in Callers : pc[c] = "modify" => patch[c] \in Patches
  /\ from \in [Callers -> Versions]
  /\ upto \in [Callers -> Versions]
  /\ state \in [Callers -> States]
  /\ detached \in SUBSET Callers

NoCreds == [state |-> NoState, keys |-> {}, mine |-> NoKey, blocked |-> NoKey]

Init ==
  /\ log = <<>>
  /\ creds = NoCreds
  /\ pc = [c \in Callers |-> "idle"]
  /\ work = [c \in Callers |-> NoCreds]
  /\ patch = [c \in Callers |-> <<>>]
  /\ from = [c \in Callers |-> 0]
  /\ upto = [c \in Callers |-> 0]
  /\ state = [c \in Callers |-> NoState]
  /\ detached = {}

-----------------------------------------------------------------------------
MapAt(v) == IF v = 0 THEN NoMap ELSE log[v].map
At(c, label) == pc[c] = label
Goto(c, label) == pc' = [pc EXCEPT ![c] = label]

\* The caller's operation is over.
Return(c) ==
  /\ Goto(c, "idle")
  /\ work' = [work EXCEPT ![c] = NoCreds]
  /\ patch' = [patch EXCEPT ![c] = <<>>]
  /\ from' = [from EXCEPT ![c] = 0]
  /\ upto' = [upto EXCEPT ![c] = 0]
  /\ state' = [state EXCEPT ![c] = NoState]

\* What a mutation makes of the collection.
Mutated(map, i, remove, mac) == [map EXCEPT ![i] = IF remove THEN NoMac ELSE mac]

\* _mix_lthash_mutation
_mix_lthash_mutation_set_only(st, i, remove, mac) ==
  [st EXCEPT !.hash = (@ \ {st.map[i]}) \cup {mac}, !.map[i] = mac]

_mix_lthash_mutation(st, i, remove, mac) ==
  [version |-> st.version,
   hash |-> (st.hash \ {st.map[i]}) \cup (IF remove THEN {} ELSE {mac}),
   map |-> Mutated(st.map, i, remove, mac),
   clean |-> st.clean]

\* encode_syncd_patch: the new state.  It adds the value MAC of a REMOVE as well.
encode_syncd_patch_keeps_previous(st, i, remove, mac) ==
  [st EXCEPT !.hash = @ \cup {mac}, !.version = @ + 1, !.map[i] = mac, !.clean = IF remove THEN FALSE ELSE @]

encode_syncd_patch(st, i, remove, mac) ==
  [version |-> st.version + 1,
   hash |-> (st.hash \ {st.map[i]}) \cup {mac},
   map |-> [st.map EXCEPT ![i] = mac],
   clean |-> st.clean /\ ~remove]

-----------------------------------------------------------------------------
(* chat_modify, and the other operations that commit a copy                *)

\* Without the key chat_modify raises.
HasKey == creds.mine \in creds.keys

chat_modify(c, i, remove) ==
  LET mac == [index |-> i, at |-> creds.state.version + 1, by |-> c, key |-> creds.mine]
      st == encode_syncd_patch(creds.state, i, remove, mac)
  IN  /\ At(c, "idle")
      /\ HasKey
      /\ Goto(c, "modify")
      /\ work' = [work EXCEPT ![c] = [creds EXCEPT !.state = st]]
      /\ patch' = [patch EXCEPT ![c] = [index |-> i, remove |-> remove, mac |-> mac,
                                        snapshotMac |-> st.hash,
                                        map |-> NoMap,    \* until it is accepted
                                        sound |-> st.clean]]
      /\ UNCHANGED <<log, creds, from, upto, state, detached>>

\* The server takes a patch of the version after its own, and answers.
ServerAccepts(c) ==
  /\ At(c, "modify")
  /\ work[c].state.version = Len(log) + 1 /\ Len(log) < MaxVersion
  /\ log' = Append(log, [patch[c] EXCEPT !.map = Mutated(MapAt(Len(log)), patch[c].index,
                                                         patch[c].remove, patch[c].mac)])
  /\ Goto(c, "accepted")
  /\ UNCHANGED <<creds, work, patch, from, upto, state, detached>>

\* Any other is refused, and _query_checked raises; a query may time out, accepted or not.
OperationFails(c) ==
  /\ pc[c] # "idle"
  /\ Return(c)
  /\ detached' = detached \ {c}
  /\ UNCHANGED <<log, creds>>

\* upload_pre_keys, rotate_signed_pre_key, assert_sessions
OperationCopies(c) ==
  /\ At(c, "idle")
  /\ Goto(c, "copy")
  /\ work' = [work EXCEPT ![c] = creds]
  /\ UNCHANGED <<log, creds, patch, from, upto, state, detached>>

\* The credentials are another dictionary now: a sync that is applying patches goes on with
\* the one it has.
Detach(c) ==
  /\ detached' = {d \in Callers : At(d, "apply")}
  /\ work' = [d \in Callers |-> IF d = c THEN NoCreds
                                ELSE IF d \in detached' \ detached THEN creds
                                ELSE work[d]]

\* _commit_credentials: the copy is the credentials now.
CommitCopy(c) ==
  /\ pc[c] \in {"copy", "accepted"}
  /\ creds' = work[c]
  /\ Goto(c, "idle")
  /\ patch' = [patch EXCEPT ![c] = <<>>]
  /\ Detach(c)
  /\ UNCHANGED <<log, from, upto, state>>

-----------------------------------------------------------------------------
(* sync_app_state                                                          *)

sync_app_state(c, force_snapshot) ==
  LET all == force_snapshot \/ creds.state.version = 0
  IN  /\ At(c, "idle")
      /\ Goto(c, IF all THEN "asksAll" ELSE "asks")
      /\ from' = [from EXCEPT ![c] = IF all THEN 0 ELSE creds.state.version]
      /\ UNCHANGED <<log, creds, work, patch, upto, state, detached>>

\* MissingAppStateKey: the collection is blocked in the dictionary the sync holds.
Block(c, key) ==
  /\ creds' = IF c \in detached THEN creds ELSE [creds EXCEPT !.blocked = key]
  /\ Return(c)
  /\ detached' = detached \ {c}
  /\ UNCHANGED log

\* The answer has the patches after the version asked for, as many as the server sends at
\* once.  They are applied to what the state is by now.
PatchesArrive(c, last) ==
  /\ At(c, "asks")
  /\ from[c] < Len(log) /\ last \in (from[c] + 1)..Len(log)
  /\ Goto(c, "apply")
  /\ upto' = [upto EXCEPT ![c] = last]
  /\ state' = [state EXCEPT ![c] = creds.state]
  /\ UNCHANGED <<log, creds, work, patch, from, detached>>

\* decode_syncd_snapshot: a record that is damaged is left out, whatever the snapshot's MAC.
SnapshotArrives(c, at, last, damaged) ==
  LET map == [i \in Indexes |-> IF i \in damaged THEN NoMac ELSE MapAt(at)[i]]
  IN  /\ At(c, "asksAll")
      /\ at \in 1..Len(log) /\ last \in at..Len(log)
      /\ damaged \subseteq {i \in Indexes : MapAt(at)[i] # NoMac}
      /\ \A mac \in MacsOf(MapAt(at)) : mac.key \in creds.keys
      /\ Goto(c, "apply")
      /\ from' = [from EXCEPT ![c] = at]
      /\ upto' = [upto EXCEPT ![c] = last]
      /\ state' = [state EXCEPT ![c] = [version |-> at, hash |-> MacsOf(map), map |-> map,
                                        clean |-> damaged = {}]]
      /\ UNCHANGED <<log, creds, work, patch, detached>>

SnapshotBlocked(c, at, i) ==
  /\ At(c, "asksAll")
  /\ at \in 1..Len(log)
  /\ MapAt(at)[i] # NoMac /\ MapAt(at)[i].key \notin creds.keys
  /\ Block(c, MapAt(at)[i].key)

NothingArrives(c) ==
  /\ \/ At(c, "asks") /\ from[c] >= Len(log)
     \/ At(c, "asksAll") /\ Len(log) = 0
  /\ Return(c)
  /\ creds' = [creds EXCEPT !.blocked = NoKey]
  /\ UNCHANGED <<log, detached>>

Pending(c) == At(c, "apply") /\ from[c] < upto[c]
Patch(c) == log[from[c] + 1]
Known(c, key) == key \in (IF c \in detached THEN work[c] ELSE creds).keys

\* decode_syncd_patch: the state after a patch, valid or not as its snapshot MAC says; the
\* first that is not valid is the last that is applied.  A damaged mutation is left out.
ApplyPatch(c, damaged) ==
  LET p == Patch(c)
      mixed == IF damaged THEN state[c]
               ELSE _mix_lthash_mutation(state[c], p.index, p.remove, p.mac)
      inOrder == state[c].version = from[c] /\ ~damaged
  IN  /\ Pending(c)
      /\ Known(c, p.mac.key)
      /\ state' = [state EXCEPT ![c] = [version |-> from[c] + 1, hash |-> mixed.hash,
                                        map |-> mixed.map, clean |-> inOrder /\ mixed.clean]]
      /\ from' = [from EXCEPT ![c] = @ + 1]
      /\ upto' = [upto EXCEPT ![c] = IF mixed.hash = p.snapshotMac THEN @ ELSE from[c] + 1]
      /\ UNCHANGED <<log, creds, pc, work, patch, detached>>

\* A download of mutations that fails, a MAC that is wrong: the patch is skipped.
SkipPatch(c) ==
  /\ Pending(c)
  /\ from' = [from EXCEPT ![c] = @ + 1]
  /\ UNCHANGED <<log, creds, pc, work, patch, upto, state, detached>>

PatchBlocked(c) ==
  /\ Pending(c)
  /\ ~Known(c, Patch(c).mac.key)
  /\ Block(c, Patch(c).mac.key)

\* The state goes into the dictionary that was the credentials when the sync began to apply,
\* and the credentials are saved.
SyncEnds(c) ==
  /\ At(c, "apply") /\ from[c] = upto[c]
  /\ creds' = IF c \in detached THEN creds
              ELSE [creds EXCEPT !.state = state[c], !.blocked = NoKey]
  /\ Return(c)
  /\ detached' = detached \ {c}
  /\ UNCHANGED log

-----------------------------------------------------------------------------
(* Key shares, snapshots of keys, reconnections, other devices             *)

CallersStay == UNCHANGED <<pc, work, patch, from, upto, state, detached>>

\* inject_app_state_sync_key_share, _record_app_state_key_updates
KeyShare(key) ==
  /\ creds' = [creds EXCEPT !.keys = @ \cup {key}, !.mine = key,
                            !.blocked = IF @ = key THEN NoKey ELSE @]
  /\ UNCHANGED log
  /\ CallersStay

\* The answer names the key of the snapshot's MAC.
fetch_app_state_snapshots(key) ==
  /\ creds' = [creds EXCEPT !.blocked = IF key \in creds.keys THEN NoKey ELSE key]
  /\ UNCHANGED log
  /\ CallersStay

\* connect() puts in the place of the credentials what the file has, which is the same.
Reconnect ==
  /\ Detach(Others)
  /\ UNCHANGED <<log, creds, pc, patch, from, upto, state>>

OtherDevicePatches(i, remove, key) ==
  LET mac == [index |-> i, at |-> Len(log) + 1, by |-> Others, key |-> key]
      map == Mutated(MapAt(Len(log)), i, remove, mac)
  IN  /\ Len(log) < MaxVersion
      /\ remove => MapAt(Len(log))[i] # NoMac
      /\ log' = Append(log, [index |-> i, remove |-> remove, mac |-> mac,
                             snapshotMac |-> MacsOf(map), map |-> map, sound |-> TRUE])
      /\ UNCHANGED creds
      /\ CallersStay

Sync(c) ==
  \/ \E force \in BOOLEAN : sync_app_state(c, force)
  \/ \E last \in Versions : PatchesArrive(c, last)
  \/ \E at, last \in Versions, damaged \in SUBSET Indexes : SnapshotArrives(c, at, last, damaged)
  \/ \E at \in Versions, i \in Indexes : SnapshotBlocked(c, at, i)
  \/ NothingArrives(c)
  \/ \E damaged \in BOOLEAN : ApplyPatch(c, damaged)
  \/ SkipPatch(c) \/ PatchBlocked(c) \/ SyncEnds(c)

Next ==
  \/ \E c \in Callers :
       \/ \E i \in Indexes, remove \in BOOLEAN : chat_modify(c, i, remove)
       \/ ServerAccepts(c) \/ OperationFails(c) \/ OperationCopies(c) \/ CommitCopy(c)
       \/ Sync(c)
  \/ \E key \in Keys : KeyShare(key) \/ fetch_app_state_snapshots(key)
  \/ \E i \in Indexes, remove \in BOOLEAN, key \in Keys : OtherDevicePatches(i, remove, key)
  \/ Reconnect

Spec == Init /\ [][Next]_vars

-----------------------------------------------------------------------------
(* Safety                                                                  *)

\* The LT hash is the sum over the values of the index map, in the credentials and in every
\* copy: it never has to be computed from the whole collection.
HashOf(st) == st.hash = MacsOf(st.map)
HashOfMap ==
  /\ HashOf(creds.state)
  /\ \A c \in Callers : HashOf(work[c].state) /\ HashOf(state[c])

\* A state of a version has what the patches up to it make of the collection, whatever syncs
\* and modifications overlap; unless a patch or a mutation was left out, patches were applied
\* to a state of another version, or the client removed an index itself.
StateAgrees ==
  LET Agrees(st) == st.clean /\ st.version <= Len(log) => st.map = MapAt(st.version)
  IN  /\ Agrees(creds.state)
      /\ \A c \in Callers : /\ ~At(c, "modify") => Agrees(work[c].state)
                           /\ Agrees(state[c])

\* The snapshot MAC of a patch that this client made, from a state of that kind, is what the
\* account's other devices compute: they do not find the collection corrupt.
OwnPatchesValid ==
  \A v \in 1..Len(log) :
    log[v].sound => log[v].snapshotMac = MacsOf(log[v].map)

\* A collection is blocked on a key that the client does not have: the key's share unblocks
\* it, before or after.
BlockedOnUnknownKey == creds.blocked \notin creds.keys

-----------------------------------------------------------------------------
(* What the documents say, and the code does not do                        *)
=============================================================================
