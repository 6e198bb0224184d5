--------------------------- MODULE AppStateProofs ---------------------------
(***************************************************************************)
(* Proofs about module AppState.  A value MAC belongs to one index (Maps), *)
(* so taking the MAC of an index out of the hash takes out no other: the   *)
(* lemmas about MacsOf, on which HashOfMap rests (invariant IInv).  That   *)
(* the map itself is the right one rests on the versions (AgreeInv).       *)
(***************************************************************************)
EXTENDS AppState, TLAPS

-----------------------------------------------------------------------------
(* Maps and hashes                                                         *)

\* The map of an empty collection.
LEMMA NoMapType == NoMap \in Maps /\ MacsOf(NoMap) = {}
BY DEF NoMap, Maps, MacsOf

\* Replacing the MAC of an index in the map replaces it in the set of MACs.
LEMMA Replaced ==
  ASSUME NEW map \in Maps, NEW i \in Indexes,
         NEW mac \in Macs \cup {NoMac}, mac # NoMac => mac.index = i
  PROVE  /\ [map EXCEPT ![i] = mac] \in Maps
         /\ MacsOf([map EXCEPT ![i] = mac]) = (MacsOf(map) \ {map[i]}) \cup ({mac} \ {NoMac})
<1> DEFINE new == [map EXCEPT ![i] = mac]
<1>1. new \in Maps
  BY DEF Maps
<1>2. \A j \in Indexes : new[j] = IF j = i THEN mac ELSE map[j]
  BY DEF Maps
<1>3. ASSUME NEW j \in Indexes, j # i, map[j] # NoMac PROVE map[j] # map[i]
  BY <1>3 DEF Maps
<1>4. ASSUME NEW m \in MacsOf(new)
      PROVE  m \in (MacsOf(map) \ {map[i]}) \cup ({mac} \ {NoMac})
  <2>1. PICK j \in Indexes : m = new[j] /\ m # NoMac
    BY <1>4 DEF MacsOf
  <2>2. CASE j = i
    BY <1>2, <2>1, <2>2
  <2>3. CASE j # i
    BY <1>2, <1>3, <2>1, <2>3 DEF MacsOf
  <2>4. QED
    BY <2>2, <2>3
<1>5. ASSUME NEW m \in (MacsOf(map) \ {map[i]}) \cup ({mac} \ {NoMac})
      PROVE  m \in MacsOf(new)
  <2>1. CASE m \in MacsOf(map) \ {map[i]}
    <3>1. PICK j \in Indexes : m = map[j] /\ m # NoMac /\ j # i
      BY <2>1 DEF MacsOf
    <3>2. QED
      BY <1>2, <3>1 DEF MacsOf
  <2>2. CASE m \in {mac} \ {NoMac}
    BY <1>2, <2>2 DEF MacsOf
  <2>3. QED
    BY <1>5, <2>1, <2>2
<1>6. QED
  BY <1>1, <1>4, <1>5

\* What a mutation makes of the map, and of the set of MACs.
LEMMA MutatedMap ==
  ASSUME NEW map \in Maps, NEW i \in Indexes, NEW remove \in BOOLEAN,
         NEW mac \in Macs, mac.index = i
  PROVE  /\ Mutated(map, i, remove, mac) \in Maps
         /\ MacsOf(Mutated(map, i, remove, mac))
              = (MacsOf(map) \ {map[i]}) \cup (IF remove THEN {} ELSE {mac})
<1>1. mac # NoMac
  BY AppStateAssumption
<1> DEFINE new == IF remove THEN NoMac ELSE mac
<1>2. /\ new \in Macs \cup {NoMac}
      /\ new # NoMac => new.index = i
      /\ {new} \ {NoMac} = IF remove THEN {} ELSE {mac}
  BY <1>1
<1>3. Mutated(map, i, remove, mac) = [map EXCEPT ![i] = new]
  BY DEF Mutated
<1> HIDE DEF new
<1>4. \A v \in Macs \cup {NoMac} :
        (v # NoMac => v.index = i) =>
          /\ [map EXCEPT ![i] = v] \in Maps
          /\ MacsOf([map EXCEPT ![i] = v]) = (MacsOf(map) \ {map[i]}) \cup ({v} \ {NoMac})
  BY Replaced
<1>5. QED
  BY <1>2, <1>3, <1>4

\* _mix_lthash_mutation keeps the hash the sum over the map.
LEMMA MixHash ==
  ASSUME NEW st \in States, HashOf(st), NEW i \in Indexes, NEW remove \in BOOLEAN,
         NEW mac \in Macs, mac.index = i
  PROVE  /\ _mix_lthash_mutation(st, i, remove, mac) \in States
         /\ HashOf(_mix_lthash_mutation(st, i, remove, mac))
<1> DEFINE new == _mix_lthash_mutation(st, i, remove, mac)
<1>1. /\ new = [version |-> st.version, hash |-> new.hash, map |-> new.map, clean |-> st.clean]
      /\ new.hash = (st.hash \ {st.map[i]}) \cup (IF remove THEN {} ELSE {mac})
      /\ new.map = Mutated(st.map, i, remove, mac)
  BY DEF _mix_lthash_mutation
<1> HIDE DEF new
<1>2. /\ st.map \in Maps /\ st.hash \in SUBSET Macs
      /\ st.version \in 0..MaxVersion + 1 /\ st.clean \in BOOLEAN
  BY DEF States
<1>3. Mutated(st.map, i, remove, mac) \in Maps
  BY <1>2, MutatedMap
<1>4. new.hash \in SUBSET Macs
  BY <1>1, <1>2
<1>5. new \in States
  BY <1>1, <1>2, <1>3, <1>4 DEF States
<1>6. MacsOf(new.map) = new.hash
  <2>1. st.hash = MacsOf(st.map)
    BY DEF HashOf
  <2>2. MacsOf(Mutated(st.map, i, remove, mac))
          = (MacsOf(st.map) \ {st.map[i]}) \cup (IF remove THEN {} ELSE {mac})
    BY <1>2, MutatedMap
  <2>3. QED
    BY <1>1, <2>1, <2>2
<1>7. QED
  BY <1>5, <1>6 DEF new, HashOf

\* encode_syncd_patch keeps it too, and makes the next version.
LEMMA EncodeHash ==
  ASSUME NEW st \in States, HashOf(st), st.version <= MaxVersion, NEW i \in Indexes,
         NEW remove \in BOOLEAN, NEW mac \in Macs, mac.index = i
  PROVE  /\ encode_syncd_patch(st, i, remove, mac) \in States
         /\ HashOf(encode_syncd_patch(st, i, remove, mac))
         /\ encode_syncd_patch(st, i, remove, mac).version = st.version + 1
<1> DEFINE new == encode_syncd_patch(st, i, remove, mac)
<1>1. /\ new = [version |-> new.version, hash |-> new.hash, map |-> new.map, clean |-> new.clean]
      /\ new.version = st.version + 1
      /\ new.hash = (st.hash \ {st.map[i]}) \cup {mac}
      /\ new.map = [st.map EXCEPT ![i] = mac]
  BY DEF encode_syncd_patch
<1>2. new.clean \in BOOLEAN
  BY Zenon DEF encode_syncd_patch
<1> HIDE DEF new
<1>3. /\ st.map \in Maps /\ st.hash \in SUBSET Macs
      /\ st.version \in 0..MaxVersion + 1 /\ st.clean \in BOOLEAN
  BY DEF States
<1>4. [st.map EXCEPT ![i] = mac] \in Maps
  BY <1>3, Replaced
<1>5. new.hash \in SUBSET Macs
  BY <1>1, <1>3
<1>6. new.version \in 0..MaxVersion + 1
  BY <1>1, <1>3, AppStateAssumption
<1>7. new \in States
  BY <1>1, <1>2, <1>4, <1>5, <1>6 DEF States
<1>8. MacsOf(new.map) = new.hash
  <2>1. st.hash = MacsOf(st.map)
    BY DEF HashOf
  <2>2. mac # NoMac
    BY AppStateAssumption
  <2>3. MacsOf([st.map EXCEPT ![i] = mac]) = (MacsOf(st.map) \ {st.map[i]}) \cup {mac}
    BY <1>3, <2>2, Replaced
  <2>4. QED
    BY <1>1, <2>1, <2>3
<1>9. QED
  BY <1>1, <1>7, <1>8 DEF new, HashOf

-----------------------------------------------------------------------------
(* Credentials                                                             *)

\* What holds of every copy of the credentials, and of every state.
GoodState(st) == st \in States /\ HashOf(st)
GoodCreds(cr) ==
  /\ cr \in Creds
  /\ HashOf(cr.state)
  /\ cr.blocked \notin cr.keys
Bounded(st) == st.version <= MaxVersion

\* A caller that runs no operation has the state of version 0, of an empty collection.
LEMMA NoStateGood == GoodState(NoState) /\ Bounded(NoState)
<1>1. NoState \in States
  BY NoMapType, AppStateAssumption DEF NoState, States
<1>2. HashOf(NoState) /\ Bounded(NoState)
  BY NoMapType, AppStateAssumption DEF NoState, HashOf, Bounded
<1>3. QED
  BY <1>1, <1>2 DEF GoodState

\* It has no copy of the credentials either.
LEMMA NoCredsGood == GoodCreds(NoCreds) /\ Bounded(NoCreds.state)
BY NoStateGood DEF NoCreds, Creds, GoodCreds, GoodState

\* The parts of good credentials.
LEMMA CredsFields ==
  ASSUME NEW cr, GoodCreds(cr)
  PROVE  /\ GoodState(cr.state)
         /\ cr.keys \in SUBSET Keys
         /\ cr.mine \in Keys \cup {NoKey}
BY DEF GoodCreds, GoodState, Creds

\* chat_modify puts its new state into its copy.
LEMMA WithState ==
  ASSUME NEW cr, GoodCreds(cr), NEW st, GoodState(st)
  PROVE  /\ GoodCreds([cr EXCEPT !.state = st])
         /\ [cr EXCEPT !.state = st].state = st
BY DEF GoodCreds, GoodState, Creds

\* A sync that ends puts its state into the credentials, and unblocks the collection.
LEMMA WithStateUnblocked ==
  ASSUME NEW cr, GoodCreds(cr), NEW st, GoodState(st)
  PROVE  /\ GoodCreds([cr EXCEPT !.state = st, !.blocked = NoKey])
         /\ [cr EXCEPT !.state = st, !.blocked = NoKey].state = st
BY AppStateAssumption DEF GoodCreds, GoodState, Creds

\* Blocking on a key that the credentials do not have, or on none.
LEMMA WithBlocked ==
  ASSUME NEW cr, GoodCreds(cr), NEW key \in Keys \cup {NoKey}, key \notin cr.keys
  PROVE  /\ GoodCreds([cr EXCEPT !.blocked = key])
         /\ [cr EXCEPT !.blocked = key].state = cr.state
BY AppStateAssumption DEF GoodCreds, Creds

\* A key share unblocks the collection that waits for it.
LEMMA WithKey ==
  ASSUME NEW cr, GoodCreds(cr), NEW key \in Keys
  PROVE  /\ GoodCreds([cr EXCEPT !.keys = @ \cup {key}, !.mine = key,
                                 !.blocked = IF @ = key THEN NoKey ELSE @])
         /\ [cr EXCEPT !.keys = @ \cup {key}, !.mine = key,
                       !.blocked = IF @ = key THEN NoKey ELSE @].state = cr.state
BY AppStateAssumption DEF GoodCreds, Creds

-----------------------------------------------------------------------------
(* The log                                                                 *)

GoodPatch(p) == p \in Patches /\ p.mac.index = p.index
GoodLog ==
  /\ log \in Seq(Patches) /\ Len(log) <= MaxVersion
  /\ \A v \in 1..Len(log) : GoodPatch(log[v])

\* The parts of a patch.
LEMMA PatchFields ==
  ASSUME NEW p, GoodPatch(p)
  PROVE  /\ p.index \in Indexes /\ p.remove \in BOOLEAN
         /\ p.mac \in Macs /\ p.mac.index = p.index /\ p.mac.key \in Keys
         /\ p.map \in Maps
BY DEF GoodPatch, Patches, Macs

\* What the server's collection is at a version.
LEMMA MapAtType ==
  ASSUME GoodLog, NEW v \in 0..Len(log)
  PROVE  MapAt(v) \in Maps
BY NoMapType, PatchFields DEF GoodLog, MapAt

\* The log after a patch is accepted.
LEMMA AppendedLog ==
  ASSUME GoodLog, Len(log) < MaxVersion, NEW p, GoodPatch(p), log' = Append(log, p)
  PROVE  GoodLog' /\ Len(log') = Len(log) + 1
BY AppStateAssumption DEF GoodLog, GoodPatch

\* The MACs of a map are MACs.
LEMMA MacsOfType ==
  ASSUME NEW map \in Maps
  PROVE  MacsOf(map) \in SUBSET Macs
BY DEF Maps, MacsOf

\* There is a version after that of any state the credentials may have.
LEMMA LastVersion ==
  ASSUME NEW st, GoodState(st), Bounded(st)
  PROVE  st.version \in Versions /\ st.version + 1 \in 1..MaxVersion + 1
BY AppStateAssumption DEF GoodState, Bounded, States, Versions

-----------------------------------------------------------------------------
(* The inductive invariant                                                 *)

CallersGood ==
  \A c \in Callers :
    /\ GoodCreds(work[c]) /\ GoodState(state[c]) /\ Bounded(state[c])
    /\ At(c, "modify") => GoodPatch(patch[c])
    /\ ~At(c, "modify") => Bounded(work[c].state)
    /\ At(c, "apply") => upto[c] <= Len(log)

VariablesTyped ==
  /\ pc \in [Callers -> {"idle", "copy", "modify", "accepted", "asks", "asksAll", "apply"}]
  /\ DOMAIN patch = Callers
  /\ work = [c \in Callers |-> work[c]] /\ state = [c \in Callers |-> state[c]]
  /\ from \in [Callers -> Versions] /\ upto \in [Callers -> Versions]
  /\ detached \in SUBSET Callers

IInv ==
  /\ GoodLog
  /\ VariablesTyped
  /\ GoodCreds(creds) /\ Bounded(creds.state)
  /\ CallersGood

\* The invariant holds at first.
LEMMA InitIInv == Init => IInv
<1> SUFFICES ASSUME Init PROVE IInv
  OBVIOUS
<1>1. GoodLog
  BY AppStateAssumption DEF Init, GoodLog
<1>2. VariablesTyped
  BY AppStateAssumption DEF Init, VariablesTyped, Versions
<1>3. GoodCreds(creds) /\ Bounded(creds.state)
  BY NoCredsGood DEF Init
<1>4. CallersGood
  BY NoCredsGood, NoStateGood DEF Init, CallersGood, At
<1>5. QED
  BY <1>1, <1>2, <1>3, <1>4 DEF IInv

\* The end of an operation leaves its caller with nothing.
LEMMA ReturnIInv ==
  ASSUME IInv, NEW c \in Callers, Return(c), UNCHANGED log, detached' \subseteq detached
  PROVE  VariablesTyped' /\ CallersGood'
<1>1. VariablesTyped'
  <2>1. 0 \in Versions
    BY AppStateAssumption DEF Versions
  <2>2. /\ work' = [d \in Callers |-> work'[d]] /\ state' = [d \in Callers |-> state'[d]]
        /\ DOMAIN patch' = Callers
    BY DEF IInv, VariablesTyped, Return
  <2>3. /\ pc' \in [Callers -> {"idle", "copy", "modify", "accepted", "asks", "asksAll", "apply"}]
        /\ from' \in [Callers -> Versions] /\ upto' \in [Callers -> Versions]
        /\ detached' \in SUBSET Callers
    BY <2>1 DEF IInv, VariablesTyped, Return, Goto
  <2>4. QED
    BY <2>2, <2>3 DEF VariablesTyped
<1>2. ASSUME NEW d \in Callers, d # c
      PROVE  /\ pc'[d] = pc[d] /\ work'[d] = work[d] /\ state'[d] = state[d]
             /\ patch'[d] = patch[d] /\ upto'[d] = upto[d]
  BY <1>2 DEF IInv, VariablesTyped, Return, Goto
<1>3. pc'[c] = "idle" /\ work'[c] = NoCreds /\ state'[c] = NoState
  BY DEF IInv, VariablesTyped, Return, Goto
<1>4. CallersGood'
  <2> SUFFICES ASSUME NEW d \in Callers
               PROVE  /\ GoodCreds(work'[d]) /\ GoodState(state'[d]) /\ Bounded(state'[d])
                      /\ pc'[d] = "modify" => GoodPatch(patch'[d])
                      /\ pc'[d] # "modify" => Bounded(work'[d].state)
                      /\ pc'[d] = "apply" => upto'[d] <= Len(log)
    BY DEF CallersGood, At
  <2>1. CASE d = c
    BY <1>3, <2>1, NoCredsGood, NoStateGood
  <2>2. CASE d # c
    BY <1>2, <2>2 DEF IInv, CallersGood, At
  <2>3. QED
    BY <2>1, <2>2
<1>5. QED
  BY <1>1, <1>4

CallerGoodNext(d) ==
  /\ GoodCreds(work'[d]) /\ GoodState(state'[d]) /\ Bounded(state'[d])
  /\ pc'[d] = "modify" => GoodPatch(patch'[d])
  /\ pc'[d] # "modify" => Bounded(work'[d].state)
  /\ pc'[d] = "apply" => upto'[d] <= Len(log')

\* To show CallersGood' it is enough to look at the callers one at a time.
LEMMA EachCaller ==
  ASSUME \A d \in Callers : CallerGoodNext(d)
  PROVE  CallersGood'
BY DEF CallerGoodNext, CallersGood, At

\* A step that leaves a caller alone, and the log at least as long.
LEMMA OtherCaller ==
  ASSUME IInv, NEW d \in Callers, Len(log') >= Len(log), Len(log') \in Nat,
         pc'[d] = pc[d], work'[d] = work[d], state'[d] = state[d],
         patch'[d] = patch[d], upto'[d] = upto[d]
  PROVE  CallerGoodNext(d)
BY DEF IInv, CallersGood, CallerGoodNext, At, VariablesTyped, Versions, GoodLog

\* chat_modify: the copy has the state after the patch.
LEMMA ChatModifyIInv ==
  ASSUME IInv, NEW c \in Callers, NEW i \in Indexes, NEW remove \in BOOLEAN,
         chat_modify(c, i, remove)
  PROVE  IInv'
<1> DEFINE mac == [index |-> i, at |-> creds.state.version + 1, by |-> c, key |-> creds.mine]
           st == encode_syncd_patch(creds.state, i, remove, mac)
           p == [index |-> i, remove |-> remove, mac |-> mac, snapshotMac |-> st.hash,
                 map |-> NoMap, sound |-> st.clean]
<1>1. /\ GoodState(creds.state) /\ creds.mine \in Keys /\ Bounded(creds.state)
      /\ GoodCreds(creds)
  BY CredsFields DEF IInv, chat_modify, HasKey
<1>2. mac \in Macs /\ mac.index = i
  BY <1>1, LastVersion DEF Macs
<1>3. creds.state.version <= MaxVersion /\ creds.state \in States /\ HashOf(creds.state)
  BY <1>1 DEF Bounded, GoodState
<1>4. pc'[c] = "modify" /\ work'[c] = [creds EXCEPT !.state = st] /\ patch'[c] = p
  BY DEF chat_modify, Goto, IInv, VariablesTyped
<1> HIDE DEF mac
<1>5. st \in States /\ HashOf(st)
  BY <1>2, <1>3, EncodeHash
<1> HIDE DEF st
<1>6. GoodPatch(p)
  <2>1. /\ st.hash \in SUBSET Macs /\ st.clean \in BOOLEAN
    BY <1>5 DEF States
  <2>2. QED
    BY <1>2, <2>1, NoMapType DEF GoodPatch, Patches
<1>7. GoodCreds(work'[c])
  BY <1>1, <1>4, <1>5, WithState DEF GoodState
<1>8. CallersGood'
  <2> SUFFICES ASSUME NEW d \in Callers PROVE CallerGoodNext(d)
    BY EachCaller
  <2>1. CASE d = c
    BY <1>4, <1>6, <1>7, <2>1 DEF CallerGoodNext, chat_modify, IInv, CallersGood
  <2>2. CASE d # c
    BY <2>2, OtherCaller DEF chat_modify, Goto, IInv, VariablesTyped, GoodLog
  <2>3. QED
    BY <2>1, <2>2
<1>9. GoodLog' /\ VariablesTyped' /\ GoodCreds(creds)' /\ Bounded(creds.state)'
  BY DEF IInv, GoodLog, VariablesTyped, chat_modify, Goto
<1>10. QED
  BY <1>8, <1>9 DEF IInv

\* The server appends the patch to its log.
LEMMA ServerAcceptsIInv ==
  ASSUME IInv, NEW c \in Callers, ServerAccepts(c)
  PROVE  IInv'
<1> DEFINE map == Mutated(MapAt(Len(log)), patch[c].index, patch[c].remove, patch[c].mac)
           p == [patch[c] EXCEPT !.map = map]
<1>1. /\ GoodLog /\ GoodPatch(patch[c]) /\ GoodCreds(work[c])
      /\ work[c].state.version = Len(log) + 1 /\ Len(log) < MaxVersion
      /\ Len(log) \in Nat /\ log' = Append(log, p)
  BY DEF IInv, CallersGood, ServerAccepts, GoodLog
<1>2. map \in Maps
  <2>1. MapAt(Len(log)) \in Maps
    BY <1>1, MapAtType
  <2>2. QED
    BY <1>1, <2>1, PatchFields, MutatedMap
<1> HIDE DEF map
<1>3. GoodPatch(p)
  BY <1>1, <1>2 DEF GoodPatch, Patches
<1> HIDE DEF p
<1>4. GoodLog' /\ Len(log') = Len(log) + 1
  BY <1>1, <1>3, AppendedLog
<1>5. CallersGood'
  <2> SUFFICES ASSUME NEW d \in Callers PROVE CallerGoodNext(d)
    BY EachCaller
  <2>1. CASE d = c
    BY <1>1, <2>1, AppStateAssumption
    DEF CallerGoodNext, ServerAccepts, Goto, IInv, CallersGood, VariablesTyped, Bounded
  <2>2. CASE d # c
    BY <1>1, <1>4, <2>2, OtherCaller DEF ServerAccepts, Goto, IInv, VariablesTyped
  <2>3. QED
    BY <2>1, <2>2
<1>6. VariablesTyped' /\ GoodCreds(creds)' /\ Bounded(creds.state)'
  BY DEF IInv, VariablesTyped, ServerAccepts, Goto
<1>7. QED
  BY <1>4, <1>5, <1>6 DEF IInv

\* A copy of the credentials is taken, and put in their place.
LEMMA CopyIInv ==
  ASSUME IInv, NEW c \in Callers, OperationCopies(c) \/ CommitCopy(c)
  PROVE  IInv'
<1>1. CASE OperationCopies(c)
  <2>1. CallersGood'
    <3> SUFFICES ASSUME NEW d \in Callers PROVE CallerGoodNext(d)
      BY EachCaller
    <3>1. CASE d = c
      BY <1>1, <3>1 DEF CallerGoodNext, OperationCopies, Goto, IInv, CallersGood, VariablesTyped
    <3>2. CASE d # c
      BY <1>1, <3>2, OtherCaller DEF OperationCopies, Goto, IInv, VariablesTyped, GoodLog
    <3>3. QED
      BY <3>1, <3>2
  <2>2. QED
    BY <1>1, <2>1 DEF IInv, GoodLog, VariablesTyped, OperationCopies, Goto
<1>2. CASE CommitCopy(c)
  <2>1. GoodCreds(creds') /\ Bounded(creds'.state)
    BY <1>2 DEF CommitCopy, IInv, CallersGood, At, VariablesTyped
  <2>2. CallersGood'
    <3> SUFFICES ASSUME NEW d \in Callers PROVE CallerGoodNext(d)
      BY EachCaller
    <3>1. GoodCreds(work'[d]) /\ (pc'[d] # "modify" => Bounded(work'[d].state))
      BY <1>2, NoCredsGood
      DEF CommitCopy, Detach, Goto, At, IInv, CallersGood, VariablesTyped
    <3>2. QED
      BY <1>2, <3>1
      DEF CommitCopy, Detach, Goto, At, IInv, CallersGood, VariablesTyped, CallerGoodNext
  <2>3. GoodLog' /\ VariablesTyped'
    BY <1>2 DEF IInv, GoodLog, VariablesTyped, CommitCopy, Detach, Goto
  <2>4. QED
    BY <2>1, <2>2, <2>3 DEF IInv
<1>3. QED
  BY <1>1, <1>2

\* The steps that end an operation: the credentials stay, or are a good variant of themselves.
LEMMA EndIInv ==
  ASSUME IInv, NEW c \in Callers, Return(c), UNCHANGED log, detached' \subseteq detached,
         GoodCreds(creds') /\ Bounded(creds'.state)
  PROVE  IInv'
<1>1. VariablesTyped' /\ CallersGood'
  BY ReturnIInv
<1>2. QED
  BY <1>1 DEF IInv, GoodLog

\* MissingAppStateKey blocks the collection on a key that is not there.
LEMMA BlockIInv ==
  ASSUME IInv, NEW c \in Callers, NEW key \in Keys, Block(c, key),
         c \notin detached => key \notin creds.keys
  PROVE  IInv'
<1>1. GoodCreds(creds) /\ Bounded(creds.state)
  BY DEF IInv
<1>2. c \notin detached => /\ GoodCreds([creds EXCEPT !.blocked = key])
                           /\ [creds EXCEPT !.blocked = key].state = creds.state
  BY <1>1, WithBlocked
<1>3. GoodCreds(creds') /\ Bounded(creds'.state)
  BY <1>1, <1>2 DEF Block, Bounded
<1>4. QED
  BY <1>3, EndIInv DEF Block

\* A sync asks for what comes after the version of the credentials' state.
LEMMA AskIInv ==
  ASSUME IInv, NEW c \in Callers, NEW force \in BOOLEAN, sync_app_state(c, force)
  PROVE  IInv'
<1>1. creds.state.version \in Versions
  BY CredsFields, LastVersion DEF IInv
<1>2. pc'[c] \in {"asks", "asksAll"}
  BY DEF sync_app_state, Goto, IInv, VariablesTyped
<1>3. CallersGood'
  <2> SUFFICES ASSUME NEW d \in Callers PROVE CallerGoodNext(d)
    BY EachCaller
  <2>1. CASE d = c
    BY <1>2, <2>1 DEF CallerGoodNext, sync_app_state, At, IInv, CallersGood
  <2>2. CASE d # c
    BY <2>2, OtherCaller DEF sync_app_state, Goto, IInv, VariablesTyped, GoodLog
  <2>3. QED
    BY <2>1, <2>2
<1>4. VariablesTyped'
  BY <1>1, AppStateAssumption DEF IInv, VariablesTyped, sync_app_state, Goto, Versions
<1>5. QED
  BY <1>3, <1>4 DEF IInv, GoodLog, sync_app_state

\* The patches are applied to the credentials' state.
LEMMA PatchesArriveIInv ==
  ASSUME IInv, NEW c \in Callers, NEW last \in Versions, PatchesArrive(c, last)
  PROVE  IInv'
<1>1. GoodState(creds.state) /\ Bounded(creds.state)
  BY CredsFields DEF IInv
<1>2. last <= Len(log)
  BY DEF PatchesArrive, IInv, GoodLog, VariablesTyped, Versions
<1>3. CallersGood'
  <2> SUFFICES ASSUME NEW d \in Callers PROVE CallerGoodNext(d)
    BY EachCaller
  <2>1. CASE d = c
    BY <1>1, <1>2, <2>1 DEF CallerGoodNext, PatchesArrive, Goto, At, IInv, CallersGood, VariablesTyped
  <2>2. CASE d # c
    BY <2>2, OtherCaller DEF PatchesArrive, Goto, IInv, VariablesTyped, GoodLog
  <2>3. QED
    BY <2>1, <2>2
<1>4. VariablesTyped'
  BY DEF IInv, VariablesTyped, PatchesArrive, Goto
<1>5. QED
  BY <1>3, <1>4 DEF IInv, GoodLog, PatchesArrive

\* A snapshot's state is computed from its records.
LEMMA SnapshotArrivesIInv ==
  ASSUME IInv, NEW c \in Callers, NEW at \in Versions, NEW last \in Versions,
         NEW damaged \in SUBSET Indexes, SnapshotArrives(c, at, last, damaged)
  PROVE  IInv'
<1> DEFINE map == [i \in Indexes |-> IF i \in damaged THEN NoMac ELSE MapAt(at)[i]]
           st == [version |-> at, hash |-> MacsOf(map), map |-> map, clean |-> damaged = {}]
<1>1. at \in 1..Len(log) /\ last \in at..Len(log)
  BY DEF SnapshotArrives
<1>2. MapAt(at) \in Maps
  BY <1>1, MapAtType DEF IInv, GoodLog
<1>3. map \in Maps
  BY <1>2 DEF Maps
<1>4. /\ pc'[c] = "apply" /\ state'[c] = st /\ upto'[c] = last
      /\ work' = work /\ patch' = patch
  BY DEF SnapshotArrives, Goto, IInv, VariablesTyped
<1> HIDE DEF map
<1>5. GoodState(st) /\ Bounded(st)
  <2>1. /\ MacsOf(map) \in SUBSET Macs
        /\ at \in 0..MaxVersion + 1 /\ at <= MaxVersion
    BY <1>1, <1>3, MacsOfType, AppStateAssumption DEF Versions
  <2>2. (damaged = {}) \in BOOLEAN
    OBVIOUS
  <2>3. st \in States
    BY <1>3, <2>1, <2>2 DEF States
  <2>4. QED
    BY <2>1, <2>3 DEF GoodState, HashOf, Bounded
<1> HIDE DEF st
<1>6. CallersGood'
  <2> SUFFICES ASSUME NEW d \in Callers PROVE CallerGoodNext(d)
    BY EachCaller
  <2>1. CASE d = c
    BY <1>1, <1>4, <1>5, <2>1 DEF CallerGoodNext, SnapshotArrives, At, IInv, CallersGood, GoodLog
  <2>2. CASE d # c
    BY <2>2, OtherCaller DEF SnapshotArrives, Goto, IInv, VariablesTyped, GoodLog
  <2>3. QED
    BY <2>1, <2>2
<1>7. VariablesTyped'
  BY DEF IInv, VariablesTyped, SnapshotArrives, Goto
<1>8. QED
  BY <1>6, <1>7 DEF IInv, GoodLog, SnapshotArrives

\* The patch that is next, of the log.
LEMMA NextPatch ==
  ASSUME IInv, NEW c \in Callers, Pending(c)
  PROVE  /\ GoodPatch(Patch(c))
         /\ from[c] + 1 \in Versions /\ from[c] + 1 <= upto[c] /\ upto[c] <= Len(log)
<1>1. from[c] < upto[c] /\ upto[c] <= Len(log)
  BY DEF Pending, IInv, CallersGood
<1>2. from[c] \in Nat /\ upto[c] \in Nat /\ upto[c] <= MaxVersion
  BY AppStateAssumption DEF IInv, VariablesTyped, Versions
<1>3. Len(log) \in Nat /\ \A v \in 1..Len(log) : GoodPatch(log[v])
  BY DEF IInv, GoodLog
<1>4. from[c] + 1 \in 1..Len(log) /\ from[c] + 1 <= upto[c]
  BY <1>1, <1>2, <1>3
<1>5. from[c] + 1 \in Versions
  BY <1>2, <1>4, AppStateAssumption DEF Versions
<1>6. QED
  BY <1>1, <1>3, <1>4, <1>5 DEF Patch

\* decode_syncd_patch keeps the sum, valid or not.
LEMMA ApplyPatchIInv ==
  ASSUME IInv, NEW c \in Callers, NEW damaged \in BOOLEAN, ApplyPatch(c, damaged)
  PROVE  IInv'
<1> DEFINE p == Patch(c)
           mixed == IF damaged THEN state[c]
                    ELSE _mix_lthash_mutation(state[c], p.index, p.remove, p.mac)
           inOrder == state[c].version = from[c] /\ ~damaged
           st == [version |-> from[c] + 1, hash |-> mixed.hash, map |-> mixed.map,
                  clean |-> inOrder /\ mixed.clean]
<1>1. Pending(c)
  BY DEF ApplyPatch
<1>2. GoodPatch(p) /\ from[c] + 1 \in Versions /\ from[c] + 1 <= upto[c] /\ upto[c] <= Len(log)
  BY <1>1, NextPatch
<1>3. mixed \in States /\ HashOf(mixed)
  <2>1. state[c] \in States /\ HashOf(state[c])
    BY DEF IInv, CallersGood, GoodState
  <2>2. CASE damaged
    BY <2>1, <2>2
  <2>3. CASE ~damaged
    BY <1>2, <2>1, <2>3, PatchFields, MixHash
  <2>4. QED
    BY <2>2, <2>3
<1>4. /\ pc' = pc /\ work' = work /\ patch' = patch /\ log' = log /\ creds' = creds
      /\ state' = [state EXCEPT ![c] = st]
      /\ from' = [from EXCEPT ![c] = from[c] + 1]
      /\ detached' = detached
  BY DEF ApplyPatch, IInv, VariablesTyped
<1>5. upto' = [upto EXCEPT ![c] = upto[c]] \/ upto' = [upto EXCEPT ![c] = from[c] + 1]
  BY DEF ApplyPatch, IInv, VariablesTyped
<1>6. inOrder \in BOOLEAN
  OBVIOUS
<1> HIDE DEF mixed, inOrder
<1>7. (inOrder /\ mixed.clean) \in BOOLEAN
  BY Zenon
<1>8. GoodState(st) /\ Bounded(st)
  <2>1. /\ mixed.hash \in SUBSET Macs /\ mixed.map \in Maps /\ mixed.hash = MacsOf(mixed.map)
        /\ from[c] + 1 \in 0..MaxVersion + 1 /\ from[c] + 1 <= MaxVersion
    BY <1>2, <1>3, AppStateAssumption DEF States, HashOf, Versions
  <2>2. st \in States
    BY <1>7, <2>1 DEF States
  <2>3. QED
    BY <2>1, <2>2 DEF GoodState, HashOf, Bounded
<1> HIDE DEF st
<1>9. CallersGood'
  <2> SUFFICES ASSUME NEW d \in Callers PROVE CallerGoodNext(d)
    BY EachCaller
  <2>1. CASE d = c
    <3>1. upto'[d] <= Len(log')
      BY <1>2, <1>4, <1>5, <2>1, AppStateAssumption DEF IInv, VariablesTyped, Versions, GoodLog
    <3>2. QED
      BY <1>4, <1>8, <2>1, <3>1 DEF CallerGoodNext, At, IInv, CallersGood, VariablesTyped
  <2>2. CASE d # c
    BY <1>4, <1>5, <2>2, OtherCaller DEF IInv, VariablesTyped, GoodLog
  <2>3. QED
    BY <2>1, <2>2
<1>10. VariablesTyped'
  BY <1>2, <1>4, <1>5 DEF IInv, VariablesTyped
<1>11. QED
  BY <1>4, <1>9, <1>10 DEF IInv, GoodLog

\* A patch that fails leaves the state alone.
LEMMA SkipPatchIInv ==
  ASSUME IInv, NEW c \in Callers, SkipPatch(c)
  PROVE  IInv'
<1>1. from[c] + 1 \in Versions
  BY NextPatch DEF SkipPatch
<1>2. VariablesTyped'
  BY <1>1 DEF IInv, VariablesTyped, SkipPatch
<1>3. QED
  BY <1>2 DEF IInv, GoodLog, CallersGood, SkipPatch, At

-----------------------------------------------------------------------------
(* The invariant is inductive                                              *)

\* The steps of sync_app_state.
LEMMA SyncIInv ==
  ASSUME IInv, NEW c \in Callers, Sync(c)
  PROVE  IInv'
<1>1. CASE \E force \in BOOLEAN : sync_app_state(c, force)
  BY <1>1, AskIInv
<1>2. CASE \E last \in Versions : PatchesArrive(c, last)
  BY <1>2, PatchesArriveIInv
<1>3. CASE \E at, last \in Versions, damaged \in SUBSET Indexes :
             SnapshotArrives(c, at, last, damaged)
  BY <1>3, SnapshotArrivesIInv
<1>4. CASE \E at \in Versions, i \in Indexes : SnapshotBlocked(c, at, i)
  <2>1. PICK at \in Versions, i \in Indexes : SnapshotBlocked(c, at, i)
    BY <1>4
  <2>2. /\ at \in 1..Len(log) /\ MapAt(at)[i] # NoMac
        /\ MapAt(at)[i].key \notin creds.keys /\ Block(c, MapAt(at)[i].key)
    BY <2>1 DEF SnapshotBlocked
  <2>3. MapAt(at) \in Maps
    BY <2>2, MapAtType DEF IInv, GoodLog
  <2>4. MapAt(at)[i].key \in Keys
    BY <2>2, <2>3 DEF Maps, Macs
  <2>5. QED
    BY <2>2, <2>4, BlockIInv
<1>5. CASE NothingArrives(c)
  <2>1. GoodCreds(creds) /\ Bounded(creds.state) /\ creds.keys \in SUBSET Keys
    BY CredsFields DEF IInv
  <2>2. GoodCreds(creds') /\ Bounded(creds'.state)
    BY <1>5, <2>1, WithBlocked, AppStateAssumption DEF NothingArrives, Bounded
  <2>3. Return(c) /\ UNCHANGED log /\ UNCHANGED detached
    BY <1>5 DEF NothingArrives
  <2>4. QED
    BY <2>2, <2>3, EndIInv
<1>6. CASE \E damaged \in BOOLEAN : ApplyPatch(c, damaged)
  BY <1>6, ApplyPatchIInv
<1>7. CASE SkipPatch(c)
  BY <1>7, SkipPatchIInv
<1>8. CASE PatchBlocked(c)
  <2>1. GoodPatch(Patch(c)) /\ ~Known(c, Patch(c).mac.key) /\ Block(c, Patch(c).mac.key)
    BY <1>8, NextPatch DEF PatchBlocked
  <2>2. Patch(c).mac.key \in Keys
    BY <2>1, PatchFields
  <2>3. c \notin detached => Patch(c).mac.key \notin creds.keys
    BY <2>1 DEF Known
  <2>4. QED
    BY <2>1, <2>2, <2>3, BlockIInv
<1>9. CASE SyncEnds(c)
  <2>1. GoodCreds(creds) /\ GoodState(state[c]) /\ Bounded(state[c]) /\ Bounded(creds.state)
    BY DEF IInv, CallersGood
  <2>2. GoodCreds(creds') /\ Bounded(creds'.state)
    BY <1>9, <2>1, WithStateUnblocked DEF SyncEnds, Bounded
  <2>3. QED
    BY <1>9, <2>2, EndIInv DEF SyncEnds
<1>10. QED
  BY <1>1, <1>2, <1>3, <1>4, <1>5, <1>6, <1>7, <1>8, <1>9 DEF Sync

\* The steps that only change the credentials.
LEMMA CredsIInv ==
  ASSUME IInv, CallersStay, UNCHANGED log, GoodCreds(creds') /\ Bounded(creds'.state)
  PROVE  IInv'
BY DEF IInv, GoodLog, VariablesTyped, CallersGood, CallersStay, At

\* Another device's patch.
LEMMA OtherDeviceIInv ==
  ASSUME IInv, NEW i \in Indexes, NEW remove \in BOOLEAN, NEW key \in Keys,
         OtherDevicePatches(i, remove, key)
  PROVE  IInv'
<1> DEFINE mac == [index |-> i, at |-> Len(log) + 1, by |-> Others, key |-> key]
           map == Mutated(MapAt(Len(log)), i, remove, mac)
           p == [index |-> i, remove |-> remove, mac |-> mac,
                 snapshotMac |-> MacsOf(map), map |-> map, sound |-> TRUE]
<1>1. GoodLog /\ Len(log) \in Nat /\ Len(log) < MaxVersion /\ log' = Append(log, p)
  BY DEF OtherDevicePatches, IInv, GoodLog
<1>2. mac \in Macs /\ mac.index = i
  BY <1>1, AppStateAssumption DEF Macs
<1> HIDE DEF mac
<1>3. MapAt(Len(log)) \in Maps
  BY <1>1, MapAtType
<1>4. map \in Maps
  BY <1>2, <1>3, MutatedMap
<1> HIDE DEF map
<1>5. GoodPatch(p)
  BY <1>2, <1>4, MacsOfType DEF GoodPatch, Patches
<1> HIDE DEF p
<1>6. GoodLog' /\ Len(log') = Len(log) + 1
  BY <1>1, <1>5, AppendedLog
<1>7. CallersGood'
  <2> SUFFICES ASSUME NEW d \in Callers PROVE CallerGoodNext(d)
    BY EachCaller
  <2>1. QED
    BY <1>1, <1>6, OtherCaller DEF OtherDevicePatches, CallersStay
<1>8. QED
  BY <1>6, <1>7 DEF IInv, VariablesTyped, OtherDevicePatches, CallersStay

\* Every step keeps the invariant.
LEMMA NextIInv == IInv /\ [Next]_vars => IInv'
<1> SUFFICES ASSUME IInv, [Next]_vars PROVE IInv'
  OBVIOUS
<1>1. GoodCreds(creds) /\ Bounded(creds.state) /\ creds.keys \in SUBSET Keys
  BY CredsFields DEF IInv
<1>2. ASSUME NEW c \in Callers, NEW i \in Indexes, NEW remove \in BOOLEAN,
             chat_modify(c, i, remove)
      PROVE  IInv'
  BY <1>2, ChatModifyIInv
<1>3. ASSUME NEW c \in Callers, ServerAccepts(c) PROVE IInv'
  BY <1>3, ServerAcceptsIInv
<1>4. ASSUME NEW c \in Callers, OperationFails(c) PROVE IInv'
  BY <1>1, <1>4, EndIInv DEF OperationFails
<1>5. ASSUME NEW c \in Callers, OperationCopies(c) \/ CommitCopy(c) PROVE IInv'
  BY <1>5, CopyIInv
<1>6. ASSUME NEW c \in Callers, Sync(c) PROVE IInv'
  BY <1>6, SyncIInv
<1>7. ASSUME NEW key \in Keys, KeyShare(key) PROVE IInv'
  <2>1. GoodCreds(creds') /\ creds'.state = creds.state
    BY <1>1, <1>7, WithKey DEF KeyShare
  <2>2. QED
    BY <1>1, <1>7, <2>1, CredsIInv DEF KeyShare, Bounded
<1>8. ASSUME NEW key \in Keys, fetch_app_state_snapshots(key) PROVE IInv'
  <2> DEFINE blocked == IF key \in creds.keys THEN NoKey ELSE key
  <2>1. blocked \in Keys \cup {NoKey} /\ blocked \notin creds.keys
    BY <1>1, AppStateAssumption
  <2>2. creds' = [creds EXCEPT !.blocked = blocked] /\ CallersStay /\ UNCHANGED log
    BY <1>8 DEF fetch_app_state_snapshots
  <2> HIDE DEF blocked
  <2>3. GoodCreds(creds') /\ creds'.state = creds.state
    BY <1>1, <2>1, <2>2, WithBlocked
  <2>4. QED
    BY <1>1, <2>2, <2>3, CredsIInv DEF Bounded
<1>9. ASSUME NEW i \in Indexes, NEW remove \in BOOLEAN, NEW key \in Keys,
             OtherDevicePatches(i, remove, key)
      PROVE  IInv'
  BY <1>9, OtherDeviceIInv
<1>10. ASSUME Reconnect PROVE IInv'
  <2>1. CallersGood'
    <3> SUFFICES ASSUME NEW d \in Callers PROVE CallerGoodNext(d)
      BY EachCaller
    <3>1. GoodCreds(work'[d]) /\ (pc'[d] # "modify" => Bounded(work'[d].state))
      BY <1>1, <1>10, AppStateAssumption DEF Reconnect, Detach, IInv, CallersGood, At
    <3>2. QED
      BY <1>10, <3>1 DEF Reconnect, At, IInv, CallersGood, CallerGoodNext
  <2>2. VariablesTyped'
    BY <1>10 DEF Reconnect, Detach, IInv, VariablesTyped
  <2>3. QED
    BY <1>10, <2>1, <2>2 DEF IInv, GoodLog, Reconnect
<1>11. ASSUME UNCHANGED vars PROVE IInv'
  BY <1>11 DEF vars, IInv, GoodLog, VariablesTyped, CallersGood, At
<1>12. QED
  BY <1>2, <1>3, <1>4, <1>5, <1>6, <1>7, <1>8, <1>9, <1>10, <1>11 DEF Next

\* The invariant always holds.
LEMMA IInvAlways == Spec => []IInv
BY InitIInv, NextIInv, PTL DEF Spec

-----------------------------------------------------------------------------
(* What the versions hold.  HashOfMap does not say that the map is the     *)
(* right one.  A state that nothing was left out of has the map that the   *)
(* log gives its version, and the version is in the log; the state of a    *)
(* patch on its way is one mutation ahead of such a state, and the version *)
(* that the server compares tells whether it is ahead of the log's end.    *)

MapIn(l, v) == IF v = 0 THEN NoMap ELSE l[v].map

\* Each patch of the log makes its collection from the one before.
Chained(l) ==
  \A v \in 1..Len(l) :
    l[v].map = Mutated(MapIn(l, v - 1), l[v].index, l[v].remove, l[v].mac)

CurrentIn(l, st) ==
  /\ st.version <= Len(l)
  /\ st.clean => st.map = MapIn(l, st.version)

EncodedIn(l, st, p) ==
  /\ p.snapshotMac = st.hash /\ p.sound = st.clean
  /\ st.clean => /\ ~p.remove /\ st.version \in 1..Len(l) + 1
                 /\ st.map = [MapIn(l, st.version - 1) EXCEPT ![p.index] = p.mac]

Agreeing(l, label, st, cr, p) ==
  /\ CurrentIn(l, st)
  /\ label = "modify" => EncodedIn(l, cr.state, p)
  /\ label # "modify" => CurrentIn(l, cr.state)

AgreeInv ==
  /\ Chained(log)
  /\ OwnPatchesValid
  /\ CurrentIn(log, creds.state)
  /\ \A c \in Callers : Agreeing(log, pc[c], state[c], work[c], patch[c])

\* The state of version 0 is the empty collection's in any log.
LEMMA NoStateCurrent ==
  ASSUME NEW l, Len(l) \in Nat
  PROVE  CurrentIn(l, NoState) /\ CurrentIn(l, NoCreds.state)
BY DEF CurrentIn, NoState, NoCreds, MapIn

\* The log only grows: what was so of a version stays so.
LEMMA CurrentStays ==
  ASSUME NEW l, NEW m, Len(l) \in Nat, Len(m) \in Nat, Len(l) <= Len(m),
         \A v \in 1..Len(l) : m[v] = l[v],
         NEW st \in States, CurrentIn(l, st)
  PROVE  CurrentIn(m, st)
<1>1. st.version \in Nat /\ st.version <= Len(l)
  BY AppStateAssumption DEF States, CurrentIn
<1>2. MapIn(m, st.version) = MapIn(l, st.version)
  <2>1. CASE st.version = 0
    BY <2>1 DEF MapIn
  <2>2. CASE st.version # 0
    <3>1. st.version \in 1..Len(l)
      BY <1>1, <2>2
    <3>2. QED
      BY <2>2, <3>1 DEF MapIn
  <2>3. QED
    BY <2>1, <2>2
<1>3. QED
  BY <1>1, <1>2 DEF CurrentIn

\* A patch on its way stays one mutation ahead of its version's predecessor.
LEMMA EncodedStays ==
  ASSUME NEW l, NEW m, Len(l) \in Nat, Len(m) \in Nat, Len(l) <= Len(m),
         \A v \in 1..Len(l) : m[v] = l[v],
         NEW st \in States, NEW p, EncodedIn(l, st, p)
  PROVE  EncodedIn(m, st, p)
<1>1. CASE ~st.clean
  BY <1>1 DEF EncodedIn
<1>2. CASE st.clean
  <2>1. /\ st.version \in 1..Len(l) + 1 /\ ~p.remove
        /\ st.map = [MapIn(l, st.version - 1) EXCEPT ![p.index] = p.mac]
        /\ p.snapshotMac = st.hash /\ p.sound = st.clean
    BY <1>2 DEF EncodedIn
  <2>2. st.version \in Nat /\ st.version - 1 \in 0..Len(l) /\ st.version \in 1..Len(m) + 1
    BY <2>1
  <2>3. MapIn(m, st.version - 1) = MapIn(l, st.version - 1)
    <3>1. CASE st.version - 1 = 0
      BY <3>1 DEF MapIn
    <3>2. CASE st.version - 1 # 0
      <4>1. st.version - 1 \in 1..Len(l)
        BY <2>2, <3>2
      <4>2. QED
        BY <3>2, <4>1 DEF MapIn
    <3>3. QED
      BY <3>1, <3>2
  <2>4. QED
    BY <2>1, <2>2, <2>3 DEF EncodedIn
<1>3. QED
  BY <1>1, <1>2

AgreeingNext(d) == Agreeing(log', pc'[d], state'[d], work'[d], patch'[d])

\* A step that leaves a caller alone, and the log at least as long, leaves it agreeing.
LEMMA OtherAgrees ==
  ASSUME IInv, AgreeInv, NEW d \in Callers,
         Len(log') \in Nat, Len(log) <= Len(log'), \A v \in 1..Len(log) : log'[v] = log[v],
         pc'[d] = pc[d], work'[d] = work[d], state'[d] = state[d], patch'[d] = patch[d]
  PROVE  AgreeingNext(d)
<1>1. /\ Len(log) \in Nat /\ state[d] \in States /\ work[d].state \in States
      /\ Agreeing(log, pc[d], state[d], work[d], patch[d])
  BY DEF IInv, GoodLog, CallersGood, GoodState, GoodCreds, Creds, AgreeInv
<1>2. CurrentIn(log', state[d])
  BY <1>1, CurrentStays DEF Agreeing
<1>3. pc[d] = "modify" => EncodedIn(log', work[d].state, patch[d])
  BY <1>1, EncodedStays DEF Agreeing
<1>4. pc[d] # "modify" => CurrentIn(log', work[d].state)
  BY <1>1, CurrentStays DEF Agreeing
<1>5. QED
  BY <1>2, <1>3, <1>4 DEF AgreeingNext, Agreeing

\* While the log stays, it is enough to look at the credentials and at each caller.
LEMMA LogStays ==
  ASSUME AgreeInv, UNCHANGED log, CurrentIn(log, creds'.state),
         \A d \in Callers : AgreeingNext(d)
  PROVE  AgreeInv'
BY DEF AgreeInv, AgreeingNext, OwnPatchesValid

\* The log is empty at first.
LEMMA InitAgree == Init => AgreeInv
<1> SUFFICES ASSUME Init PROVE AgreeInv
  OBVIOUS
<1>1. Len(log) = 0
  BY DEF Init
<1>2. Chained(log) /\ OwnPatchesValid
  BY <1>1 DEF Chained, OwnPatchesValid
<1>3. \A c \in Callers : Agreeing(log, pc[c], state[c], work[c], patch[c])
  BY <1>1, NoStateCurrent DEF Init, Agreeing
<1>4. QED
  BY <1>1, <1>2, <1>3, NoStateCurrent DEF Init, AgreeInv

\* The log with a patch more: the patch has the collection that it makes of the last.
LEMMA GrownLog ==
  ASSUME IInv, AgreeInv, NEW p, log' = Append(log, p), GoodPatch(p),
         p.map = Mutated(MapIn(log, Len(log)), p.index, p.remove, p.mac),
         p.sound => p.snapshotMac = MacsOf(p.map)
  PROVE  /\ Len(log) \in Nat /\ Len(log') = Len(log) + 1
         /\ \A v \in 1..Len(log) : log'[v] = log[v]
         /\ Chained(log') /\ OwnPatchesValid'
<1>1. /\ log \in Seq(Patches) /\ Len(log) \in Nat /\ p \in Patches
      /\ Chained(log) /\ OwnPatchesValid
  BY DEF IInv, GoodLog, GoodPatch, AgreeInv
<1>2. /\ Len(log') = Len(log) + 1 /\ log'[Len(log) + 1] = p
      /\ \A v \in 1..Len(log) : log'[v] = log[v]
  BY <1>1
<1>3. \A v \in 1..Len(log') : v \in 1..Len(log) \/ v = Len(log) + 1
  BY <1>1, <1>2
<1>4. ASSUME NEW v \in 0..Len(log) PROVE MapIn(log', v) = MapIn(log, v)
  <2>1. CASE v = 0
    BY <2>1 DEF MapIn
  <2>2. CASE v # 0
    <3>1. v \in 1..Len(log)
      BY <1>1, <2>2
    <3>2. QED
      BY <1>2, <2>2, <3>1 DEF MapIn
  <2>3. QED
    BY <2>1, <2>2
<1>5. Chained(log')
  <2> SUFFICES ASSUME NEW v \in 1..Len(log')
               PROVE  log'[v].map = Mutated(MapIn(log', v - 1), log'[v].index,
                                            log'[v].remove, log'[v].mac)
    BY DEF Chained
  <2>1. CASE v \in 1..Len(log)
    <3>1. v - 1 \in 0..Len(log)
      BY <1>1, <2>1
    <3>2. MapIn(log', v - 1) = MapIn(log, v - 1)
      BY <1>4, <3>1
    <3>3. QED
      BY <1>1, <1>2, <2>1, <3>2 DEF Chained
  <2>2. CASE v = Len(log) + 1
    <3>1. v - 1 = Len(log) /\ v - 1 \in 0..Len(log)
      BY <1>1, <2>2
    <3>2. MapIn(log', v - 1) = MapIn(log, Len(log))
      BY <1>4, <3>1
    <3>3. QED
      BY <1>2, <2>2, <3>2
  <2>3. QED
    BY <1>3, <2>1, <2>2
<1>6. OwnPatchesValid'
  <2> SUFFICES ASSUME NEW v \in 1..Len(log'), log'[v].sound
               PROVE  log'[v].snapshotMac = MacsOf(log'[v].map)
    BY DEF OwnPatchesValid, MacsOf
  <2>1. CASE v \in 1..Len(log)
    BY <1>1, <1>2, <2>1 DEF OwnPatchesValid
  <2>2. CASE v = Len(log) + 1
    BY <1>2, <2>2
  <2>3. QED
    BY <1>3, <2>1, <2>2
<1>7. QED
  BY <1>1, <1>2, <1>5, <1>6

\* chat_modify: one mutation ahead of the credentials' state.
LEMMA ChatModifyAgree ==
  ASSUME IInv, AgreeInv, NEW c \in Callers, NEW i \in Indexes, NEW remove \in BOOLEAN,
         chat_modify(c, i, remove)
  PROVE  AgreeInv'
<1> DEFINE mac == [index |-> i, at |-> creds.state.version + 1, by |-> c, key |-> creds.mine]
           st == encode_syncd_patch(creds.state, i, remove, mac)
           p == [index |-> i, remove |-> remove, mac |-> mac, snapshotMac |-> st.hash,
                 map |-> NoMap, sound |-> st.clean]
<1>1. /\ creds.state \in States /\ creds.state.version \in Nat /\ GoodCreds(creds)
      /\ CurrentIn(log, creds.state) /\ Len(log) \in Nat
      /\ creds.state.clean \in BOOLEAN
  BY AppStateAssumption DEF IInv, GoodCreds, Creds, States, AgreeInv, GoodLog
<1>2. /\ pc'[c] = "modify" /\ work'[c] = [creds EXCEPT !.state = st] /\ patch'[c] = p
      /\ state' = state /\ log' = log /\ creds' = creds
  BY DEF chat_modify, Goto, IInv, VariablesTyped
<1>3. /\ st.version = creds.state.version + 1
      /\ st.map = [creds.state.map EXCEPT ![i] = mac]
  BY DEF encode_syncd_patch
<1>4. st.clean <=> creds.state.clean /\ ~remove
  BY Zenon DEF encode_syncd_patch
<1>5. p.index = i /\ p.remove = remove /\ p.mac = mac
      /\ p.snapshotMac = st.hash /\ p.sound = st.clean
  OBVIOUS
<1>6. work'[c].state = st
  BY <1>1, <1>2 DEF GoodCreds, Creds
<1> HIDE DEF mac, st, p
<1>7. EncodedIn(log, st, p)
  <2>1. CASE ~st.clean
    BY <1>5, <2>1 DEF EncodedIn
  <2>2. CASE st.clean
    <3>1. creds.state.clean /\ ~remove
      BY <1>4, <2>2
    <3>2. creds.state.version <= Len(log) /\ creds.state.map = MapIn(log, creds.state.version)
      BY <1>1, <3>1 DEF CurrentIn
    <3>3. st.version \in 1..Len(log) + 1 /\ st.version - 1 = creds.state.version
      BY <1>1, <1>3, <3>2
    <3>4. QED
      BY <1>3, <1>5, <3>1, <3>2, <3>3 DEF EncodedIn
  <2>3. QED
    BY <2>1, <2>2
<1>8. ASSUME NEW d \in Callers PROVE AgreeingNext(d)
  <2>1. CASE d = c
    BY <1>2, <1>6, <1>7, <2>1 DEF AgreeInv, Agreeing, AgreeingNext
  <2>2. CASE d # c
    BY <1>1, <2>2, OtherAgrees DEF chat_modify, Goto, IInv, VariablesTyped
  <2>3. QED
    BY <2>1, <2>2
<1>9. QED
  BY <1>1, <1>2, <1>8, LogStays

\* The server takes the patch that is ahead of the end of its log, and of no other version:
\* the state of the patch is then the collection's, and its snapshot MAC is over that.
LEMMA ServerAcceptsAgree ==
  ASSUME IInv, AgreeInv, NEW c \in Callers, ServerAccepts(c)
  PROVE  AgreeInv'
<1> DEFINE q == patch[c]
           st == work[c].state
           map == Mutated(MapAt(Len(log)), q.index, q.remove, q.mac)
           p == [q EXCEPT !.map = map]
<1>1. /\ GoodLog /\ GoodPatch(q) /\ st.version = Len(log) + 1 /\ Len(log) \in Nat
      /\ st \in States /\ HashOf(st) /\ log' = Append(log, p) /\ EncodedIn(log, st, q)
  BY DEF IInv, CallersGood, ServerAccepts, GoodLog, GoodCreds, Creds, At, AgreeInv, Agreeing
<1>2. map \in Maps /\ map = Mutated(MapIn(log, Len(log)), q.index, q.remove, q.mac)
  <2>1. MapAt(Len(log)) \in Maps
    BY <1>1, MapAtType
  <2>2. QED
    BY <1>1, <2>1, PatchFields, MutatedMap DEF MapAt, MapIn
<1>3. /\ pc'[c] = "accepted" /\ work' = work /\ state' = state /\ patch' = patch
      /\ creds' = creds
  BY DEF ServerAccepts, Goto, IInv, VariablesTyped
<1>4. st.clean \in BOOLEAN
  BY <1>1 DEF States
<1>5. st.clean => st.map = map
  <2> SUFFICES ASSUME st.clean PROVE st.map = map
    OBVIOUS
  <2>1. ~q.remove /\ st.map = [MapIn(log, st.version - 1) EXCEPT ![q.index] = q.mac]
    BY <1>1 DEF EncodedIn
  <2>2. st.version - 1 = Len(log)
    BY <1>1
  <2>3. QED
    BY <1>2, <2>1, <2>2 DEF Mutated
<1>6. q.sound = st.clean /\ q.snapshotMac = MacsOf(st.map)
  BY <1>1 DEF EncodedIn, HashOf
<1> HIDE DEF map
<1>7. /\ p.index = q.index /\ p.remove = q.remove /\ p.mac = q.mac /\ p.map = map
      /\ p.sound = q.sound /\ p.snapshotMac = q.snapshotMac /\ GoodPatch(p)
  BY <1>1, <1>2 DEF GoodPatch, Patches
<1> HIDE DEF p, q, st
<1>8. /\ Len(log') = Len(log) + 1 /\ \A v \in 1..Len(log) : log'[v] = log[v]
      /\ Chained(log') /\ OwnPatchesValid'
  <2>1. p.map = Mutated(MapIn(log, Len(log)), p.index, p.remove, p.mac)
    BY <1>2, <1>7
  <2>2. p.sound => p.snapshotMac = MacsOf(p.map)
    BY <1>5, <1>6, <1>7
  <2>3. QED
    BY <1>1, <1>7, <2>1, <2>2, GrownLog
<1>9. Len(log') \in Nat /\ Len(log) <= Len(log')
  BY <1>1, <1>8
<1>10. CurrentIn(log', creds'.state)
  <2>1. creds.state \in States /\ CurrentIn(log, creds.state)
    BY DEF IInv, GoodCreds, Creds, AgreeInv
  <2>2. QED
    BY <1>1, <1>3, <1>8, <1>9, <2>1, CurrentStays
<1>11. ASSUME NEW d \in Callers PROVE AgreeingNext(d)
  <2>1. CASE d = c
    <3>1. state[c] \in States /\ CurrentIn(log, state[c])
      BY DEF IInv, CallersGood, GoodState, AgreeInv, Agreeing
    <3>2. CurrentIn(log', state[c])
      BY <1>1, <1>8, <1>9, <3>1, CurrentStays
    <3>3. log' # <<>> /\ log'[Len(log) + 1] = p /\ st.version # 0
      BY <1>1, <1>7, <1>8 DEF GoodPatch, GoodLog
    <3>4. CurrentIn(log', st)
      BY <1>1, <1>5, <1>7, <1>8, <3>3 DEF CurrentIn, MapIn
    <3>5. QED
      BY <1>3, <2>1, <3>2, <3>4 DEF AgreeingNext, Agreeing, st
  <2>2. CASE d # c
    BY <1>3, <1>8, <1>9, <2>2, OtherAgrees DEF ServerAccepts, Goto, IInv, VariablesTyped
  <2>3. QED
    BY <2>1, <2>2
<1>12. QED
  BY <1>8, <1>10, <1>11 DEF AgreeInv, AgreeingNext

\* A copy of the credentials is taken, and put in their place.
LEMMA CopyAgree ==
  ASSUME IInv, AgreeInv, NEW c \in Callers, OperationCopies(c) \/ CommitCopy(c)
  PROVE  AgreeInv'
<1>0. Len(log) \in Nat /\ CurrentIn(log, creds.state)
  BY DEF IInv, GoodLog, AgreeInv
<1>1. CASE OperationCopies(c)
  <2>1. ASSUME NEW d \in Callers PROVE AgreeingNext(d)
    <3>1. CASE d = c
      BY <1>0, <1>1, <3>1
      DEF OperationCopies, Goto, IInv, VariablesTyped, AgreeInv, AgreeingNext, Agreeing
    <3>2. CASE d # c
      BY <1>0, <1>1, <3>2, OtherAgrees DEF OperationCopies, Goto, IInv, VariablesTyped
    <3>3. QED
      BY <3>1, <3>2
  <2>2. QED
    BY <1>0, <1>1, <2>1, LogStays DEF OperationCopies
<1>2. CASE CommitCopy(c)
  <2>1. CurrentIn(log, work[c].state) /\ creds' = work[c] /\ log' = log /\ state' = state
    BY <1>2 DEF CommitCopy, AgreeInv, Agreeing
  <2>2. ASSUME NEW d \in Callers PROVE AgreeingNext(d)
    <3>1. CASE d = c
      <4>1. pc'[c] = "idle" /\ work'[c] = NoCreds
        BY <1>2 DEF CommitCopy, Detach, Goto, IInv, VariablesTyped
      <4>2. QED
        BY <1>0, <2>1, <3>1, <4>1, NoStateCurrent DEF AgreeInv, AgreeingNext, Agreeing
    <3>2. CASE d # c
      <4>1. pc'[d] = pc[d] /\ patch'[d] = patch[d]
        BY <1>2, <3>2 DEF CommitCopy, Goto, IInv, VariablesTyped
      <4>2. CASE d \in detached' \ detached
        <5>1. pc[d] = "apply" /\ work'[d] = creds
          BY <1>2, <3>2, <4>1, <4>2 DEF CommitCopy, Detach, At
        <5>2. QED
          BY <1>0, <2>1, <4>1, <5>1 DEF AgreeInv, AgreeingNext, Agreeing
      <4>3. CASE d \notin detached' \ detached
        <5>1. work'[d] = work[d]
          BY <1>2, <3>2, <4>3 DEF CommitCopy, Detach
        <5>2. QED
          BY <1>0, <2>1, <4>1, <5>1, OtherAgrees
      <4>4. QED
        BY <4>2, <4>3
    <3>3. QED
      BY <3>1, <3>2
  <2>3. QED
    BY <2>1, <2>2, LogStays
<1>3. QED
  BY <1>1, <1>2

\* The end of an operation: the credentials' state stays, or is the one that was synced.
LEMMA EndAgree ==
  ASSUME IInv, AgreeInv, NEW c \in Callers, Return(c), UNCHANGED log,
         creds'.state = creds.state \/ creds'.state = state[c]
  PROVE  AgreeInv'
<1>1. Len(log) \in Nat /\ CurrentIn(log, creds.state) /\ CurrentIn(log, state[c])
  BY DEF IInv, GoodLog, AgreeInv, Agreeing
<1>2. ASSUME NEW d \in Callers PROVE AgreeingNext(d)
  <2>1. CASE d = c
    <3>1. pc'[c] = "idle" /\ work'[c] = NoCreds /\ state'[c] = NoState
      BY DEF Return, Goto, IInv, VariablesTyped
    <3>2. QED
      BY <1>1, <2>1, <3>1, NoStateCurrent DEF AgreeingNext, Agreeing
  <2>2. CASE d # c
    <3>1. pc'[d] = pc[d] /\ work'[d] = work[d] /\ state'[d] = state[d] /\ patch'[d] = patch[d]
      BY <2>2 DEF Return, Goto, IInv, VariablesTyped
    <3>2. QED
      BY <1>1, <3>1, OtherAgrees
  <2>3. QED
    BY <2>1, <2>2
<1>3. QED
  BY <1>1, <1>2, LogStays

\* The steps of a sync that leave the copies of the credentials alone.
LEMMA ApplyingAgree ==
  ASSUME IInv, AgreeInv, NEW c \in Callers, UNCHANGED <<log, creds, work, patch>>,
         pc[c] # "modify", pc'[c] # "modify", CurrentIn(log, state'[c]),
         \A d \in Callers \ {c} : pc'[d] = pc[d] /\ state'[d] = state[d]
  PROVE  AgreeInv'
<1>1. Len(log) \in Nat /\ CurrentIn(log, creds.state) /\ CurrentIn(log, work[c].state)
  BY DEF IInv, GoodLog, AgreeInv, Agreeing
<1>2. ASSUME NEW d \in Callers PROVE AgreeingNext(d)
  <2>1. CASE d = c
    BY <1>1, <2>1 DEF AgreeingNext, Agreeing
  <2>2. CASE d # c
    BY <1>1, <2>2, OtherAgrees
  <2>3. QED
    BY <2>1, <2>2
<1>3. QED
  BY <1>1, <1>2, LogStays

\* A snapshot that nothing was left out of is the collection at its version.
LEMMA SnapshotAgree ==
  ASSUME IInv, AgreeInv, NEW c \in Callers, NEW at \in Versions, NEW last \in Versions,
         NEW damaged \in SUBSET Indexes, SnapshotArrives(c, at, last, damaged)
  PROVE  AgreeInv'
<1> DEFINE map == [i \in Indexes |-> IF i \in damaged THEN NoMac ELSE MapAt(at)[i]]
<1>1. at \in 1..Len(log) /\ Len(log) \in Nat
  BY DEF SnapshotArrives, IInv, GoodLog
<1>2. MapAt(at) \in Maps
  BY <1>1, MapAtType DEF IInv
<1>3. damaged = {} => map = MapAt(at)
  BY <1>2 DEF Maps
<1>4. /\ pc[c] = "asksAll" /\ pc'[c] = "apply"
      /\ state'[c].version = at /\ state'[c].map = map
      /\ state'[c].clean = (damaged = {})
      /\ UNCHANGED <<log, creds, work, patch>>
      /\ \A d \in Callers \ {c} : pc'[d] = pc[d] /\ state'[d] = state[d]
  BY DEF SnapshotArrives, Goto, At, IInv, VariablesTyped
<1> HIDE DEF map
<1>5. CurrentIn(log, state'[c])
  <2>1. at <= Len(log) /\ MapAt(at) = MapIn(log, at)
    BY <1>1 DEF MapIn, MapAt
  <2>2. state'[c].clean => damaged = {}
    BY <1>4, Zenon
  <2>3. QED
    BY <1>3, <1>4, <2>1, <2>2 DEF CurrentIn
<1>6. QED
  BY <1>4, <1>5, ApplyingAgree

\* decode_syncd_patch: the next version's collection, if the patch follows the state.
LEMMA ApplyPatchAgree ==
  ASSUME IInv, AgreeInv, NEW c \in Callers, NEW damaged \in BOOLEAN, ApplyPatch(c, damaged)
  PROVE  AgreeInv'
<1> DEFINE p == Patch(c)
           mixed == IF damaged THEN state[c]
                    ELSE _mix_lthash_mutation(state[c], p.index, p.remove, p.mac)
<1>1. Pending(c) /\ pc[c] = "apply" /\ Len(log) \in Nat /\ from[c] \in Nat
  BY AppStateAssumption DEF ApplyPatch, Pending, At, IInv, GoodLog, VariablesTyped, Versions
<1>2. from[c] + 1 <= upto[c] /\ upto[c] <= Len(log) /\ upto[c] \in Nat
  BY <1>1, NextPatch, AppStateAssumption DEF IInv, VariablesTyped, Versions
<1>3. /\ state'[c].version = from[c] + 1 /\ state'[c].map = mixed.map
      /\ state'[c].clean = ((state[c].version = from[c] /\ ~damaged) /\ mixed.clean)
      /\ UNCHANGED <<log, creds, pc, work, patch>>
      /\ \A d \in Callers \ {c} : state'[d] = state[d]
  BY DEF ApplyPatch, IInv, VariablesTyped
<1>4. ASSUME ~damaged
      PROVE  /\ mixed.map = Mutated(state[c].map, p.index, p.remove, p.mac)
             /\ mixed.clean = state[c].clean
  BY <1>4 DEF _mix_lthash_mutation
<1>5. CurrentIn(log, state[c])
  BY DEF AgreeInv, Agreeing
<1> HIDE DEF mixed
<1>6. from[c] + 1 \in 1..Len(log) /\ from[c] + 1 <= Len(log) /\ (from[c] + 1) - 1 = from[c]
      /\ from[c] + 1 # 0
  BY <1>1, <1>2
<1>7. log[from[c] + 1].map = Mutated(MapIn(log, from[c]), p.index, p.remove, p.mac)
  BY <1>6 DEF AgreeInv, Chained, Patch
<1>8. ASSUME state'[c].clean PROVE state'[c].map = MapIn(log, from[c] + 1)
  <2>1. state[c].version = from[c] /\ ~damaged /\ mixed.clean
    BY <1>3, <1>8, Zenon
  <2>2. state[c].clean /\ state[c].map = MapIn(log, from[c])
    BY <1>4, <1>5, <2>1 DEF CurrentIn
  <2>3. QED
    BY <1>3, <1>4, <1>6, <1>7, <2>1, <2>2 DEF MapIn
<1>9. CurrentIn(log, state'[c])
  BY <1>3, <1>6, <1>8 DEF CurrentIn
<1>10. QED
  BY <1>1, <1>3, <1>9, ApplyingAgree

\* The steps of sync_app_state.
LEMMA SyncAgree ==
  ASSUME IInv, AgreeInv, NEW c \in Callers, Sync(c)
  PROVE  AgreeInv'
<1>0. /\ Len(log) \in Nat /\ CurrentIn(log, creds.state) /\ CurrentIn(log, state[c])
      /\ GoodCreds(creds)
  BY DEF IInv, GoodLog, AgreeInv, Agreeing
<1>1. CASE \E force \in BOOLEAN : sync_app_state(c, force)
  <2>1. PICK force \in BOOLEAN : sync_app_state(c, force)
    BY <1>1
  <2>2. /\ pc[c] # "modify" /\ pc'[c] # "modify" /\ UNCHANGED <<log, creds, work, patch, state>>
        /\ \A d \in Callers \ {c} : pc'[d] = pc[d]
    BY <2>1 DEF sync_app_state, Goto, At, IInv, VariablesTyped
  <2>3. QED
    BY <1>0, <2>2, ApplyingAgree
<1>2. CASE \E last \in Versions : PatchesArrive(c, last)
  <2>1. PICK last \in Versions : PatchesArrive(c, last)
    BY <1>2
  <2>2. /\ pc[c] # "modify" /\ pc'[c] # "modify" /\ UNCHANGED <<log, creds, work, patch>>
        /\ state'[c] = creds.state
        /\ \A d \in Callers \ {c} : pc'[d] = pc[d] /\ state'[d] = state[d]
    BY <2>1 DEF PatchesArrive, Goto, At, IInv, VariablesTyped
  <2>3. QED
    BY <1>0, <2>2, ApplyingAgree
<1>3. CASE \E at, last \in Versions, damaged \in SUBSET Indexes :
             SnapshotArrives(c, at, last, damaged)
  BY <1>3, SnapshotAgree
<1>4. ASSUME NEW key, Block(c, key) PROVE AgreeInv'
  <2>1. Return(c) /\ UNCHANGED log /\ creds'.state = creds.state
    BY <1>0, <1>4 DEF Block, GoodCreds, Creds
  <2>2. QED
    BY <2>1, EndAgree
<1>5. CASE (\E at \in Versions, i \in Indexes : SnapshotBlocked(c, at, i)) \/ PatchBlocked(c)
  BY <1>4, <1>5 DEF SnapshotBlocked, PatchBlocked
<1>6. CASE NothingArrives(c)
  <2>1. Return(c) /\ UNCHANGED log /\ creds'.state = creds.state
    BY <1>0, <1>6 DEF NothingArrives, GoodCreds, Creds
  <2>2. QED
    BY <2>1, EndAgree
<1>7. CASE \E damaged \in BOOLEAN : ApplyPatch(c, damaged)
  BY <1>7, ApplyPatchAgree
<1>8. CASE SkipPatch(c)
  <2>1. pc[c] = "apply" /\ UNCHANGED <<log, creds, pc, work, patch, state>>
    BY <1>8 DEF SkipPatch, Pending, At
  <2>2. QED
    BY <1>0, <2>1, ApplyingAgree
<1>9. CASE SyncEnds(c)
  <2>1. Return(c) /\ UNCHANGED log /\ (creds'.state = creds.state \/ creds'.state = state[c])
    BY <1>0, <1>9 DEF SyncEnds, GoodCreds, Creds
  <2>2. QED
    BY <2>1, EndAgree
<1>10. QED
  BY <1>1, <1>2, <1>3, <1>5, <1>6, <1>7, <1>8, <1>9 DEF Sync

\* Another device's patch is made of the last collection.
LEMMA OtherDeviceAgree ==
  ASSUME IInv, AgreeInv, NEW i \in Indexes, NEW remove \in BOOLEAN, NEW key \in Keys,
         OtherDevicePatches(i, remove, key)
  PROVE  AgreeInv'
<1> DEFINE mac == [index |-> i, at |-> Len(log) + 1, by |-> Others, key |-> key]
           map == Mutated(MapAt(Len(log)), i, remove, mac)
           p == [index |-> i, remove |-> remove, mac |-> mac,
                 snapshotMac |-> MacsOf(map), map |-> map, sound |-> TRUE]
<1>1. GoodLog /\ Len(log) \in Nat /\ Len(log) < MaxVersion /\ log' = Append(log, p)
  BY DEF OtherDevicePatches, IInv, GoodLog
<1>2. mac \in Macs /\ mac.index = i
  BY <1>1, AppStateAssumption DEF Macs
<1> HIDE DEF mac
<1>3. MapAt(Len(log)) \in Maps
  BY <1>1, MapAtType
<1>4. map \in Maps /\ map = Mutated(MapIn(log, Len(log)), i, remove, mac)
  BY <1>2, <1>3, MutatedMap DEF MapAt, MapIn
<1> HIDE DEF map
<1>5. /\ p.index = i /\ p.remove = remove /\ p.mac = mac /\ p.map = map
      /\ p.snapshotMac = MacsOf(map) /\ GoodPatch(p)
  BY <1>2, <1>4, MacsOfType DEF GoodPatch, Patches
<1> HIDE DEF p
<1>6. /\ Len(log') = Len(log) + 1 /\ \A v \in 1..Len(log) : log'[v] = log[v]
      /\ Chained(log') /\ OwnPatchesValid'
  BY <1>1, <1>4, <1>5, GrownLog
<1>7. Len(log') \in Nat /\ Len(log) <= Len(log')
  BY <1>1, <1>6
<1>8. CurrentIn(log', creds'.state)
  <2>1. creds.state \in States /\ CurrentIn(log, creds.state) /\ creds' = creds
    BY DEF IInv, GoodCreds, Creds, AgreeInv, OtherDevicePatches
  <2>2. QED
    BY <1>1, <1>6, <1>7, <2>1, CurrentStays
<1>9. ASSUME NEW d \in Callers PROVE AgreeingNext(d)
  BY <1>6, <1>7, OtherAgrees DEF OtherDevicePatches, CallersStay
<1>10. QED
  BY <1>6, <1>8, <1>9 DEF AgreeInv, AgreeingNext

\* The steps that only change the credentials, and not their state.
LEMMA CredsAgree ==
  ASSUME AgreeInv, CallersStay, UNCHANGED log, creds'.state = creds.state
  PROVE  AgreeInv'
BY DEF AgreeInv, CallersStay, OwnPatchesValid, CurrentIn, Chained

\* Every step keeps the invariant.
LEMMA NextAgree == IInv /\ AgreeInv /\ [Next]_vars => AgreeInv'
<1> SUFFICES ASSUME IInv, AgreeInv, [Next]_vars PROVE AgreeInv'
  OBVIOUS
<1>0. GoodCreds(creds) /\ Len(log) \in Nat /\ CurrentIn(log, creds.state)
  BY DEF IInv, GoodLog, AgreeInv
<1>1. ASSUME NEW c \in Callers, NEW i \in Indexes, NEW remove \in BOOLEAN,
             chat_modify(c, i, remove)
      PROVE  AgreeInv'
  BY <1>1, ChatModifyAgree
<1>2. ASSUME NEW c \in Callers, ServerAccepts(c) PROVE AgreeInv'
  BY <1>2, ServerAcceptsAgree
<1>3. ASSUME NEW c \in Callers, OperationFails(c) PROVE AgreeInv'
  BY <1>3, EndAgree DEF OperationFails
<1>4. ASSUME NEW c \in Callers, OperationCopies(c) \/ CommitCopy(c) PROVE AgreeInv'
  BY <1>4, CopyAgree
<1>5. ASSUME NEW c \in Callers, Sync(c) PROVE AgreeInv'
  BY <1>5, SyncAgree
<1>6. ASSUME NEW key \in Keys, KeyShare(key) \/ fetch_app_state_snapshots(key)
      PROVE  AgreeInv'
  <2>1. creds'.state = creds.state /\ CallersStay /\ UNCHANGED log
    BY <1>0, <1>6 DEF KeyShare, fetch_app_state_snapshots, GoodCreds, Creds
  <2>2. QED
    BY <2>1, CredsAgree
<1>7. ASSUME NEW i \in Indexes, NEW remove \in BOOLEAN, NEW key \in Keys,
             OtherDevicePatches(i, remove, key)
      PROVE  AgreeInv'
  BY <1>7, OtherDeviceAgree
<1>8. ASSUME Reconnect PROVE AgreeInv'
  <2>1. UNCHANGED <<log, creds, pc, patch, state>>
    BY <1>8 DEF Reconnect
  <2>2. ASSUME NEW d \in Callers PROVE AgreeingNext(d)
    <3>1. CASE d \in detached' \ detached
      <4>1. pc[d] = "apply" /\ work'[d] = creds
        BY <1>8, <3>1, AppStateAssumption DEF Reconnect, Detach, At
      <4>2. QED
        BY <1>0, <2>1, <4>1 DEF AgreeInv, AgreeingNext, Agreeing
    <3>2. CASE d \notin detached' \ detached
      <4>1. work'[d] = work[d]
        BY <1>8, <3>2, AppStateAssumption DEF Reconnect, Detach
      <4>2. QED
        BY <1>0, <2>1, <4>1, OtherAgrees
    <3>3. QED
      BY <3>1, <3>2
  <2>3. QED
    BY <1>0, <2>1, <2>2, LogStays
<1>9. ASSUME UNCHANGED vars PROVE AgreeInv'
  BY <1>9, CredsAgree DEF vars, CallersStay
<1>10. QED
  BY <1>1, <1>2, <1>3, <1>4, <1>5, <1>6, <1>7, <1>8, <1>9 DEF Next

\* The invariant always holds.
LEMMA AgreeAlways == Spec => []AgreeInv
BY InitAgree, NextAgree, IInvAlways, PTL DEF Spec

-----------------------------------------------------------------------------
(* Theorems                                                                *)

\* The log, the credentials and their copies have their types.
THEOREM AppStateTypeOK == Spec => []TypeOK
<1>1. IInv => TypeOK
  <2> SUFFICES ASSUME IInv PROVE TypeOK
    OBVIOUS
  <2>1. \A c \in Callers : work[c] \in Creds /\ state[c] \in States
    BY DEF IInv, CallersGood, GoodCreds, GoodState
  <2>2. work \in [Callers -> Creds] /\ state \in [Callers -> States]
    BY <2>1 DEF IInv, VariablesTyped
  <2>3. QED
    BY <2>2 DEF IInv, GoodLog, VariablesTyped, CallersGood, GoodCreds, GoodPatch, At, TypeOK
<1>2. QED
  BY <1>1, IInvAlways, PTL

\* The LT hash is the sum over the index map, whatever was skipped, damaged or applied out of
\* order, in the credentials and in every copy of them: the code never recomputes it.
THEOREM AppStateHashOfMap == Spec => []HashOfMap
<1>1. IInv => HashOfMap
  BY CredsFields DEF IInv, CallersGood, GoodCreds, GoodState, HashOfMap
<1>2. QED
  BY <1>1, IInvAlways, PTL

\* No collection stays blocked on a key that the client has.
THEOREM AppStateBlockedOnUnknownKey == Spec => []BlockedOnUnknownKey
<1>1. IInv => BlockedOnUnknownKey
  BY DEF IInv, GoodCreds, BlockedOnUnknownKey
<1>2. QED
  BY <1>1, IInvAlways, PTL
\* However syncs and modifications overlap, whatever copy of the credentials is committed and
\* whichever dictionary a sync writes to: a state that nothing was left out of has the
\* collection of its version.
THEOREM AppStateAgrees == Spec => []StateAgrees
<1>1. AgreeInv => StateAgrees
  BY DEF AgreeInv, Agreeing, CurrentIn, MapIn, MapAt, StateAgrees, At
<1>2. QED
  BY <1>1, AgreeAlways, PTL

\* The patches that chat_modify makes from such a state carry the snapshot MAC that the other
\* devices compute.
THEOREM AppStateOwnPatches == Spec => []OwnPatchesValid
<1>1. AgreeInv => OwnPatchesValid
  BY DEF AgreeInv
<1>2. QED
  BY <1>1, AgreeAlways, PTL
=============================================================================
