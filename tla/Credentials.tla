---------------------------- MODULE Credentials ----------------------------
(***************************************************************************)
(* The credential dictionary of AuthState, its file, and who changes them: *)
(* operations that copy it, query the server and commit the copy           *)
(* (upload_pre_keys, rotate_signed_pre_key, assert_sessions), sends and    *)
(* received messages that change it in place, and connect, which reloads   *)
(* it.  One peer's Signal session stands for all; its state, like every    *)
(* generated key, is named by the tick of the clock that made it.          *)
(*                                                                         *)
(* The server's part is read off from what the client sends: it holds the  *)
(* keys of the last upload of an id and hands each key out once.           *)
(***************************************************************************)
EXTENDS Naturals

CONSTANTS Callers,   \* tasks that run operations of the client
          Counts,    \* counts of keys an upload may ask for
          MinCount,  \* MIN_PREKEY_COUNT
          InitialCount,  \* INITIAL_PREKEY_COUNT
          MaxId,     \* bound: ids of prekeys
          MaxClock   \* bound: keys and session states ever made

ASSUME CredentialsAssumption ==
  /\ Counts \subseteq Nat \ {0}
  /\ {MinCount, InitialCount} \subseteq Counts
  /\ MaxId \in Nat
  /\ MaxClock \in Nat \ {0}

Ids == 1..MaxId
Ticks == 0..MaxClock     \* 0: none
Creds == [next : Nat \ {0},         \* next_pre_key_id
          first : Nat \ {0},        \* first_unuploaded_pre_key_id
          keys : [Ids -> Ticks],    \* pre_keys
          signed : Ticks,           \* the signed prekey
          sess : Ticks]             \* the peer's session

VARIABLES
  mem,       \* AuthState.credentials
  disk,      \* the credential file
  conn,      \* "down" or "open"
  pc,        \* what a caller awaits
  work,      \* the copy a caller works on
  asked,     \* ids a caller uploads
  fresh,     \* the key or session state a caller made
  clock,     \* ticks so far
  server,    \* prekeys the server holds
  given,     \* prekeys the server gave to a peer
  inbound,   \* prekeys of messages under way to the client
  signed,    \* the signed prekey the server holds
  touched,   \* callers since whose copy the credentials changed
  used,      \* session states that encrypted a message
  orphans,   \* keys of operations that failed before their commit
  stale,     \* a commit overwrote a change made since its copy
  dirty,     \* a failed send or unparsed message is in memory only
  rolledBack,\* a reload dropped an unsaved change (Unsaved)
  refused    \* the server answered an upload or a rotation with an error

client == <<mem, disk, conn>>
callerVars == <<pc, work, asked, fresh, touched>>
serverVars == <<server, given, inbound, signed>>
history == <<used, orphans, stale, dirty, rolledBack, refused>>
vars == <<mem, disk, conn, pc, work, asked, fresh, clock, server, given, inbound, signed,
          touched, used, orphans, stale, dirty, rolledBack, refused>>

TypeOK ==
  /\ mem \in Creds
  /\ disk \in Creds
  /\ conn \in {"down", "open"}
  /\ pc \in [Callers -> {"idle", "upload", "rotate", "assert", "answered", "draining"}]
  /\ work \in [Callers -> Creds]
  /\ asked \in [Callers -> SUBSET Ids]
  /\ fresh \in [Callers -> Ticks]
  /\ clock \in Ticks
  /\ server \in [Ids -> Ticks]
  /\ given \subseteq Ids \X Ticks
  /\ inbound \subseteq Ids \X Ticks
  /\ signed \in Ticks
  /\ touched \in SUBSET Callers
  /\ used \in SUBSET Ticks
  /\ orphans \in SUBSET Ticks
  /\ stale \in BOOLEAN
  /\ dirty \in BOOLEAN
  /\ rolledBack \in BOOLEAN
  /\ refused \in BOOLEAN

\* After pairing: signed prekey 1, and no prekeys or one that was not uploaded yet.
Paired(n) == [next |-> n, first |-> 1,
              keys |-> [id \in Ids |-> IF id < n THEN 1 ELSE 0],
              signed |-> 1, sess |-> 0]

Blank == Paired(1)   \* in the place of a copy there is not

Init ==
  /\ mem \in {Paired(1), Paired(2)}
  /\ disk = mem
  /\ conn = "down"
  /\ pc = [c \in Callers |-> "idle"]
  /\ work = [c \in Callers |-> Blank]
  /\ asked = [c \in Callers |-> {}]
  /\ fresh = [c \in Callers |-> 0]
  /\ clock = 1
  /\ server = [id \in Ids |-> 0]
  /\ given = {}
  /\ inbound = {}
  /\ signed = 1
  /\ touched = {}
  /\ used = {}
  /\ orphans = {}
  /\ stale = FALSE
  /\ dirty = FALSE
  /\ rolledBack = FALSE
  /\ refused = FALSE

-----------------------------------------------------------------------------
Larger(m, n) == IF m >= n THEN m ELSE n
Tick == clock < MaxClock /\ clock' = clock + 1
At(c, label) == pc[c] = label
Waiting(c) == pc[c] \in {"upload", "rotate", "assert", "answered"}
Goto(c, label) == pc' = [pc EXCEPT ![c] = label]

\* generate_or_get_pre_keys: keys up to id last, made at tick v.
Last(cr, count) == cr.first + count - 1

Generate_from_next(cr, count, v) ==
  [cr EXCEPT !.keys = [id \in Ids |-> IF id \in cr.next..Last(cr, count) THEN v ELSE cr.keys[id]],
             !.next = Larger(Last(cr, count) + 1, cr.next),
             !.first = Larger(cr.next, Last(cr, count) + 2)]

Generate_keeps_next(cr, count, v) ==
  [cr EXCEPT !.keys = [id \in Ids |-> IF id \in cr.next..Last(cr, count) THEN v ELSE cr.keys[id]],
             !.first = cr.first]

Generate(cr, count, v) ==
  [cr EXCEPT !.keys = [id \in Ids |-> IF id \in cr.next..Last(cr, count) THEN v ELSE cr.keys[id]],
             !.next = Larger(Last(cr, count) + 1, cr.next),
             !.first = Larger(cr.first, Last(cr, count) + 1)]

\* What a caller's entries become when its operation is over.
Forget(S) ==
  /\ pc' = [c \in Callers |-> IF c \in S THEN "idle" ELSE pc[c]]
  /\ work' = [c \in Callers |-> IF c \in S THEN Blank ELSE work[c]]
  /\ asked' = [c \in Callers |-> IF c \in S THEN {} ELSE asked[c]]
  /\ fresh' = [c \in Callers |-> IF c \in S THEN 0 ELSE fresh[c]]

\* The credentials are changed: copies other than c's are out of date.
Touch(c) == touched' = (touched \cup {d \in Callers : Waiting(d)}) \ {c}

-----------------------------------------------------------------------------
(* Operations that work on a copy                                          *)

upload_pre_keys(c, count) ==
  /\ conn = "open" /\ At(c, "idle")
  /\ Last(mem, count) <= MaxId
  /\ Tick
  /\ work' = [work EXCEPT ![c] = Generate(mem, count, clock')]
  /\ asked' = [asked EXCEPT ![c] = mem.first..Last(mem, count)]
  /\ \A id \in asked'[c] : work'[c].keys[id] # 0    \* or "missing generated prekeys"
  /\ fresh' = [fresh EXCEPT ![c] = clock']
  /\ touched' = touched \ {c}
  /\ Goto(c, "upload")
  /\ UNCHANGED <<client, serverVars, history>>

\* maintain_pre_keys: the server has said how many keys it holds, maybe some time ago, and
\* more are uploaded if they are few or the last one made is not here any more.
UploadCount(held) == IF held = 0 THEN InitialCount ELSE MinCount
HasCurrent(cr) == cr.next = 1 \/ cr.keys[cr.next - 1] # 0

maintain_pre_keys(c, held) ==
  /\ held <= UploadCount(held) \/ ~HasCurrent(mem)
  /\ upload_pre_keys(c, UploadCount(held))

rotate_signed_pre_key(c) ==
  /\ conn = "open" /\ At(c, "idle")
  /\ Tick
  /\ work' = [work EXCEPT ![c] = [mem EXCEPT !.signed = clock']]
  /\ fresh' = [fresh EXCEPT ![c] = clock']
  /\ touched' = touched \ {c}
  /\ Goto(c, "rotate")
  /\ UNCHANGED <<client, asked, serverVars, history>>

assert_sessions(c) ==
  /\ conn = "open" /\ At(c, "idle")
  /\ work' = [work EXCEPT ![c] = mem]
  /\ touched' = touched \ {c}
  /\ Goto(c, "assert")
  /\ UNCHANGED <<client, asked, fresh, clock, serverVars, history>>

\* The server stores the keys; none that it gave away comes back.
ServerStores(c) ==
  /\ conn = "open"
  /\ \/ /\ At(c, "upload")
        /\ server' = [id \in Ids |-> IF id \in asked[c] /\ <<id, work[c].keys[id]>> \notin given
                                     THEN work[c].keys[id] ELSE server[id]]
        /\ UNCHANGED signed
     \/ /\ At(c, "rotate")
        /\ signed' = work[c].signed
        /\ UNCHANGED server
  /\ Goto(c, "answered")
  /\ UNCHANGED <<client, work, asked, fresh, touched, clock, given, inbound, history>>

\* The server answers with an error: the query returns it like any answer.
ServerRefuses(c) ==
  /\ conn = "open"
  /\ pc[c] \in {"upload", "rotate"}
  /\ refused' = TRUE
  /\ Goto(c, "answered")
  /\ UNCHANGED <<client, work, asked, fresh, touched, clock, serverVars, used, orphans, stale,
                 dirty, rolledBack>>

\* The answer of an upload did not come: the same node is sent again.
RetryUpload(c) ==
  /\ conn = "open"
  /\ At(c, "answered") /\ asked[c] # {}
  /\ Goto(c, "upload")
  /\ UNCHANGED <<client, work, asked, fresh, touched, clock, serverVars, history>>

\* _commit_credentials of a copy.
_commit_credentials(c, creds) ==
  /\ mem' = creds
  /\ disk' = creds
  /\ stale' = (stale \/ c \in touched)
  /\ Touch(c)
  /\ Forget({c})
  /\ dirty' = FALSE
  /\ UNCHANGED <<conn, serverVars, used, orphans, rolledBack, refused>>

CommitKeys(c) ==
  /\ conn = "open"
  /\ At(c, "answered")
  /\ _commit_credentials(c, work[c])
  /\ UNCHANGED clock

\* inject_sessions_from_encrypt_result, then the commit.
CommitSession(c) ==
  /\ conn = "open"
  /\ At(c, "assert")
  /\ Tick
  /\ _commit_credentials(c, [work[c] EXCEPT !.sess = clock'])

\* A timeout, a cancelled query, an unresolved session: the copy is dropped.
OperationFails(c) ==
  /\ Waiting(c)
  /\ orphans' = orphans \cup ({fresh[c]} \ {0})
  /\ Forget({c})
  /\ touched' = touched \ {c}
  /\ UNCHANGED <<client, clock, serverVars, used, stale, dirty, rolledBack, refused>>

-----------------------------------------------------------------------------
(* Changes in place                                                        *)

\* build_message_content_node advances the session, then the node goes to the socket; the
\* caller may await its buffer.
relay_message(c) ==
  /\ conn = "open" /\ At(c, "idle")
  /\ mem.sess # 0
  /\ Tick
  /\ used' = used \cup {mem.sess}
  /\ mem' = [mem EXCEPT !.sess = clock']
  /\ fresh' = [fresh EXCEPT ![c] = clock']
  /\ Touch(c)
  /\ Goto(c, "draining")
  /\ UNCHANGED <<disk, conn, work, asked, serverVars, orphans, stale, dirty, rolledBack,
                 refused>>

\* relay_message goes on: whatever the credentials are by now is saved.
SendDone_unsaved(c) ==
  /\ At(c, "draining")
  /\ Forget({c})
  /\ UNCHANGED <<client, touched, clock, serverVars, history>>

SendDone(c) ==
  /\ At(c, "draining")
  /\ disk' = mem
  /\ dirty' = FALSE
  /\ Forget({c})
  /\ UNCHANGED <<mem, conn, touched, clock, serverVars, used, orphans, stale,
                 rolledBack, refused>>

\* The node cannot be encoded or the socket raises.
SendFails(c) ==
  /\ At(c, "draining")
  /\ dirty' = TRUE
  /\ Forget({c})
  /\ UNCHANGED <<client, touched, clock, serverVars, used, orphans, stale, rolledBack, refused>>

\* A send without a socket raises after the session advanced.
SendUnconnected(c) ==
  /\ conn # "open" /\ At(c, "idle")
  /\ mem.sess # 0
  /\ Tick
  /\ mem' = [mem EXCEPT !.sess = clock']
  /\ dirty' = TRUE
  /\ Touch(c)
  /\ UNCHANGED <<disk, conn, pc, work, asked, fresh, serverVars, used, orphans, stale, rolledBack,
                 refused>>

\* build_message_upsert changes the credentials to cr and saves them, unless the plaintext
\* does not parse.
Decrypted(cr) ==
  /\ mem' = cr
  /\ \/ disk' = cr /\ dirty' = FALSE
     \/ dirty' = TRUE /\ UNCHANGED disk
  /\ touched' = touched \cup {c \in Callers : Waiting(c)}
  /\ UNCHANGED <<conn, pc, work, asked, fresh, server, given, signed, used, orphans,
                 stale, rolledBack, refused>>

ReceiveMessage ==
  /\ conn = "open"
  /\ mem.sess # 0
  /\ Tick
  /\ Decrypted([mem EXCEPT !.sess = clock'])
  /\ UNCHANGED inbound

\* A prekey message makes a session and consumes its key.
ReceivePreKeyMessage(id, v) ==
  /\ conn = "open"
  /\ <<id, v>> \in inbound
  /\ mem.keys[id] = v
  /\ Tick
  /\ Decrypted([mem EXCEPT !.sess = clock', !.keys[id] = 0])
  /\ inbound' = inbound \ {<<id, v>>}

\* The key is not there: the message is acknowledged with an error and lost.
DecryptFails(id, v) ==
  /\ conn = "open"
  /\ <<id, v>> \in inbound
  /\ mem.keys[id] # v
  /\ inbound' = inbound \ {<<id, v>>}
  /\ UNCHANGED <<client, callerVars, clock, server, given, signed, history>>

-----------------------------------------------------------------------------
(* Connections and crashes                                                 *)

\* What memory has and the file does not: of a send under way or a message that
\* did not parse.
Unsaved == dirty \/ \E c \in Callers : At(c, "draining")

\* connect() puts what it read from the file in the place of the credentials.  Nothing is
\* saved without a connection, so it is what the file holds at the end of the handshake.
connect ==
  /\ conn = "down"
  /\ mem' = disk
  /\ conn' = "open"
  /\ rolledBack' = (rolledBack \/ (Unsaved /\ mem # disk))
  /\ touched' = IF mem = disk THEN touched ELSE touched \cup {c \in Callers : Waiting(c)}
  /\ dirty' = FALSE
  /\ UNCHANGED <<disk, pc, work, asked, fresh, clock, serverVars, used, orphans, stale,
                 refused>>

Uploading(c) == Waiting(c) /\ asked[c] # {}

\* The operations of S end with their connection or with the program.
Interrupt(S) ==
  /\ Forget(S)
  /\ touched' = touched \ S
  /\ orphans' = orphans \cup ({fresh[c] : c \in {d \in S : Waiting(d)}} \ {0})
  /\ conn' = "down"
  /\ UNCHANGED <<disk, clock, serverVars, used, stale, refused>>

\* An upload with retries goes on with its copy when its query times out.
Disconnected ==
  /\ conn = "open"
  /\ Interrupt({c \in Callers : ~Uploading(c)})
  /\ dirty' = Unsaved
  /\ UNCHANGED <<mem, rolledBack>>

\* The program ends and starts again: AuthState.from_store.
Crash ==
  /\ Interrupt(Callers)
  /\ mem' = disk
  /\ rolledBack' = (rolledBack \/ (Unsaved /\ mem # disk))
  /\ dirty' = FALSE

-----------------------------------------------------------------------------
(* Peers                                                                   *)

PeerFetchesKey(id) ==
  /\ server[id] # 0
  /\ server' = [server EXCEPT ![id] = 0]
  /\ given' = given \cup {<<id, server[id]>>}
  /\ inbound' = inbound \cup {<<id, server[id]>>}
  /\ UNCHANGED <<client, callerVars, clock, signed, history>>

CallerStep(c) ==
  \/ \E n \in Counts : upload_pre_keys(c, n)
  \/ \E held \in 0..MaxId : maintain_pre_keys(c, held)
  \/ rotate_signed_pre_key(c) \/ assert_sessions(c)
  \/ ServerStores(c) \/ ServerRefuses(c) \/ RetryUpload(c)
  \/ CommitKeys(c) \/ CommitSession(c) \/ OperationFails(c)
  \/ relay_message(c) \/ SendDone(c) \/ SendFails(c) \/ SendUnconnected(c)

Next ==
  \/ \E c \in Callers : CallerStep(c)
  \/ ReceiveMessage
  \/ \E id \in Ids, v \in Ticks : ReceivePreKeyMessage(id, v) \/ DecryptFails(id, v)
  \/ \E id \in Ids : PeerFetchesKey(id)
  \/ connect \/ Disconnected \/ Crash

Spec == Init /\ [][Next]_vars

-----------------------------------------------------------------------------
(* Safety                                                                  *)

InFlight(v) == \E c \in Callers : Waiting(c) /\ fresh[c] = v

\* The ids not yet uploaded, from first_unuploaded_pre_key_id to next_pre_key_id, have their
\* keys and no later id has one, in the credentials, in the file and in every copy: an upload
\* finds the keys it lists.  A key can be missing only when a message consumed it before the
\* upload that published it was committed.
Consumed(id) == \E v \in Ticks : <<id, v>> \in given \ inbound
Window(cr) ==
  /\ 1 <= cr.first /\ cr.first <= cr.next
  /\ \A id \in Ids : /\ id >= cr.next => cr.keys[id] = 0
                     /\ id \in cr.first..(cr.next - 1) => cr.keys[id] # 0 \/ Consumed(id)

WindowOK == Window(mem) /\ Window(disk) /\ \A c \in Callers : Window(work[c])

\* A prekey that the server holds, or that a peer has used for a message under way, is
\* known under its id: the message can be decrypted.  What can break this is an upload
\* under way or failed after the server stored it, and a commit of a copy out of date; the
\* same holds of the signed prekey, which a refused rotation changes as well.
ServerKeysKnown ==
  /\ \A id \in Ids, v \in Ticks \ {0} :
       server[id] = v \/ <<id, v>> \in inbound
         => mem.keys[id] = v \/ InFlight(v) \/ v \in orphans \/ stale
  /\ signed = mem.signed \/ InFlight(signed) \/ signed \in orphans \/ stale \/ refused

\* The file has what memory has, but for a send under way or a message that does
\* not parse: nothing else leaves a change for the next save to write.
DiskCurrent ==
  conn = "open" => mem = disk \/ Unsaved

\* No state of a session encrypts two messages, unless a reload dropped what a send under way
\* or an unparsed message, left in memory only, or a copy out of date was committed.
NoMessageKeyReuse == mem.sess \in used => rolledBack \/ stale
=============================================================================
