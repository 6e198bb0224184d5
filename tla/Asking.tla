------------------------------- MODULE Asking -------------------------------
(***************************************************************************)
(* What the calls of the public API that are queries share.  A call asks    *)
(* the server, is resumed with its answer, and may ask again; between two   *)
(* of its steps any other call runs, time passes, and the process may end.  *)
(*                                                                         *)
(* The query core is in Query: here a query is answered, refused or timed   *)
(* out.  With a receive task a query has its whole timeout; a call that     *)
(* reads the socket itself gives up as soon as nothing comes for a while.   *)
(***************************************************************************)
EXTENDS Contacts, Groups, Media

CONSTANTS Callers,
          Plans,       \* bound: what runs together, [does, named, ticks, moves, crashes]: the call of each
                       \* caller, the names of the products at the start, and how often time passes,
                       \* numbers change hands and the process ends
          Numbers,     \* the phone numbers of others, as addresses
          Lids,        \* the LIDs the server gives out
          GroupIds, Spare,  \* the groups, and the one that a create makes
          RecoverPage, \* how many products are looked at for one that was created
          Timeout      \* how long a call waits, in ticks

ASSUME AskingAssumption ==
  /\ {NumBuckets, RecoverPage, Timeout} \subseteq Nat \ {0}
  /\ Margin \in Nat
  /\ Spare \in GroupIds /\ GroupServer \notin GroupIds /\ None \notin Callers
ASSUME NoneAssumption == None \notin {"refused", "account_reachout_restricted", "not_uploaded"} \cup [timestamp : Nat]
\* Numbers and LIDs are whole addresses of either kind, and everybody has a LID.
ASSUME NumbersAssumption ==
  /\ IsFiniteSet(Numbers) /\ None \notin Numbers \cup Lids /\ None \notin GroupIds
  /\ (\A n \in Numbers : is_pn(n)) /\ \A l \in Lids : is_lid(l)
  /\ \A j \in Numbers \cup Lids : jid_normalized_user(j) = j
  /\ \E f \in [Numbers -> Lids] : \A n, m \in Numbers : n # m => f[n] # f[m]

VARIABLES
  now,      \* the clock, in ticks and in weeks
  loop,     \* a receive task runs
  base,     \* the store: "database", or "memory", which has no table of LIDs
  plan,     \* what runs
  call,     \* how far it is
  creds,    \* the mappings of the credentials
  disk,     \* the mappings of the credential file
  rows,     \* the table of LIDs
  tokens,   \* tctoken entries of the key store
  conn,     \* _media_conn and when it expires, or None
  groups,   \* the server: its groups,
  lid_of,   \* the LIDs of the numbers,
  account,  \* what is set of the account, its channels, and what was said and told of them,
  products, \* and its catalog
  \* history
  once,     \* number and LID of everybody, ever
  stored,   \* tokens kept, ever
  moves, crashes

local == <<creds, disk, rows, tokens, conn, stored>>
server == <<groups, lid_of, account, products, once>>
bounds == <<moves, crashes>>
fixed == <<loop, base, plan>>

NoChange == << >>
\* A call: how far it is, what it asked and was answered, what is left to do and was gathered,
\* the copy of the mappings and the media hosts it holds; then when it gives up, what the server did for it, what
\* it told, the numbers it was answered about, if a query of it timed out, and how it ended.
Idle == [pc |-> "idle", step |-> "first", node |-> None, answer |-> None, copy |-> NoMapping,
         todo |-> << >>, alone |-> << >>, hosts |-> << >>, got |-> << >>, end |-> 0, due |-> 0, made |-> NoChange,
         told |-> NoChange, heard |-> {}, cut |-> FALSE, result |-> None]

AskingInit ==
  /\ now = 1 /\ moves = 0 /\ crashes = 0
  /\ loop \in BOOLEAN /\ base \in {"database", "memory"}
  /\ plan \in Plans /\ call = [c \in Callers |-> Idle]
  /\ creds = NoMapping /\ disk = NoMapping /\ rows = {} /\ tokens = << >> /\ conn = None /\ stored = {}
  /\ groups = [j \in GroupIds |->
       [subject |-> None, desc |-> None, desc_id |-> 0, announce |-> FALSE, locked |-> FALSE, ephemeral |-> 0,
        add_mode |-> "admin_add", approval |-> "off", members |-> IF j = Spare THEN {} ELSE Numbers,
        joined |-> j # Spare, code |-> IF j = Spare THEN 1 ELSE 0, subs |-> {}]]
  /\ lid_of = CHOOSE f \in [Numbers -> Lids] : \A n, m \in Numbers : n # m => f[n] # f[m]
  /\ account = [readreceipts |-> "all", seen |-> {}, said |-> << >>, told |-> << >>,
                 business |-> [address |-> None, description |-> None, websites |-> << >>],
                 channels |-> <<[name |-> "news", followed |-> FALSE, muted |-> FALSE, live |-> TRUE,
                                 owner |-> None, admins |-> {"u1"}]>>]
  /\ products = [i \in DOMAIN plan.named |-> [name |-> plan.named[i], hidden |-> None, by |-> None, gone |-> FALSE]]
  /\ once = {[pn |-> n, lid |-> lid_of[n]] : n \in Numbers}

-----------------------------------------------------------------------------
Set(c, fields) == call' = [call EXCEPT ![c] = fields ++ @]

\* self.query and self._query_checked, up to the answer.
Ask(c, node, step, fields) ==
  Set(c, fields ++ [pc |-> "asked", node |-> node, answer |-> None, step |-> step, due |-> now + Timeout])
Ends(c, why, fields) == Set(c, fields ++ [pc |-> "done", result |-> why, node |-> None, answer |-> None])

Query(about, what) == [xmlns |-> about, child |-> what]

Waiting(c, about) == call[c].pc = "asked" /\ call[c].answer = None /\ call[c].node.xmlns = about
Answered(c) == call[c].pc = "asked" /\ call[c].answer # None

\* What the server does for a call, with its answer.
Answers(c, answer, made) == Set(c, [answer |-> [error |-> None] ++ answer, made |-> made ++ call[c].made])

\* An error, with its text.
Refused(c) == Answered(c) /\ call[c].answer.error # None
Granting(c) == Answered(c) /\ call[c].answer.error = None
Refuse(c) ==
  /\ call[c].pc = "asked" /\ call[c].answer = None
  /\ \E text \in {"refused", "account_reachout_restricted"} : Set(c, [answer |-> [error |-> text]])
  /\ UNCHANGED <<now, fixed, local, server, bounds>>

Begins(c, calls) == call[c].pc = "idle" /\ plan.does[c] # None /\ plan.does[c].do \in calls
=============================================================================
