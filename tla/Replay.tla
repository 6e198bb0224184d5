------------------------------- MODULE Replay -------------------------------
(***************************************************************************)
(* The store of what was sent, for messages that have to be sent again      *)
(* (replay.py, sqlite_store.py, postgres_store.py).  An entry is its        *)
(* message, expired the messages whose time is over; a store is in memory   *)
(* or in a database.                                                        *)
(***************************************************************************)

\* A later save of the same message takes the place of the entry.
Saved(entries, id) == entries \cup {id}

Found(entries, expired, id) == id \in entries \ expired

\* Reading an entry that has expired removes it.
AfterLoad(entries, expired, id) == IF id \in expired THEN entries \ {id} ELSE entries

Pruned(entries, expired) == entries \ expired

\* Only a database outlives the process.
AfterRestart(store, entries) == IF store = "memory" THEN {} ELSE entries
=============================================================================
