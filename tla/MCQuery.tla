------------------------------ MODULE MCQuery ------------------------------
(* Two callers, one of them a handler inside the receive task.             *)
EXTENDS Query

CONSTANTS c1, n
MCCallers == {c1, n}
=============================================================================
