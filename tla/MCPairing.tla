----------------------------- MODULE MCPairing -----------------------------
(* Two calls of connect_for_qr_pairing.                                      *)
EXTENDS Pairing
=============================================================================
