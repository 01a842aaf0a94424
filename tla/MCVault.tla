------------------------------- MODULE MCVault -------------------------------
(* Vault for TLC.  One caller: the calls of the two writing tools come one *)
(* after the other.  Two callers: they overlap.                            *)
EXTENDS Vault
=============================================================================
