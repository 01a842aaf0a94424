----------------------------- MODULE MCNetGuard -----------------------------
(* NetGuard for TLC: three threads and two hosts, so that a key's count    *)
(* passes one and two keys are held at once.                               *)
EXTENDS NetGuard
=============================================================================
