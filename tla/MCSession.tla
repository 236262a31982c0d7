----------------------------- MODULE MCSession -----------------------------
(* Instances of Session small enough for TLC: see the configurations. *)
EXTENDS Session
=============================================================================
