------------------------------- MODULE MCCuse -------------------------------
(* Cuse for TLC: two commands of which one can be canceled.                *)
EXTENDS Cuse
=============================================================================
