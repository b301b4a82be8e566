----------------------------- MODULE MCOperator -----------------------------
(* Operator for TLC. *)
EXTENDS Operator
=============================================================================
