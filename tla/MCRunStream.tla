---------------------------- MODULE MCRunStream ----------------------------
(***************************************************************************)
(* Every plan of the child, with and without a run timeout, is an initial  *)
(* state: one run checks them all.                                         *)
(***************************************************************************)
EXTENDS Receipt
=============================================================================
