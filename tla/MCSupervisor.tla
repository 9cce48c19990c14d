---------------------------- MODULE MCSupervisor ---------------------------
(***************************************************************************)
(* Three calls compete for the slots.  With a limit of two, one can be     *)
(* refused while another still races for the last slot; with one directory *)
(* kept, a pass of the reaper has two to remove.                           *)
(***************************************************************************)
EXTENDS Supervisor
=============================================================================
