----------------------------- MODULE MCPlanGate ----------------------------
(***************************************************************************)
(* Two requests of one user reachable on two channels.  The initial states *)
(* range over every origin of the two, so one run holds both a request     *)
(* that supersedes the other and two that must not touch each other.       *)
(***************************************************************************)
EXTENDS PlanGate
=============================================================================
