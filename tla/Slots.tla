------------------------------- MODULE Slots -------------------------------
(***************************************************************************)
(* What the supervisor's concurrency limit promises: a request is let in   *)
(* or turned away in one indivisible step, and it is turned away only if   *)
(* at that moment Limit runs really hold a slot.  Nobody waits in a queue. *)
(* Module Supervisor implements this with a counter and compare-exchange.  *)
(***************************************************************************)
EXTENDS Naturals, FiniteSets

CONSTANTS Runs, Limit

VARIABLES
  holding,   \* the runs that hold a slot
  refused    \* the runs that were turned away for want of one

vars == <<holding, refused>>

Init == holding = {} /\ refused = {}

Admit(r) ==
  /\ r \notin holding \cup refused
  /\ Cardinality(holding) < Limit
  /\ holding' = holding \cup {r}
  /\ UNCHANGED refused

Refuse(r) ==
  /\ r \notin holding \cup refused
  /\ Cardinality(holding) >= Limit
  /\ refused' = refused \cup {r}
  /\ UNCHANGED holding

Release(r) ==
  /\ r \in holding
  /\ holding' = holding \ {r}
  /\ UNCHANGED refused

Next == \E r \in Runs : Admit(r) \/ Refuse(r) \/ Release(r)

Spec == Init /\ [][Next]_vars
=============================================================================
