----------------------------- MODULE Admission ------------------------------
(***************************************************************************)
(* What the spawn gate promises: each spawn gets one verdict for good, and *)
(* while verification is mandatory only a trusted artifact is admitted.    *)
(***************************************************************************)
CONSTANTS
  Spawns,    \* calls of SpawnGate::check
  Digests,   \* what a binary can hash to
  Trusted    \* the digests signed by the expected identity, with a manifest
             \* that declares quarry's two capabilities and nothing else

VARIABLES mandatory, verdict

vars == <<mandatory, verdict>>

Undecided   == <<"undecided">>
Refused     == <<"refused">>
Admitted(d) == <<"admitted", d>>

Init ==
  /\ mandatory \in BOOLEAN
  /\ verdict = [s \in Spawns |-> Undecided]

Admit(s, d) ==
  /\ verdict[s] = Undecided
  /\ mandatory => d \in Trusted
  /\ verdict' = [verdict EXCEPT ![s] = Admitted(d)]
  /\ UNCHANGED mandatory

Refuse(s) ==
  /\ verdict[s] = Undecided
  /\ verdict' = [verdict EXCEPT ![s] = Refused]
  /\ UNCHANGED mandatory

Next == \E s \in Spawns : Refuse(s) \/ \E d \in Digests : Admit(s, d)

Spec == Init /\ [][Next]_vars
=============================================================================
