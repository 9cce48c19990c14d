------------------------------ MODULE Consent ------------------------------
(***************************************************************************)
(* What the plan gate promises, without saying how.  A request's plan is   *)
(* offered to the sender it came from; the sender may agree; only an       *)
(* agreed plan may be spent on, and at most once.  Offering a second plan  *)
(* to the same sender closes the first in the same step if the sender has  *)
(* not agreed to it: a sender is never asked about two plans at once.      *)
(* Module PlanGate implements this contract.                               *)
(***************************************************************************)
CONSTANTS
  Requests,  \* the gated runs ever asked for
  Key        \* the senders: a channel and a user on it

VARIABLES
  sender,    \* the sender each request came from
  stage      \* where each request stands with its sender

vars == <<sender, stage>>

Stages == {"none", "open", "agreed", "spent", "closed"}

TypeOK ==
  /\ sender \in [Requests -> Key]
  /\ stage \in [Requests -> Stages]

Init ==
  /\ sender \in [Requests -> Key]
  /\ stage = [r \in Requests |-> "none"]

Offer(r) ==
  /\ stage[r] = "none"
  /\ stage' = [q \in Requests |->
       IF q = r THEN "open"
       ELSE IF sender[q] = sender[r] /\ stage[q] = "open" THEN "closed"
       ELSE stage[q]]
  /\ UNCHANGED sender

Agree(r) ==
  /\ stage[r] = "open"
  /\ stage' = [stage EXCEPT ![r] = "agreed"]
  /\ UNCHANGED sender

(* A cancellation, an expiry, a plan that could not be delivered, a spawn  *)
(* that was refused or a caller that went away.                            *)
Close(r) ==
  /\ stage[r] \in {"open", "agreed"}
  /\ stage' = [stage EXCEPT ![r] = "closed"]
  /\ UNCHANGED sender

Spend(r) ==
  /\ stage[r] = "agreed"
  /\ stage' = [stage EXCEPT ![r] = "spent"]
  /\ UNCHANGED sender

Next == \E r \in Requests : Offer(r) \/ Agree(r) \/ Close(r) \/ Spend(r)

Spec == Init /\ [][Next]_vars
=============================================================================
