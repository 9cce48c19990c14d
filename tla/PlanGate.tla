------------------------------ MODULE PlanGate -----------------------------
(***************************************************************************)
(* The approval registry (src/src/quarry/approval.rs) and the gate that    *)
(* sequences a run behind it (run_gated, src/src/quarry/gate.rs).          *)
(*                                                                         *)
(* A request is one call of run_gated.  Its task registers an approval     *)
(* (begin), sends the plan, waits on a oneshot channel with a timeout,     *)
(* takes the registry's lock a second time to remove its entry, and only   *)
(* then starts the run.  Senders answer at any moment (submit_reply).      *)
(* Each action is what happens under one acquisition of the registry lock, *)
(* or between two awaits.                                                  *)
(*                                                                         *)
(* Time is a countdown: answerable[r] is what is left of the entry's       *)
(* deadline, timer[r] what is left of the waiter's own tokio timer, which  *)
(* starts later, when the plan has been sent.                              *)
(***************************************************************************)
EXTENDS Naturals

CONSTANTS
  Requests,   \* request ids; each is used for one call of run_gated
  NoRequest,  \* stands for an absent map entry
  Channels, Users,
  Timeout     \* the approval timeout, in ticks

Key == Channels \X Users

ASSUME NoRequestAssumption == NoRequest \notin Requests
ASSUME TimeoutAssumption == Timeout \in Nat \ {0}

VARIABLES
  origin,      \* the (channel, user) each request comes from; never changes
  pending,     \* the registry's map: the request registered under each key
  armed,       \* armed[r]: the entry of r still holds its oneshot sender
  answerable,  \* ticks until the entry's deadline
  timer,       \* ticks until the waiter's own timer fires
  box,         \* what was sent on the oneshot channel of r
  pc,          \* how far run_gated(r) has come
  decision,    \* what wait() resolved to
  audited,     \* the plan decisions written to the audit log for r
  spawned,     \* the requests whose quarry process was started
  first        \* history: the first yes or no its sender gave r in time

vars == <<origin, pending, armed, answerable, timer, box, pc, decision, audited,
          spawned, first>>

Decisions == {"approved", "cancelled", "expired", "superseded"}
Words     == {"yes", "no", "other"}

MayWait   == {"registered", "waiting"}
Finished  == {"ran", "not_run", "spawn_failed", "error", "dropped"}
Pcs       == MayWait \cup {"idle", "decided", "declining", "cleared",
                           "running"} \cup Finished

TypeOK ==
  /\ origin     \in [Requests -> Key]
  /\ pending    \in [Key -> Requests \cup {NoRequest}]
  /\ armed      \in [Requests -> BOOLEAN]
  /\ answerable \in [Requests -> 0 .. Timeout]
  /\ timer      \in [Requests -> 0 .. Timeout]
  /\ box        \in [Requests -> Decisions \cup {"none"}]
  /\ pc         \in [Requests -> Pcs]
  /\ decision   \in [Requests -> Decisions \cup {"none"}]
  /\ audited    \in [Requests -> SUBSET Decisions]
  /\ spawned    \in SUBSET Requests
  /\ first      \in [Requests -> {"none", "yes", "no"}]

Init ==
  /\ origin     \in [Requests -> Key]
  /\ pending    = [k \in Key |-> NoRequest]
  /\ armed      = [r \in Requests |-> FALSE]
  /\ answerable = [r \in Requests |-> 0]
  /\ timer      = [r \in Requests |-> 0]
  /\ box        = [r \in Requests |-> "none"]
  /\ pc         = [r \in Requests |-> "idle"]
  /\ decision   = [r \in Requests |-> "none"]
  /\ audited    = [r \in Requests |-> {}]
  /\ spawned    = {}
  /\ first      = [r \in Requests |-> "none"]

-----------------------------------------------------------------------------
(* The decisions of the code that its actions below are built from.  A     *)
(* definition whose name ends in _mutant is a plausible bug in the one     *)
(* after it; no action uses it, and a check that swaps it in must fail.    *)

(* classify_reply: anything that is not a yes or a no is Unrecognised.     *)
IsAnswer(w) == w \in {"yes", "no"}
DecisionOf(w) == IF w = "yes" THEN "approved" ELSE "cancelled"

(* Decision::may_spend.                                                    *)
MaySpend_mutant(d) == d # "cancelled"
MaySpend(d) == d = "approved"

(* submit_reply: an entry is answerable only before its deadline.          *)
InTime_mutant(r) == TRUE
InTime(r) == answerable[r] > 0

(* wait: tokio's timeout polls the channel before the timer, so an answer  *)
(* that is there wins over a timer that has fired.                         *)
Resolved_mutant(r) == box[r] # "none"
Resolved(r) == box[r] # "none" \/ timer[r] = 0

Resolution_mutant(r) == IF timer[r] = 0 THEN "expired" ELSE box[r]
Resolution(r) == IF box[r] # "none" THEN box[r] ELSE "expired"

(* wait, second half: the entry is removed only if it is still ours.       *)
StillOurs_mutant(r) == pending[origin[r]] # NoRequest
StillOurs(r) == pending[origin[r]] = r

(* wait: the request that superseded this one has logged it.               *)
LogsItself_mutant(d) == d \in {"approved", "cancelled"}
LogsItself(d) == d # "superseded"

(* begin: the waiter of a replaced entry is woken if nothing settled it.   *)
Wakes_mutant(old) == FALSE
Wakes(old) == old # NoRequest /\ armed[old]

Elapse_mutant(n) == n - 1
Elapse(n) == IF n > 0 THEN n - 1 ELSE 0

-----------------------------------------------------------------------------
(* ApprovalRegistry::begin.  An entry already under the key is replaced;   *)
(* its waiter is sent Superseded if it was not settled yet, and the audit  *)
(* log gets a Superseded record for it either way.                         *)
Begin(r) ==
  LET old == pending[origin[r]] IN
  /\ pc[r] = "idle"
  /\ pc' = [pc EXCEPT ![r] = "registered"]
  /\ pending' = [pending EXCEPT ![origin[r]] = r]
  /\ armed' = [q \in Requests |-> q = r \/ (armed[q] /\ q # old)]
  /\ answerable' = [q \in Requests |->
               IF q = r THEN Timeout ELSE IF q = old THEN 0 ELSE answerable[q]]
  /\ box' = [q \in Requests |->
               IF q = old /\ Wakes(old) THEN "superseded" ELSE box[q]]
  /\ audited' = [q \in Requests |->
               IF q = old THEN audited[q] \cup {"superseded"} ELSE audited[q]]
  /\ UNCHANGED <<origin, timer, decision, spawned, first>>

(* run_gated: responder.reply(plan) returned.  On success wait() starts    *)
(* its timer; on failure the ticket is dropped and the entry stays.        *)
PlanSent(r) ==
  /\ pc[r] = "registered"
  /\ pc' = [pc EXCEPT ![r] = "waiting"]
  /\ timer' = [timer EXCEPT ![r] = Timeout]
  /\ UNCHANGED <<origin, pending, armed, answerable, box, decision, audited, spawned,
                 first>>

PlanSendFails(r) ==
  /\ pc[r] = "registered"
  /\ pc' = [pc EXCEPT ![r] = "error"]
  /\ UNCHANGED <<origin, pending, armed, answerable, timer, box, decision, audited,
                 spawned, first>>

(* ApprovalRegistry::submit_reply from the sender k, when it finds an      *)
(* entry before its deadline.  A reply that finds none, or finds it too    *)
(* late, is NothingPending and changes nothing here.                       *)
SubmitReply(k, w) ==
  LET r == pending[k] IN
  /\ r # NoRequest
  /\ InTime(r)
  /\ IsAnswer(w)
  /\ box' = [box EXCEPT ![r] = IF armed[r] THEN DecisionOf(w) ELSE @]
  /\ armed' = [armed EXCEPT ![r] = FALSE]
  /\ UNCHANGED <<origin, pending, answerable, timer, pc, decision, audited, spawned>>

(* What the sender k really said to the offer in front of them, kept apart *)
(* from what the registry makes of it.                                     *)
Hear(k, w) ==
  first' = IF /\ pending[k] # NoRequest
              /\ answerable[pending[k]] > 0
              /\ first[pending[k]] = "none"
              /\ w \in {"yes", "no"}
           THEN [first EXCEPT ![pending[k]] = w]
           ELSE first

Reply(k, w) == SubmitReply(k, w) /\ Hear(k, w)

(* ApprovalTicket::wait, the timed wait on the channel.                    *)
Decide(r) ==
  /\ pc[r] = "waiting"
  /\ Resolved(r)
  /\ decision' = [decision EXCEPT ![r] = Resolution(r)]
  /\ pc' = [pc EXCEPT ![r] = "decided"]
  /\ timer' = [timer EXCEPT ![r] = 0]
  /\ UNCHANGED <<origin, pending, armed, answerable, box, audited, spawned,
                 first>>

(* The second half of wait, under the lock again, and run_gated's branch   *)
(* on may_spend.                                                           *)
Clear(r) ==
  /\ pc[r] = "decided"
  /\ pending' = [pending EXCEPT ![origin[r]] =
                   IF StillOurs(r) THEN NoRequest ELSE @]
  /\ armed' = [armed EXCEPT ![r] = @ /\ ~StillOurs(r)]
  /\ answerable' = [answerable EXCEPT ![r] = IF StillOurs(r) THEN 0 ELSE @]
  /\ audited' = [audited EXCEPT ![r] =
                   IF LogsItself(decision[r]) THEN @ \cup {decision[r]} ELSE @]
  /\ pc' = [pc EXCEPT ![r] =
              IF MaySpend(decision[r]) THEN "cleared" ELSE "declining"]
  /\ UNCHANGED <<origin, timer, box, decision, spawned, first>>

(* The closing message of a gate that did not open: delivered or not.      *)
Declined(r) ==
  /\ pc[r] = "declining"
  /\ \E out \in {"not_run", "error"} : pc' = [pc EXCEPT ![r] = out]
  /\ UNCHANGED <<origin, pending, armed, answerable, timer, box, decision, audited,
                 spawned, first>>

(* supervisor.run: refused, or a quarry process is started.                *)
SpawnRefused(r) ==
  /\ pc[r] = "cleared"
  /\ pc' = [pc EXCEPT ![r] = "spawn_failed"]
  /\ UNCHANGED <<origin, pending, armed, answerable, timer, box, decision, audited,
                 spawned, first>>

Spawn(r) ==
  /\ pc[r] = "cleared"
  /\ pc' = [pc EXCEPT ![r] = "running"]
  /\ spawned' = spawned \cup {r}
  /\ UNCHANGED <<origin, pending, armed, answerable, timer, box, decision, audited,
                 first>>

RunEnds(r) ==
  /\ pc[r] = "running"
  /\ pc' = [pc EXCEPT ![r] = "ran"]
  /\ UNCHANGED <<origin, pending, armed, answerable, timer, box, decision, audited,
                 spawned, first>>

(* The caller drops the run_gated future (its task is aborted), and with   *)
(* it the ticket.  Nothing settles the entry.                              *)
Abandon(r) ==
  /\ pc[r] \notin Finished \cup {"idle"}
  /\ pc' = [pc EXCEPT ![r] = "dropped"]
  /\ timer' = [timer EXCEPT ![r] = 0]
  /\ UNCHANGED <<origin, pending, armed, answerable, box, decision, audited,
                 spawned, first>>

(* One unit of time passes for every deadline and timer.                   *)
Tick ==
  /\ \E r \in Requests : answerable[r] > 0 \/ timer[r] > 0
  /\ answerable' = [r \in Requests |-> Elapse(answerable[r])]
  /\ timer' = [r \in Requests |-> Elapse(timer[r])]
  /\ UNCHANGED <<origin, pending, armed, box, pc, decision, audited, spawned, first>>

-----------------------------------------------------------------------------
Task(r) ==
  \/ PlanSent(r) \/ PlanSendFails(r)
  \/ Decide(r) \/ Clear(r)
  \/ Declined(r) \/ SpawnRefused(r) \/ Spawn(r) \/ RunEnds(r)

Next ==
  \/ \E r \in Requests : Begin(r) \/ Task(r) \/ Abandon(r)
  \/ \E k \in Key, w \in Words : Reply(k, w)
  \/ Tick

Spec == Init /\ [][Next]_vars

(* The runtime polls every task that can move and time passes; channel     *)
(* sends and runs end.  Nothing is assumed of the senders or the callers.  *)
FairSpec == Spec /\ WF_vars(Tick) /\ \A r \in Requests : WF_vars(Task(r))

-----------------------------------------------------------------------------
(* Properties.                                                             *)

(* A quarry process is started for a request only if the first answer its  *)
(* own sender gave on its own channel, after it was registered and before  *)
(* its deadline, was a yes: not a no followed by a yes, not a late yes,    *)
(* not a timeout, not another request's yes.                               *)
SpendNeedsConsent == \A r \in spawned : first[r] = "yes"

(* From registration until its waiter has something to wake up for, a      *)
(* request is the entry under its sender's key and can still be settled:   *)
(* the earliest reply has somewhere to land, and no other request's        *)
(* cleanup takes the entry away.                                           *)
AnswerHasSomewhereToLand ==
  \A r \in Requests :
    pc[r] \in MayWait /\ box[r] = "none" =>
      pending[origin[r]] = r /\ armed[r]

(* An answer given in time is the decision the gate acts on: it is never   *)
(* lost to the timer that runs beside it, nor replaced by a newer request. *)
InTimeAnswerCounts ==
  \A r \in Requests :
    decision[r] # "none" /\ first[r] # "none" =>
      decision[r] = DecisionOf(first[r])

(* Once wait() has returned, the audit log holds the decision the gate     *)
(* goes by, whichever of the waiter and its superseder had to write it.    *)
AuditMatchesGate ==
  \A r \in Requests :
    pc[r] \in {"cleared", "declining", "running", "ran", "not_run",
               "spawn_failed"} => decision[r] \in audited[r]

(* A gate that was opened resolves, answered or not: silence ends in an    *)
(* expiry and never in a run that waits for ever.                          *)
GateSettles ==
  \A r \in Requests : pc[r] = "registered" ~> pc[r] \in Finished

(* The contract, under this reading of the registry's and the task's state.*)
Stage(r) ==
  IF pc[r] = "idle" THEN "none"
  ELSE IF r \in spawned THEN "spent"
  ELSE IF pc[r] \in Finished \cup {"declining"} THEN "closed"
  ELSE IF box[r] = "approved" THEN "agreed"
  ELSE IF pc[r] \in MayWait /\ box[r] = "none" THEN "open"
  ELSE "closed"

Contract ==
  INSTANCE Consent WITH sender <- origin, stage <- [r \in Requests |-> Stage(r)]

(* The gate implements the contract of module Consent.                     *)
ImplementsConsent == Contract!Spec
=============================================================================
