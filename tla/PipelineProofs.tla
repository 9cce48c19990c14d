--------------------------- MODULE PipelineProofs --------------------------
(***************************************************************************)
(* Proofs about modules PlanGate and Pipeline, for any requests, channels, *)
(* users and timeout, any bound on the messages, any deduplicator and any  *)
(* limit.                                                                  *)
(***************************************************************************)
EXTENDS Pipeline, SequenceTheorems, TLAPS

-----------------------------------------------------------------------------
(* The gate.  The inductive invariant IInv says, of each request, how its  *)
(* map entry, its oneshot channel, its two clocks, its task and what its   *)
(* sender has said hang together.                                          *)

(* An entry sits under its own request's key, and belongs to a request     *)
(* that has been registered.  An entry holds its oneshot sender until an   *)
(* answer takes it.                                                        *)
MapInv ==
  \A k \in Key :
    pending[k] # NoRequest =>
      /\ origin[pending[k]] = k
      /\ pc[pending[k]] # "idle"
      /\ ~armed[pending[k]] => first[pending[k]] # "none"

(* A sender still held has sent nothing, and its entry is in the map.      *)
ArmedInv ==
  \A r \in Requests :
    armed[r] => box[r] = "none" /\ pending[origin[r]] = r

(* The oneshot channel carries the sender's first in-time answer, or word  *)
(* of a superseding request that has been audited, or nothing.             *)
BoxInv ==
  \A r \in Requests :
    /\ box[r] # "expired"
    /\ first[r] # "none" => box[r] = DecisionOf(first[r])
    /\ box[r] \in {"approved", "cancelled"} => first[r] # "none"
    /\ box[r] = "superseded" => "superseded" \in audited[r]

(* The entry stops being answerable no later than its waiter gives up.     *)
ClockInv ==
  \A r \in Requests : pc[r] = "waiting" => answerable[r] <= timer[r]

(* The decision is what was on the channel, or an expiry that no in-time   *)
(* answer preceded or can follow.                                          *)
DecisionInv ==
  \A r \in Requests :
    /\ pc[r] \in MayWait \cup {"idle"} => decision[r] = "none"
    /\ pc[r] \in {"decided", "cleared", "declining", "running", "ran",
                  "not_run", "spawn_failed"} => decision[r] # "none"
    /\ decision[r] \in {"approved", "cancelled", "superseded"} =>
         box[r] = decision[r]
    /\ decision[r] = "expired" => first[r] = "none" /\ answerable[r] = 0

(* A run goes ahead only on an approval.                                   *)
SpawnInv ==
  \A r \in Requests :
    /\ pc[r] \in {"cleared", "running", "ran", "spawn_failed"} =>
         decision[r] = "approved"
    /\ r \in spawned =>
         decision[r] = "approved" /\ pc[r] \in {"running", "ran", "dropped"}

(* Nothing has happened to a request that is not registered yet.           *)
IdleInv ==
  \A r \in Requests :
    pc[r] = "idle" => box[r] = "none" /\ first[r] = "none"

IInv ==
  /\ TypeOK
  /\ MapInv
  /\ ArmedInv
  /\ BoxInv
  /\ ClockInv
  /\ DecisionInv
  /\ SpawnInv
  /\ IdleInv
  /\ AnswerHasSomewhereToLand
  /\ AuditMatchesGate

-----------------------------------------------------------------------------
(* The inductive invariant: initially, then one lemma per action.          *)

LEMMA InitIInv == Init => IInv
<1> SUFFICES ASSUME Init
             PROVE  IInv
  OBVIOUS
<1>1. TypeOK
  BY TimeoutAssumption DEF Init, TypeOK, Pcs
<1>2. MapInv /\ ArmedInv /\ BoxInv /\ ClockInv
  BY DEF Init, MapInv, ArmedInv, BoxInv, ClockInv
<1>3. DecisionInv /\ SpawnInv /\ IdleInv
  BY DEF Init, DecisionInv, SpawnInv, IdleInv
<1>4. AnswerHasSomewhereToLand /\ AuditMatchesGate
  BY DEF Init, AnswerHasSomewhereToLand, AuditMatchesGate, MayWait
<1>. QED
  BY <1>1, <1>2, <1>3, <1>4 DEF IInv

LEMMA BeginIInv ==
  ASSUME IInv, NEW r \in Requests, Begin(r)
  PROVE  IInv'
<1> USE DEF Begin, Wakes, Decisions, MayWait
<1>1. TypeOK'
  BY TimeoutAssumption DEF IInv, TypeOK, Pcs, Finished
<1> DEFINE k == origin[r]
           old == pending[k]
<1>a. k \in Key /\ r # NoRequest /\ old \in Requests \cup {NoRequest}
  BY NoRequestAssumption DEF IInv, TypeOK
<1>b. old # NoRequest =>
        old \in Requests /\ origin[old] = k /\ old # r /\ pc[old] # "idle"
  BY <1>a DEF IInv, TypeOK, MapInv
<1>2. MapInv'
  <2> SUFFICES ASSUME NEW j \in Key, pending'[j] # NoRequest
               PROVE  /\ origin[pending'[j]] = j
                      /\ pc'[pending'[j]] # "idle"
                      /\ ~armed'[pending'[j]] => first[pending'[j]] # "none"
    BY DEF MapInv
  <2>1. CASE j = k
    <3>1. pending'[j] = r
      BY <2>1, <1>a DEF IInv, TypeOK
    <3>. QED
      BY <2>1, <3>1 DEF IInv, TypeOK
  <2>2. CASE j # k
    <3> DEFINE q == pending[j]
    <3>1. pending'[j] = q
      BY <2>2, <1>a DEF IInv, TypeOK
    <3>2. q \in Requests /\ origin[q] = j /\ pc[q] # "idle"
      BY <3>1 DEF IInv, TypeOK, MapInv
    <3>3. q # old /\ q # r
      BY <3>2, <1>b, <2>2
    <3>4. armed'[q] = armed[q] /\ pc'[q] = pc[q]
      BY <3>2, <3>3 DEF IInv, TypeOK
    <3>. QED
      BY <3>1, <3>2, <3>4 DEF IInv, MapInv
  <2>. QED
    BY <2>1, <2>2
<1>3. ArmedInv'
  BY NoRequestAssumption DEF IInv, TypeOK, MapInv, ArmedInv, IdleInv
<1>4. BoxInv'
  <2> SUFFICES ASSUME NEW q \in Requests
               PROVE  /\ box'[q] # "expired"
                      /\ first[q] # "none" => box'[q] = DecisionOf(first[q])
                      /\ box'[q] \in {"approved", "cancelled"} =>
                           first[q] # "none"
                      /\ box'[q] = "superseded" => "superseded" \in audited'[q]
    BY DEF BoxInv
  <2>1. CASE q = old /\ armed[old]
    <3>1. box'[q] = "superseded" /\ "superseded" \in audited'[q]
      BY <2>1, NoRequestAssumption DEF IInv, TypeOK
    <3>2. first[q] = "none"
      BY <2>1 DEF IInv, TypeOK, ArmedInv, BoxInv, DecisionOf
    <3>. QED
      BY <3>1, <3>2
  <2>2. CASE ~(q = old /\ armed[old])
    <3>1. box'[q] = box[q] /\ audited[q] \subseteq audited'[q]
      BY <2>2 DEF IInv, TypeOK
    <3>. QED
      BY <3>1 DEF IInv, BoxInv
  <2>. QED
    BY <2>1, <2>2
<1>5. ClockInv'
  BY DEF IInv, TypeOK, ClockInv
<1>6. DecisionInv'
  BY DEF IInv, TypeOK, DecisionInv, ArmedInv
<1>7. SpawnInv'
  BY DEF IInv, TypeOK, SpawnInv, DecisionInv
<1>8. IdleInv'
  BY DEF IInv, TypeOK, IdleInv, MapInv
<1>9. AnswerHasSomewhereToLand'
  <2> SUFFICES ASSUME NEW q \in Requests, pc'[q] \in MayWait,
                      box'[q] = "none"
               PROVE  pending'[origin[q]] = q /\ armed'[q]
    BY DEF AnswerHasSomewhereToLand
  <2>1. CASE q = r
    BY <2>1, <1>a DEF IInv, TypeOK
  <2>2. CASE q # r
    <3>1. pc[q] \in MayWait
      BY <2>2 DEF IInv, TypeOK
    <3>2. box[q] = "none"
      BY DEF IInv, TypeOK
    <3>3. pending[origin[q]] = q /\ armed[q]
      BY <3>1, <3>2 DEF IInv, AnswerHasSomewhereToLand
    <3>4. q # old
      BY <3>3, NoRequestAssumption DEF IInv, TypeOK
    <3>5. origin[q] # k
      BY <3>3, <3>4
    <3>6. origin[q] \in Key
      BY DEF IInv, TypeOK
    <3>. QED
      BY <2>2, <3>3, <3>4, <3>5, <3>6, <1>a DEF IInv, TypeOK
  <2>. QED
    BY <2>1, <2>2
<1>10. AuditMatchesGate'
  BY DEF IInv, TypeOK, AuditMatchesGate
<1>. QED
  BY <1>1, <1>2, <1>3, <1>4, <1>5, <1>6, <1>7, <1>8, <1>9, <1>10 DEF IInv

LEMMA PlanIInv ==
  ASSUME IInv, NEW r \in Requests, PlanSent(r) \/ PlanSendFails(r)
  PROVE  IInv'
<1> USE DEF PlanSent, PlanSendFails, MayWait
<1>1. TypeOK'
  BY TimeoutAssumption DEF IInv, TypeOK, Pcs, Finished
<1>2. MapInv' /\ ArmedInv' /\ BoxInv'
  BY DEF IInv, TypeOK, MapInv, ArmedInv, BoxInv
<1>3. ClockInv'
  BY TimeoutAssumption DEF IInv, TypeOK, ClockInv
<1>4. DecisionInv' /\ SpawnInv' /\ IdleInv'
  BY DEF IInv, TypeOK, DecisionInv, SpawnInv, IdleInv
<1>5. AnswerHasSomewhereToLand' /\ AuditMatchesGate'
  BY DEF IInv, TypeOK, AnswerHasSomewhereToLand, AuditMatchesGate
<1>. QED
  BY <1>1, <1>2, <1>3, <1>4, <1>5 DEF IInv

LEMMA ReplyIInv ==
  ASSUME IInv, NEW k \in Key, NEW w \in Words, Reply(k, w)
  PROVE  IInv'
<1> DEFINE r == pending[k]
<1>1. /\ r \in Requests
      /\ origin[r] = k
      /\ pc[r] # "idle"
      /\ answerable[r] > 0
      /\ w \in {"yes", "no"}
  BY DEF IInv, TypeOK, MapInv, Reply, SubmitReply, InTime, IsAnswer
<1>2. /\ box' = [box EXCEPT ![r] = IF armed[r] THEN DecisionOf(w) ELSE @]
      /\ armed' = [armed EXCEPT ![r] = FALSE]
      /\ first' = [first EXCEPT ![r] = IF @ = "none" THEN w ELSE @]
      /\ UNCHANGED <<origin, pending, answerable, timer, pc, decision,
                     audited, spawned>>
  BY <1>1 DEF IInv, TypeOK, Reply, SubmitReply, Hear, InTime
<1>3. armed[r] => first[r] = "none" /\ box[r] = "none"
  BY <1>1 DEF IInv, ArmedInv, BoxInv, TypeOK, DecisionOf
<1>4. ~armed[r] => first[r] # "none"
  BY <1>1, NoRequestAssumption DEF IInv, MapInv
<1> HIDE DEF r
<1>5. TypeOK'
  BY <1>1, <1>2 DEF IInv, TypeOK, Decisions, DecisionOf
<1>6. MapInv' /\ ArmedInv'
  BY <1>1, <1>2 DEF IInv, TypeOK, MapInv, ArmedInv
<1>7. BoxInv'
  BY <1>1, <1>2, <1>3, <1>4 DEF IInv, TypeOK, BoxInv, DecisionOf
<1>8. ClockInv' /\ SpawnInv' /\ IdleInv' /\ AuditMatchesGate'
  BY <1>1, <1>2
  DEF IInv, TypeOK, ClockInv, SpawnInv, IdleInv, AuditMatchesGate
<1>9. DecisionInv'
  BY <1>1, <1>2, <1>3 DEF IInv, TypeOK, DecisionInv
<1>10. AnswerHasSomewhereToLand'
  BY <1>1, <1>2, <1>3, <1>4
  DEF IInv, TypeOK, AnswerHasSomewhereToLand, BoxInv, DecisionOf
<1>. QED
  BY <1>5, <1>6, <1>7, <1>8, <1>9, <1>10 DEF IInv

LEMMA DecideIInv ==
  ASSUME IInv, NEW r \in Requests, Decide(r)
  PROVE  IInv'
<1> USE DEF Decide, Resolved, Resolution, MayWait
<1>1. TypeOK'
  BY TimeoutAssumption DEF IInv, TypeOK, Pcs, Decisions
<1>2. MapInv' /\ ArmedInv' /\ BoxInv' /\ ClockInv' /\ IdleInv'
  BY DEF IInv, TypeOK, MapInv, ArmedInv, BoxInv, ClockInv, IdleInv
<1>3. box[r] = "none" => first[r] = "none" /\ answerable[r] = 0
  <2>1. first[r] # "none" => box[r] # "none"
    BY DEF IInv, TypeOK, BoxInv, DecisionOf
  <2>2. timer[r] = 0 => answerable[r] = 0
    BY DEF IInv, TypeOK, ClockInv
  <2>. QED
    BY <2>1, <2>2
<1>4. DecisionInv'
  BY <1>3 DEF IInv, TypeOK, DecisionInv, BoxInv
<1>5. SpawnInv'
  BY DEF IInv, TypeOK, SpawnInv
<1>6. AnswerHasSomewhereToLand' /\ AuditMatchesGate'
  BY DEF IInv, TypeOK, AnswerHasSomewhereToLand, AuditMatchesGate
<1>. QED
  BY <1>1, <1>2, <1>4, <1>5, <1>6 DEF IInv

LEMMA ClearIInv ==
  ASSUME IInv, NEW r \in Requests, Clear(r)
  PROVE  IInv'
<1> USE DEF Clear, StillOurs, LogsItself, MaySpend
<1>1. decision[r] \in Decisions /\ origin[r] \in Key
  BY DEF IInv, TypeOK, DecisionInv
<1>2. TypeOK'
  <2>1. pending' \in [Key -> Requests \cup {NoRequest}]
    BY <1>1 DEF IInv, TypeOK
  <2>2. audited' \in [Requests -> SUBSET Decisions]
    BY <1>1 DEF IInv, TypeOK
  <2>3. answerable' \in [Requests -> 0 .. Timeout]
    BY TimeoutAssumption DEF IInv, TypeOK
  <2>4. armed' \in [Requests -> BOOLEAN] /\ pc' \in [Requests -> Pcs]
    BY DEF IInv, TypeOK, Pcs
  <2>. QED
    BY <2>1, <2>2, <2>3, <2>4 DEF IInv, TypeOK
<1>3. MapInv'
  BY <1>1, NoRequestAssumption DEF IInv, TypeOK, MapInv
<1>4. ArmedInv'
  BY <1>1, NoRequestAssumption DEF IInv, TypeOK, ArmedInv
<1>5. BoxInv'
  BY <1>1 DEF IInv, TypeOK, BoxInv
<1>6. ClockInv' /\ IdleInv'
  BY DEF IInv, TypeOK, ClockInv, IdleInv
<1>7. DecisionInv'
  BY <1>1 DEF IInv, TypeOK, DecisionInv, MayWait, Decisions
<1>8. SpawnInv'
  BY DEF IInv, TypeOK, SpawnInv
<1>9. AnswerHasSomewhereToLand'
  BY <1>1 DEF IInv, TypeOK, AnswerHasSomewhereToLand, MayWait
<1>10. AuditMatchesGate'
  BY <1>1 DEF IInv, TypeOK, AuditMatchesGate, DecisionInv, BoxInv
<1>. QED
  BY <1>2, <1>3, <1>4, <1>5, <1>6, <1>7, <1>8, <1>9, <1>10 DEF IInv

LEMMA RunIInv ==
  ASSUME IInv, NEW r \in Requests,
         \/ Declined(r) \/ SpawnRefused(r) \/ Spawn(r) \/ RunEnds(r)
         \/ Abandon(r)
  PROVE  IInv'
<1> USE DEF Declined, SpawnRefused, Spawn, RunEnds, Abandon, Finished
<1>1. TypeOK'
  BY TimeoutAssumption DEF IInv, TypeOK, Pcs
<1>2. MapInv' /\ ArmedInv' /\ BoxInv' /\ IdleInv'
  BY DEF IInv, TypeOK, MapInv, ArmedInv, BoxInv, IdleInv
<1>3. ClockInv'
  BY DEF IInv, TypeOK, ClockInv
<1>4. DecisionInv'
  BY DEF IInv, TypeOK, DecisionInv, MayWait
<1>5. SpawnInv'
  BY DEF IInv, TypeOK, SpawnInv
<1>6. AnswerHasSomewhereToLand' /\ AuditMatchesGate'
  BY DEF IInv, TypeOK, AnswerHasSomewhereToLand, AuditMatchesGate, MayWait
<1>. QED
  BY <1>1, <1>2, <1>3, <1>4, <1>5, <1>6 DEF IInv

LEMMA TickIInv == IInv /\ Tick => IInv'
<1> SUFFICES ASSUME IInv, Tick
             PROVE  IInv'
  OBVIOUS
<1> USE DEF Tick, Elapse
<1>1. TypeOK'
  BY TimeoutAssumption DEF IInv, TypeOK
<1>2. MapInv' /\ ArmedInv' /\ BoxInv' /\ SpawnInv' /\ IdleInv'
  BY DEF IInv, MapInv, ArmedInv, BoxInv, SpawnInv, IdleInv
<1>3. ClockInv'
  BY TimeoutAssumption DEF IInv, TypeOK, ClockInv
<1>4. DecisionInv'
  BY DEF IInv, TypeOK, DecisionInv
<1>5. AnswerHasSomewhereToLand' /\ AuditMatchesGate'
  BY DEF IInv, AnswerHasSomewhereToLand, AuditMatchesGate
<1>. QED
  BY <1>1, <1>2, <1>3, <1>4, <1>5 DEF IInv

LEMMA NextIInv == IInv /\ [Next]_vars => IInv'
<1> SUFFICES ASSUME IInv, [Next]_vars
             PROVE  IInv'
  OBVIOUS
<1>1. CASE \E r \in Requests : Begin(r) \/ Task(r) \/ Abandon(r)
  BY <1>1, BeginIInv, PlanIInv, DecideIInv, ClearIInv, RunIInv DEF Task
<1>2. CASE \E k \in Key, w \in Words : Reply(k, w)
  BY <1>2, ReplyIInv
<1>3. CASE Tick
  BY <1>3, TickIInv
<1>4. CASE UNCHANGED vars
  BY <1>4 DEF vars, IInv, TypeOK, MapInv, ArmedInv, BoxInv, ClockInv,
     DecisionInv, SpawnInv, IdleInv, AnswerHasSomewhereToLand,
     AuditMatchesGate
<1>. QED
  BY <1>1, <1>2, <1>3, <1>4 DEF Next

LEMMA Invariance == Spec => []IInv
BY InitIInv, NextIInv, PTL DEF Spec

-----------------------------------------------------------------------------
(* The results.                                                            *)

(* Every variable of the gate keeps its type, for any timeout.             *)
THEOREM TypeCorrect == Spec => []TypeOK
<1>1. IInv => TypeOK
  BY DEF IInv
<1>. QED
  BY <1>1, Invariance, PTL

(* No quarry process is started for a request unless the first in-time     *)
(* answer of its own sender was a yes, however many requests, senders and  *)
(* channels there are.                                                     *)
THEOREM NoSpendWithoutConsent == Spec => []SpendNeedsConsent
<1>1. IInv => SpendNeedsConsent
  BY DEF IInv, TypeOK, SpendNeedsConsent, SpawnInv, DecisionInv, BoxInv,
     DecisionOf
<1>. QED
  BY <1>1, Invariance, PTL

(* An answer given in time is never lost: neither to the waiter's timer    *)
(* nor to a request that replaces this one.                                *)
THEOREM InTimeAnswerKept == Spec => []InTimeAnswerCounts
<1>1. IInv => InTimeAnswerCounts
  BY DEF IInv, TypeOK, Decisions, InTimeAnswerCounts, DecisionInv, BoxInv
<1>. QED
  BY <1>1, Invariance, PTL

(* A reply to a request that waits unanswered finds its entry.             *)
THEOREM ReplyFindsEntry == Spec => []AnswerHasSomewhereToLand
<1>1. IInv => AnswerHasSomewhereToLand
  BY DEF IInv
<1>. QED
  BY <1>1, Invariance, PTL

(* The decision a gate goes by is in the audit log when it goes by it.     *)
THEOREM DecisionIsAudited == Spec => []AuditMatchesGate
<1>1. IInv => AuditMatchesGate
  BY DEF IInv
<1>. QED
  BY <1>1, Invariance, PTL

-----------------------------------------------------------------------------
(* The gate implements the contract of module Consent.                     *)

LEMMA InitStage == Init => Contract!Init
<1> SUFFICES ASSUME Init
             PROVE  Contract!Init
  OBVIOUS
<1>1. origin \in [Requests -> Key]
  BY DEF Init
<1>2. \A r \in Requests : Stage(r) = "none"
  BY DEF Init, Stage
<1>. QED
  BY <1>1, <1>2 DEF Contract!Init

(* A step that moves one request along the contract is a contract step.    *)
LEMMA StageStep ==
  ASSUME NEW r \in Requests, UNCHANGED origin,
         \A q \in Requests : q # r => Stage(q)' = Stage(q),
         \/ Stage(r)' = Stage(r)
         \/ Stage(r) \in {"open", "agreed"} /\ Stage(r)' = "closed"
         \/ Stage(r) = "open" /\ Stage(r)' = "agreed"
         \/ Stage(r) = "agreed" /\ Stage(r)' = "spent"
  PROVE  [Contract!Next]_(Contract!vars)
<1> DEFINE st == [q \in Requests |-> Stage(q)]
<1>1. st' = [st EXCEPT ![r] = Stage(r)']
  OBVIOUS
<1>2. CASE Stage(r)' = Stage(r)
  <2>1. st' = st
    BY <1>2
  <2>. QED
    BY <2>1 DEF Contract!vars
<1>3. CASE Stage(r) \in {"open", "agreed"} /\ Stage(r)' = "closed"
  BY <1>1, <1>3 DEF Contract!Next, Contract!Close
<1>4. CASE Stage(r) = "open" /\ Stage(r)' = "agreed"
  BY <1>1, <1>4 DEF Contract!Next, Contract!Agree
<1>5. CASE Stage(r) = "agreed" /\ Stage(r)' = "spent"
  BY <1>1, <1>5 DEF Contract!Next, Contract!Spend
<1>. QED
  BY <1>2, <1>3, <1>4, <1>5

LEMMA BeginStage ==
  ASSUME IInv, NEW r \in Requests, Begin(r)
  PROVE  Contract!Offer(r)
<1> DEFINE old == pending[origin[r]]
<1>1. Stage(r) = "none" /\ Stage(r)' = "open"
  BY NoRequestAssumption
  DEF IInv, TypeOK, IdleInv, DecisionInv, SpawnInv, MapInv, MayWait,
      Finished, Stage, Begin, Wakes
<1>2. ASSUME NEW q \in Requests, q # r
      PROVE  Stage(q)' = IF origin[q] = origin[r] /\ Stage(q) = "open"
                         THEN "closed" ELSE Stage(q)
  <2>1. pc'[q] = pc[q] /\ spawned' = spawned
    BY <1>2 DEF IInv, TypeOK, Begin
  <2>2. box'[q] = IF q = old /\ Wakes(old) THEN "superseded" ELSE box[q]
    BY DEF IInv, TypeOK, Begin
  <2>3. CASE origin[q] = origin[r] /\ Stage(q) = "open"
    <3>1. pc[q] \in MayWait /\ box[q] = "none" /\ q \notin spawned
      BY <2>3 DEF Stage
    <3>2. pending[origin[q]] = q /\ armed[q]
      BY <3>1 DEF IInv, AnswerHasSomewhereToLand
    <3>3. q = old /\ Wakes(old)
      BY <2>3, <3>2, NoRequestAssumption DEF Wakes
    <3>4. box'[q] = "superseded"
      BY <2>2, <3>3
    <3>. QED
      BY <2>1, <2>3, <3>1, <3>4 DEF Stage, MayWait, Finished
  <2>4. CASE ~(origin[q] = origin[r] /\ Stage(q) = "open")
    <3>1. CASE q = old /\ Wakes(old)
      <4>1. origin[q] = origin[r] /\ box[q] = "none"
        BY <3>1 DEF IInv, TypeOK, MapInv, ArmedInv, Wakes
      <4>2. box'[q] = "superseded"
        BY <2>2, <3>1
      <4>. QED
        BY <2>1, <2>4, <4>1, <4>2 DEF Stage
    <3>2. CASE ~(q = old /\ Wakes(old))
      <4>1. box'[q] = box[q]
        BY <2>2, <3>2
      <4>. QED
        BY <2>1, <2>4, <4>1 DEF Stage
    <3>. QED
      BY <3>1, <3>2
  <2>. QED
    BY <2>3, <2>4
<1>3. origin' = origin
  BY DEF Begin
<1>. QED
  BY <1>1, <1>2, <1>3 DEF Contract!Offer

LEMMA ReplyStage ==
  ASSUME IInv, NEW k \in Key, NEW w \in Words, Reply(k, w)
  PROVE  [Contract!Next]_(Contract!vars)
<1>0. PICK r \in Requests : r = pending[k]
  BY DEF IInv, TypeOK, Reply, SubmitReply
<1>1. pc[r] # "idle"
  BY <1>0, NoRequestAssumption DEF IInv, TypeOK, MapInv
<1>2. /\ box' = [box EXCEPT ![r] = IF armed[r] THEN DecisionOf(w) ELSE @]
      /\ UNCHANGED <<origin, pc, spawned>>
      /\ answerable[r] > 0
  BY <1>0 DEF Reply, SubmitReply, InTime
<1>3. armed[r] => box[r] = "none"
  BY <1>1 DEF IInv, ArmedInv
<1>4. \A q \in Requests : q # r => Stage(q)' = Stage(q)
  BY <1>1, <1>2 DEF IInv, TypeOK, Stage
<1>5. \/ Stage(r)' = Stage(r)
      \/ Stage(r) = "open" /\ Stage(r)' \in {"closed", "agreed"}
  <2>1. CASE ~armed[r]
    BY <1>1, <1>2, <2>1 DEF IInv, TypeOK, Stage
  <2>2. CASE armed[r]
    <3>1. box[r] = "none" /\ box'[r] \in {"approved", "cancelled"}
      BY <1>1, <1>2, <1>3, <2>2 DEF IInv, TypeOK, DecisionOf
    <3>2. CASE r \notin spawned /\ pc[r] \in MayWait
      BY <1>1, <1>2, <3>1, <3>2 DEF Stage, MayWait, Finished
    <3>3. CASE r \in spawned
      BY <1>1, <1>2, <3>3 DEF Stage
    <3>4. CASE r \notin spawned /\ pc[r] \notin MayWait
      <4>1. pc[r] \in Finished \cup {"declining", "decided"}
        BY <1>1, <3>1, <3>4 DEF IInv, TypeOK, Pcs, SpawnInv, DecisionInv
      <4>2. pc[r] # "decided"
        <5>1. SUFFICES ASSUME pc[r] = "decided"
                       PROVE  FALSE
          OBVIOUS
        <5>2. decision[r] = "expired"
          BY <1>1, <3>1, <5>1 DEF IInv, TypeOK, DecisionInv, Decisions
        <5>3. answerable[r] = 0
          BY <1>1, <5>2 DEF IInv, DecisionInv
        <5>. QED
          BY <1>2, <5>3
      <4>. QED
        BY <1>2, <3>4, <4>1, <4>2 DEF Stage
    <3>. QED
      BY <3>2, <3>3, <3>4
  <2>. QED
    BY <2>1, <2>2
<1>. QED
  BY <1>2, <1>4, <1>5, StageStep

LEMMA TaskStage ==
  ASSUME IInv, NEW r \in Requests, Task(r) \/ Abandon(r)
  PROVE  [Contract!Next]_(Contract!vars)
<1> USE DEF MayWait, Finished
<1>1. ASSUME PlanSent(r) \/ PlanSendFails(r)
      PROVE  [Contract!Next]_(Contract!vars)
  BY <1>1, StageStep DEF PlanSent, PlanSendFails, IInv, TypeOK, Stage
<1>2. ASSUME Decide(r)
      PROVE  [Contract!Next]_(Contract!vars)
  BY <1>2, StageStep DEF Decide, IInv, TypeOK, Stage
<1>3. ASSUME Clear(r)
      PROVE  [Contract!Next]_(Contract!vars)
  <2>1. pc'[r] = IF decision[r] = "approved" THEN "cleared" ELSE "declining"
    BY <1>3 DEF Clear, IInv, TypeOK, MaySpend
  <2>2. decision[r] = "approved" <=> box[r] = "approved"
    BY <1>3 DEF Clear, IInv, TypeOK, DecisionInv, BoxInv, Decisions
  <2>. QED
    BY <1>3, <2>1, <2>2, StageStep DEF Clear, IInv, TypeOK, Stage
<1>4. ASSUME Declined(r) \/ RunEnds(r)
      PROVE  [Contract!Next]_(Contract!vars)
  BY <1>4, StageStep DEF Declined, RunEnds, IInv, TypeOK, Stage, SpawnInv
<1>5. ASSUME SpawnRefused(r) \/ Spawn(r)
      PROVE  [Contract!Next]_(Contract!vars)
  <2>1. box[r] = "approved" /\ r \notin spawned
    BY <1>5 DEF SpawnRefused, Spawn, IInv, SpawnInv, DecisionInv
  <2>. QED
    BY <1>5, <2>1, StageStep
    DEF SpawnRefused, Spawn, IInv, TypeOK, Stage
<1>6. ASSUME Abandon(r)
      PROVE  [Contract!Next]_(Contract!vars)
  BY <1>6, StageStep DEF Abandon, IInv, TypeOK, Stage
<1>. QED
  BY <1>1, <1>2, <1>3, <1>4, <1>5, <1>6 DEF Task

LEMMA NextStage ==
  IInv /\ [Next]_vars => [Contract!Next]_(Contract!vars)
<1> SUFFICES ASSUME IInv, [Next]_vars
             PROVE  [Contract!Next]_(Contract!vars)
  OBVIOUS
<1>1. CASE \E r \in Requests : Begin(r)
  BY <1>1, BeginStage DEF Contract!Next
<1>2. CASE \E r \in Requests : Task(r) \/ Abandon(r)
  BY <1>2, TaskStage
<1>3. CASE \E k \in Key, w \in Words : Reply(k, w)
  BY <1>3, ReplyStage
<1>4. CASE Tick \/ UNCHANGED vars
  BY <1>4 DEF Tick, vars, Stage, Contract!vars
<1>. QED
  BY <1>1, <1>2, <1>3, <1>4 DEF Next

(* Every behaviour of the registry and its gates, read through Stage, is   *)
(* one the contract allows.                                                *)
THEOREM GateImplementsConsent == Spec => ImplementsConsent
BY InitStage, NextStage, Invariance, PTL
DEF Spec, ImplementsConsent, Contract!Spec

-----------------------------------------------------------------------------
(* The loop refines the gate, so every theorem above holds of it too; LInv *)
(* adds what ties a message to the registry and to the ring.               *)

(* Messages are handled in order, and one at a time.                       *)
FateInv ==
  /\ at # "idle" => taken \in 1 .. Len(mail)
  /\ \A i \in 1 .. Len(mail) :
       /\ mail[i].fate = "queued" <=> i > taken
       /\ mail[i].fate = "handling" <=> i = taken /\ at # "idle"
       /\ mail[i].fate \in {"queued", "handling"} =>
            mail[i].settles = NoRequest

(* The deduplicator remembers only what a message let through has said.    *)
WindowInv ==
  \A e \in 1 .. Len(window) : \E j \in 1 .. taken :
    /\ window[e] = Entry(mail[j])
    /\ mail[j].fate # "duplicate"
    /\ j = taken => at # "checked"

(* The approval that could be answered when the message was taken: while   *)
(* it still can, the message is on its way to the registry.                *)
ChanceInv ==
  chance # NoRequest =>
    /\ at # "idle"
    /\ origin[chance] = mail[taken].from
    /\ pc[chance] # "idle"
    /\ Open(chance) =>
         /\ awaiting
         /\ at \in {"checked", "offering", "clarifying"}
         /\ at = "clarifying" => ~IsAnswer(Meaning[mail[taken].says])

(* Message i is the first that settled r, and meant w.                     *)
Settles(i, r, w) ==
  /\ mail[i].from = origin[r]
  /\ Meaning[mail[i].says] = w
  /\ mail[i].settles = r
  /\ \A j \in 1 .. i - 1 : mail[j].settles # r

(* What the registry has heard is what the messages said.                  *)
HeardInv ==
  \A r \in Requests :
    /\ first[r] = "none" =>
         \A i \in 1 .. Len(mail) : mail[i].settles # r
    /\ first[r] # "none" =>
         \E i \in 1 .. taken : Settles(i, r, first[r])

LInv ==
  /\ LoopTypeOK
  /\ FateInv
  /\ WindowInv
  /\ ChanceInv
  /\ HeardInv
  /\ DuplicateHasOriginal

-----------------------------------------------------------------------------
(* How the steps of the loop change the mail.                              *)

LEMMA MailFacts ==
  ASSUME LoopTypeOK
  PROVE  /\ Len(mail) \in Nat /\ DOMAIN mail = 1 .. Len(mail)
         /\ \A i \in 1 .. Len(mail) : mail[i] \in Message
BY LenProperties, ElementOfSeq DEF LoopTypeOK

LEMMA SendMail ==
  ASSUME LoopTypeOK, TypeOK, NEW k \in Key, NEW x \in Texts, Send(k, x)
  PROVE  /\ mail' \in Seq(Message)
         /\ Len(mail') = Len(mail) + 1
         /\ \A i \in 1 .. Len(mail) : mail'[i] = mail[i]
         /\ mail'[Len(mail) + 1] = [from |-> k, says |-> x,
                           fate |-> "queued", settles |-> NoRequest]
<1> DEFINE m == [from |-> k, says |-> x,
                 fate |-> "queued", settles |-> NoRequest]
<1>1. m \in Message
  BY DEF TypeOK, Message, Fates
<1>2. mail \in Seq(Message) /\ mail' = Append(mail, m)
  BY DEF LoopTypeOK, Send
<1>. QED
  BY <1>1, <1>2, AppendProperties

LEMMA TakeMail ==
  ASSUME LoopTypeOK, Take
  PROVE  /\ mail' \in Seq(Message)
         /\ Len(mail') = Len(mail)
         /\ taken + 1 \in 1 .. Len(mail)
         /\ \A i \in 1 .. Len(mail) :
              mail'[i] = IF i = taken + 1
                         THEN [mail[i] EXCEPT !.fate = "handling"]
                         ELSE mail[i]
<1> DEFINE m == [mail[taken + 1] EXCEPT !.fate = "handling"]
<1>1. taken + 1 \in 1 .. Len(mail)
  BY MailFacts DEF LoopTypeOK, Take
<1>2. m \in Message
  BY <1>1, MailFacts DEF Message, Fates
<1>3. mail \in Seq(Message) /\ mail' = [mail EXCEPT ![taken + 1] = m]
  BY DEF LoopTypeOK, Take
<1> HIDE DEF m
<1>4. /\ mail' \in Seq(Message) /\ Len(mail') = Len(mail)
      /\ \A i \in 1 .. Len(mail) :
           mail'[i] = IF i = taken + 1 THEN m ELSE mail[i]
  BY <1>1, <1>2, <1>3, ExceptSeq
<1>. QED
  BY <1>1, <1>4 DEF m

LEMMA FinishMail ==
  ASSUME LoopTypeOK, FateInv, at # "idle",
         NEW f \in Handled, NEW r \in Requests \cup {NoRequest}, Finish(f, r)
  PROVE  /\ mail' \in Seq(Message)
         /\ Len(mail') = Len(mail)
         /\ taken \in 1 .. Len(mail)
         /\ \A i \in 1 .. Len(mail) :
              mail'[i] = IF i = taken
                         THEN [mail[i] EXCEPT !.fate = f, !.settles = r]
                         ELSE mail[i]
<1> DEFINE m == [mail[taken] EXCEPT !.fate = f, !.settles = r]
<1>1. taken \in 1 .. Len(mail)
  BY DEF FateInv
<1>2. m \in Message
  BY <1>1, MailFacts DEF Message, Fates
<1>3. mail \in Seq(Message) /\ mail' = [mail EXCEPT ![taken] = m]
  BY DEF LoopTypeOK, Finish
<1> HIDE DEF m
<1>4. /\ mail' \in Seq(Message) /\ Len(mail') = Len(mail)
      /\ \A i \in 1 .. Len(mail) :
           mail'[i] = IF i = taken THEN m ELSE mail[i]
  BY <1>1, <1>2, <1>3, ExceptSeq
<1>. QED
  BY <1>1, <1>4 DEF m

(* Whether two messages are taken for one another depends on who wrote     *)
(* them and what they say, and that they have the same entry decides it.   *)
LEMMA AlikeStable ==
  ASSUME NEW i, NEW j, Repeats(i, j) \/ ReadsLike(i, j),
         mail'[i].from = mail[i].from, mail'[i].says = mail[i].says,
         mail'[j].from = mail[j].from, mail'[j].says = mail[j].says
  PROVE  (Repeats(i, j) \/ ReadsLike(i, j))'
BY Zenon DEF Repeats, ReadsLike

LEMMA DuplicatesStable ==
  ASSUME DuplicateHasOriginal, UNCHANGED mail
  PROVE  DuplicateHasOriginal'
BY Zenon DEF DuplicateHasOriginal, Repeats, ReadsLike

LEMMA SameEntry ==
  ASSUME NEW i, NEW j, mail[i] \in Message, mail[j] \in Message,
         Entry(mail[i]) = Entry(mail[j])
  PROVE  Repeats(i, j) \/ ReadsLike(i, j)
<1> DEFINE u == mail[i].from[2]  t == mail[i].says
           v == mail[j].from[2]  w == mail[j].says
<1>1. /\ u \in Seq(STRING) /\ t \in Seq(STRING)
      /\ v \in Seq(STRING) /\ w \in Seq(STRING)
  BY PartsAssumption DEF Message, Key
<1>2. u \o t = v \o w
  BY DEF Entry
<1>3. CASE Len(u) # Len(v)
  BY <1>2, <1>3 DEF ReadsLike
<1>4. CASE Len(u) = Len(v)
  <2> HIDE DEF u, t, v, w
  <2>0. /\ Len(u) \in Nat /\ Len(t) \in Nat
        /\ Len(v) \in Nat /\ Len(w) \in Nat
    BY <1>1, LenProperties
  <2>1. /\ u \o t \in Seq(STRING) /\ Len(u \o t) = Len(u) + Len(t)
        /\ \A n \in 1 .. Len(u) + Len(t) :
             (u \o t)[n] = IF n <= Len(u) THEN u[n] ELSE t[n - Len(u)]
    BY <1>1, ConcatProperties
  <2>2. /\ Len(v \o w) = Len(v) + Len(w)
        /\ \A n \in 1 .. Len(v) + Len(w) :
             (v \o w)[n] = IF n <= Len(v) THEN v[n] ELSE w[n - Len(v)]
    BY <1>1, ConcatProperties
  <2>3. Len(t) = Len(w)
    BY <1>2, <1>4, <2>0, <2>1, <2>2
  <2>4. \A n \in 1 .. Len(u) : u[n] = v[n]
    BY <1>2, <1>4, <2>0, <2>1, <2>2, <2>3
  <2>5. \A n \in 1 .. Len(t) : t[n] = w[n]
    <3> TAKE n \in 1 .. Len(t)
    <3>1. n + Len(u) \in 1 .. Len(u) + Len(t) /\ ~(n + Len(u) <= Len(u))
          /\ n + Len(u) - Len(u) = n
      BY <2>0
    <3>2. (u \o t)[n + Len(u)] = t[n] /\ (v \o w)[n + Len(u)] = w[n]
      BY <1>4, <2>1, <2>2, <2>3, <3>1
    <3>. QED
      BY <1>2, <3>2
  <2>6. u = v /\ t = w
    BY <1>1, <1>4, <2>3, <2>4, <2>5, SeqEqual
  <2>. QED
    BY <2>6 DEF Repeats, u, t, v, w
<1>. QED
  BY <1>3, <1>4

-----------------------------------------------------------------------------
(* The loop refines the gate.                                              *)

LEMMA CurrentFacts ==
  ASSUME LoopTypeOK, FateInv, at # "idle"
  PROVE  /\ Current \in Message /\ Current = mail[taken]
         /\ Sender \in Key /\ User \in Users
         /\ Current.says \in Texts /\ Meant \in Words
<1>1. taken \in 1 .. Len(mail)
  BY DEF FateInv
<1>2. Current \in Message
  BY <1>1, MailFacts DEF Current
<1>3. Sender \in Key
  BY <1>2 DEF Message, Sender
<1>. QED
  BY <1>2, <1>3, MeaningAssumption
  DEF Message, Sender, User, Key, Current, Meant

LEMMA LoopRefines ==
  ASSUME LoopTypeOK, FateInv, [LoopNext]_loopAll
  PROVE  [Next]_vars
<1>1. CASE Handle /\ ~OfferSettles
  BY <1>1
  DEF Handle, Take, DropDuplicate, Admit, OfferUnclear, OfferRaced, Deny,
      Allow, Think, Clarify, Respond, SendText
<1>2. CASE OfferSettles
  BY <1>2, CurrentFacts DEF OfferSettles, Next
<1>3. CASE GateMoves
  BY <1>3 DEF GateMoves, Next
<1>4. CASE \E k \in Key, x \in Texts : Send(k, x)
  BY <1>4 DEF Send
<1>5. CASE \E u \in Users : WindowLapses(u)
  BY <1>5 DEF WindowLapses
<1>6. CASE UNCHANGED loopAll
  BY <1>6 DEF loopAll
<1>. QED
  BY <1>1, <1>2, <1>3, <1>4, <1>5, <1>6 DEF LoopNext

(* What has been registered and is no longer open never opens again.       *)
LEMMA OpenStable ==
  ASSUME IInv, NEW r \in Requests, pc[r] # "idle", [Next]_vars
  PROVE  /\ origin' = origin /\ pc'[r] # "idle"
         /\ Open(r)' => Open(r)
<1> USE DEF Open
<1>1. ASSUME NEW q \in Requests, Begin(q)
      PROVE  origin' = origin /\ pc'[r] # "idle" /\ (Open(r)' => Open(r))
  <2>1. q # r /\ origin[q] \in Key /\ origin[r] \in Key
    BY <1>1 DEF Begin, IInv, TypeOK
  <2>. QED
    BY <1>1, <2>1 DEF Begin, IInv, TypeOK
<1>2. ASSUME NEW q \in Requests, Clear(q)
      PROVE  origin' = origin /\ pc'[r] # "idle" /\ (Open(r)' => Open(r))
  <2>1. origin[q] \in Key /\ origin[r] \in Key /\ r # NoRequest
    BY NoRequestAssumption DEF IInv, TypeOK
  <2>. QED
    BY <1>2, <2>1 DEF Clear, StillOurs, IInv, TypeOK
<1>3. ASSUME NEW q \in Requests, Task(q) \/ Abandon(q), ~Clear(q)
      PROVE  origin' = origin /\ pc'[r] # "idle" /\ (Open(r)' => Open(r))
  BY <1>3
  DEF Task, PlanSent, PlanSendFails, Decide, Declined, SpawnRefused, Spawn,
      RunEnds, Abandon, IInv, TypeOK
<1>4. ASSUME NEW k \in Key, NEW w \in Words, Reply(k, w)
      PROVE  origin' = origin /\ pc'[r] # "idle" /\ (Open(r)' => Open(r))
  BY <1>4 DEF Reply, SubmitReply, Hear, IInv, TypeOK
<1>5. CASE Tick
  BY <1>5 DEF Tick, Elapse, IInv, TypeOK
<1>6. CASE UNCHANGED vars
  BY <1>6 DEF vars
<1>. QED
  BY <1>1, <1>2, <1>3, <1>4, <1>5, <1>6 DEF Next

LEMMA SettleFacts ==
  ASSUME IInv, LoopTypeOK, FateInv, OfferSettles
  PROVE  LET r == pending[Sender] IN
         /\ r \in Requests
         /\ origin[r] = Sender /\ origin' = origin
         /\ Meant \in {"yes", "no"}
         /\ first' = [first EXCEPT ![r] = IF @ = "none" THEN Meant ELSE @]
<1>1. Sender \in Key
  BY CurrentFacts DEF OfferSettles
<1> DEFINE r == pending[Sender]
<1>2. r \in Requests /\ origin[r] = Sender
  BY <1>1 DEF IInv, TypeOK, MapInv, OfferSettles, Reply, SubmitReply
<1>3. first' = IF first[r] = "none" THEN [first EXCEPT ![r] = Meant]
               ELSE first
  BY <1>2 DEF OfferSettles, Reply, SubmitReply, Hear, InTime, IsAnswer
<1>4. Meant \in {"yes", "no"} /\ origin' = origin
  BY DEF OfferSettles, Reply, SubmitReply, IsAnswer
<1>. QED
  BY <1>2, <1>3, <1>4 DEF IInv, TypeOK

-----------------------------------------------------------------------------
(* The inductive invariant: initially, then one lemma per kind of step.    *)

LEMMA InitLInv == LoopInit => LInv
<1> SUFFICES ASSUME LoopInit
             PROVE  LInv
  OBVIOUS
<1>1. mail = << >> /\ window = << >> /\ Len(mail) = 0 /\ Len(window) = 0
  BY DEF LoopInit
<1>2. mail \in Seq(Message) /\ window \in Seq(Seq(STRING))
  BY <1>1, EmptySeq
<1>3. LoopTypeOK
  <2>1. count \in [Users -> 0 .. PerWindow] /\ lapsed \in [Users -> BOOLEAN]
    BY PerWindowAssumption DEF LoopInit
  <2>2. at \in Stops /\ chance \in Requests \cup {NoRequest}
    BY DEF LoopInit, Stops
  <2>3. awaiting \in BOOLEAN
    BY DEF LoopInit
  <2>4. taken \in 0 .. Len(mail) /\ Len(mail) <= MaxMail
    BY <1>1, MaxMailAssumption DEF LoopInit
  <2>5. Len(window) <= Capacity
    BY <1>1, CapacityAssumption
  <2>. QED
    BY <1>2, <2>1, <2>2, <2>3, <2>4, <2>5 DEF LoopTypeOK
<1>4. FateInv /\ WindowInv /\ ChanceInv
  BY <1>1 DEF LoopInit, FateInv, WindowInv, ChanceInv
<1>5. HeardInv /\ DuplicateHasOriginal
  BY <1>1 DEF LoopInit, Init, HeardInv, DuplicateHasOriginal
<1>. QED
  BY <1>3, <1>4, <1>5 DEF LInv

LEMMA SendLInv ==
  ASSUME IInv, LInv, NEW k \in Key, NEW x \in Texts, Send(k, x)
  PROVE  LInv'
<1> USE MailFacts DEF LInv
<1>a. TypeOK
  BY DEF IInv
<1>b. /\ mail' \in Seq(Message)
      /\ Len(mail') = Len(mail) + 1
      /\ \A i \in 1 .. Len(mail) : mail'[i] = mail[i]
      /\ mail'[Len(mail) + 1] =
           [from |-> k, says |-> x,
            fate |-> "queued", settles |-> NoRequest]
  BY <1>a, SendMail
<1>c. UNCHANGED <<taken, at, awaiting, chance, window, count, lapsed>>
      /\ Len(mail) < MaxMail
  BY DEF Send
<1>d. UNCHANGED <<origin, pc, first, pending, answerable>>
  BY DEF Send, vars
<1>e. taken \in 0 .. Len(mail) /\ Len(mail) \in Nat
  BY DEF LoopTypeOK
<1>1. LoopTypeOK'
  BY <1>b, <1>c, <1>e, MaxMailAssumption DEF LoopTypeOK
<1>2. FateInv'
  BY <1>b, <1>c, <1>e DEF FateInv
<1>3. WindowInv'
  <2> SUFFICES ASSUME NEW e \in 1 .. Len(window)
               PROVE  \E j \in 1 .. taken : /\ window[e] = Entry(mail'[j])
                                            /\ mail'[j].fate # "duplicate"
                                            /\ j = taken => at # "checked"
    BY <1>c DEF WindowInv, Entry
  <2>1. PICK j \in 1 .. taken : /\ window[e] = Entry(mail[j])
                                /\ mail[j].fate # "duplicate"
                                /\ j = taken => at # "checked"
    BY DEF WindowInv
  <2>2. j \in 1 .. Len(mail)
    BY <1>e
  <2>3. mail'[j] = mail[j]
    BY <1>b, <2>2
  <2>. QED
    BY <2>1, <2>3 DEF Entry
<1>4. ChanceInv'
  BY <1>b, <1>c, <1>d DEF ChanceInv, FateInv, Open
<1>5. HeardInv'
  <2> SUFFICES ASSUME NEW r \in Requests
               PROVE  /\ first[r] = "none" =>
                           \A i \in 1 .. Len(mail) + 1 : mail'[i].settles # r
                      /\ first[r] # "none" =>
                           \E i \in 1 .. taken : Settles(i, r, first[r])'
    BY <1>b, <1>c, <1>d DEF HeardInv
  <2>1. r # NoRequest
    BY NoRequestAssumption
  <2>2. first[r] = "none" => \A i \in 1 .. Len(mail) + 1 : mail'[i].settles # r
    BY <1>b, <1>e, <2>1 DEF HeardInv
  <2>3. ASSUME first[r] # "none"
        PROVE  \E i \in 1 .. taken : Settles(i, r, first[r])'
    BY <1>b, <1>d, <1>e, <2>3 DEF HeardInv, Settles
  <2>. QED
    BY <2>2, <2>3
<1>6. DuplicateHasOriginal'
  <2> SUFFICES ASSUME NEW i \in 1 .. Len(mail) + 1, mail'[i].fate = "duplicate"
               PROVE  \E j \in 1 .. i - 1 :
                        /\ mail'[j].fate # "duplicate"
                        /\ (Repeats(i, j) \/ ReadsLike(i, j))'
    BY <1>b, LenProperties DEF DuplicateHasOriginal
  <2>1. i \in 1 .. Len(mail) /\ mail[i].fate = "duplicate"
    BY <1>b, <1>e
  <2>2. PICK j \in 1 .. i - 1 : /\ mail[j].fate # "duplicate"
                                /\ Repeats(i, j) \/ ReadsLike(i, j)
    BY <2>1 DEF DuplicateHasOriginal
  <2>3. j \in 1 .. Len(mail)
    BY <1>e, <2>1
  <2>4. mail'[i] = mail[i] /\ mail'[j] = mail[j]
    BY <1>b, <2>1, <2>3
  <2>5. (Repeats(i, j) \/ ReadsLike(i, j))'
    BY <2>2, <2>4, AlikeStable
  <2>6. mail'[j].fate # "duplicate"
    BY <2>2, <2>4
  <2>. QED
    BY <2>5, <2>6, Zenon
<1>. QED
  BY <1>1, <1>2, <1>3, <1>4, <1>5, <1>6

LEMMA TakeLInv ==
  ASSUME IInv, LInv, Take
  PROVE  LInv'
<1> USE MailFacts DEF LInv
<1>b. /\ mail' \in Seq(Message)
      /\ Len(mail') = Len(mail)
      /\ taken + 1 \in 1 .. Len(mail)
      /\ \A i \in 1 .. Len(mail) :
           mail'[i] = IF i = taken + 1
                      THEN [mail[i] EXCEPT !.fate = "handling"]
                      ELSE mail[i]
  BY TakeMail
<1>c. /\ taken' = taken + 1 /\ at = "idle" /\ at' = "checked"
      /\ awaiting' = HasPending(mail[taken + 1].from)
      /\ UNCHANGED <<window, count, lapsed>>
  BY DEF Take
<1>d. UNCHANGED <<origin, pc, first, pending, answerable>>
  BY DEF Take, vars
<1>e. taken \in 0 .. Len(mail) /\ Len(mail) \in Nat
  BY DEF LoopTypeOK
<1>f. \A i \in 1 .. Len(mail) :
        /\ mail'[i].from = mail[i].from /\ mail'[i].says = mail[i].says
        /\ mail'[i].settles = mail[i].settles
        /\ mail'[i].fate = IF i = taken + 1 THEN "handling" ELSE mail[i].fate
  BY <1>b DEF Message
<1> DEFINE k == mail[taken + 1].from
<1>g. k \in Key
  BY <1>b DEF Message
<1>h. /\ pending[k] # NoRequest =>
           /\ pending[k] \in Requests
           /\ origin[pending[k]] = k /\ pc[pending[k]] # "idle"
      /\ pending[k] \in Requests \cup {NoRequest}
  BY <1>g DEF IInv, TypeOK, MapInv
<1>i. chance' \in {NoRequest, pending[k]}
  BY DEF Take
<1>1. LoopTypeOK'
  BY <1>b, <1>c, <1>e, <1>h, <1>i DEF LoopTypeOK, Stops, HasPending
<1>2. FateInv'
  BY <1>c, <1>e, <1>b, <1>f DEF FateInv
<1>3. WindowInv'
  <2> SUFFICES ASSUME NEW e \in 1 .. Len(window)
               PROVE  \E j \in 1 .. taken + 1 :
                        /\ window[e] = Entry(mail'[j])
                        /\ mail'[j].fate # "duplicate"
                        /\ j # taken + 1
    BY <1>c DEF WindowInv
  <2>1. PICK j \in 1 .. taken : window[e] = Entry(mail[j])
                                /\ mail[j].fate # "duplicate"
    BY DEF WindowInv
  <2>2. j \in 1 .. Len(mail) /\ j \in 1 .. taken + 1 /\ j # taken + 1
    BY <1>e
  <2>3. mail'[j] = mail[j]
    BY <1>b, <2>2, Zenon
  <2>. QED
    BY <2>1, <2>2, <2>3 DEF Entry
<1>4. ChanceInv'
  <2> SUFFICES ASSUME chance' # NoRequest
               PROVE  /\ origin[chance'] = mail'[taken'].from
                      /\ pc[chance'] # "idle"
                      /\ awaiting'
    BY <1>c, <1>d DEF ChanceInv
  <2>. QED
    BY <1>b, <1>c, <1>f, <1>h, <1>i DEF HasPending
<1>5. HeardInv'
  <2> SUFFICES ASSUME NEW r \in Requests
               PROVE  /\ first[r] = "none" =>
                           \A i \in 1 .. Len(mail) : mail'[i].settles # r
                      /\ first[r] # "none" =>
                           \E i \in 1 .. taken + 1 : Settles(i, r, first[r])'
    BY <1>b, <1>c, <1>d DEF HeardInv
  <2>1. ASSUME first[r] # "none"
        PROVE  \E i \in 1 .. taken + 1 : Settles(i, r, first[r])'
    <3>1. PICK i \in 1 .. taken : Settles(i, r, first[r])
      BY <2>1 DEF HeardInv
    <3>2. i \in 1 .. taken + 1 /\ Settles(i, r, first[r])'
      BY <1>d, <1>e, <1>f, <3>1 DEF Settles
    <3>. QED
      BY <3>2
  <2>. QED
    BY <1>f, <2>1 DEF HeardInv
<1>6. DuplicateHasOriginal'
  <2> SUFFICES ASSUME NEW i \in 1 .. Len(mail), mail'[i].fate = "duplicate"
               PROVE  \E j \in 1 .. i - 1 :
                        /\ mail'[j].fate # "duplicate"
                        /\ (Repeats(i, j) \/ ReadsLike(i, j))'
    BY <1>b, LenProperties DEF DuplicateHasOriginal
  <2>1. mail[i].fate = "duplicate"
    BY <1>f
  <2>2. PICK j \in 1 .. i - 1 : /\ mail[j].fate # "duplicate"
                                /\ Repeats(i, j) \/ ReadsLike(i, j)
    BY <2>1 DEF DuplicateHasOriginal
  <2>3. j \in 1 .. Len(mail)
    BY <1>e
  <2>4. (Repeats(i, j) \/ ReadsLike(i, j))'
    BY <1>f, <2>2, <2>3, AlikeStable
  <2>5. mail'[j].fate # "duplicate"
    BY <1>f, <2>2, <2>3
  <2>. QED
    BY <2>4, <2>5, Zenon
<1>. QED
  BY <1>1, <1>2, <1>3, <1>4, <1>5, <1>6

(* A step that leaves the mail alone.                                      *)
LEMMA StillLInv ==
  ASSUME LInv, UNCHANGED <<mail, taken, window, awaiting, chance, first,
                           origin>>,
         at' \in Stops, at' = "idle" <=> at = "idle",
         at' = "checked" => at = "checked",
         count' \in [Users -> 0 .. PerWindow], lapsed' \in [Users -> BOOLEAN],
         ChanceInv'
  PROVE  LInv'
<1> USE DEF LInv
<1>1. LoopTypeOK' /\ FateInv'
  BY DEF LoopTypeOK, FateInv
<1>2. WindowInv'
  BY DEF WindowInv, Entry
<1>3. HeardInv' /\ DuplicateHasOriginal'
  BY DuplicatesStable DEF HeardInv, Settles
<1>. QED
  BY <1>1, <1>2, <1>3

LEMMA RememberFacts ==
  ASSUME LoopTypeOK, NEW m, Entry(m) \in Seq(STRING)
  PROVE  /\ Remember(m) \in Seq(Seq(STRING))
         /\ Capacity > 0 => Len(Remember(m)) <= Capacity
         /\ \A e \in 1 .. Len(Remember(m)) :
              \/ Remember(m)[e] = Entry(m)
              \/ \E d \in 1 .. Len(window) : Remember(m)[e] = window[d]
<1> DEFINE T    == Seq(STRING)
           full == Len(window) = Capacity /\ window # <<>>
           rest == IF full THEN Tail(window) ELSE window
<1>1. /\ window \in Seq(T) /\ Len(window) \in Nat
      /\ Capacity > 0 => Len(window) <= Capacity
  BY LenProperties DEF LoopTypeOK
<1>2. /\ rest \in Seq(T) /\ Len(rest) \in Nat
      /\ Capacity > 0 => Len(rest) + 1 <= Capacity
      /\ \A e \in 1 .. Len(rest) :
           \E d \in 1 .. Len(window) : rest[e] = window[d]
  <2>1. CASE full
    <3>1. /\ Tail(window) \in Seq(T) /\ Len(Tail(window)) = Len(window) - 1
          /\ \A e \in 1 .. Len(Tail(window)) : Tail(window)[e] = window[e + 1]
      BY <1>1, <2>1, HeadTailProperties
    <3>2. Len(Tail(window)) \in Nat
      BY <3>1, LenProperties
    <3>. QED
      BY <1>1, <2>1, <3>1, <3>2, CapacityAssumption
  <2>2. CASE ~full
    <3>1. Capacity > 0 => Len(window) # Capacity
      BY <1>1, <2>2, EmptySeq, CapacityAssumption
    <3>. QED
      BY <1>1, <2>2, <3>1, CapacityAssumption
  <2>. QED
    BY <2>1, <2>2
<1> HIDE DEF rest
<1>3. /\ Append(rest, Entry(m)) \in Seq(T)
      /\ Len(Append(rest, Entry(m))) = Len(rest) + 1
      /\ \A i \in 1 .. Len(rest) : Append(rest, Entry(m))[i] = rest[i]
      /\ Append(rest, Entry(m))[Len(rest) + 1] = Entry(m)
  BY <1>2, AppendProperties
<1>4. Remember(m) = Append(rest, Entry(m))
  BY DEF Remember, rest
<1> HIDE DEF full
<1>5. ASSUME NEW e \in 1 .. Len(rest) + 1
      PROVE  \/ Append(rest, Entry(m))[e] = Entry(m)
             \/ \E d \in 1 .. Len(window) :
                  Append(rest, Entry(m))[e] = window[d]
  <2>1. CASE e = Len(rest) + 1
    BY <1>3, <2>1
  <2>2. CASE e \in 1 .. Len(rest)
    BY <1>2, <1>3, <2>2
  <2>. QED
    BY <1>2, <2>1, <2>2
<1>. QED
  BY <1>2, <1>3, <1>4, <1>5

LEMMA AdmitLInv ==
  ASSUME IInv, LInv, Admit
  PROVE  LInv'
<1> USE DEF LInv
<1>1. /\ UNCHANGED <<mail, taken, awaiting, chance, count, lapsed>>
      /\ UNCHANGED <<origin, pc, first, pending, answerable>>
      /\ at = "checked" /\ at' = IF awaiting THEN "offering" ELSE "limiting"
      /\ window' = IF awaiting THEN window ELSE Remember(Current)
  BY DEF Admit, vars, Exempt
<1>2. /\ Current = mail[taken] /\ Entry(Current) \in Seq(STRING)
      /\ taken \in 1 .. Len(mail) /\ mail[taken].fate = "handling"
  <2>1. User \in Seq(STRING) /\ Current.says \in Seq(STRING)
    BY <1>1, CurrentFacts, PartsAssumption
  <2>2. Entry(Current) \in Seq(STRING)
    BY <2>1, ConcatProperties DEF Entry, User, Sender
  <2>. QED
    BY <1>1, <2>2 DEF Current, FateInv
<1>3. LoopTypeOK'
  BY <1>1, <1>2, RememberFacts DEF LoopTypeOK, Stops
<1>4. FateInv'
  BY <1>1 DEF FateInv
<1>5. WindowInv'
  <2> SUFFICES ASSUME NEW e \in 1 .. Len(window')
               PROVE  \E j \in 1 .. taken : /\ window'[e] = Entry(mail[j])
                                            /\ mail[j].fate # "duplicate"
    BY <1>1 DEF WindowInv, Entry
  <2>1. CASE awaiting
    BY <1>1, <2>1 DEF WindowInv
  <2>2. CASE ~awaiting
    <3>1. \/ window'[e] = Entry(Current)
          \/ \E d \in 1 .. Len(window) : window'[e] = window[d]
      BY <1>1, <1>2, <2>2, RememberFacts
    <3>2. taken \in 1 .. taken
      BY <1>2, MailFacts
    <3>. QED
      BY <1>2, <3>1, <3>2 DEF WindowInv
  <2>. QED
    BY <2>1, <2>2
<1>6. ChanceInv'
  BY <1>1 DEF ChanceInv, Open
<1>7. HeardInv' /\ DuplicateHasOriginal'
  BY <1>1, DuplicatesStable DEF HeardInv, Settles
<1>. QED
  BY <1>3, <1>4, <1>5, <1>6, <1>7

LEMMA OfferLInv ==
  ASSUME IInv, LInv, OfferUnclear \/ OfferRaced
  PROVE  LInv'
<1>1. /\ UNCHANGED <<mail, taken, awaiting, chance, window, count, lapsed>>
      /\ UNCHANGED <<origin, pc, first, pending, answerable>>
      /\ at = "offering"
  BY DEF OfferUnclear, OfferRaced, vars
<1>2. Sender = mail[taken].from /\ Meant = Meaning[mail[taken].says]
  BY DEF Sender, Current, Meant
<1>3. ASSUME OfferUnclear
      PROVE  LInv'
  <2>1. at' = "clarifying" /\ ~IsAnswer(Meaning[mail[taken].says])
    BY <1>2, <1>3 DEF OfferUnclear
  <2>2. ChanceInv'
    BY <1>1, <2>1 DEF LInv, ChanceInv, Open, IsAnswer
  <2>. QED
    BY <1>1, <2>1, <2>2, StillLInv DEF LInv, LoopTypeOK, Stops
<1>4. ASSUME OfferRaced
      PROVE  LInv'
  <2>1. at' = "limiting" /\ ~Answerable(Sender)
    BY <1>4 DEF OfferRaced
  <2>2. ChanceInv'
    BY <1>1, <1>2, <2>1 DEF LInv, ChanceInv, Open, Answerable, InTime
  <2>. QED
    BY <1>1, <2>1, <2>2, StillLInv DEF LInv, LoopTypeOK, Stops
<1>. QED
  BY <1>3, <1>4

LEMMA PassLInv ==
  ASSUME IInv, LInv, Allow \/ Think \/ \E u \in Users : WindowLapses(u)
  PROVE  LInv'
<1>1. /\ UNCHANGED <<mail, taken, awaiting, chance, window>>
      /\ UNCHANGED <<origin, pc, first, pending, answerable>>
      /\ at' \in Stops /\ (at' = "idle" <=> at = "idle")
      /\ at' = "checked" => at = "checked"
      /\ at' = at \/ at \in {"limiting", "thinking"}
  BY DEF Allow, Think, WindowLapses, vars, Stops, LInv, LoopTypeOK
<1>2. lapsed' \in [Users -> BOOLEAN]
  BY DEF Allow, Think, WindowLapses, LInv, LoopTypeOK
<1>3. count' \in [Users -> 0 .. PerWindow]
  <2>1. CASE Allow
    <3>1. User \in Users
      BY <2>1, CurrentFacts DEF Allow, LInv
    <3>2. lapsed[User] \/ count[User] < PerWindow
      BY <2>1, <3>1, PerWindowAssumption DEF Allow, OverLimit, LInv, LoopTypeOK
    <3>. QED
      BY <2>1, <3>1, <3>2, PerWindowAssumption DEF Allow, LInv, LoopTypeOK
  <2>2. CASE ~Allow
    BY <2>2 DEF Think, WindowLapses, LInv, LoopTypeOK
  <2>. QED
    BY <2>1, <2>2
<1>4. ChanceInv'
  BY <1>1 DEF LInv, ChanceInv, Open
<1>. QED
  BY <1>1, <1>2, <1>3, <1>4, StillLInv

LEMMA GateLInv ==
  ASSUME IInv, LInv, GateMoves
  PROVE  LInv'
<1>1. UNCHANGED <<mail, taken, at, awaiting, chance, window, count, lapsed>>
  BY DEF GateMoves, loopVars
<1>2. UNCHANGED <<origin, first>>
  BY DEF GateMoves, Begin, Task, PlanSent, PlanSendFails, Decide, Clear,
         Declined, SpawnRefused, Spawn, RunEnds, Abandon, Tick
<1>3. [Next]_vars
  BY DEF GateMoves, Next
<1>4. ChanceInv'
  <2> SUFFICES ASSUME NEW r \in Requests, r = chance
               PROVE  ChanceInv'
    BY <1>1 DEF ChanceInv, LInv, LoopTypeOK
  <2>1. r # NoRequest /\ pc[r] # "idle"
    BY NoRequestAssumption DEF LInv, ChanceInv
  <2>2. pc'[r] # "idle" /\ (Open(r)' => Open(r))
    BY <1>3, <2>1, OpenStable
  <2>3. chance' = r
    BY <1>1
  <2>4. Open(chance)' => Open(chance)
    BY <1>1, <2>2 DEF Open
  <2>. QED
    BY <1>1, <1>2, <2>1, <2>2, <2>3, <2>4 DEF LInv, ChanceInv, IsAnswer
<1>. QED
  BY <1>1, <1>2, <1>4, StillLInv DEF LInv, LoopTypeOK

(* The end of a message.  Its fate and what it settles are the only        *)
(* changes to the mail; nothing else remembers it.                         *)
LEMMA FinishLInv ==
  ASSUME IInv, LInv, at # "idle", at' = "idle",
         NEW f \in Handled, NEW r \in Requests \cup {NoRequest}, Finish(f, r),
         UNCHANGED <<taken, window, count, lapsed, origin>>,
         f = "duplicate" => at = "checked" /\ Seen(Current),
         \/ r = NoRequest /\ first' = first
         \/ /\ r \in Requests /\ origin[r] = Sender
            /\ Meant \in {"yes", "no"}
            /\ first' = [first EXCEPT ![r] = IF @ = "none" THEN Meant
                                             ELSE @]
  PROVE  LInv'
<1> USE DEF LInv
<1>a. /\ mail' \in Seq(Message) /\ Len(mail') = Len(mail)
      /\ taken \in 1 .. Len(mail)
      /\ \A i \in 1 .. Len(mail) : i # taken => mail'[i] = mail[i]
  BY FinishMail
<1>b. /\ \A i \in 1 .. Len(mail) :
           /\ mail'[i].from = mail[i].from /\ mail'[i].says = mail[i].says
           /\ mail'[i].fate = IF i = taken THEN f ELSE mail[i].fate
           /\ mail'[i].settles = IF i = taken THEN r ELSE mail[i].settles
      /\ mail[taken].settles = NoRequest
  <2>0. mail'[taken] = [mail[taken] EXCEPT !.fate = f, !.settles = r]
    BY <1>a, FinishMail
  <2>1. mail[taken] \in Message
    BY <1>a, MailFacts
  <2>2. /\ mail'[taken].from = mail[taken].from
        /\ mail'[taken].says = mail[taken].says
        /\ mail'[taken].fate = f /\ mail'[taken].settles = r
    BY <2>0, <2>1 DEF Message
  <2>. QED
    BY <1>a, <2>2 DEF FateInv
<1>c. /\ Current = mail[taken] /\ Sender = mail[taken].from
      /\ Meant = Meaning[mail[taken].says]
  BY DEF Current, Sender, Meant
<1>d. awaiting' = FALSE /\ chance' = NoRequest
  BY DEF Finish
<1>e. Len(mail) \in Nat /\ taken \in Nat
  BY <1>a, MailFacts
<1>1. LoopTypeOK'
  BY <1>a, <1>d DEF LoopTypeOK, Stops
<1>2. FateInv'
  BY <1>a, <1>b DEF FateInv, Handled
<1>3. WindowInv'
  <2> SUFFICES ASSUME NEW e \in 1 .. Len(window)
               PROVE  \E j \in 1 .. taken : /\ window[e] = Entry(mail'[j])
                                            /\ mail'[j].fate # "duplicate"
    BY DEF WindowInv
  <2>1. PICK j \in 1 .. taken : /\ window[e] = Entry(mail[j])
                                /\ mail[j].fate # "duplicate"
                                /\ j = taken => at # "checked"
    BY DEF WindowInv
  <2>2. j \in 1 .. Len(mail)
    BY <1>a, <1>e
  <2>3. Entry(mail'[j]) = Entry(mail[j])
    BY <1>b, <2>2, Zenon DEF Entry
  <2>. QED
    BY <1>a, <1>b, <1>e, <2>1, <2>2, <2>3
<1>4. ChanceInv'
  BY <1>d DEF ChanceInv
<1>5. HeardInv'
  <2> SUFFICES ASSUME NEW q \in Requests
               PROVE  /\ first'[q] = "none" =>
                           \A i \in 1 .. Len(mail) : mail'[i].settles # q
                      /\ first'[q] # "none" =>
                           \E i \in 1 .. taken : Settles(i, q, first[q])'
    BY <1>a DEF HeardInv
  <2>0. q # NoRequest /\ first \in [Requests -> {"none", "yes", "no"}]
    BY NoRequestAssumption DEF IInv, TypeOK
  <2>1. ASSUME first'[q] = "none", NEW i \in 1 .. Len(mail)
        PROVE  mail'[i].settles # q
    <3>1. first[q] = "none" /\ q # r
      BY <2>0, <2>1
    <3>. QED
      BY <1>b, <3>1 DEF HeardInv
  <2>2. ASSUME first[q] # "none"
        PROVE  \E i \in 1 .. taken : Settles(i, q, first[q])'
    <3>1. PICK i \in 1 .. taken : Settles(i, q, first[q])
      BY <2>2 DEF HeardInv
    <3>2. i # taken
      BY <1>b, <2>0, <3>1 DEF Settles
    <3>3. first'[q] = first[q]
      BY <2>0, <2>2
    <3>4. /\ mail'[i].from = origin[q] /\ Meaning[mail'[i].says] = first'[q]
          /\ mail'[i].settles = q
          /\ \A j \in 1 .. i - 1 : mail'[j].settles # q
      BY <1>a, <1>b, <1>e, <3>1, <3>2, <3>3 DEF Settles
    <3>. QED
      BY <3>4 DEF Settles
  <2>3. ASSUME first[q] = "none", first'[q] # "none"
        PROVE  Settles(taken, q, first[q])'
    <3>1. q = r /\ origin[r] = Sender /\ first'[q] = Meant
      BY <2>0, <2>3
    <3>2. \A j \in 1 .. taken - 1 : mail[j].settles # q
      BY <1>a, <1>e, <2>3 DEF HeardInv
    <3>3. /\ mail'[taken].from = origin[q]
          /\ Meaning[mail'[taken].says] = first'[q]
          /\ mail'[taken].settles = q
      BY <1>a, <1>b, <1>c, <3>1
    <3>4. \A j \in 1 .. taken - 1 : mail'[j].settles # q
      BY <1>a, <1>b, <1>e, <3>2
    <3>. QED
      BY <3>3, <3>4 DEF Settles
  <2>4. taken \in 1 .. taken
    BY <1>a, <1>e
  <2>. QED
    BY <2>1, <2>2, <2>3, <2>4
<1>6. DuplicateHasOriginal'
  <2> SUFFICES ASSUME NEW i \in 1 .. Len(mail), mail'[i].fate = "duplicate"
               PROVE  \E j \in 1 .. i - 1 :
                        /\ mail'[j].fate # "duplicate"
                        /\ (Repeats(i, j) \/ ReadsLike(i, j))'
    BY <1>a, LenProperties DEF DuplicateHasOriginal
  <2>1. CASE i = taken
    <3>1. at = "checked" /\ Seen(Current)
      BY <1>b, <2>1
    <3>2. PICK e \in 1 .. Len(window) : window[e] = Entry(mail[taken])
      BY <1>c, <3>1, LenProperties DEF Seen, LoopTypeOK
    <3>3. PICK j \in 1 .. taken : /\ window[e] = Entry(mail[j])
                                  /\ mail[j].fate # "duplicate"
                                  /\ j # taken
      BY <3>1 DEF WindowInv
    <3>4. j \in 1 .. i - 1 /\ j \in 1 .. Len(mail)
      BY <1>a, <1>e, <2>1, <3>3
    <3>5. Repeats(i, j) \/ ReadsLike(i, j)
      BY <1>a, <2>1, <3>2, <3>3, <3>4, MailFacts, SameEntry
    <3>6. (Repeats(i, j) \/ ReadsLike(i, j))'
      BY <1>b, <3>4, <3>5, AlikeStable
    <3>. QED
      BY <1>b, <3>3, <3>4, <3>6
  <2>2. CASE i # taken
    <3>1. PICK j \in 1 .. i - 1 : /\ mail[j].fate # "duplicate"
                                  /\ Repeats(i, j) \/ ReadsLike(i, j)
      BY <1>b, <2>2, MailFacts DEF DuplicateHasOriginal
    <3>2. j # taken
      <4>1. mail[i].fate = "duplicate"
        BY <1>b, <2>2
      <4>2. i <= taken
        BY <1>e, <4>1 DEF FateInv
      <4>. QED
        BY <1>e, <2>2, <4>2
    <3>3. j \in 1 .. Len(mail)
      BY <1>e
    <3>4. (Repeats(i, j) \/ ReadsLike(i, j))'
      BY <1>b, <3>1, <3>3, AlikeStable
    <3>. QED
      BY <1>b, <3>1, <3>2, <3>3, <3>4
  <2>. QED
    BY <2>1, <2>2
<1>. QED
  BY <1>1, <1>2, <1>3, <1>4, <1>5, <1>6

LEMMA EndLInv ==
  ASSUME IInv, LInv,
         DropDuplicate \/ OfferSettles \/ Deny \/ Clarify \/ Respond
  PROVE  LInv'
<1>1. CASE DropDuplicate
  BY <1>1, FinishLInv DEF DropDuplicate, Handled, vars
<1>2. CASE OfferSettles
  <2>1. LoopTypeOK /\ FateInv
    BY DEF LInv
  <2> DEFINE r == pending[Sender]
  <2>2. /\ r \in Requests /\ origin[r] = Sender /\ origin' = origin
        /\ Meant \in {"yes", "no"}
        /\ first' = [first EXCEPT ![r] = IF @ = "none" THEN Meant ELSE @]
    BY <1>2, <2>1, SettleFacts
  <2>3. /\ at # "idle" /\ at' = "idle" /\ Finish("settled", r)
        /\ UNCHANGED <<taken, window, count, lapsed>>
    BY <1>2 DEF OfferSettles
  <2> HIDE DEF r
  <2>. QED
    BY <2>2, <2>3, FinishLInv DEF Handled
<1>3. CASE Deny
  BY <1>3, FinishLInv DEF Deny, Handled, vars
<1>4. CASE Clarify
  BY <1>4, FinishLInv DEF Clarify, SendText, Handled, vars
<1>5. CASE Respond
  BY <1>5, FinishLInv DEF Respond, SendText, Handled, vars
<1>. QED
  BY <1>1, <1>2, <1>3, <1>4, <1>5

LEMMA NextLInv == IInv /\ LInv /\ [LoopNext]_loopAll => LInv'
<1> SUFFICES ASSUME IInv, LInv, [LoopNext]_loopAll
             PROVE  LInv'
  OBVIOUS
<1>1. CASE \E k \in Key, x \in Texts : Send(k, x)
  BY <1>1, SendLInv
<1>2. CASE Handle
  BY <1>2, TakeLInv, AdmitLInv, OfferLInv, PassLInv, EndLInv DEF Handle
<1>3. CASE \E u \in Users : WindowLapses(u)
  BY <1>3, PassLInv
<1>4. CASE GateMoves
  BY <1>4, GateLInv
<1>5. CASE UNCHANGED loopAll
  <2>1. UNCHANGED <<mail, taken, window, awaiting, chance, first, origin, at,
                    count, lapsed, pending, answerable, pc>>
    BY <1>5 DEF loopAll, vars, loopVars
  <2>2. ChanceInv'
    BY <2>1 DEF LInv, ChanceInv, Open, IsAnswer
  <2>. QED
    BY <2>1, <2>2, StillLInv DEF LInv, LoopTypeOK
<1>. QED
  BY <1>1, <1>2, <1>3, <1>4, <1>5 DEF LoopNext

-----------------------------------------------------------------------------
(* The results.                                                            *)

LEMMA LoopInvariance == LoopSpec => [](IInv /\ LInv)
<1>1. LoopInit => IInv /\ LInv
  BY InitIInv, InitLInv DEF LoopInit
<1>2. IInv /\ LInv /\ [LoopNext]_loopAll => (IInv /\ LInv)'
  <2>1. IInv /\ LInv /\ [LoopNext]_loopAll => IInv'
    BY LoopRefines, NextIInv DEF LInv
  <2>. QED
    BY <2>1, NextLInv
<1>. QED
  BY <1>1, <1>2, PTL DEF LoopSpec

(* Every variable of the loop keeps its type; the deduplicator's ring      *)
(* never outgrows a positive capacity, nor a user's count the limit.       *)
THEOREM LoopTypeCorrect == LoopSpec => []LoopTypeOK
<1>1. LInv => LoopTypeOK
  BY DEF LInv
<1>. QED
  BY <1>1, LoopInvariance, PTL

(* A message dropped as a duplicate repeats one that was let through, or   *)
(* reads like one whose sender's id has another number of colons.          *)
THEOREM DuplicatesRepeat == LoopSpec => []DuplicateHasOriginal
<1>1. LInv => DuplicateHasOriginal
  BY DEF LInv
<1>. QED
  BY <1>1, LoopInvariance, PTL

(* Behind every run stands a yes, sent as a message by the request's own   *)
(* sender, that no other answer to the request preceded.                   *)
THEOREM RunsAreSpokenFor == LoopSpec => []ConsentIsSpoken
<1>1. IInv /\ LInv => ConsentIsSpoken
  <2> SUFFICES ASSUME IInv, LInv, NEW r \in spawned
               PROVE  \E i \in 1 .. taken :
                        /\ mail[i].from = origin[r]
                        /\ Meaning[mail[i].says] = "yes"
                        /\ mail[i].settles = r
                        /\ \A j \in 1 .. i - 1 :
                             mail[j].settles = r =>
                               Meaning[mail[j].says] = "yes"
    BY DEF ConsentIsSpoken
  <2>1. r \in Requests
    BY DEF IInv, TypeOK
  <2>2. first[r] = "yes"
    BY <2>1
    DEF IInv, TypeOK, SpawnInv, DecisionInv, BoxInv, DecisionOf
  <2>3. PICK i \in 1 .. taken : Settles(i, r, "yes")
    BY <2>1, <2>2 DEF LInv, HeardInv
  <2>. QED
    BY <2>3 DEF Settles
<1>. QED
  BY <1>1, LoopInvariance, PTL

(* A yes or a no is never lost between the queue and the registry while    *)
(* the approval it answers is open: no deduplication, no rate limit, no    *)
(* agent stands between.                                                   *)
THEOREM AnswersReachTheGate == LoopSpec => AnswersAreHeard
<1> DEFINE Heard ==
      \A i \in DOMAIN mail :
        /\ mail[i].fate = "handling" /\ mail'[i].fate # "handling"
        /\ IsAnswer(Meaning[mail[i].says])
        /\ chance # NoRequest
        => mail'[i].settles = chance \/ ~Open(chance)
<1>1. IInv /\ LInv /\ LoopNext => Heard
  <2> SUFFICES ASSUME IInv, LInv, LoopNext, NEW i \in 1 .. Len(mail),
                      mail[i].fate = "handling",
                      mail'[i].fate # "handling",
                      IsAnswer(Meaning[mail[i].says]),
                      chance # NoRequest, Open(chance)
               PROVE  mail'[i].settles = chance
    BY MailFacts DEF LInv
  <2>1. i = taken /\ at # "idle"
    BY DEF LInv, FateInv
  <2>2. /\ awaiting /\ at \in {"checked", "offering", "clarifying"}
        /\ at = "clarifying" => ~IsAnswer(Meaning[mail[taken].says])
        /\ origin[chance] = mail[taken].from
    BY DEF LInv, ChanceInv
  <2>3. at # "clarifying"
    BY <2>1, <2>2
  <2>4. mail' # mail
    OBVIOUS
  <2>5. CASE \E k \in Key, x \in Texts : Send(k, x)
    <3>1. mail'[i] = mail[i]
      BY <2>5, SendMail DEF LInv, IInv
    <3>. QED
      BY <3>1
  <2>6. CASE Handle
    <3>1. OfferSettles
      BY <2>1, <2>2, <2>3, <2>4, <2>6
      DEF Handle, Take, DropDuplicate, Exempt, Admit, OfferUnclear,
          OfferRaced, Deny, Allow, Think, Clarify, Respond
    <3>2. pending[Sender] = chance /\ chance \in Requests
      BY <2>2 DEF Open, Sender, Current, LInv, LoopTypeOK
    <3>3. Finish("settled", chance) /\ "settled" \in Handled
      BY <3>1, <3>2 DEF OfferSettles, Handled
    <3>4. mail'[taken] = [mail[taken] EXCEPT !.fate = "settled",
                                             !.settles = chance]
      BY <2>1, <3>2, <3>3, FinishMail DEF LInv
    <3>. QED
      BY <2>1, <3>4, MailFacts DEF LInv, Message
  <2>7. CASE GateMoves
    BY <2>4, <2>7 DEF GateMoves, loopVars
  <2>8. CASE \E u \in Users : WindowLapses(u)
    BY <2>4, <2>8 DEF WindowLapses
  <2>. QED
    BY <2>5, <2>6, <2>7, <2>8 DEF LoopNext
<1>2. IInv /\ LInv /\ [LoopNext]_loopAll => [Heard]_loopAll
  BY <1>1
<1>. QED
  BY <1>2, LoopInvariance, PTL DEF LoopSpec, AnswersAreHeard
=============================================================================
