-------------------------- MODULE SupervisorProofs -------------------------
(***************************************************************************)
(* Proofs about Supervisor, for any finite set of runs and any limit.      *)
(*                                                                         *)
(* A step changes the set of runs that hold a slot by at most one run, and *)
(* the counter with it.  What makes the compare-exchange safe is that a    *)
(* call which is about to attempt it has loaded a value below the limit:   *)
(* if the counter still has that value, it is below the limit too.         *)
(***************************************************************************)
EXTENDS Supervisor, FiniteSetTheorems, WellFoundedInduction, TLAPS

Turned == {r \in Runs : result[r] = "at_capacity"}

LoadedInv == \A r \in Runs : pc[r] = "loaded" => loaded[r] < Limit
ResultInv == \A r \in Runs : result[r] = "at_capacity" => pc[r] = "done"

IInv == TypeOK /\ SlotsAreExact /\ LoadedInv /\ ResultInv

(* What a step may do to the slots: nothing, or what module Slots allows.  *)
Quiet == Holders' = Holders /\ active' = active /\ Turned' = Turned

Admitted(r) ==
  /\ r \notin Holders \cup Turned
  /\ Holders' = Holders \cup {r} /\ Turned' = Turned
  /\ active < Limit /\ active' = active + 1

TurnedAway(r) ==
  /\ r \notin Holders \cup Turned
  /\ Turned' = Turned \cup {r} /\ Holders' = Holders
  /\ active >= Limit /\ active' = active

Freed(r) ==
  /\ r \in Holders
  /\ Holders' = Holders \ {r} /\ Turned' = Turned
  /\ active' = active - 1

SlotStep == Quiet \/ \E r \in Runs : Admitted(r) \/ TurnedAway(r) \/ Freed(r)

-----------------------------------------------------------------------------
LEMMA HoldersFinite == IsFiniteSet(Holders)
BY RunsAssumption, FS_Subset DEF Holders

LEMMA InitIInv == Init => IInv
<1> SUFFICES ASSUME Init PROVE IInv
  OBVIOUS
<1>1. TypeOK
  BY DEF Init, TypeOK, Pcs, Results
<1>2. Holders = {}
  BY DEF Init, Holders, Holding
<1>3. SlotsAreExact
  BY <1>2, FS_EmptySet, LimitAssumption DEF Init, SlotsAreExact
<1>4. LoadedInv /\ ResultInv
  BY DEF Init, LoadedInv, ResultInv
<1> QED BY <1>1, <1>3, <1>4 DEF IInv

(* Each of SlotStep's cases keeps the counter exact and within the limit.  *)
LEMMA SlotsStayExact == IInv /\ SlotStep => SlotsAreExact'
<1> SUFFICES ASSUME IInv, SlotStep PROVE SlotsAreExact'
  OBVIOUS
<1>1. active = Cardinality(Holders) /\ active <= Limit /\ active \in Nat
      /\ Limit \in Nat
  BY LimitAssumption DEF IInv, SlotsAreExact, TypeOK
<1>2. CASE Quiet
  BY <1>1, <1>2 DEF Quiet, SlotsAreExact
<1>3. ASSUME NEW r \in Runs, Admitted(r) PROVE SlotsAreExact'
  <2>1. Cardinality(Holders') = Cardinality(Holders) + 1
    BY <1>3, HoldersFinite, FS_AddElement DEF Admitted
  <2> QED BY <1>1, <1>3, <2>1 DEF Admitted, SlotsAreExact
<1>4. ASSUME NEW r \in Runs, TurnedAway(r) PROVE SlotsAreExact'
  BY <1>1, <1>4 DEF TurnedAway, SlotsAreExact
<1>5. ASSUME NEW r \in Runs, Freed(r) PROVE SlotsAreExact'
  <2>1. Cardinality(Holders') = Cardinality(Holders) - 1
    BY <1>5, HoldersFinite, FS_RemoveElement DEF Freed
  <2> QED BY <1>1, <1>5, <2>1 DEF Freed, SlotsAreExact
<1> QED BY <1>2, <1>3, <1>4, <1>5 DEF SlotStep

(* A step that moves one call between two states on the same side of the   *)
(* slots, and turns nobody away for want of one, is quiet.                 *)
LEMMA QuietMove ==
  ASSUME TypeOK, NEW r \in Runs, NEW p \in Pcs, NEW s \in Results \ {"at_capacity"},
         pc' = [pc EXCEPT ![r] = p], p \in Holding <=> pc[r] \in Holding,
         result' = result \/ (result[r] # "at_capacity"
                                /\ result' = [result EXCEPT ![r] = s]),
         active' = active
  PROVE  Quiet
BY DEF TypeOK, Quiet, Holders, Turned

(* The steps of a call before it holds a slot.                             *)
LEMMA EntryStep ==
  ASSUME IInv, NEW r \in Runs,
         RefuseEarly(r) \/ Load(r) \/ AtCapacity(r) \/ Claim(r) \/ Retry(r)
  PROVE  IInv' /\ SlotStep
<1> USE DEF auditVars, diskVars, reaperVars, slotVars
<1>0. Limit \in Nat
  BY LimitAssumption
<1>1. TypeOK'
  <2>1. CASE RefuseEarly(r)
    BY <2>1 DEF IInv, RefuseEarly, TypeOK, Pcs, Results
  <2>2. CASE Load(r)
    BY <2>2 DEF IInv, Load, TypeOK, Pcs
  <2>3. CASE AtCapacity(r)
    BY <2>3 DEF IInv, AtCapacity, TypeOK, Pcs, Results
  <2>4. CASE Claim(r)
    BY <2>4 DEF IInv, Claim, TypeOK, Pcs, Holding
  <2>5. CASE Retry(r)
    BY <2>5 DEF IInv, Retry, TypeOK, Pcs
  <2> QED BY <2>1, <2>2, <2>3, <2>4, <2>5
<1>2. LoadedInv' /\ ResultInv'
  <2>1. CASE RefuseEarly(r)
    BY <2>1 DEF IInv, RefuseEarly, TypeOK, LoadedInv, ResultInv
  <2>2. CASE Load(r)
    BY <1>0, <2>2 DEF IInv, Load, Full, TypeOK, LoadedInv, ResultInv
  <2>3. CASE AtCapacity(r)
    BY <2>3 DEF IInv, AtCapacity, TypeOK, LoadedInv, ResultInv
  <2>4. CASE Claim(r)
    BY <2>4 DEF IInv, Claim, TypeOK, LoadedInv, ResultInv
  <2>5. CASE Retry(r)
    BY <2>5 DEF IInv, Retry, TypeOK, LoadedInv, ResultInv
  <2> QED BY <2>1, <2>2, <2>3, <2>4, <2>5
<1>3. SlotStep
  <2>1. CASE RefuseEarly(r)
    <3>1. Quiet
      BY <2>1 DEF IInv, RefuseEarly, TypeOK, ResultInv, Quiet, Holders, Turned,
        Holding
    <3> QED BY <3>1 DEF SlotStep
  <2>2. CASE Load(r)
    <3>1. Quiet
      BY <2>2 DEF IInv, Load, TypeOK, Quiet, Holders, Turned, Holding
    <3> QED BY <3>1 DEF SlotStep
  <2>3. CASE AtCapacity(r)
    <3>1. TurnedAway(r)
      BY <2>3 DEF IInv, AtCapacity, Full, TypeOK, ResultInv, TurnedAway, Holders,
        Turned, Holding
    <3> QED BY <3>1 DEF SlotStep
  <2>4. CASE Claim(r)
    <3>1. Admitted(r)
      <4>1. active = loaded[r] /\ active < Limit /\ active' = active + 1
        BY <2>4 DEF IInv, Claim, Unchanged, LoadedInv
      <4>2. r \notin Holders \cup Turned
        BY <2>4 DEF IInv, Claim, ResultInv, Holders, Turned, Holding
      <4>3. Holders' = Holders \cup {r} /\ Turned' = Turned
        BY <2>4 DEF IInv, Claim, TypeOK, Holders, Turned, Holding
      <4> QED BY <4>1, <4>2, <4>3 DEF Admitted
    <3> QED BY <3>1 DEF SlotStep
  <2>5. CASE Retry(r)
    <3>1. Quiet
      BY <2>5 DEF IInv, Retry, TypeOK, Quiet, Holders, Turned, Holding
    <3> QED BY <3>1 DEF SlotStep
  <2> QED BY <2>1, <2>2, <2>3, <2>4, <2>5
<1> QED BY <1>1, <1>2, <1>3, SlotsStayExact DEF IInv

(* The steps of a call that holds a slot, up to its release.               *)
LEMMA HolderStep ==
  ASSUME IInv, NEW r \in Runs,
         \/ Verified(r) \/ MakeDir(r) \/ Refused(r) \/ Spawn(r)
         \/ Report(r) \/ Abort(r)
  PROVE  IInv' /\ SlotStep
<1> USE DEF auditVars, diskVars, reaperVars, slotVars, NewDir
<1>1. TypeOK'
  <2>1. CASE Verified(r)
    BY <2>1 DEF IInv, Verified, TypeOK, Pcs, Holding
  <2>2. CASE MakeDir(r)
    BY <2>2 DEF IInv, MakeDir, TypeOK, Pcs, Holding
  <2>3. CASE Refused(r)
    BY <2>3 DEF IInv, Refused, TypeOK, Pcs, Holding, Results
  <2>4. CASE Spawn(r)
    BY <2>4 DEF IInv, Spawn, TypeOK, Pcs, Holding
  <2>5. CASE Report(r)
    BY <2>5 DEF IInv, Report, TypeOK, Pcs, Holding, Results
  <2>6. CASE Abort(r)
    BY <2>6 DEF IInv, Abort, TypeOK, Pcs, Holding, Results
  <2> QED BY <2>1, <2>2, <2>3, <2>4, <2>5, <2>6
<1>2. PICK p \in Holding : pc' = [pc EXCEPT ![r] = p] /\ p # "loaded"
  BY DEF Verified, MakeDir, Refused, Spawn, Report, Abort, Holding
<1>3. PICK s \in {"none", "refused", "reported", "dropped"} :
        result' = result \/ result' = [result EXCEPT ![r] = s]
  BY DEF Verified, MakeDir, Refused, Spawn, Report, Abort
<1>4. active' = active /\ loaded' = loaded /\ pc[r] \in Holding
  BY DEF Verified, MakeDir, Refused, Spawn, Report, Abort, Holding
<1>5. pc[r] # "done" /\ result[r] # "at_capacity"
  BY <1>4 DEF Holding, IInv, ResultInv
<1>6. LoadedInv' /\ ResultInv'
  BY <1>2, <1>3, <1>4, <1>5 DEF IInv, TypeOK, LoadedInv, ResultInv
<1>7. SlotStep
  <2>1. p \in Pcs /\ s \in Results \ {"at_capacity"}
    BY <1>2, <1>3 DEF Pcs, Results
  <2> QED BY <2>1, <1>2, <1>3, <1>4, <1>5, QuietMove DEF IInv, SlotStep
<1> QED BY <1>1, <1>6, <1>7, SlotsStayExact DEF IInv

LEMMA ReleaseStep ==
  ASSUME IInv, NEW r \in Runs, Release(r)
  PROVE  IInv' /\ SlotStep
<1>1. r \in Holders /\ active' = active - 1
  BY DEF Release, AfterDrop, Holders, Holding
<1>2. active \in Nat \ {0}
  <2>1. Cardinality(Holders) # 0
    BY <1>1, HoldersFinite, FS_EmptySet
  <2> QED BY <2>1 DEF IInv, TypeOK, SlotsAreExact
<1>3. TypeOK'
  BY <1>1, <1>2 DEF IInv, Release, auditVars, diskVars, reaperVars, TypeOK, Pcs
<1>4. LoadedInv' /\ ResultInv'
  BY DEF IInv, Release, TypeOK, LoadedInv, ResultInv
<1>5. Freed(r)
  BY <1>1 DEF IInv, Release, TypeOK, Freed, Holders, Turned, Holding
<1> QED BY <1>3, <1>4, <1>5, SlotsStayExact DEF IInv, SlotStep

(* The record of a running child, the reaper, and stuttering.              *)
LEMMA DiskStep ==
  ASSUME IInv,
         (\E r \in Runs : RecordLands(r)) \/ Reaper \/ UNCHANGED vars
  PROVE  IInv' /\ SlotStep
<1> USE DEF auditVars, diskVars, reaperVars, slotVars
<1>1. UNCHANGED <<active, loaded, pc, result, started, ended>>
  BY DEF RecordLands, Reaper, ReaperBegins, ReaperReads, ReaperChooses,
    ReaperRemoves, vars
<1>2. /\ clock' \in Nat \ {0} /\ mtime' \in [Runs -> Nat]
      /\ recorded' \in SUBSET Runs /\ unread' \in SUBSET Runs
      /\ doomed' \in SUBSET Runs /\ listed' \in [Runs -> Nat]
  <2>1. CASE \E r \in Runs : RecordLands(r)
    BY <2>1 DEF IInv, TypeOK, RecordLands, NewDir
  <2>2. CASE ReaperBegins
    <3>1. Dirs \in SUBSET Runs
      BY DEF Dirs
    <3> QED BY <2>2, <3>1 DEF IInv, TypeOK, ReaperBegins
  <2>3. CASE ReaperChooses
    <3>1. Excess \in SUBSET Runs
      BY DEF Excess, Listed
    <3>2. [r \in Runs |-> 0] \in [Runs -> Nat]
      OBVIOUS
    <3> QED BY <2>3, <3>1, <3>2 DEF IInv, TypeOK, ReaperChooses
  <2>4. CASE \E r \in Runs : ReaperReads(r)
    BY <2>4 DEF IInv, TypeOK, ReaperReads
  <2>5. CASE \E r \in Runs : ReaperRemoves(r)
    BY <2>5 DEF IInv, TypeOK, ReaperRemoves
  <2>6. CASE UNCHANGED vars
    BY <2>6 DEF IInv, TypeOK, vars
  <2> QED BY <2>1, <2>2, <2>3, <2>4, <2>5, <2>6 DEF Reaper
<1>3. TypeOK'
  BY <1>1, <1>2 DEF IInv, TypeOK
<1>4. LoadedInv' /\ ResultInv'
  BY <1>1 DEF IInv, LoadedInv, ResultInv
<1>5. Quiet
  BY <1>1 DEF Quiet, Holders, Turned
<1> QED BY <1>3, <1>4, <1>5, SlotsStayExact DEF IInv, SlotStep

LEMMA NextStep == IInv /\ [Next]_vars => IInv' /\ SlotStep
BY EntryStep, HolderStep, ReleaseStep, DiskStep DEF Next, Advance

LEMMA Invariance == Spec => []IInv
<1>1. IInv /\ [Next]_vars => IInv'
  BY NextStep
<1> QED BY InitIInv, <1>1, PTL DEF Spec

-----------------------------------------------------------------------------
(* Every variable keeps to its type; in particular the counter, which is   *)
(* unsigned in the code, is never decremented below zero.                  *)
THEOREM TypeCorrect == Spec => []TypeOK
BY Invariance, PTL DEF IInv

(* The counter is the number of runs that hold a slot, at most the limit.  *)
THEOREM CounterIsExact == Spec => []SlotsAreExact
BY Invariance, PTL DEF IInv

(* The counter and its compare-exchange implement the indivisible          *)
(* admission of module Slots.                                              *)
THEOREM ClaimIsAtomic == Spec => ImplementsSlots
<1>1. Init => Semaphore!Init
  BY DEF Init, Semaphore!Init, Holders, Holding
<1>2. IInv /\ SlotStep => [Semaphore!Next]_(Semaphore!vars)
  <2> SUFFICES ASSUME IInv, SlotStep PROVE [Semaphore!Next]_(Semaphore!vars)
    OBVIOUS
  <2>1. active = Semaphore!Cardinality(Holders)
    BY DEF IInv, SlotsAreExact, Cardinality, Semaphore!Cardinality
  <2>2. CASE Quiet
    BY <2>2 DEF Quiet, Turned, Semaphore!vars
  <2>3. ASSUME NEW r \in Runs, Admitted(r) PROVE Semaphore!Next
    BY <2>1, <2>3 DEF Admitted, Turned, Semaphore!Next, Semaphore!Admit
  <2>4. ASSUME NEW r \in Runs, TurnedAway(r) PROVE Semaphore!Next
    BY <2>1, <2>4 DEF TurnedAway, Turned, Semaphore!Next, Semaphore!Refuse
  <2>5. ASSUME NEW r \in Runs, Freed(r) PROVE Semaphore!Next
    BY <2>5 DEF Freed, Turned, Semaphore!Next, Semaphore!Release
  <2> QED BY <2>2, <2>3, <2>4, <2>5 DEF SlotStep
<1>3. IInv /\ [Next]_vars => [Semaphore!Next]_(Semaphore!vars)
  BY <1>2, NextStep
<1> QED BY <1>1, <1>3, Invariance, PTL DEF Spec, ImplementsSlots, Semaphore!Spec

-----------------------------------------------------------------------------
(* The reaper.  It lists only while it has nothing to remove, so what it   *)
(* has listed is still there; and what it leaves out when it chooses is    *)
(* enough, and is removed by nobody else.                                  *)
ListingIsTrue == Listed # {} \/ unread # {} => doomed = {} /\ Listed \subseteq Dirs

SparesEnough == doomed # {} => Cardinality(Dirs \ doomed) >= MaxKept

ReaperInv == ListingIsTrue /\ SparesEnough

Below == {p \in Nat \X Nat : p[1] < p[2]}

LEMMA Least ==
  ASSUME NEW T \in SUBSET Nat, T # {}
  PROVE  \E n \in T : \A m \in T : n <= m
<1>1. OpToRel(<, Nat) = Below
  BY DEF OpToRel, Below
<1>2. IsWellFoundedOn(Below, Nat)
  BY <1>1, NatLessThanWellFounded
<1>3. \E n \in T : \A m \in T : <<m, n>> \notin Below
  BY <1>2, WFMin
<1>4. \A m, n \in Nat : <<m, n>> \notin Below => n <= m
  <2> TAKE m, n \in Nat
  <2>1. m < n => <<m, n>> \in Nat \X Nat /\ <<m, n>>[1] < <<m, n>>[2]
    OBVIOUS
  <2> QED BY <2>1 DEF Below
<1> QED BY <1>3, <1>4

LEMMA DirsFinite ==
  ASSUME NEW D \in SUBSET Runs
  PROVE  IsFiniteSet(D) /\ Cardinality(D) \in Nat
BY RunsAssumption, FS_Subset, FS_CardinalityType

LEMMA Larger ==
  ASSUME NEW D \in SUBSET Runs, NEW E \in SUBSET D
  PROVE  Cardinality(E) <= Cardinality(D)
BY DirsFinite, FS_Subset

(* Of the directories that are to go, take one with the fewest newer ones: *)
(* all of those stay.                                                      *)
LEMMA ChoiceSparesEnough ==
  ASSUME TypeOK, Excess # {}
  PROVE  Cardinality(Listed \ Excess) >= MaxKept
<1> DEFINE Ranks == {Cardinality(ListedNewer(r)) : r \in Excess}
<1>1. \A r \in Runs : ListedNewer(r) \in SUBSET Runs /\ IsFiniteSet(ListedNewer(r))
                      /\ Cardinality(ListedNewer(r)) \in Nat
  BY DirsFinite DEF ListedNewer, Listed
<1>2. Excess \subseteq Listed /\ Listed \subseteq Runs
  BY DEF Excess, Listed
<1>3. PICK r \in Excess : \A q \in Excess : Cardinality(ListedNewer(r)) <= Cardinality(ListedNewer(q))
  <2>1. Ranks \in SUBSET Nat /\ Ranks # {}
    BY <1>1, <1>2
  <2> HIDE DEF Ranks
  <2>2. PICK n \in Ranks : \A m \in Ranks : n <= m
    BY <2>1, Least
  <2> QED BY <2>2 DEF Ranks
<1>4. ListedNewer(r) \subseteq Listed \ Excess
  <2> SUFFICES ASSUME NEW q \in ListedNewer(r), q \in Excess PROVE FALSE
    BY DEF ListedNewer
  <2>1. q \in Runs /\ r \in Runs /\ listed[q] > listed[r] /\ listed[q] \in Nat /\ listed[r] \in Nat
    BY <1>2 DEF ListedNewer, TypeOK
  <2>2. ListedNewer(q) \subseteq ListedNewer(r) \ {q}
    BY <1>2, <2>1 DEF ListedNewer, TypeOK
  <2>3. Cardinality(ListedNewer(r) \ {q}) = Cardinality(ListedNewer(r)) - 1
    BY <1>1, <2>1, FS_RemoveElement
  <2>4. Cardinality(ListedNewer(q)) <= Cardinality(ListedNewer(r) \ {q})
    BY <1>1, <2>1, <2>2, Larger
  <2> QED BY <1>1, <1>3, <2>1, <2>3, <2>4
<1>5. Cardinality(ListedNewer(r)) >= MaxKept
  BY DEF Excess
<1>6. Cardinality(ListedNewer(r)) <= Cardinality(Listed \ Excess)
  BY <1>2, <1>4, Larger
<1>7. Cardinality(Listed \ Excess) \in Nat /\ Cardinality(ListedNewer(r)) \in Nat /\ MaxKept \in Nat
  BY <1>1, <1>2, DirsFinite, MaxKeptAssumption
<1> QED BY <1>5, <1>6, <1>7

(* Steps that are not the reaper's only add directories.                   *)
LEMMA OnlyTheReaperRemoves ==
  ASSUME TypeOK, NEW r \in Runs, Advance(r) \/ RecordLands(r) \/ Abort(r)
  PROVE  Dirs \subseteq Dirs' /\ UNCHANGED reaperVars
<1>1. NewDir(r) => Dirs \subseteq Dirs'
  BY DEF NewDir, Dirs, TypeOK
<1>2. UNCHANGED mtime => Dirs' = Dirs
  BY DEF Dirs
<1>3. CASE MakeDir(r) \/ RecordLands(r) \/ Abort(r)
  BY <1>1, <1>2, <1>3 DEF MakeDir, RecordLands, Abort
<1>4. CASE Advance(r) /\ ~MakeDir(r)
  BY <1>2, <1>4 DEF Advance, RefuseEarly, Load, AtCapacity, Claim, Retry, Verified, Refused,
                    Spawn, Report, Release, diskVars
<1> QED BY <1>3, <1>4

LEMMA ReaperInvStep == TypeOK /\ ReaperInv /\ [Next]_vars => ReaperInv'
<1> SUFFICES ASSUME TypeOK, ReaperInv, [Next]_vars PROVE ReaperInv'
  OBVIOUS
<1>1. Dirs \in SUBSET Runs /\ Dirs' \in SUBSET Runs /\ MaxKept \in Nat
  BY MaxKeptAssumption DEF Dirs
<1>2. ASSUME NEW r \in Runs, Advance(r) \/ RecordLands(r) \/ Abort(r) PROVE ReaperInv'
  <2>1. Dirs \subseteq Dirs' /\ UNCHANGED reaperVars /\ Listed' = Listed
    BY <1>2, OnlyTheReaperRemoves DEF Listed, reaperVars
  <2>2. Cardinality(Dirs \ doomed) <= Cardinality(Dirs' \ doomed)
        /\ Cardinality(Dirs \ doomed) \in Nat /\ Cardinality(Dirs' \ doomed) \in Nat
    BY <1>1, <2>1, Larger, DirsFinite
  <2>3. ListingIsTrue'
    BY <2>1 DEF ReaperInv, ListingIsTrue, reaperVars
  <2>4. SparesEnough'
    BY <1>1, <2>1, <2>2 DEF ReaperInv, SparesEnough, reaperVars
  <2> QED BY <2>3, <2>4 DEF ReaperInv
<1>3. CASE ReaperBegins
  <2>1. Listed' = {} /\ Dirs' = Dirs /\ doomed' = {}
    BY <1>3 DEF ReaperBegins, Listed, Dirs
  <2> QED BY <2>1 DEF ReaperInv, ListingIsTrue, SparesEnough
<1>4. ASSUME NEW r \in Runs, ReaperReads(r) PROVE ReaperInv'
  <2>1. Dirs' = Dirs /\ doomed' = doomed /\ doomed = {} /\ Listed' \subseteq Listed \cup {r}
        /\ Listed \subseteq Dirs /\ r \in Dirs
    BY <1>4 DEF ReaperReads, Listed, Dirs, ReaperInv, ListingIsTrue, TypeOK
  <2> QED BY <2>1 DEF ReaperInv, ListingIsTrue, SparesEnough
<1>5. CASE ReaperChooses
  <2>1. Dirs' = Dirs /\ doomed' = Excess /\ Listed' = {} /\ unread' = {} /\ Listed \subseteq Dirs
    BY <1>5 DEF ReaperChooses, Listed, Dirs, ReaperInv, ListingIsTrue
  <2>2. Excess # {} => Cardinality(Dirs \ Excess) >= MaxKept
    <3> SUFFICES ASSUME Excess # {} PROVE Cardinality(Dirs \ Excess) >= MaxKept
      OBVIOUS
    <3>1. Cardinality(Listed \ Excess) >= MaxKept
      BY ChoiceSparesEnough
    <3>2. Cardinality(Listed \ Excess) <= Cardinality(Dirs \ Excess)
          /\ Cardinality(Dirs \ Excess) \in Nat /\ Cardinality(Listed \ Excess) \in Nat
      BY <1>1, <2>1, Larger, DirsFinite
    <3> QED BY <1>1, <3>1, <3>2
  <2> QED BY <2>1, <2>2 DEF ReaperInv, ListingIsTrue, SparesEnough
<1>6. ASSUME NEW r \in Runs, ReaperRemoves(r) PROVE ReaperInv'
  <2>1. Dirs \ doomed \subseteq Dirs' \ doomed' /\ doomed # {} /\ Listed' = Listed /\ unread' = unread
    BY <1>6 DEF ReaperRemoves, Dirs, Listed, TypeOK
  <2>2. Listed = {} /\ unread = {}
    BY <2>1 DEF ReaperInv, ListingIsTrue
  <2>3. Cardinality(Dirs \ doomed) <= Cardinality(Dirs' \ doomed')
        /\ Cardinality(Dirs \ doomed) \in Nat /\ Cardinality(Dirs' \ doomed') \in Nat
    BY <1>1, <2>1, Larger, DirsFinite
  <2> QED BY <1>1, <2>1, <2>2, <2>3 DEF ReaperInv, ListingIsTrue, SparesEnough
<1>7. CASE UNCHANGED vars
  BY <1>7 DEF vars, ReaperInv, ListingIsTrue, SparesEnough, Listed, Dirs
<1> QED BY <1>2, <1>3, <1>4, <1>5, <1>6, <1>7 DEF Next, Reaper

(* However stale the listing the reaper works from, it never takes away    *)
(* what would leave fewer directories than it is to keep.                  *)
THEOREM ReaperKeepsEnough == Spec => RetentionKeepsEnough
<1> DEFINE Shrinks == Dirs' # Dirs /\ Dirs' \subseteq Dirs
<1>1. Init => ReaperInv
  BY DEF Init, ReaperInv, ListingIsTrue, SparesEnough, Listed
<1>2. TypeOK /\ ReaperInv /\ [Next]_vars => (Shrinks => Cardinality(Dirs') >= MaxKept)
  <2> SUFFICES ASSUME TypeOK, ReaperInv, [Next]_vars, Shrinks PROVE Cardinality(Dirs') >= MaxKept
    OBVIOUS
  <2>1. ~\E r \in Runs : Advance(r) \/ RecordLands(r) \/ Abort(r)
    BY OnlyTheReaperRemoves
  <2>2. mtime' # mtime
    BY DEF Dirs
  <2>3. PICK r \in Runs : ReaperRemoves(r)
    BY <2>1, <2>2 DEF Next, Reaper, ReaperBegins, ReaperChooses, ReaperReads, vars
  <2>4. doomed # {} /\ Dirs \ doomed \subseteq Dirs' /\ Dirs' \in SUBSET Runs
    BY <2>3 DEF ReaperRemoves, Dirs, TypeOK
  <2>5. Cardinality(Dirs \ doomed) <= Cardinality(Dirs')
        /\ Cardinality(Dirs \ doomed) \in Nat /\ Cardinality(Dirs') \in Nat
    BY <2>4, Larger, DirsFinite
  <2> QED BY <2>4, <2>5, MaxKeptAssumption DEF ReaperInv, SparesEnough
<1>3. TypeOK /\ ReaperInv /\ [Next]_vars => [Shrinks => Cardinality(Dirs') >= MaxKept]_vars
  BY <1>2
<1> QED BY <1>1, <1>3, ReaperInvStep, TypeCorrect, PTL DEF Spec, RetentionKeepsEnough
=============================================================================
