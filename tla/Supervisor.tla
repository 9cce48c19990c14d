----------------------------- MODULE Supervisor ----------------------------
(***************************************************************************)
(* Many runs under one supervisor (src/src/quarry/supervisor.rs): the      *)
(* counter that limits how many execute, the steps of Supervisor::run up   *)
(* to a spawned child, the run directories they leave, the hourly reaper   *)
(* that deletes old ones, and the audit records of a run.                  *)
(*                                                                         *)
(* Calls of run execute on different threads: each action is one access to *)
(* the counter or what happens between two awaits.  Between the start of   *)
(* the child and the report, module RunStream has the details; here that   *)
(* is the one state "running".  retention_max_age_seconds is 0, its        *)
(* default.                                                                *)
(***************************************************************************)
EXTENDS Naturals, FiniteSets

CONSTANTS
  Runs,     \* calls of Supervisor::run
  Limit,    \* max_concurrent_runs
  MaxKept   \* retention_max_runs

ASSUME RunsAssumption == IsFiniteSet(Runs)
ASSUME LimitAssumption == Limit \in Nat
ASSUME MaxKeptAssumption == MaxKept \in Nat \ {0}

VARIABLES
  active,    \* the counter of executing runs
  loaded,    \* what each call last loaded from it
  pc,        \* how far each call has come
  result,    \* how it ended
  started,   \* the runs with a QuarryRunStarted audit record
  ended,     \* the runs with a QuarryRunEnded audit record
  clock,     \* the next modification time
  mtime,     \* modification time of each run's directory, 0 if there is none
  recorded,  \* the runs whose record.json was written
  unread,    \* directories the reaper's listing has still to come to
  listed,    \* the modification times it has read, 0 where it has read none
  doomed     \* directories it has chosen and not yet removed

vars == <<active, loaded, pc, result, started, ended, clock, mtime, recorded,
          unread, listed, doomed>>

slotVars == <<active, loaded>>
reaperVars == <<unread, listed, doomed>>
diskVars == <<clock, mtime, recorded, reaperVars>>
auditVars == <<started, ended>>

Holding == {"verifying", "creating", "created", "running", "releasing"}
Pcs     == Holding \cup {"idle", "loaded", "done"}
Results == {"none", "refused", "at_capacity", "reported", "dropped"}

TypeOK ==
  /\ active \in Nat
  /\ loaded \in [Runs -> Nat]
  /\ pc \in [Runs -> Pcs]
  /\ result \in [Runs -> Results]
  /\ started \in SUBSET Runs /\ ended \in SUBSET Runs
  /\ clock \in Nat \ {0}
  /\ mtime \in [Runs -> Nat]
  /\ recorded \in SUBSET Runs
  /\ unread \in SUBSET Runs /\ doomed \in SUBSET Runs
  /\ listed \in [Runs -> Nat]

Init ==
  /\ active = 0
  /\ loaded = [r \in Runs |-> 0]
  /\ pc = [r \in Runs |-> "idle"]
  /\ result = [r \in Runs |-> "none"]
  /\ started = {} /\ ended = {}
  /\ clock = 1
  /\ mtime = [r \in Runs |-> 0]
  /\ recorded = {}
  /\ unread = {} /\ doomed = {} /\ listed = [r \in Runs |-> 0]

Holders == {r \in Runs : pc[r] \in Holding}
Dirs    == {r \in Runs : mtime[r] > 0}
Newer(r) == {q \in Dirs : mtime[q] > mtime[r]}

-----------------------------------------------------------------------------
(* The decisions the actions are built from, each after a plausible bug in *)
(* it that no action uses (_mutant).                                       *)

(* try_claim_slot: the value loaded leaves no slot.                        *)
Full_mutant(n) == n + 1 >= Limit
Full(n) == n >= Limit

(* try_claim_slot: compare_exchange finds the value that was loaded.       *)
Unchanged_mutant(r) == TRUE
Unchanged(r) == active = loaded[r]

(* ActiveGuard::drop.                                                      *)
AfterDrop_mutant(r) == IF result[r] = "dropped" THEN active ELSE active - 1
AfterDrop(r) == active - 1

(* reap_run_dirs: all but the most recent MaxKept of those listed.         *)
Listed == {r \in Runs : listed[r] > 0}
ListedNewer(r) == {q \in Listed : listed[q] > listed[r]}
Excess_mutant == {r \in Listed : Cardinality(ListedNewer(r)) + 1 >= MaxKept}
Excess == {r \in Listed : Cardinality(ListedNewer(r)) >= MaxKept}

-----------------------------------------------------------------------------
(* Quarry is disabled, or the request has neither a cap nor a deadline.    *)
RefuseEarly(r) ==
  /\ pc[r] = "idle"
  /\ pc' = [pc EXCEPT ![r] = "done"]
  /\ result' = [result EXCEPT ![r] = "refused"]
  /\ UNCHANGED <<slotVars, auditVars, diskVars>>

(* try_claim_slot: load the counter; refuse if it has reached the limit.   *)
Load(r) ==
  /\ pc[r] = "idle" /\ ~Full(active)
  /\ loaded' = [loaded EXCEPT ![r] = active]
  /\ pc' = [pc EXCEPT ![r] = "loaded"]
  /\ UNCHANGED <<active, result, auditVars, diskVars>>

AtCapacity(r) ==
  /\ pc[r] = "idle" /\ Full(active)
  /\ pc' = [pc EXCEPT ![r] = "done"]
  /\ result' = [result EXCEPT ![r] = "at_capacity"]
  /\ UNCHANGED <<slotVars, auditVars, diskVars>>

(* try_claim_slot: the compare-exchange takes the slot or loops.           *)
Claim(r) ==
  /\ pc[r] = "loaded" /\ Unchanged(r)
  /\ active' = loaded[r] + 1
  /\ loaded' = [loaded EXCEPT ![r] = 0]
  /\ pc' = [pc EXCEPT ![r] = "verifying"]
  /\ UNCHANGED <<result, auditVars, diskVars>>

Retry(r) ==
  /\ pc[r] = "loaded" /\ ~Unchanged(r)
  /\ loaded' = [loaded EXCEPT ![r] = 0]
  /\ pc' = [pc EXCEPT ![r] = "idle"]
  /\ UNCHANGED <<active, result, auditVars, diskVars>>

(* gate.check accepts the binary.                                          *)
Verified(r) ==
  /\ pc[r] = "verifying"
  /\ pc' = [pc EXCEPT ![r] = "creating"]
  /\ UNCHANGED <<slotVars, result, auditVars, diskVars>>

(* create_dir_all succeeds.                                                *)
NewDir(r) == mtime' = [mtime EXCEPT ![r] = clock] /\ clock' = clock + 1

MakeDir(r) ==
  /\ pc[r] = "creating"
  /\ NewDir(r)
  /\ pc' = [pc EXCEPT ![r] = "created"]
  /\ UNCHANGED <<slotVars, result, auditVars, recorded, reaperVars>>

(* The binary is refused, the directory cannot be made, or the spawn fails *)
(* (and then the directory stays): an audited failure.                     *)
Refused(r) ==
  /\ pc[r] \in {"verifying", "creating", "created"}
  /\ pc' = [pc EXCEPT ![r] = "releasing"]
  /\ result' = [result EXCEPT ![r] = "refused"]
  /\ UNCHANGED <<slotVars, auditVars, diskVars>>

Spawn(r) ==
  /\ pc[r] = "created"
  /\ pc' = [pc EXCEPT ![r] = "running"]
  /\ started' = started \cup {r}
  /\ UNCHANGED <<slotVars, result, ended, diskVars>>

(* The child creates record.json: its directory is modified now.           *)
RecordLands(r) ==
  /\ pc[r] = "running" /\ r \in Dirs \ recorded
  /\ recorded' = recorded \cup {r}
  /\ NewDir(r)
  /\ UNCHANGED <<slotVars, pc, result, auditVars, reaperVars>>

(* The run is classified, and its end audited.                             *)
Report(r) ==
  /\ pc[r] = "running"
  /\ pc' = [pc EXCEPT ![r] = "releasing"]
  /\ result' = [result EXCEPT ![r] = "reported"]
  /\ ended' = ended \cup {r}
  /\ UNCHANGED <<slotVars, started, diskVars>>

(* The caller's task is aborted at one of run's awaits: the future is      *)
(* dropped, and with it the child (kill_on_drop) and the slot's guard.  A  *)
(* directory that was being created may still appear.                      *)
Abort(r) ==
  /\ pc[r] \in Holding \ {"releasing"}
  /\ pc' = [pc EXCEPT ![r] = "releasing"]
  /\ result' = [result EXCEPT ![r] = "dropped"]
  /\ \/ UNCHANGED <<mtime, clock>>
     \/ pc[r] = "creating" /\ NewDir(r)
  /\ UNCHANGED <<slotVars, auditVars, recorded, reaperVars>>

(* ActiveGuard::drop.                                                      *)
Release(r) ==
  /\ pc[r] = "releasing"
  /\ active' = AfterDrop(r)
  /\ pc' = [pc EXCEPT ![r] = "done"]
  /\ UNCHANGED <<loaded, result, auditVars, diskVars>>

(* reap_run_dirs reads the directory entry by entry, with awaits between:  *)
(* it sees every directory that was there when it began, and may or may    *)
(* not see one that is made meanwhile.                                     *)
ReaperBegins ==
  /\ unread = {} /\ Listed = {} /\ doomed = {} /\ Dirs # {}
  /\ unread' = Dirs
  /\ UNCHANGED <<slotVars, pc, result, auditVars, clock, mtime, recorded, listed,
                 doomed>>

ReaperReads(r) ==
  /\ unread # {} /\ r \in Dirs \ Listed
  /\ listed' = [listed EXCEPT ![r] = mtime[r]]
  /\ unread' = unread \ {r}
  /\ UNCHANGED <<slotVars, pc, result, auditVars, clock, mtime, recorded, doomed>>

ReaperChooses ==
  /\ unread = {} /\ Listed # {}
  /\ doomed' = Excess
  /\ listed' = [r \in Runs |-> 0]
  /\ UNCHANGED <<slotVars, pc, result, auditVars, clock, mtime, recorded, unread>>

(* It removes them one by one; one that cannot be removed is skipped.      *)
ReaperRemoves(r) ==
  /\ r \in doomed
  /\ doomed' = doomed \ {r}
  /\ \/ mtime' = [mtime EXCEPT ![r] = 0]
     \/ UNCHANGED mtime
  /\ UNCHANGED <<slotVars, pc, result, auditVars, clock, recorded, unread, listed>>

-----------------------------------------------------------------------------
Advance(r) ==
  \/ RefuseEarly(r) \/ Load(r) \/ AtCapacity(r) \/ Claim(r) \/ Retry(r)
  \/ Verified(r) \/ MakeDir(r) \/ Refused(r) \/ Spawn(r) \/ Report(r)
  \/ Release(r)

Reaper ==
  \/ ReaperBegins \/ ReaperChooses
  \/ \E r \in Runs : ReaperReads(r) \/ ReaperRemoves(r)

Next ==
  \/ \E r \in Runs : Advance(r) \/ RecordLands(r) \/ Abort(r)
  \/ Reaper

Spec == Init /\ [][Next]_vars

(* The runtime polls every call; a started run is reported (RunStream).    *)
FairSpec == Spec /\ \A r \in Runs : WF_vars(Advance(r))

-----------------------------------------------------------------------------
(* Properties.                                                             *)

(* The counter is the number of runs that hold a slot, through every race  *)
(* of loads, exchanges and releases, and never exceeds the limit.          *)
SlotsAreExact == active = Cardinality(Holders) /\ active <= Limit

(* The load and the compare-exchange admit or refuse a request as one      *)
(* indivisible step would: no request is refused a slot nobody really had. *)
Semaphore ==
  INSTANCE Slots WITH holding <- Holders,
                      refused <- {r \in Runs : result[r] = "at_capacity"}

ImplementsSlots == Semaphore!Spec

(* The limit never leaks downward: a supervisor at its limit gets a slot   *)
(* back, however its runs end, dropped futures included.                   *)
CapacityReturns == active >= Limit ~> active < Limit

(* The reaper works from a list that is stale by the time it deletes, and  *)
(* still never cuts the directories below the number it is to keep.        *)
RetentionKeepsEnough ==
  [][Dirs' # Dirs /\ Dirs' \subseteq Dirs => Cardinality(Dirs') >= MaxKept]_vars

(* "The surviving set is the most recent max_runs" (reap_run_dirs): what a *)
(* pass removes is older than max_runs others.                             *)
SurvivorsAreMostRecent ==
  [][\A r \in Dirs : r \notin Dirs' => Cardinality(Newer(r)) >= MaxKept]_vars
=============================================================================
