--------------------------- MODULE SpawnGateProofs --------------------------
(***************************************************************************)
(* Proofs about module SpawnGate, for any set of spawns, any binaries, any *)
(* signatures and any manifests.                                           *)
(***************************************************************************)
EXTENDS SpawnGate, TLAPS, SequenceTheorems

-----------------------------------------------------------------------------
(* The manifest check.                                                     *)

(* A walk that stopped nowhere met at most one entry of each kind, so the  *)
(* list has at most two.                                                   *)
LEMMA TwoAtMost ==
  ASSUME NEW caps \in Seq(Capability), Stops(caps) = {}
  PROVE  Len(caps) <= 2
<1> SUFFICES ASSUME Len(caps) > 2 PROVE FALSE
  BY LenProperties
<1>1. 1 \in DOMAIN caps /\ 2 \in DOMAIN caps /\ 3 \in DOMAIN caps
  BY LenProperties
<1>2. \A i \in DOMAIN caps : caps[i].kind \in Kinds /\ ~Met(caps, i)
  BY DEF Stops
<1>3. \A i \in DOMAIN caps : \A j \in 1..(i - 1) : caps[j].kind # caps[i].kind
  BY <1>2 DEF Met
<1>4. 1 \in 1..(2 - 1) /\ 1 \in 1..(3 - 1) /\ 2 \in 1..(3 - 1)
  OBVIOUS
<1>5. /\ caps[1].kind # caps[2].kind
      /\ caps[1].kind # caps[3].kind
      /\ caps[2].kind # caps[3].kind
  BY <1>1, <1>3, <1>4
<1> QED BY <1>1, <1>2, <1>5 DEF Kinds

(* With an entry of each kind there are two, and which is which is settled. *)
LEMMA OneOfEach ==
  ASSUME NEW caps \in Seq(Capability), Stops(caps) = {},
         \A kind \in Kinds : ~Lacks(caps, kind)
  PROVE  /\ Len(caps) = 2
         /\ \A kind \in Kinds :
              \E i \in 1..2 : caps[i].kind = kind /\ Entry(caps, kind) = caps[i]
<1>1. PICK i \in DOMAIN caps : caps[i].kind = "localhost-egress"
  BY DEF Lacks, Kinds
<1>2. PICK j \in DOMAIN caps : caps[j].kind = "writable-dir"
  BY DEF Lacks, Kinds
<1>3. Len(caps) <= 2 /\ DOMAIN caps = 1..Len(caps) /\ Len(caps) \in Nat
  BY TwoAtMost, LenProperties
<1>4. i # j
  BY <1>1, <1>2
<1>5. Len(caps) = 2
  BY <1>3, <1>4
<1>6. ASSUME NEW kind \in Kinds
      PROVE  \E k \in 1..2 : caps[k].kind = kind /\ Entry(caps, kind) = caps[k]
  BY <1>1, <1>2, <1>3, <1>5 DEF Kinds, Entry
<1> QED BY <1>5, <1>6

LEMMA EgressJudged ==
  ASSUME NEW cap \in Capability, NEW expected, expected.port \in Nat,
         cap.kind = "localhost-egress"
  PROVE  (EgressFault(cap, expected) = "none") <=> IsEgress(cap, expected)
BY DEF EgressFault, IsEgress, Capability

LEMMA DirJudged ==
  ASSUME NEW cap \in Capability, NEW expected, cap.kind = "writable-dir"
  PROVE  (DirFault(cap, expected) = "none") <=> IsRunDir(cap, expected)
BY DEF DirFault, IsRunDir, Capability

(* The loop and the tests after it accept exactly the manifests that have  *)
(* quarry's two capabilities and nothing else, for lists of any length.    *)
THEOREM CheckIsExact ==
  ASSUME NEW m, m.caps \in Seq(Capability), NEW expected, expected.port \in Nat
  PROVE  JudgesExactly(m, expected)
<1> DEFINE caps == m.caps
<1> DEFINE e == Entry(caps, "localhost-egress")
<1> DEFINE w == Entry(caps, "writable-dir")
<1>1. ASSUME Check(m, expected) = "none" PROVE Exact(m, expected)
  <2>1. m.schema = "quarry-capability-manifest/1" /\ CapsFault(caps, expected) = "none"
    BY <1>1 DEF Check
  <2>2. Stops(caps) = {}
    BY <2>1 DEF CapsFault
  <2>3. \A kind \in Kinds : ~Lacks(caps, kind)
    BY <2>1, <2>2 DEF CapsFault
  <2>4. EgressFault(e, expected) = "none" /\ DirFault(w, expected) = "none"
    BY <2>1, <2>2, <2>3 DEF CapsFault
  <2>5. Len(caps) = 2
    BY <2>2, <2>3, OneOfEach
  <2>6. PICK i \in 1..2 : caps[i].kind = "localhost-egress" /\ e = caps[i]
    BY <2>2, <2>3, OneOfEach DEF Kinds
  <2>7. PICK j \in 1..2 : caps[j].kind = "writable-dir" /\ w = caps[j]
    BY <2>2, <2>3, OneOfEach DEF Kinds
  <2>8. caps[i] \in Capability /\ caps[j] \in Capability
    BY <2>5, ElementOfSeq
  <2>9. IsEgress(caps[i], expected) /\ IsRunDir(caps[j], expected)
    BY <2>4, <2>6, <2>7, <2>8, EgressJudged, DirJudged
  <2> QED BY <2>1, <2>5, <2>9 DEF Exact
<1>2. ASSUME Exact(m, expected) PROVE Check(m, expected) = "none"
  <2>1. m.schema = "quarry-capability-manifest/1" /\ Len(caps) = 2
    BY <1>2 DEF Exact
  <2>2. PICK i \in 1..2, j \in 1..2 :
          IsEgress(caps[i], expected) /\ IsRunDir(caps[j], expected)
    BY <1>2 DEF Exact
  <2>3. caps[i].kind = "localhost-egress" /\ caps[j].kind = "writable-dir"
    BY <2>2 DEF IsEgress, IsRunDir
  <2>4. i # j /\ DOMAIN caps = 1..2
    BY <2>1, <2>3, LenProperties
  <2>5. Stops(caps) = {}
    BY <2>3, <2>4 DEF Stops, Met, Kinds
  <2>6. \A kind \in Kinds : ~Lacks(caps, kind)
    BY <2>3, <2>4 DEF Lacks, Kinds
  <2>7. e = caps[i] /\ w = caps[j]
    BY <2>3, <2>4 DEF Entry
  <2>8. caps[i] \in Capability /\ caps[j] \in Capability
    BY <2>1, ElementOfSeq
  <2>9. EgressFault(e, expected) = "none" /\ DirFault(w, expected) = "none"
    BY <2>2, <2>3, <2>7, <2>8, EgressJudged, DirJudged
  <2>10. CapsFault(caps, expected) = "none"
    BY <2>5, <2>6, <2>9 DEF CapsFault
  <2> QED BY <2>1, <2>10 DEF Check
<1> QED BY <1>1, <1>2 DEF JudgesExactly

-----------------------------------------------------------------------------
(* The gate.                                                               *)

(* What a check knows at each stage.                                       *)
Stages ==
  \A s \in Spawns :
    /\ pc[s] \in {"start", "found"} => digest[s] = None
    /\ pc[s] \in {"hashed", "verifying", "manifest", "admitted"}
         => digest[s] \in Digests
    /\ pc[s] = "verifying" => config.enabled
    /\ pc[s] = "manifest" => /\ config.enabled
                             /\ material[s] = digest[s] /\ digest[s] \in Signed

(* With verification enabled, what is admitted is trusted.                 *)
AdmittedIsTrusted ==
  \A s \in Spawns :
    pc[s] = "admitted" /\ config.enabled => digest[s] \in Trusted

IInv == TypeOK /\ CacheIsOwn /\ Stages /\ AdmittedIsTrusted

LEMMA ManifestVerdict ==
  ASSUME NEW d \in Signed, ManifestReason(ManifestOf[d]) = "none"
  PROVE  d \in Trusted
<1>1. d \in Digests
  BY SignedAssumption
<1>2. ManifestOf[d].text = "json" /\ Check(ManifestOf[d], Expected) = "none"
  BY DEF ManifestReason
<1>3. JudgesExactly(ManifestOf[d], Expected)
  BY <1>1, ManifestAssumption, CheckIsExact
<1> QED BY <1>2, <1>3 DEF JudgesExactly, Trusted

LEMMA ReasonIsOne ==
  ASSUME NEW m
  PROVE  ManifestReason(m) \in {"none", "manifest_unparseable", "manifest_rejected"}
BY DEF ManifestReason

LEMMA InitIInv == Init => IInv
<1> SUFFICES ASSUME Init PROVE IInv
  OBVIOUS
<1>1. TypeOK
  BY DEF Init, TypeOK, Pcs, Reasons
<1>2. CacheIsOwn /\ Stages /\ AdmittedIsTrusted
  BY NamesAssumption DEF Init, CacheIsOwn, Stages, AdmittedIsTrusted
<1> QED BY <1>1, <1>2 DEF IInv

(* A refusal ends a check and teaches it nothing.                          *)
LEMMA RefuseKeeps ==
  ASSUME IInv, NEW s \in Spawns, NEW why \in Reasons, Refuse(s, why)
  PROVE  IInv'
<1> USE DEF Refuse, disk, IInv
<1>1. TypeOK'
  BY DEF TypeOK, Pcs
<1>2. \A t \in Spawns : pc'[t] = pc[t] \/ pc'[t] = "refused"
  BY DEF TypeOK
<1>3. CacheIsOwn'
  BY DEF CacheIsOwn
<1>4. Stages'
  BY <1>2 DEF Stages
<1>5. AdmittedIsTrusted'
  BY <1>2 DEF AdmittedIsTrusted, Trusted
<1> QED BY <1>1, <1>3, <1>4, <1>5

(* A check that goes on without reading anything new keeps the invariant   *)
(* if it may be where it goes.                                             *)
LEMMA AdvanceKeeps ==
  ASSUME IInv, NEW s \in Spawns, NEW to \in Pcs, Advance(s, to),
         UNCHANGED <<verified, digest, material>>,
         to \in {"start", "found"} => digest[s] = None,
         to \notin {"start", "found", "refused"} => digest[s] \in Digests,
         to = "verifying" => config.enabled,
         to # "manifest",
         to = "admitted" /\ config.enabled => digest[s] \in Trusted
  PROVE  IInv'
<1> USE DEF Advance, disk, IInv
<1>1. TypeOK'
  BY DEF TypeOK
<1>2. pc'[s] = to /\ \A t \in Spawns \ {s} : pc'[t] = pc[t]
  BY DEF TypeOK
<1>3. CacheIsOwn'
  BY DEF CacheIsOwn
<1>4. Stages'
  BY <1>2 DEF Stages, Pcs
<1>5. AdmittedIsTrusted'
  BY <1>2 DEF AdmittedIsTrusted, Trusted
<1> QED BY <1>1, <1>3, <1>4, <1>5

LEMMA NextKeepsIInv == IInv /\ [Next]_vars => IInv'
<1> SUFFICES ASSUME IInv, [Next]_vars PROVE IInv'
  OBVIOUS
<1> USE DEF IInv
<1>1. ASSUME NEW s \in Spawns,
             NotFound(s) \/ Writable(s) \/ Unreadable(s) \/ NoIdentity(s)
               \/ NoMechanism(s) \/ NotProven(s)
      PROVE  IInv'
  BY <1>1, RefuseKeeps
     DEF NotFound, Writable, Unreadable, NoIdentity, NoMechanism, NotProven, Reasons
<1>2. ASSUME NEW s \in Spawns, Find(s) PROVE IInv'
  BY <1>2, AdvanceKeeps DEF Find, Stages, Pcs
<1>3. ASSUME NEW s \in Spawns, Hash(s) PROVE IInv'
  <2> USE <1>3 DEF Hash, Advance, disk
  <2>1. binary \in Digests /\ digest[s] = None /\ material[s] = None
    BY NamesAssumption DEF TypeOK, Stages, CacheIsOwn
  <2>2. TypeOK'
    BY <2>1 DEF TypeOK, Pcs
  <2>3. /\ pc'[s] = "hashed" /\ \A t \in Spawns \ {s} : pc'[t] = pc[t]
        /\ digest'[s] = binary /\ \A t \in Spawns \ {s} : digest'[t] = digest[t]
    BY DEF TypeOK
  <2>4. CacheIsOwn'
    BY <2>1, <2>3 DEF CacheIsOwn
  <2>5. Stages'
    BY <2>1, <2>3 DEF Stages
  <2>6. AdmittedIsTrusted'
    BY <2>3 DEF AdmittedIsTrusted, Trusted
  <2> QED BY <2>2, <2>4, <2>5, <2>6
<1>4. ASSUME NEW s \in Spawns, DevelopmentRefuses(s) \/ ManifestRefuses(s) PROVE IInv'
  BY <1>4, RefuseKeeps, ReasonIsOne DEF DevelopmentRefuses, ManifestRefuses, Reasons
<1>5. ASSUME NEW s \in Spawns, DevelopmentAdmits(s) PROVE IInv'
  BY <1>5, AdvanceKeeps DEF DevelopmentAdmits, Stages, Pcs
<1>6. ASSUME NEW s \in Spawns, Ask(s) PROVE IInv'
  BY <1>6, AdvanceKeeps DEF Ask, MayLookUp, Stages, Pcs
<1>7. ASSUME NEW s \in Spawns, ManifestAdmits(s) PROVE IInv'
  <2>1. digest[s] \in Trusted /\ digest[s] \in Digests
    BY <1>7, ManifestVerdict DEF ManifestAdmits, Stages
  <2> QED BY <1>7, <2>1, AdvanceKeeps DEF ManifestAdmits, Pcs
<1>8. ASSUME NEW s \in Spawns, Hit(s) PROVE IInv'
  <2> USE <1>8 DEF Hit, MayLookUp, Cached, Advance, disk
  <2>1. digest[s] \in Digests /\ verified[digest[s]] = digest[s] /\ digest[s] \in Signed
    BY DEF Stages, CacheIsOwn
  <2>2. TypeOK'
    BY <2>1 DEF TypeOK, Pcs
  <2>3. /\ pc'[s] = "manifest" /\ \A t \in Spawns \ {s} : pc'[t] = pc[t]
        /\ material'[s] = digest[s] /\ \A t \in Spawns \ {s} : material'[t] = material[t]
    BY <2>1 DEF TypeOK
  <2>4. CacheIsOwn'
    BY <2>1, <2>3 DEF CacheIsOwn
  <2>5. Stages'
    BY <2>1, <2>3 DEF Stages
  <2>6. AdmittedIsTrusted'
    BY <2>3 DEF AdmittedIsTrusted, Trusted
  <2> QED BY <2>2, <2>4, <2>5, <2>6
<1>9. ASSUME NEW s \in Spawns, NEW d \in Digests, OtherBytes(s, d) \/ NoManifest(s, d)
      PROVE  IInv'
  BY <1>9, RefuseKeeps DEF OtherBytes, NoManifest, Reasons
<1>10. ASSUME NEW s \in Spawns, NEW d \in Digests, Keep(s, d) PROVE IInv'
  <2> USE <1>10 DEF Keep, Answers, SameBytes, Advance, disk
  <2>1. d = digest[s] /\ d \in Signed /\ config.enabled
    BY DEF Stages
  <2>2. TypeOK'
    BY <2>1 DEF TypeOK, Pcs
  <2>3. /\ pc'[s] = "manifest" /\ \A t \in Spawns \ {s} : pc'[t] = pc[t]
        /\ material'[s] = digest[s] /\ \A t \in Spawns \ {s} : material'[t] = material[t]
        /\ verified'[d] = d /\ \A c \in Digests \ {d} : verified'[c] = verified[c]
    BY <2>1 DEF TypeOK
  <2>4. CacheIsOwn'
    BY <2>1, <2>3 DEF CacheIsOwn
  <2>5. Stages'
    BY <2>1, <2>3 DEF Stages
  <2>6. AdmittedIsTrusted'
    BY <2>3 DEF AdmittedIsTrusted, Trusted
  <2> QED BY <2>2, <2>4, <2>5, <2>6
<1>12. ASSUME NEW d \in Digests \cup {Missing}, NEW m \in Sidecars, Replace(d, m)
       PROVE  IInv'
  BY <1>12 DEF Replace, Hashed, TypeOK, CacheIsOwn, Stages, AdmittedIsTrusted, Trusted
<1>13. ASSUME UNCHANGED vars PROVE IInv'
  BY <1>13 DEF vars, TypeOK, CacheIsOwn, Stages, AdmittedIsTrusted, Trusted
<1> QED BY <1>1, <1>2, <1>3, <1>4, <1>5, <1>6, <1>7, <1>8, <1>9, <1>10, <1>12, <1>13
        DEF Next, Spawn

LEMMA IInvInvariant == Spec => []IInv
BY InitIInv, NextKeepsIInv, PTL DEF Spec

(* Every variable keeps to its type.                                       *)
THEOREM TypeCorrect == Spec => []TypeOK
BY IInvInvariant, PTL DEF IInv

(* The cache keeps under a digest the signed material of that digest.      *)
THEOREM CacheKeepsItsOwn == Spec => []CacheIsOwn
BY IInvInvariant, PTL DEF IInv

-----------------------------------------------------------------------------
(* The causes of a refusal, and the window between hash and execution.     *)

(* Until the file is replaced, it is what was hashed.                      *)
Unswapped == \A s \in Spawns : digest[s] # None /\ s \notin swapped => binary = digest[s]

Causes == RefusalHasCause /\ Unswapped

LEMMA RefuseKeepsCauses ==
  ASSUME IInv, Causes, NEW s \in Spawns, NEW why \in Reasons, Refuse(s, why),
         why = "digest_mismatch" => s \in swapped,
         why = "manifest_rejected" /\ config.enabled =>
           digest[s] \in Signed /\ ~Exact(ManifestOf[digest[s]], Expected)
  PROVE  Causes'
<1> USE DEF Refuse, disk, IInv, TypeOK, Causes
<1>1. /\ reason'[s] = why /\ \A t \in Spawns \ {s} : reason'[t] = reason[t]
      /\ pc'[s] = "refused" /\ \A t \in Spawns \ {s} : pc'[t] = pc[t]
  OBVIOUS
<1>2. RefusalHasCause'
  BY <1>1 DEF RefusalHasCause
<1>3. Unswapped'
  BY DEF Unswapped
<1> QED BY <1>2, <1>3

(* Steps that neither read the file nor refuse.                            *)
LEMMA AdvanceKeepsCauses ==
  ASSUME Causes, NEW s \in Spawns, NEW to \in Pcs, Advance(s, to), UNCHANGED digest
  PROVE  Causes'
BY DEF Advance, disk, Causes, RefusalHasCause, Unswapped

LEMMA RejectedForCause ==
  ASSUME IInv, NEW s \in Spawns, pc[s] = "manifest",
         ManifestReason(ManifestOf[material[s]]) = "manifest_rejected"
  PROVE  digest[s] \in Signed /\ ~Exact(ManifestOf[digest[s]], Expected)
<1>1. material[s] = digest[s] /\ digest[s] \in Signed
  BY DEF IInv, Stages
<1>2. Check(ManifestOf[digest[s]], Expected) # "none"
  BY <1>1 DEF ManifestReason
<1>3. JudgesExactly(ManifestOf[digest[s]], Expected)
  BY <1>1, SignedAssumption, ManifestAssumption, CheckIsExact
<1> QED BY <1>1, <1>2, <1>3 DEF JudgesExactly

LEMMA NextKeepsCauses == IInv /\ Causes /\ [Next]_vars => Causes'
<1> SUFFICES ASSUME IInv, Causes, [Next]_vars PROVE Causes'
  OBVIOUS
<1>1. ASSUME NEW s \in Spawns,
             NotFound(s) \/ Writable(s) \/ Unreadable(s) \/ NoIdentity(s)
               \/ NoMechanism(s) \/ NotProven(s)
      PROVE  Causes'
  BY <1>1, RefuseKeepsCauses
     DEF NotFound, Writable, Unreadable, NoIdentity, NoMechanism, NotProven, Reasons
<1>2. ASSUME NEW s \in Spawns, DevelopmentRefuses(s) PROVE Causes'
  BY <1>2, RefuseKeepsCauses, ReasonIsOne DEF DevelopmentRefuses, Reasons
<1>3. ASSUME NEW s \in Spawns, ManifestRefuses(s) PROVE Causes'
  BY <1>3, RefuseKeepsCauses, ReasonIsOne, RejectedForCause DEF ManifestRefuses, Reasons
<1>4. ASSUME NEW s \in Spawns, NEW d \in Digests, OtherBytes(s, d) PROVE Causes'
  <2>1. d = binary /\ d # digest[s] /\ digest[s] \in Digests
    BY <1>4 DEF OtherBytes, Answers, SameBytes, IInv, Stages
  <2>2. s \in swapped
    BY <2>1, NamesAssumption DEF Causes, Unswapped
  <2> QED BY <1>4, <2>2, RefuseKeepsCauses DEF OtherBytes, Reasons
<1>5. ASSUME NEW s \in Spawns, NEW d \in Digests, NoManifest(s, d) PROVE Causes'
  BY <1>5, RefuseKeepsCauses DEF NoManifest, Reasons
<1>6. ASSUME NEW s \in Spawns,
             Find(s) \/ DevelopmentAdmits(s) \/ Ask(s) \/ Hit(s) \/ ManifestAdmits(s)
               \/ \E d \in Digests : Keep(s, d)
      PROVE  Causes'
  BY <1>6, AdvanceKeepsCauses DEF Find, DevelopmentAdmits, Ask, Hit, ManifestAdmits, Keep, Pcs
<1>7. ASSUME NEW s \in Spawns, Hash(s) PROVE Causes'
  <2> USE <1>7 DEF Hash, Advance, disk, Causes
  <2>1. /\ pc'[s] = "hashed" /\ \A t \in Spawns \ {s} : pc'[t] = pc[t]
        /\ digest'[s] = binary /\ \A t \in Spawns \ {s} : digest'[t] = digest[t]
    BY DEF IInv, TypeOK
  <2>2. digest[s] = None /\ None \notin Signed
    BY SignedAssumption, NamesAssumption DEF IInv, Stages
  <2>3. Unswapped'
    BY <2>1 DEF Unswapped
  <2>4. RefusalHasCause'
    BY <2>1, <2>2 DEF RefusalHasCause
  <2> QED BY <2>3, <2>4
<1>9. ASSUME NEW d \in Digests \cup {Missing}, NEW m \in Sidecars, Replace(d, m)
      PROVE  Causes'
  BY <1>9 DEF Replace, Hashed, Causes, RefusalHasCause, Unswapped
<1>10. ASSUME UNCHANGED vars PROVE Causes'
  BY <1>10 DEF vars, Causes, RefusalHasCause, Unswapped
<1> QED BY <1>1, <1>2, <1>3, <1>4, <1>5, <1>6, <1>7, <1>9, <1>10 DEF Next, Spawn

LEMMA CausesInvariant == Spec => []Causes
<1>1. Init => Causes
  BY DEF Init, Causes, RefusalHasCause, Unswapped
<1> QED BY <1>1, IInvInvariant, NextKeepsCauses, PTL DEF Spec

(* A refusal has the cause it names.                                       *)
THEOREM RefusalsHaveCauses == Spec => []RefusalHasCause
BY CausesInvariant, PTL DEF Causes

-----------------------------------------------------------------------------
(* The preflight.                                                          *)

(* The gate is to verify and cannot.                                       *)
Unmet == config.enabled /\ ~(config.verifier /\ config.identity)

(* Then nothing is verified and nothing is kept.                           *)
Idle ==
  Unmet =>
    /\ \A d \in Digests : verified[d] = None
    /\ \A s \in Spawns :
         /\ pc[s] \in {"start", "found", "hashed", "verifying", "refused"}
         /\ pc[s] = "verifying" => config.identity /\ config.verifier

LEMMA NextKeepsIdle ==
  IInv /\ Idle /\ PreflightIsHonest /\ [Next]_vars => Idle' /\ PreflightIsHonest'
<1> SUFFICES ASSUME IInv, Idle, PreflightIsHonest, [Next]_vars
             PROVE  Idle' /\ PreflightIsHonest'
  OBVIOUS
<1> USE DEF Unmet, PreflightFails, FreshVerifier
<1>1. ASSUME NEW s \in Spawns, NEW why \in Reasons, Refuse(s, why),
             why \in {"identity_not_configured", "mechanism_unavailable"} => Unmet
      PROVE  Idle' /\ PreflightIsHonest'
  <2>1. /\ pc'[s] = "refused" /\ \A t \in Spawns \ {s} : pc'[t] = pc[t]
        /\ reason'[s] = why /\ \A t \in Spawns \ {s} : reason'[t] = reason[t]
        /\ config' = config /\ verified' = verified
    BY <1>1 DEF Refuse, disk, IInv, TypeOK
  <2> QED BY <1>1, <2>1 DEF Idle, PreflightIsHonest
<1>2. ASSUME NEW s \in Spawns, NEW to \in Pcs, Advance(s, to),
             Unmet => verified' = verified /\ to \in {"found", "hashed"}
      PROVE  Idle' /\ PreflightIsHonest'
  <2>1. /\ pc'[s] = to /\ \A t \in Spawns \ {s} : pc'[t] = pc[t]
        /\ reason' = reason /\ config' = config
    BY <1>2 DEF Advance, disk, IInv, TypeOK
  <2>2. Idle'
    BY <1>2, <2>1 DEF Idle
  <2>3. PreflightIsHonest'
    BY <1>2, <2>1 DEF Idle, PreflightIsHonest
  <2> QED BY <2>2, <2>3
<1>3. ASSUME NEW s \in Spawns,
             NotFound(s) \/ Writable(s) \/ Unreadable(s) \/ NoIdentity(s) \/ NoMechanism(s)
               \/ NotProven(s) \/ \E d \in Digests : OtherBytes(s, d) \/ NoManifest(s, d)
      PROVE  Idle' /\ PreflightIsHonest'
  BY <1>1, <1>3 DEF NotFound, Writable, Unreadable, NoIdentity, NoMechanism, MayLookUp,
                    NotProven, OtherBytes, NoManifest, Reasons
<1>4. ASSUME NEW s \in Spawns, DevelopmentRefuses(s) \/ ManifestRefuses(s)
      PROVE  Idle' /\ PreflightIsHonest'
  BY <1>1, <1>4, ReasonIsOne DEF DevelopmentRefuses, ManifestRefuses, Reasons
<1>5. ASSUME NEW s \in Spawns, Find(s) \/ Hash(s) PROVE Idle' /\ PreflightIsHonest'
  BY <1>2, <1>5 DEF Find, Hash, Pcs
<1>6. ASSUME NEW s \in Spawns, DevelopmentAdmits(s) \/ ManifestAdmits(s)
      PROVE  Idle' /\ PreflightIsHonest'
  <2>1. ~Unmet
    BY <1>6 DEF DevelopmentAdmits, ManifestAdmits, Idle
  <2> QED BY <1>2, <1>6, <2>1 DEF DevelopmentAdmits, ManifestAdmits, Pcs
<1>7. ASSUME NEW s \in Spawns, Hit(s) \/ Ask(s) \/ \E d \in Digests : Keep(s, d)
      PROVE  Idle' /\ PreflightIsHonest'
  <2>1. digest[s] \in Digests
    BY <1>7 DEF Hit, Ask, Keep, MayLookUp, Answers, IInv, Stages
  <2>2. ~Unmet
    BY <1>7, <2>1 DEF Hit, Ask, Keep, MayLookUp, Answers, Cached, Idle
  <2> QED BY <1>2, <1>7, <2>2 DEF Hit, Ask, Keep, Pcs
<1>8. ASSUME NEW d \in Digests \cup {Missing}, NEW m \in Sidecars, Replace(d, m)
      PROVE  Idle' /\ PreflightIsHonest'
  BY <1>8 DEF Replace, Idle, PreflightIsHonest
<1>9. ASSUME UNCHANGED vars PROVE Idle' /\ PreflightIsHonest'
  BY <1>9 DEF vars, Idle, PreflightIsHonest
<1> QED BY <1>3, <1>4, <1>5, <1>6, <1>7, <1>8, <1>9 DEF Next, Spawn

(* What the preflight reports comes true, as far as it can: it does not    *)
(* know of a verifier that the spawning gate was given.                    *)
THEOREM PreflightTellsTheEffect == Spec => []PreflightIsHonest
<1>1. Init => Idle /\ PreflightIsHonest
  BY DEF Init, Idle, PreflightIsHonest
<1> QED BY <1>1, IInvInvariant, NextKeepsIdle, PTL DEF Spec

-----------------------------------------------------------------------------
(* The refinement.                                                         *)

(* A verdict is told from its check's place and digest.                    *)
LEMMA VerdictOf ==
  ASSUME NEW s \in Spawns
  PROVE  /\ pc[s] = "admitted" => Verdict[s] = Abstract!Admitted(digest[s])
         /\ pc[s] = "refused" => Verdict[s] = Abstract!Refused
         /\ pc[s] \notin {"admitted", "refused"} => Verdict[s] = Abstract!Undecided
BY DEF Verdict, Abstract!Admitted, Abstract!Refused, Abstract!Undecided

LEMMA Undisturbed ==
  ASSUME NEW s \in Spawns, pc'[s] = pc[s], digest'[s] = digest[s]
  PROVE  Verdict'[s] = Verdict[s]
BY DEF Verdict

(* Steps between two decisions leave every verdict.                        *)
LEMMA SilentStep ==
  ASSUME UNCHANGED config,
         \A s \in Spawns :
           \/ pc'[s] = pc[s] /\ digest'[s] = digest[s]
           \/ /\ pc[s] \notin {"admitted", "refused"}
              /\ pc'[s] \notin {"admitted", "refused"}
  PROVE  UNCHANGED Abstract!vars
<1>1. Verdict' = Verdict
  BY DEF Verdict
<1> QED BY <1>1 DEF Abstract!vars

LEMMA RefuseIsRefuse ==
  ASSUME IInv, NEW s \in Spawns, NEW why, Refuse(s, why), pc[s] \notin {"admitted", "refused"}
  PROVE  Abstract!Next
<1>1. /\ pc'[s] = "refused" /\ \A t \in Spawns \ {s} : pc'[t] = pc[t]
      /\ digest' = digest /\ config' = config
  BY DEF Refuse, disk, IInv, TypeOK
<1>2. Verdict' = [Verdict EXCEPT ![s] = Abstract!Refused]
  BY <1>1 DEF Verdict, Abstract!Refused
<1>3. Verdict[s] = Abstract!Undecided
  BY VerdictOf
<1> QED BY <1>1, <1>2, <1>3 DEF Abstract!Next, Abstract!Refuse

LEMMA AdmitIsAdmit ==
  ASSUME IInv, IInv', NEW s \in Spawns, Advance(s, "admitted"), UNCHANGED digest,
         pc[s] \notin {"admitted", "refused"}
  PROVE  Abstract!Next
<1>1. /\ pc'[s] = "admitted" /\ \A t \in Spawns \ {s} : pc'[t] = pc[t]
      /\ digest' = digest /\ config' = config
  BY DEF Advance, disk, IInv, TypeOK
<1>2. digest[s] \in Digests /\ (config.enabled => digest[s] \in Trusted)
  BY <1>1 DEF IInv, Stages, AdmittedIsTrusted, Trusted
<1>3. Verdict' = [Verdict EXCEPT ![s] = Abstract!Admitted(digest[s])]
  BY <1>1 DEF Verdict, Abstract!Admitted
<1>4. Verdict[s] = Abstract!Undecided
  BY VerdictOf
<1>5. Abstract!Admit(s, digest[s])
  BY <1>1, <1>2, <1>3, <1>4 DEF Abstract!Admit
<1> QED BY <1>2, <1>5 DEF Abstract!Next

LEMMA StepRefines == IInv /\ IInv' /\ [Next]_vars => [Abstract!Next]_(Abstract!vars)
<1> SUFFICES ASSUME IInv, IInv', [Next]_vars PROVE Abstract!Next \/ UNCHANGED Abstract!vars
  OBVIOUS
<1>1. ASSUME NEW s \in Spawns,
             NotFound(s) \/ Writable(s) \/ Unreadable(s) \/ NoIdentity(s)
               \/ NoMechanism(s) \/ NotProven(s) \/ DevelopmentRefuses(s)
               \/ ManifestRefuses(s) \/ \E d \in Digests : OtherBytes(s, d) \/ NoManifest(s, d)
      PROVE  Abstract!Next
  BY <1>1, RefuseIsRefuse
     DEF NotFound, Writable, Unreadable, NoIdentity, NoMechanism, NotProven, MayLookUp,
         DevelopmentRefuses, ManifestRefuses, OtherBytes, NoManifest, Answers
<1>2. ASSUME NEW s \in Spawns, DevelopmentAdmits(s) \/ ManifestAdmits(s)
      PROVE  Abstract!Next
  BY <1>2, AdmitIsAdmit DEF DevelopmentAdmits, ManifestAdmits
<1>3. ASSUME NEW s \in Spawns,
             Find(s) \/ Ask(s) \/ Hit(s) \/ \E d \in Digests : Keep(s, d)
      PROVE  UNCHANGED Abstract!vars
  <2>1. PICK to \in {"found", "verifying", "manifest"} :
          Advance(s, to) /\ UNCHANGED digest /\ pc[s] \notin {"admitted", "refused"}
    BY <1>3 DEF Find, Ask, Hit, Keep, MayLookUp, Answers
  <2>2. pc'[s] = to /\ (\A t \in Spawns \ {s} : pc'[t] = pc[t]) /\ config' = config
    BY <2>1 DEF Advance, disk, IInv, TypeOK
  <2> QED BY <2>1, <2>2, SilentStep
<1>4. ASSUME NEW s \in Spawns, Hash(s) PROVE UNCHANGED Abstract!vars
  <2>1. /\ pc[s] = "found" /\ pc'[s] = "hashed" /\ config' = config
        /\ \A t \in Spawns \ {s} : pc'[t] = pc[t] /\ digest'[t] = digest[t]
    BY <1>4 DEF Hash, Advance, disk, IInv, TypeOK
  <2> QED BY <2>1, SilentStep
<1>6. ASSUME NEW d \in Digests \cup {Missing}, NEW m \in Sidecars, Replace(d, m)
      PROVE  UNCHANGED Abstract!vars
  BY <1>6, SilentStep DEF Replace
<1>7. ASSUME UNCHANGED vars PROVE UNCHANGED Abstract!vars
  BY <1>7, SilentStep DEF vars
<1> QED BY <1>1, <1>2, <1>3, <1>4, <1>6, <1>7 DEF Next, Spawn

(* The gate implements module Admission: one verdict for each spawn, and   *)
(* with verification enabled only a trusted artifact is admitted.          *)
THEOREM ImplementsTheAdmission == Spec => ImplementsAdmission
<1>1. Init => Abstract!Init
  BY DEF Init, Configs, Verdict, Abstract!Init, Abstract!Undecided
<1> QED BY <1>1, IInvInvariant, StepRefines, PTL DEF Spec, ImplementsAdmission, Abstract!Spec

(* CapabilityManifest::check accepts exactly the manifests that declare    *)
(* quarry's two capabilities, of whatever length, for any gateway's port.  *)
THEOREM ManifestsAreJudgedExactly == Spec => []ManifestCheckIsExact
<1>1. ManifestCheckIsExact
  <2> SUFFICES ASSUME NEW m \in Drafts, NEW port \in Ports
               PROVE  JudgesExactly(m, [Expected EXCEPT !.port = port])
    BY DEF ManifestCheckIsExact
  <2> DEFINE expected == [Expected EXCEPT !.port = port]
  <2>1. m.caps \in Seq(Capability) /\ expected.port \in Nat
    BY ManifestAssumption
  <2> HIDE DEF expected
  <2>2. JudgesExactly(m, expected)
    BY <2>1, CheckIsExact
  <2> QED BY <2>2 DEF expected
<1> QED BY <1>1, PTL
=============================================================================
