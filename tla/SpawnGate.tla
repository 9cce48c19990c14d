------------------------------ MODULE SpawnGate -----------------------------
(***************************************************************************)
(* The signed-binary gate every quarry spawn passes                        *)
(* (src/src/quarry/verify.rs, SpawnGate::check).  Checks of several spawns *)
(* run on different threads and share one cache; the operator replaces the *)
(* binary, and the manifest beside it, at any time.  Each action is what   *)
(* happens between two reads of something shared.                          *)
(*                                                                         *)
(* A file is replaced whole (by rename): what is hashed was on disk at one *)
(* moment.  The verifier is external: the repository has none, and its     *)
(* contract is the doc of trait SignatureVerifier.                         *)
(***************************************************************************)
EXTENDS Manifest

CONSTANTS
  Spawns,      \* calls of SpawnGate::check
  Digests,     \* what a file can hash to
  Signed,      \* those signed by the expected identity and issuer
  ManifestOf,  \* the manifest each signature covers
  Sidecars,    \* manifests that may lie beside the binary
  Expected,    \* ExpectedCapabilities: port and dir
  Drafts,      \* other manifests the check may be given,
  Ports,       \* by a gateway on one of these ports
  Missing,     \* there is no file
  None         \* no digest

ASSUME SignedAssumption == Signed \subseteq Digests
ASSUME NamesAssumption ==
  /\ Missing \notin Digests /\ None \notin Digests /\ Missing # None
ASSUME ManifestAssumption ==
  /\ \A d \in Digests : ManifestOf[d].caps \in Seq(Capability)
  /\ \A m \in Drafts : m.caps \in Seq(Capability)
  /\ Expected \in [port : Nat, dir : STRING] /\ Ports \subseteq Nat

VARIABLES
  config,     \* QuarryVerificationConfig; the file's mode; is there a verifier
  binary,     \* the digest of the file at binary_path
  sidecar,    \* the manifest beside it
  verified,   \* the cache: for a digest, the digest whose signed material,
              \* and so whose manifest, is kept for it
  pc,         \* how far each check has come
  digest,     \* what it hashed
  material,   \* the digest whose signed material it evaluates
  reason,     \* the check that refused
  swapped     \* spawns whose file was replaced after it was hashed

vars == <<config, binary, sidecar, verified, pc, digest, material, reason,
          swapped>>

disk == <<config, binary, sidecar, swapped>>

Configs == [enabled : BOOLEAN, allow_writable_binary : BOOLEAN,
            writable : BOOLEAN, identity : BOOLEAN, verifier : BOOLEAN]

Pcs == {"start", "found", "hashed", "verifying", "manifest", "admitted",
        "refused"}

Reasons == {"none", "binary_missing", "writable_binary", "digest_unreadable",
            "identity_not_configured", "mechanism_unavailable", "not_proven",
            "digest_mismatch", "manifest_missing", "manifest_unparseable",
            "manifest_rejected"}

TypeOK ==
  /\ config \in Configs
  /\ binary \in Digests \cup {Missing}
  /\ sidecar \in Sidecars
  /\ verified \in [Digests -> Digests \cup {None}]
  /\ pc \in [Spawns -> Pcs]
  /\ digest \in [Spawns -> Digests \cup {None}]
  /\ material \in [Spawns -> Digests \cup {None}]
  /\ reason \in [Spawns -> Reasons]
  /\ swapped \in SUBSET Spawns

Init ==
  /\ config \in Configs
  /\ binary \in Digests \cup {Missing}
  /\ sidecar \in Sidecars
  /\ verified = [d \in Digests |-> None]
  /\ pc = [s \in Spawns |-> "start"]
  /\ digest = [s \in Spawns |-> None]
  /\ material = [s \in Spawns |-> None]
  /\ reason = [s \in Spawns |-> "none"]
  /\ swapped = {}

Hashed == {s \in Spawns : digest[s] # None}

-----------------------------------------------------------------------------
(* The decisions of check_inner, each after a plausible bug in it that no  *)
(* action uses (_mutant).                                                  *)

(* check_writability refuses.                                              *)
Replaceable == config.writable /\ ~config.allow_writable_binary

(* What the cache is looked up by.                                         *)
Cached_mutant(s) ==
  IF \E d \in Digests : verified[d] # None
  THEN verified[CHOOSE d \in Digests : verified[d] # None] ELSE None
Cached(s) == verified[digest[s]]

(* The verifier answered about the bytes that were hashed.                 *)
SameBytes_mutant(s, d) == TRUE
SameBytes(s, d) == d = digest[s]

(* The manifest to evaluate: parse it, then check it.                      *)
ManifestReason(m) ==
  IF m.text # "json"                   THEN "manifest_unparseable"
  ELSE IF Check(m, Expected) # "none"  THEN "manifest_rejected" ELSE "none"

-----------------------------------------------------------------------------
Refuse(s, why) ==
  /\ pc' = [pc EXCEPT ![s] = "refused"]
  /\ reason' = [reason EXCEPT ![s] = why]
  /\ UNCHANGED <<disk, verified, digest, material>>

Advance(s, to) ==
  /\ pc' = [pc EXCEPT ![s] = to]
  /\ UNCHANGED <<disk, reason>>

(* resolve_binary, check_writability.                                      *)
NotFound(s) == pc[s] = "start" /\ binary = Missing /\ Refuse(s, "binary_missing")

Writable(s) ==
  pc[s] = "start" /\ binary # Missing /\ Replaceable /\ Refuse(s, "writable_binary")

Find(s) ==
  /\ pc[s] = "start" /\ binary # Missing /\ ~Replaceable
  /\ Advance(s, "found")
  /\ UNCHANGED <<verified, digest, material>>

(* digest_of.                                                              *)
Unreadable(s) ==
  pc[s] = "found" /\ binary = Missing /\ Refuse(s, "digest_unreadable")

Hash(s) ==
  /\ pc[s] = "found" /\ binary # Missing
  /\ digest' = [digest EXCEPT ![s] = binary]
  /\ Advance(s, "hashed")
  /\ UNCHANGED <<verified, material>>

(* Verification is off: the manifest is the unsigned one beside the file.  *)
DevelopmentRefuses(s) ==
  /\ pc[s] = "hashed" /\ ~config.enabled
  /\ ManifestReason(sidecar) # "none"
  /\ Refuse(s, ManifestReason(sidecar))

DevelopmentAdmits(s) ==
  /\ pc[s] = "hashed" /\ ~config.enabled
  /\ ManifestReason(sidecar) = "none"
  /\ Advance(s, "admitted")
  /\ UNCHANGED <<verified, digest, material>>

(* Verification is on: an identity to check against, then the cache, then  *)
(* a verifier to ask.                                                      *)
NoIdentity(s) ==
  /\ pc[s] = "hashed" /\ config.enabled /\ ~config.identity
  /\ Refuse(s, "identity_not_configured")

MayLookUp_mutant(s) == pc[s] = "hashed" /\ config.enabled
MayLookUp(s) == pc[s] = "hashed" /\ config.enabled /\ config.identity

Hit(s) ==
  /\ MayLookUp(s) /\ Cached(s) # None
  /\ material' = [material EXCEPT ![s] = Cached(s)]
  /\ Advance(s, "manifest")
  /\ UNCHANGED <<verified, digest>>

NoMechanism(s) ==
  /\ MayLookUp(s) /\ Cached(s) = None /\ ~config.verifier
  /\ Refuse(s, "mechanism_unavailable")

Ask(s) ==
  /\ MayLookUp(s) /\ Cached(s) = None /\ config.verifier
  /\ Advance(s, "verifying")
  /\ UNCHANGED <<verified, digest, material>>

(* The verifier refuses: no signature, the wrong identity or issuer, or no *)
(* way to find out.                                                        *)
NotProven(s) == pc[s] = "verifying" /\ Refuse(s, "not_proven")

(* It answers with signed material, of the digest in the request or, if it *)
(* read the file itself, of what lies there now.                           *)
Answers(s, d) ==
  pc[s] = "verifying" /\ d \in Signed /\ d \in {digest[s], binary}

OtherBytes(s, d) ==
  Answers(s, d) /\ ~SameBytes(s, d) /\ Refuse(s, "digest_mismatch")

NoManifest(s, d) ==
  /\ Answers(s, d) /\ SameBytes(s, d) /\ ManifestOf[d].text = "blank"
  /\ Refuse(s, "manifest_missing")

Keep(s, d) ==
  /\ Answers(s, d) /\ SameBytes(s, d) /\ ManifestOf[d].text # "blank"
  /\ verified' = [verified EXCEPT ![digest[s]] = d]
  /\ material' = [material EXCEPT ![s] = d]
  /\ Advance(s, "manifest")
  /\ UNCHANGED digest

(* The manifest is evaluated on every spawn, cached or not.                *)
ManifestRefuses(s) ==
  /\ pc[s] = "manifest" /\ ManifestReason(ManifestOf[material[s]]) # "none"
  /\ Refuse(s, ManifestReason(ManifestOf[material[s]]))

ManifestAdmits(s) ==
  /\ pc[s] = "manifest" /\ ManifestReason(ManifestOf[material[s]]) = "none"
  /\ Advance(s, "admitted")
  /\ UNCHANGED <<verified, digest, material>>

(* The operator installs another binary and manifest, or removes them.     *)
Replace(d, m) ==
  /\ d # binary
  /\ binary' = d /\ sidecar' = m
  /\ swapped' = swapped \cup Hashed
  /\ UNCHANGED <<config, verified, pc, digest, material, reason>>

Spawn(s) ==
  \/ NotFound(s) \/ Writable(s) \/ Find(s) \/ Unreadable(s) \/ Hash(s)
  \/ DevelopmentRefuses(s) \/ DevelopmentAdmits(s)
  \/ NoIdentity(s) \/ Hit(s) \/ NoMechanism(s) \/ Ask(s) \/ NotProven(s)
  \/ \E d \in Digests : OtherBytes(s, d) \/ NoManifest(s, d) \/ Keep(s, d)
  \/ ManifestRefuses(s) \/ ManifestAdmits(s)

Next ==
  \/ \E s \in Spawns : Spawn(s)
  \/ \E d \in Digests \cup {Missing}, m \in Sidecars : Replace(d, m)

Spec == Init /\ [][Next]_vars

-----------------------------------------------------------------------------
(* What is kept for a digest is the signed material of that digest and no  *)
(* other, whatever lies at the path by now and however the checks          *)
(* interleave: a new binary never runs on an old one's verification.       *)
CacheIsOwn ==
  /\ \A d \in Digests : verified[d] \in {None, d} /\ (verified[d] = d => d \in Signed)
  /\ \A s \in Spawns : material[s] \in {None, digest[s]}

(* A refusal has the cause it names: the operator is sent to what is wrong *)
(* and not elsewhere.  A mismatch means the file was replaced under the    *)
(* check; a manifest is rejected for what it declares, not for its order.  *)
RefusalHasCause ==
  \A s \in Spawns :
    /\ reason[s] = "digest_mismatch" => s \in swapped
    /\ reason[s] = "manifest_rejected" /\ config.enabled =>
         digest[s] \in Signed /\ ~Exact(ManifestOf[digest[s]], Expected)

(* CapabilityManifest::check, a loop over the entries and a chain of tests *)
(* after it, accepts exactly the manifests that declare quarry's two       *)
(* capabilities and nothing else.  Asked of the gate before its first      *)
(* check, under every configuration: the answer depends on nothing else.   *)
Untouched ==
  verified = [d \in Digests |-> None] /\ \A s \in Spawns : pc[s] = "start" /\ reason[s] = "none"

ManifestCheckIsExact ==
  Untouched => \A m \in Drafts, port \in Ports :
                 JudgesExactly(m, [Expected EXCEPT !.port = port])

(* The preflight (main.rs, check_quarry_verification) reads the            *)
(* configuration and asks a gate that it builds for the purpose.  A gate   *)
(* just built has no verifier, whatever the one that spawns pass has been  *)
(* given.                                                                  *)
FreshVerifier  == FALSE
PreflightFails == config.enabled /\ ~(FreshVerifier /\ config.identity)

(* What the preflight reports comes true of the gate it did not ask: where *)
(* it says that every run will be refused, none is admitted, unless the    *)
(* gate has been given a verifier and an identity to check against; and no *)
(* run is refused for want of either where it found nothing wrong.         *)
PreflightIsHonest ==
  \A s \in Spawns :
    /\ PreflightFails /\ pc[s] = "admitted" => config.verifier /\ config.identity
    /\ reason[s] \in {"identity_not_configured", "mechanism_unavailable"} => PreflightFails

(* The gate as module Admission promises it: with verification enabled     *)
(* only a digest signed by the expected identity, whose own manifest       *)
(* declares exactly quarry's two capabilities, is ever admitted.           *)
Trusted == {d \in Signed : /\ ManifestOf[d].text = "json"
                           /\ Exact(ManifestOf[d], Expected)}

Verdict == [s \in Spawns |->
  IF pc[s] = "admitted" THEN <<"admitted", digest[s]>>
  ELSE IF pc[s] = "refused" THEN <<"refused">> ELSE <<"undecided">>]

Abstract == INSTANCE Admission WITH mandatory <- config.enabled, verdict <- Verdict

ImplementsAdmission == Abstract!Spec
=============================================================================
