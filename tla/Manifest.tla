------------------------------ MODULE Manifest ------------------------------
(***************************************************************************)
(* The capability manifest of a quarry binary and its check                *)
(* (src/src/quarry/verify.rs, CapabilityManifest::check).  A manifest      *)
(* lists capabilities in an order of its author's; the code walks the list *)
(* once, remembering the two kinds it has met, and then looks at the two   *)
(* it kept.  A port of 0 and a path or a host of "" stand for the field    *)
(* that is absent.                                                         *)
(***************************************************************************)
EXTENDS Naturals, Sequences

Kinds == {"localhost-egress", "writable-dir"}

(* LOOPBACK_HOSTS, and a manifest that names no host.                      *)
Loopback == {"", "127.0.0.1", "localhost", "::1", "[::1]"}

(* RawCapability.                                                          *)
Capability == [kind : STRING, host : STRING, port : Nat, path : STRING]

(* deny_unknown_fields and the rest of the parser: what the text is.       *)
Texts == {"blank", "garbage", "json"}

-----------------------------------------------------------------------------
(* The loop refuses the first entry of an unknown kind, or of a kind that  *)
(* it has met.                                                             *)
Met_mutant(caps, i) == caps[i].kind = "localhost-egress"
                       /\ \E j \in 1..(i - 1) : caps[j].kind = caps[i].kind
Met(caps, i) == \E j \in 1..(i - 1) : caps[j].kind = caps[i].kind

Stops(caps) == {i \in DOMAIN caps : caps[i].kind \notin Kinds \/ Met(caps, i)}

(* The entry of a kind; looked at only after the loop, when it is unique.  *)
Entry_mutant(caps, kind) == caps[IF kind = "localhost-egress" THEN 1 ELSE 2]
Entry(caps, kind) == caps[CHOOSE i \in DOMAIN caps : caps[i].kind = kind]
Lacks(caps, kind) == \A i \in DOMAIN caps : caps[i].kind # kind

(* expected.gateway_port is None: no port is right.                        *)
EgressFault(cap, expected) ==
  IF cap.host \notin Loopback          THEN "non_loopback_host"
  ELSE IF cap.port = 0                 THEN "port_missing"
  ELSE IF expected.port = 0            THEN "port_unknown"
  ELSE IF cap.port # expected.port     THEN "wrong_port" ELSE "none"

(* same_dir, of two names in normal form.                                  *)
DirFault(cap, expected) ==
  IF cap.path = ""                     THEN "dir_missing"
  ELSE IF cap.path # expected.dir      THEN "wrong_dir" ELSE "none"

CapsFault(caps, expected) ==
  LET first == CHOOSE i \in Stops(caps) : \A j \in Stops(caps) : i <= j
      egress == EgressFault(Entry(caps, "localhost-egress"), expected)
  IN IF Stops(caps) # {}
     THEN IF caps[first].kind \in Kinds THEN "duplicate" ELSE "overbroad"
     ELSE IF \E kind \in Kinds : Lacks(caps, kind) THEN "missing"
     ELSE IF egress # "none" THEN egress
     ELSE DirFault(Entry(caps, "writable-dir"), expected)

(* CapabilityManifest::check: "none" is Ok.                                *)
Check(m, expected) ==
  IF m.schema # "quarry-capability-manifest/1" THEN "unknown_schema"
  ELSE CapsFault(m.caps, expected)

-----------------------------------------------------------------------------
(* What the manifest is required to say, and nothing more: exactly two     *)
(* entries, one egress to this gateway and one writable directory, in      *)
(* either order.                                                           *)
IsEgress(cap, expected) ==
  /\ cap.kind = "localhost-egress"
  /\ cap.host \in Loopback
  /\ cap.port = expected.port /\ expected.port # 0

IsRunDir(cap, expected) ==
  /\ cap.kind = "writable-dir"
  /\ cap.path = expected.dir /\ cap.path # ""

Exact(m, expected) ==
  /\ m.schema = "quarry-capability-manifest/1"
  /\ Len(m.caps) = 2
  /\ \E i, j \in 1..2 : IsEgress(m.caps[i], expected)
                        /\ IsRunDir(m.caps[j], expected)

(* The check accepts exactly those, whatever the order, the number and the *)
(* repetitions of the entries.                                             *)
JudgesExactly(m, expected) ==
  (Check(m, expected) = "none") <=> Exact(m, expected)
=============================================================================
