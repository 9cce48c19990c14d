----------------------------- MODULE MCSpawnGate ----------------------------
(* Two concurrent spawns, four binaries: one signed with quarry's own      *)
(* manifest, one with a manifest that asks for more, one with a blank one, *)
(* and one that nobody signed.                                             *)
EXTENDS SpawnGate, FiniteSets

Cap(kind, host, port, path) ==
  [kind |-> kind, host |-> host, port |-> port, path |-> path]

Egress == Cap("localhost-egress", "127.0.0.1", 8080, "")
RunDir == Cap("writable-dir", "", 0, "quarry-runs")

Json(caps) ==
  [text |-> "json", schema |-> "quarry-capability-manifest/1", caps |-> caps]
Garbage == [text |-> "garbage", schema |-> "", caps |-> <<>>]

MCExpected   == [port |-> 8080, dir |-> "quarry-runs"]
MCDigests    == {"good", "broad", "unsigned", "bare"}
MCSigned     == {"good", "broad", "bare"}
MCManifestOf ==
  [d \in MCDigests |->
     CASE d = "good"  -> Json(<<RunDir, Egress>>)
       [] d = "broad" -> Json(<<Egress, RunDir, Cap("network-egress", "", 0, "")>>)
       [] d = "bare"  -> [Garbage EXCEPT !.text = "blank"]
       [] OTHER       -> Garbage]
MCSidecars == {Garbage, Json(<<Egress, RunDir>>), Json(<<Egress, RunDir, RunDir>>)}

(* Every manifest of up to three entries over these, against a gateway     *)
(* that knows its port and one that does not (MCPorts).                    *)
Entries ==
  {Egress, RunDir,
   Cap("localhost-egress", "", 8080, ""), Cap("localhost-egress", "example.org", 8080, ""),
   Cap("localhost-egress", "localhost", 0, ""), Cap("localhost-egress", "::1", 9090, ""),
   Cap("writable-dir", "", 0, ""), Cap("writable-dir", "", 0, "elsewhere"),
   Cap("network-egress", "", 0, "")}

MCDrafts ==
  {[text |-> "json", schema |-> schema, caps |-> caps] :
     schema \in {"quarry-capability-manifest/1", "quarry-capability-manifest/2"},
     caps \in UNION {[1..n -> Entries] : n \in 0..3}}

MCPorts == {0, 8080}
=============================================================================
