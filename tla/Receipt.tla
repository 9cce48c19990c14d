------------------------------ MODULE Receipt ------------------------------
(***************************************************************************)
(* The reply a finished run is answered with: the answer, and under it the *)
(* receipt that says what the run cost, what stopped it and what is        *)
(* missing (src/src/quarry/receipt.rs).                                    *)
(*                                                                         *)
(* A receipt is made once, from what the supervising task hands back: the  *)
(* events it read, the record it found and the termination it settled on.  *)
(* So it adds no state to RunStream; it is an operator of a reported run.  *)
(* Amounts, names and wording are left out: what counts is which of the    *)
(* statements a reader would act on the reply makes.                       *)
(***************************************************************************)
EXTENDS RunStream

(* What quarry counts in its outcome event: nodes that time cut short, and *)
(* nodes the spend cap priced out; never one sum.                          *)
GapsOf(p) == p.verdict = "time-truncated" \/ p.bound \in {"latency", "due"}
UnfundedOf(p) == p.bound = "spend"

(* Total, limit, gaps and unfunded are the outcome event's: a run whose    *)
(* outcome was not read has no total, and none of the other three.         *)
Spend    == Closed
BoundBy  == IF Closed THEN plan.bound ELSE "none"
Gaps     == Closed /\ GapsOf(plan)
Unfunded == Closed /\ UnfundedOf(plan)

(* What the record adds, when it could be read: the cap the total is set   *)
(* against, and the names of the nodes that gapped.                        *)
Against  == Spend /\ record # "none"
GapNodes == Gaps /\ record # "none"

(* Rows to add up are there only if the receipt event was read; the total  *)
(* does not depend on them.                                                *)
Itemised == Seen("receipt")

(* termination_note: every end that is not quarry's own verdict is said.   *)
Note_timeout_mutant(t) ==
  t.kind \notin {"completed", "truncated", "no_answer", "timed_out"}
Note(t) == t.kind \notin {"completed", "truncated", "no_answer"}

(* Receipt::from_outcome, and what render makes of it.                     *)
ReplyTo(t) ==
  [answer   |-> Answered,      \* or "No answer."
   spend    |-> Spend,         \* or "not reported"
   against  |-> Against,
   bound    |-> BoundBy,       \* "none": "No limit was reached."
   gaps     |-> Gaps,
   named    |-> GapNodes,
   unfunded |-> Unfunded,
   rows     |-> Itemised,
   note     |-> Note(t)]

-----------------------------------------------------------------------------
(* A reply with nothing to disclose: an answer, a total, no limit reached, *)
(* nothing missing and no note on how the run ended.                       *)
Clean(r) ==
  r.answer /\ r.spend /\ r.bound = "none" /\ ~r.gaps /\ ~r.unfunded /\ ~r.note

(* A reply with nothing to disclose was made of a run with nothing to      *)
(* disclose: its child ended by itself, in a contract this build speaks,   *)
(* and quarry's own word on it was complete, or a word this build does not *)
(* have; whatever was lost of the stream, and whoever's timer, kill,       *)
(* fault or garbled line came first (Receipt::render).                     *)
CleanReplyIsComplete ==
  Reported /\ Clean(ReplyTo(ended)) =>
    /\ plan.verdict \in {"complete", "novel"}
    /\ forced = "no" /\ child \in Codes
    /\ Opened => plan.frame = "supported"
=============================================================================
