----------------------------- MODULE RunStream -----------------------------
(***************************************************************************)
(* One supervised quarry run, from the spawned child to the termination    *)
(* that is reported for it (src/src/quarry/supervisor.rs, and the readers  *)
(* of the event stream in src/src/quarry/event.rs).                        *)
(*                                                                         *)
(* Three parties interleave: the child, which writes event lines to a pipe *)
(* and ends in its own way; the reader task, which consumes the pipe; and  *)
(* the supervising task, which waits for the child, its timeout or its     *)
(* caller, drains the pipe for a bounded grace and classifies.             *)
(*                                                                         *)
(* The child is not part of this repository.  What it means to do is the   *)
(* variable plan: the frame its stream carries, its verdict, the cap that  *)
(* bound it and whether it has an answer.  Its stream is four lines; any   *)
(* prefix may be all that is written, and a line may be unparseable or not *)
(* even text.                                                              *)
(***************************************************************************)
EXTENDS Naturals, FiniteSets

CONSTANT MaxGarbled   \* bound: how many lines may not parse

ASSUME MaxGarbledAssumption == MaxGarbled \in Nat

VARIABLES
  limited,   \* run_timeout_seconds is not 0; never changes
  plan,      \* what the child set out to report; never changes
  written,   \* lines the child has written
  garbled,   \* which of them do not parse
  binary,    \* which of those are not even UTF-8 text
  readn,     \* lines the reader has consumed
  record,    \* record.json: absent, or does it show the run was cut short
  child,     \* running, or the status it ended with
  held,      \* a descendant of the child holds the pipe's write end
  reader,    \* the stdout reader task
  phase,     \* the supervising task
  due,       \* the run timeout has elapsed
  asked,     \* the caller's cancel signal has fired
  forced,    \* why we stopped the child, if we did
  status,    \* what wait() returned
  ended      \* the termination reported

vars == <<limited, plan, written, garbled, binary, readn, record, child, held,
          reader, phase, due, asked, forced, status, ended>>

childVars == <<plan, written, garbled, binary, record, child, held>>
supVars == <<limited, phase, due, asked, forced, status, ended>>

Lines    == 1 .. 4
Codes    == {"COMPLETE", "FAULT", "USAGE", "TIME_TRUNCATED", "NO_ANSWER"}
Bounds   == {"none", "spend", "latency", "due"}
Verdicts == {"complete", "cap-bound-degradation", "time-truncated", "no-answer",
             "novel"}

(* What a quarry may set out to report: its verdicts with the caps it      *)
(* writes beside them, and a verdict of a later quarry.                    *)
Plans ==
  {p \in [frame : {"supported", "unsupported", "unframed"}, verdict : Verdicts,
          bound : Bounds, answered : BOOLEAN] :
     CASE p.verdict = "complete"              -> p.bound = "none" /\ p.answered
       [] p.verdict = "cap-bound-degradation" -> p.bound = "spend" /\ p.answered
       [] p.verdict = "time-truncated"        -> p.bound # "spend"
       [] p.verdict = "no-answer"             -> ~p.answered /\ p.bound # "due"
       [] p.verdict = "novel"                 -> p.bound \in {"none", "spend"}}

(* Line i of the stream of plan p.  An unframed stream has neither the     *)
(* quarry_stream header nor the quarry_outcome that closes it.             *)
LineOf(p, i) ==
  CASE i = 1 -> IF p.frame = "unframed" THEN "claim" ELSE "header"
    [] i = 2 -> IF p.answered THEN "answer" ELSE "artifact"
    [] i = 3 -> "receipt"
    [] i = 4 -> IF p.frame = "unframed" THEN "artifact" ELSE "outcome"

(* The exit code quarry documents for a verdict.                           *)
CodeOf(v) ==
  CASE v \in {"complete", "cap-bound-degradation"} -> "COMPLETE"
    [] v = "time-truncated" -> "TIME_TRUNCATED"
    [] v = "no-answer"      -> "NO_ANSWER"
    [] v = "novel"          -> "COMPLETE"

Terminations ==
  [kind : {"none", "completed", "truncated", "no_answer", "timed_out", "cancelled",
           "crashed", "killed_by_signal", "stream_malformed",
           "stream_version_unsupported", "stream_incomplete", "usage_error"},
   bound : Bounds]

End(k) == [kind |-> k, bound |-> "none"]
Truncated(b) == [kind |-> "truncated", bound |-> b]

TypeOK ==
  /\ limited \in BOOLEAN /\ plan \in Plans
  /\ written \in 0 .. 4
  /\ garbled \subseteq 1 .. written /\ binary \subseteq garbled
  /\ readn \in 0 .. written
  /\ record \in {"none", "clean", "truncated"}
  /\ child \in Codes \cup {"running", "signal"}
  /\ held \in BOOLEAN
  /\ reader \in {"reading", "done", "stopped", "aborted"}
  /\ phase \in {"waiting", "draining", "drained", "reported"}
  /\ due \in BOOLEAN /\ asked \in BOOLEAN
  /\ forced \in {"no", "timeout", "cancelled"}
  /\ status \in Codes \cup {"signal", "unknown"}
  /\ ended \in Terminations

Init ==
  /\ limited \in BOOLEAN /\ plan \in Plans
  /\ written = 0 /\ garbled = {} /\ binary = {} /\ readn = 0
  /\ record = "none" /\ child = "running" /\ held \in BOOLEAN
  /\ reader = "reading" /\ phase = "waiting"
  /\ due = FALSE /\ asked = FALSE
  /\ forced = "no" /\ status = "unknown" /\ ended = End("none")

-----------------------------------------------------------------------------
(* Classification.  As in module PlanGate, a definition whose name ends in *)
(* _mutant is a plausible bug in the one after it and is used by no action.*)

(* parse_line: an event, of a type we know or not; or a line to be skipped.*)
Parsed(i) == i \notin garbled

(* An event of kind k is among those parsed.                               *)
Seen(k) == \E i \in 1 .. readn : Parsed(i) /\ LineOf(plan, i) = k

Opened   == Seen("header")
Closed   == Seen("outcome")
Answered == Seen("answer")
NoEvents == \A i \in 1 .. readn : ~Parsed(i)

(* stream_version: a declared contract this build does not implement.      *)
WrongVersion_mutant == FALSE
WrongVersion == Opened /\ plan.frame = "unsupported"

(* non_empty(bound_by) or else "latency".                                  *)
TimeFloor_empty_mutant(b) == IF b = "none" THEN "" ELSE b
TimeFloor_mutant(b) == IF b = "none" THEN "spend" ELSE b
TimeFloor(b) == IF b = "none" THEN "latency" ELSE b

(* The exit code decides, where no verdict we know does.                   *)
FromCode(c, b) ==
  CASE c = "COMPLETE" -> IF Answered THEN End("completed") ELSE End("no_answer")
    [] c = "TIME_TRUNCATED" -> Truncated(b)
    [] c = "NO_ANSWER" -> End("no_answer")
    [] c \in {"FAULT", "USAGE"} -> End("crashed")

(* classify_from_outcome: quarry's verdict, then the code.                 *)
FromOutcome(c) ==
  LET v == plan.verdict IN
  CASE v \in {"complete", "cap-bound-degradation"} -> End("completed")
    [] v = "time-truncated" -> Truncated(TimeFloor(plan.bound))
    [] v = "no-answer"      -> End("no_answer")
    [] v = "novel"          -> FromCode(c, TimeFloor(plan.bound))

(* A frame that opened and never closed.                                   *)
Severed(c) == IF c = "FAULT" THEN End("crashed") ELSE End("stream_incomplete")

(* No frame: a fault, then the record, then the code.                      *)
FromRecord(c) ==
  IF c # "FAULT" /\ record = "truncated" THEN Truncated(plan.bound)
  ELSE FromCode(c, "latency")

(* How the events of a child that ended with code c are read.              *)
FromStream_mutant(c) ==
  IF Closed THEN FromOutcome(c) ELSE FromRecord(c)
FromStream(c) ==
  IF Closed THEN FromOutcome(c)
  ELSE IF Opened THEN Severed(c)
  ELSE FromRecord(c)

FromExit(c) ==
  IF WrongVersion THEN End("stream_version_unsupported")
  ELSE IF c = "USAGE" THEN End("usage_error")
  ELSE IF NoEvents THEN End("stream_malformed")
  ELSE FromStream(c)

(* classify: our own kill, a failed wait, a signal, and only then the code.*)
Classify_mutant ==
  IF status = "signal" THEN End("killed_by_signal")
  ELSE IF status = "unknown" THEN End("crashed")
  ELSE FromExit(status)
Classify ==
  IF forced = "timeout" THEN End("timed_out")
  ELSE IF forced = "cancelled" THEN End("cancelled")
  ELSE IF status = "unknown" THEN End("crashed")
  ELSE IF status = "signal" THEN End("killed_by_signal")
  ELSE FromExit(status)

(* The reader sees the end of the pipe once nobody can write to it and it  *)
(* has been emptied.                                                       *)
AtEOF_mutant == child # "running"
AtEOF == child # "running" /\ ~held /\ readn = written

(* drain_grace: the drain ends with the reader, or 500 ms after the wait.  *)
GraceExpires_mutant == FALSE
GraceExpires == reader = "reading"

-----------------------------------------------------------------------------
(* The child.                                                              *)

WriteLine(bad, unreadable) ==
  /\ child = "running" /\ written < 4
  /\ written' = written + 1
  /\ garbled' = garbled \cup bad
  /\ binary' = binary \cup unreadable
  /\ UNCHANGED <<plan, readn, record, child, held, reader, supVars>>

ChildWrites == WriteLine({}, {})

(* Half a line, something that is not an event, or bytes that are not text.*)
ChildGarbles ==
  /\ Cardinality(garbled) < MaxGarbled
  /\ \E unreadable \in SUBSET {written + 1} : WriteLine({written + 1}, unreadable)

(* --out: the record lands near the end of a run, around the last line.    *)
ChildSavesRecord ==
  /\ child = "running" /\ written >= 3 /\ record = "none"
  /\ record' = IF plan.verdict = "complete" THEN "clean" ELSE "truncated"
  /\ UNCHANGED <<plan, written, garbled, binary, readn, child, held, reader, supVars>>

(* It ends: with the code of its verdict, having written all it meant to   *)
(* or not; with a fault; as a usage error before the first line; or by a   *)
(* signal from somewhere else.                                             *)
ChildEnds ==
  /\ child = "running"
  /\ \/ child' \in {CodeOf(plan.verdict), "FAULT", "signal"}
     \/ plan.verdict = "novel" /\ child' \in {"TIME_TRUNCATED", "NO_ANSWER"}
     \/ written = 0 /\ child' = "USAGE"
  /\ UNCHANGED <<plan, written, garbled, binary, readn, record, held, reader, supVars>>

(* The last descendant that inherited the pipe goes away.                  *)
DescendantEnds ==
  /\ held /\ held' = FALSE
  /\ UNCHANGED <<plan, written, garbled, binary, readn, record, child, reader, supVars>>

Child == ChildWrites \/ ChildGarbles \/ ChildSavesRecord \/ ChildEnds
           \/ DescendantEnds

-----------------------------------------------------------------------------
(* The reader task: read_event_stream.                                     *)

ReadLine ==
  /\ reader = "reading" /\ readn < written /\ readn + 1 \notin binary
  /\ readn' = readn + 1
  /\ UNCHANGED <<childVars, reader, supVars>>

ReaderEnds ==
  /\ reader = "reading" /\ AtEOF
  /\ reader' = "done"
  /\ UNCHANGED <<childVars, readn, supVars>>

(* A line that is not UTF-8 is an error of next_line, and it ends the loop *)
(* as the end of the pipe does.                                            *)
ReaderStops ==
  /\ reader = "reading" /\ readn < written /\ readn + 1 \in binary
  /\ reader' = "stopped"
  /\ UNCHANGED <<childVars, readn, supVars>>

Reader == ReadLine \/ ReaderEnds \/ ReaderStops

-----------------------------------------------------------------------------
(* The supervising task, its timer and its caller.                         *)

TimeoutElapses ==
  /\ limited /\ ~due /\ phase = "waiting"
  /\ due' = TRUE
  /\ UNCHANGED <<limited, childVars, readn, reader, phase, asked, forced,
                 status, ended>>

(* The caller signals, or drops the sender: rx.await returns either way.   *)
CallerCancels ==
  /\ ~asked /\ phase = "waiting"
  /\ asked' = TRUE
  /\ UNCHANGED <<limited, childVars, readn, reader, phase, due, forced,
                 status, ended>>

(* wait_with_limits: select! takes any branch that is ready and drops the  *)
(* other two, so the timer and the signal are looked at no more.           *)
ChildWaited ==
  /\ phase = "waiting" /\ child # "running"
  /\ phase' = "draining"
  /\ status' \in {child, "unknown"}
  /\ due' = FALSE /\ asked' = FALSE
  /\ UNCHANGED <<limited, childVars, readn, reader, forced, ended>>

Kill(why) ==
  /\ phase = "waiting"
  /\ child' = IF child = "running" THEN "signal" ELSE child
  /\ phase' = "draining" /\ forced' = why
  /\ status' \in {child', "unknown"}
  /\ due' = FALSE /\ asked' = FALSE
  /\ UNCHANGED <<limited, plan, written, garbled, binary, record, held, readn, reader,
                 ended>>

KillOnTimeout == due /\ Kill("timeout")
KillOnCancel  == asked /\ Kill("cancelled")

(* drain_grace: either the reader ends or the grace does.                  *)
DrainEnds ==
  /\ phase = "draining" /\ reader \in {"done", "stopped"}
  /\ phase' = "drained"
  /\ UNCHANGED <<limited, childVars, readn, reader, due, asked, forced,
                 status, ended>>

DrainAbandoned ==
  /\ phase = "draining" /\ GraceExpires
  /\ phase' = "drained" /\ reader' = "aborted"
  /\ UNCHANGED <<limited, childVars, readn, due, asked, forced, status, ended>>

(* read_record, classify, and the QuarryRunEnded audit record.             *)
Report ==
  /\ phase = "drained"
  /\ ended' = Classify
  /\ phase' = "reported"
  /\ UNCHANGED <<limited, childVars, readn, reader, due, asked, forced, status>>

Supervise == ChildWaited \/ KillOnTimeout \/ KillOnCancel \/ DrainEnds
               \/ DrainAbandoned \/ Report

-----------------------------------------------------------------------------
Next == Child \/ Reader \/ TimeoutElapses \/ CallerCancels \/ Supervise

Spec == Init /\ [][Next]_vars

(* The runtime polls its two tasks and time passes.  Nothing is assumed of *)
(* the child, its descendants or the caller: any of them may hang.         *)
FairSpec ==
  Spec /\ WF_vars(Reader) /\ WF_vars(TimeoutElapses) /\ WF_vars(Supervise)

-----------------------------------------------------------------------------
(* Properties.                                                             *)

Reported == phase = "reported"

(* A completion is never made out of a stream that was cut off.  A run     *)
(* reported completed ended by itself, and either its frame was read to    *)
(* the closing outcome, which says success, or no frame was seen opening   *)
(* and the child exited zero with an answer.                               *)
CompletedIsWhole ==
  Reported /\ ended.kind = "completed" =>
    /\ forced = "no" /\ child \in Codes
    /\ Opened => written = 4 /\ plan.verdict \in
                   {"complete", "cap-bound-degradation", "novel"}
    /\ ~Closed => child = "COMPLETE" /\ Answered

(* A stream that declared another contract yields no verdict about the     *)
(* run, whatever its events and its exit code look like.                   *)
VersionRefused ==
  Reported /\ Opened /\ plan.frame = "unsupported" =>
    ended.kind \notin {"completed", "truncated", "no_answer"}

(* A run we stopped reports that it ran out of time, never how its child   *)
(* happened to die under the kill, and nothing else reports our timeout.   *)
OurKillIsTime ==
  Reported =>
    /\ forced = "timeout"   <=> ended.kind = "timed_out"
    /\ forced = "cancelled" <=> ended.kind = "cancelled"

(* Only quarry's own word makes a run one that ran out of money: an        *)
(* exhausted deadline is never reported as an exhausted budget.            *)
SpendIsQuarrysWord ==
  ended = Truncated("spend") => plan.bound = "spend" /\ forced = "no"

Drained == phase \in {"drained", "reported"}

(* A drain of text that was not abandoned has read everything the child    *)
(* wrote: the figures at the end are not lost to the exit that follows     *)
(* them, and counts not marked as a lower bound are totals.                *)
DrainIsWhole ==
  Drained /\ reader # "aborted" /\ binary = {} => readn = written

(* A run with a timeout, or one its caller cancels, is reported whatever   *)
(* the child and its descendants do with the process and the pipe.         *)
RunIsReported == limited \/ asked ~> Reported
=============================================================================
