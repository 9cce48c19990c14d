-------------------------- MODULE RunStreamProofs --------------------------
(***************************************************************************)
(* Proofs about RunStream and Receipt.  The argument: once the supervising *)
(* task has left its wait the child is dead, so stream and record stand    *)
(* still; once the drain has ended the reader is gone, so what was read    *)
(* stands still too.  Hence what Report stored is still what Classify      *)
(* says of the final state, and each property is a fact about Classify.    *)
(***************************************************************************)
EXTENDS Receipt, TLAPS

Settled ==
  /\ phase # "waiting" => child # "running" /\ status \in {child, "unknown"}
  /\ phase \in {"drained", "reported"} => reader # "reading"
  /\ phase = "waiting" => forced = "no"

ReaderStopped ==
  /\ reader = "done" => child # "running" /\ ~held /\ readn = written
  /\ reader = "stopped" => binary # {}

Verdict ==
  ended = IF phase = "reported" THEN Classify ELSE End("none")

IInv == TypeOK /\ Settled /\ ReaderStopped /\ Verdict

-----------------------------------------------------------------------------
(* Classify always yields a termination.                                   *)
LEMMA ClassifyType ==
  ASSUME TypeOK
  PROVE  Classify \in Terminations
<1> USE DEF Terminations, End, Truncated
<1>1. plan.bound \in Bounds /\ plan.verdict \in Verdicts
  BY DEF TypeOK, Plans
<1>2. TimeFloor(plan.bound) \in Bounds
  BY <1>1 DEF TimeFloor, Bounds
<1>3. ASSUME NEW c \in Codes, NEW b \in Bounds
      PROVE  FromCode(c, b) \in Terminations
  BY DEF Codes, Bounds, FromCode
<1>4. ASSUME NEW c \in Codes PROVE FromOutcome(c) \in Terminations
  <2>1. FromCode(c, TimeFloor(plan.bound)) \in Terminations
    BY <1>2, <1>3
  <2> QED BY <1>1, <1>2, <2>1 DEF FromOutcome, Verdicts, Bounds
<1>5. ASSUME NEW c \in Codes PROVE FromRecord(c) \in Terminations
  <2>1. FromCode(c, "latency") \in Terminations
    BY <1>3 DEF Bounds
  <2> QED BY <1>1, <2>1 DEF FromRecord, Bounds
<1>6. ASSUME NEW c \in Codes PROVE FromExit(c) \in Terminations
  <2>1. Severed(c) \in Terminations
    BY DEF Severed, Bounds
  <2>2. FromStream(c) \in Terminations
    BY <1>4, <1>5, <2>1 DEF FromStream
  <2> QED BY <2>2 DEF FromExit, Bounds
<1>7. status \in Codes \cup {"signal", "unknown"}
  BY DEF TypeOK
<1> QED BY <1>6, <1>7 DEF Classify, Bounds

LEMMA InitIInv == Init => IInv
<1> SUFFICES ASSUME Init PROVE IInv
  OBVIOUS
<1>1. End("none") \in Terminations
  BY DEF End, Terminations, Bounds
<1>2. TypeOK
  <2>1. written \in 0 .. 4 /\ garbled \subseteq 1 .. written
        /\ binary \subseteq garbled /\ readn \in 0 .. written
    BY DEF Init
  <2>2. limited \in BOOLEAN /\ plan \in Plans /\ held \in BOOLEAN
        /\ due \in BOOLEAN /\ asked \in BOOLEAN
    BY DEF Init
  <2>3. ended \in Terminations
    BY <1>1 DEF Init
  <2> QED BY <2>1, <2>2, <2>3 DEF Init, TypeOK
<1>3. Settled /\ ReaderStopped /\ Verdict
  BY DEF Init, Settled, ReaderStopped, Verdict
<1> QED BY <1>2, <1>3 DEF IInv

(* A step of the child, before the supervising task has seen it end.       *)
LEMMA ChildStep == IInv /\ Child => IInv'
<1> SUFFICES ASSUME IInv, Child PROVE IInv'
  OBVIOUS
<1> USE DEF IInv
<1>1. ASSUME NEW bad \in SUBSET {written + 1}, NEW unreadable \in SUBSET bad,
             WriteLine(bad, unreadable)
      PROVE  IInv'
  <2>1. TypeOK'
    BY <1>1 DEF WriteLine, supVars, TypeOK
  <2>2. phase = "waiting" /\ phase' = phase /\ ended' = ended
    BY <1>1 DEF WriteLine, supVars, Settled
  <2> QED BY <1>1, <2>1, <2>2
          DEF WriteLine, supVars, Settled, ReaderStopped, Verdict, End
<1>2. CASE ChildSavesRecord
  <2>1. TypeOK'
    BY <1>2 DEF ChildSavesRecord, supVars, TypeOK
  <2>2. phase = "waiting" /\ phase' = phase /\ ended' = ended
    BY <1>2 DEF ChildSavesRecord, supVars, Settled
  <2> QED BY <1>2, <2>1, <2>2
          DEF ChildSavesRecord, supVars, Settled, ReaderStopped, Verdict, End
<1>3. CASE ChildEnds
  <2>1. TypeOK'
    <3>1. CodeOf(plan.verdict) \in Codes
      BY DEF TypeOK, Plans, Verdicts, CodeOf, Codes
    <3>2. child' \in Codes \cup {"running", "signal"}
      BY <1>3, <3>1 DEF ChildEnds, Codes
    <3> QED BY <1>3, <3>2 DEF ChildEnds, supVars, TypeOK
  <2>2. phase = "waiting" /\ phase' = phase /\ ended' = ended
    BY <1>3 DEF ChildEnds, supVars, Settled
  <2> QED BY <1>3, <2>1, <2>2
          DEF ChildEnds, supVars, Settled, ReaderStopped, Verdict, End
<1>4. CASE DescendantEnds
  <2>1. TypeOK' /\ Settled' /\ ReaderStopped'
    <3>1. TypeOK'
      <4>1. held' \in BOOLEAN
        BY <1>4 DEF DescendantEnds
      <4>2. UNCHANGED <<limited, plan, written, garbled, binary, readn, record,
                        child, reader, phase, due, asked, forced, status, ended>>
        BY <1>4 DEF DescendantEnds, supVars
      <4> QED BY <4>1, <4>2 DEF TypeOK
    <3>2. Settled' /\ ReaderStopped'
      BY <1>4 DEF DescendantEnds, supVars, Settled, ReaderStopped
    <3> QED BY <3>1, <3>2
  <2>2. UNCHANGED <<plan, readn, garbled, record, forced, status, phase, ended>>
    BY <1>4 DEF DescendantEnds, supVars
  <2>3. Verdict'
    BY <2>2 DEF Verdict, Classify, FromExit, FromStream, FromRecord, FromOutcome,
      FromCode, Severed, WrongVersion, NoEvents, Opened, Closed, Answered, Seen, Parsed
  <2> QED BY <2>1, <2>3
<1>5. CASE ChildWrites \/ ChildGarbles
  BY <1>1, <1>5 DEF ChildWrites, ChildGarbles
<1> QED BY <1>2, <1>3, <1>4, <1>5 DEF Child

(* A step of the reader, which is over once the run is reported.           *)
LEMMA ReaderStep == IInv /\ Reader => IInv'
<1> SUFFICES ASSUME IInv, Reader PROVE IInv'
  OBVIOUS
<1>1. phase # "reported" /\ phase' = phase /\ ended' = ended
  BY DEF IInv, Settled, Reader, ReadLine, ReaderEnds, ReaderStops,
    supVars
<1>2. Verdict'
  BY <1>1 DEF IInv, Verdict, End
<1>3. TypeOK' /\ Settled' /\ ReaderStopped'
  <2>1. CASE ReadLine
    BY <2>1 DEF IInv, ReadLine, childVars, supVars, TypeOK, Settled, ReaderStopped
  <2>2. CASE ReaderEnds
    BY <2>2 DEF IInv, ReaderEnds, AtEOF, childVars, supVars, TypeOK, Settled,
      ReaderStopped
  <2>3. CASE ReaderStops
    BY <2>3 DEF IInv, ReaderStops, childVars, supVars, TypeOK, Settled,
      ReaderStopped
  <2> QED BY <2>1, <2>2, <2>3 DEF Reader
<1> QED BY <1>2, <1>3 DEF IInv

(* The timer and the caller.                                               *)
LEMMA SignalStep == IInv /\ (TimeoutElapses \/ CallerCancels) => IInv'
<1> SUFFICES ASSUME IInv, TimeoutElapses \/ CallerCancels PROVE IInv'
  OBVIOUS
<1>1. TypeOK'
  BY DEF IInv, TimeoutElapses, CallerCancels, childVars, TypeOK
<1>2. phase = "waiting"
      /\ UNCHANGED <<childVars, readn, reader, phase, forced, status, ended>>
  BY DEF TimeoutElapses, CallerCancels
<1>3. Settled' /\ ReaderStopped' /\ Verdict'
  BY <1>2 DEF IInv, childVars, Settled, ReaderStopped, Verdict, End
<1> QED BY <1>1, <1>3 DEF IInv

(* The wait ends: the child is dead, by itself or by our hand.             *)
LEMMA WaitStep ==
  IInv /\ (ChildWaited \/ KillOnTimeout \/ KillOnCancel) => IInv'
<1> SUFFICES ASSUME IInv, ChildWaited \/ KillOnTimeout \/ KillOnCancel
             PROVE  IInv'
  OBVIOUS
<1>1. CASE ChildWaited
  BY <1>1 DEF IInv, ChildWaited, childVars, TypeOK, Settled, ReaderStopped,
    Verdict, End, Codes
<1>2. ASSUME NEW why \in {"timeout", "cancelled"}, Kill(why) PROVE IInv'
  BY <1>2 DEF IInv, Kill, TypeOK, Settled, ReaderStopped, Verdict, End, Codes
<1> QED BY <1>1, <1>2 DEF KillOnTimeout, KillOnCancel

(* The drain ends, and the run is reported.                                *)
LEMMA DrainStep == IInv /\ (DrainEnds \/ DrainAbandoned) => IInv'
<1> SUFFICES ASSUME IInv, DrainEnds \/ DrainAbandoned PROVE IInv'
  OBVIOUS
<1>1. phase = "draining" /\ phase' = "drained" /\ reader' \in {"done", "stopped", "aborted"}
      /\ (reader' # "aborted" => reader' = reader)
      /\ UNCHANGED <<limited, childVars, readn, due, asked, forced, status, ended>>
  BY DEF DrainEnds, DrainAbandoned
<1>2. TypeOK'
  BY <1>1 DEF IInv, childVars, TypeOK
<1>3. Settled' /\ ReaderStopped' /\ Verdict'
  BY <1>1 DEF IInv, childVars, Settled, ReaderStopped, Verdict, End
<1> QED BY <1>2, <1>3 DEF IInv

LEMMA ReportStep == IInv /\ Report => IInv'
<1> SUFFICES ASSUME IInv, Report PROVE IInv'
  OBVIOUS
<1>1. Classify \in Terminations
  BY ClassifyType DEF IInv
<1>2. TypeOK' /\ Settled' /\ ReaderStopped'
  BY <1>1 DEF IInv, Report, childVars, TypeOK, Settled, ReaderStopped
<1>3. UNCHANGED <<plan, readn, garbled, record, forced, status>>
      /\ phase' = "reported" /\ ended' = Classify
  BY DEF Report, childVars
<1>4. Verdict'
  BY <1>3 DEF Verdict, Classify, FromExit, FromStream, FromRecord, FromOutcome,
    FromCode, Severed, WrongVersion, NoEvents, Opened, Closed, Answered, Seen, Parsed
<1> QED BY <1>2, <1>4 DEF IInv

LEMMA StutterStep == IInv /\ UNCHANGED vars => IInv'
<1> SUFFICES ASSUME IInv, UNCHANGED vars PROVE IInv'
  OBVIOUS
<1>1. TypeOK' /\ Settled' /\ ReaderStopped'
  BY DEF IInv, vars, TypeOK, Settled, ReaderStopped
<1>2. UNCHANGED <<plan, readn, garbled, record, forced, status, phase, ended>>
  BY DEF vars
<1>3. Verdict'
  BY <1>2 DEF IInv, Verdict, Classify, FromExit, FromStream, FromRecord,
    FromOutcome, FromCode, Severed, WrongVersion, NoEvents, Opened, Closed,
    Answered, Seen, Parsed
<1> QED BY <1>1, <1>3 DEF IInv

LEMMA Invariance == Spec => []IInv
<1>1. IInv /\ [Next]_vars => IInv'
  BY ChildStep, ReaderStep, SignalStep, WaitStep, DrainStep, ReportStep,
     StutterStep DEF Next, Supervise
<1> QED BY InitIInv, <1>1, PTL DEF Spec

-----------------------------------------------------------------------------
(* Every variable keeps to its type.                                       *)
THEOREM TypeCorrect == Spec => []TypeOK
BY Invariance, PTL DEF IInv

(* A drain of text that was not abandoned has read all the child wrote.    *)
THEOREM CleanDrainReadsAll == Spec => []DrainIsWhole
<1>1. IInv => DrainIsWhole
  BY DEF IInv, TypeOK, Settled, ReaderStopped, Drained, DrainIsWhole
<1> QED BY Invariance, <1>1, PTL

(* The kill we made is reported as the time it ran out of, and only it is. *)
THEOREM KillIsReportedAsTime == Spec => []OurKillIsTime
<1>1. IInv => OurKillIsTime
  <2> SUFFICES ASSUME IInv, Reported PROVE
        /\ forced = "timeout"   <=> ended.kind = "timed_out"
        /\ forced = "cancelled" <=> ended.kind = "cancelled"
    BY DEF OurKillIsTime
  <2>1. ended = Classify /\ forced \in {"no", "timeout", "cancelled"}
    BY DEF IInv, Verdict, Reported, TypeOK
  <2>2. ASSUME NEW c \in Codes
        PROVE  FromExit(c).kind \notin {"timed_out", "cancelled"}
    <3> USE DEF End, Truncated
    <3>1. ASSUME NEW b PROVE FromCode(c, b).kind \notin {"timed_out", "cancelled"}
      BY DEF FromCode, Codes
    <3>2. FromOutcome(c).kind \notin {"timed_out", "cancelled"}
      BY <3>1 DEF FromOutcome, IInv, TypeOK, Plans, Verdicts
    <3> QED BY <3>1, <3>2 DEF FromExit, FromStream, FromRecord, Severed
  <2>3. status \in Codes \cup {"signal", "unknown"}
    BY DEF IInv, TypeOK
  <2> QED BY <2>1, <2>2, <2>3 DEF Classify, End
<1> QED BY Invariance, <1>1, PTL

(* A stream of another contract yields no verdict.                         *)
THEOREM OtherVersionIsRefused == Spec => []VersionRefused
<1>1. IInv => VersionRefused
  <2> SUFFICES ASSUME IInv, Reported, Opened, plan.frame = "unsupported"
               PROVE  ended.kind \notin {"completed", "truncated", "no_answer"}
    BY DEF VersionRefused
  <2>1. ended = Classify
    BY DEF IInv, Verdict, Reported
  <2>2. ASSUME NEW c \in Codes
        PROVE  FromExit(c) = End("stream_version_unsupported")
    BY DEF FromExit, WrongVersion
  <2>3. status \in Codes \cup {"signal", "unknown"}
    BY DEF IInv, TypeOK
  <2> QED BY <2>1, <2>2, <2>3 DEF Classify, End
<1> QED BY Invariance, <1>1, PTL

(* Money ran out only if quarry said so.                                   *)
THEOREM SpendOnlyFromQuarry == Spec => []SpendIsQuarrysWord
<1>1. IInv => SpendIsQuarrysWord
  <2> SUFFICES ASSUME IInv, ended = Truncated("spend")
               PROVE  plan.bound = "spend" /\ forced = "no"
    BY DEF SpendIsQuarrysWord
  <2> USE DEF End, Truncated
  <2>1. ended = Classify /\ status \in Codes \cup {"signal", "unknown"}
    BY DEF IInv, Verdict, TypeOK
  <2>2. status \in Codes /\ ended = FromExit(status) /\ forced = "no"
    BY <2>1 DEF Classify, IInv, TypeOK
  <2>3. ASSUME NEW b, FromCode(status, b) = Truncated("spend")
        PROVE  b = "spend"
    BY <2>2, <2>3 DEF FromCode, Codes
  <2>4. TimeFloor(plan.bound) = "spend" => plan.bound = "spend"
    BY DEF TimeFloor
  <2>5. FromOutcome(status) = Truncated("spend") => plan.bound = "spend"
    BY <2>3, <2>4 DEF FromOutcome, IInv, TypeOK, Plans, Verdicts
  <2>6. FromRecord(status) = Truncated("spend") => plan.bound = "spend"
    BY <2>3 DEF FromRecord
  <2>7. FromStream(status) = Truncated("spend")
    BY <2>2 DEF FromExit
  <2> QED BY <2>2, <2>5, <2>6, <2>7 DEF FromStream, Severed
<1> QED BY Invariance, <1>1, PTL

(* A completion is a stream read to its closing verdict, or an unframed    *)
(* one whose child exited zero with an answer.                             *)
THEOREM CompletionIsWhole == Spec => []CompletedIsWhole
<1>1. IInv => CompletedIsWhole
  <2> SUFFICES ASSUME IInv, Reported, ended.kind = "completed" PROVE
        /\ forced = "no" /\ child \in Codes
        /\ Opened => written = 4 /\ plan.verdict \in
                       {"complete", "cap-bound-degradation", "novel"}
        /\ ~Closed => child = "COMPLETE" /\ Answered
    BY DEF CompletedIsWhole
  <2> USE DEF End, Truncated
  <2>1. ended = Classify /\ status \in Codes \cup {"signal", "unknown"}
        /\ status \in {child, "unknown"}
    BY DEF IInv, Verdict, TypeOK, Reported, Settled
  <2>2. status \in Codes /\ ended = FromExit(status) /\ forced = "no"
    BY <2>1 DEF Classify, IInv, TypeOK
  <2>3. child \in Codes /\ child = status
    BY <2>1, <2>2 DEF Codes
  <2>4. ended = FromStream(status)
    BY <2>2 DEF FromExit
  <2>5. ASSUME NEW b, FromCode(status, b).kind = "completed"
        PROVE  status = "COMPLETE" /\ Answered
    BY <2>2, <2>5 DEF FromCode, Codes
  <2>6. Opened => Closed
    BY <2>4 DEF FromStream, Severed
  <2>7. Closed => written = 4
    BY DEF Closed, Seen, Parsed, LineOf, IInv, TypeOK
  <2>8. Closed => plan.verdict \in {"complete", "cap-bound-degradation", "novel"}
    BY <2>4 DEF FromStream, FromOutcome, IInv, TypeOK, Plans, Verdicts
  <2>9. ~Closed => child = "COMPLETE" /\ Answered
    <3> SUFFICES ASSUME ~Closed PROVE status = "COMPLETE" /\ Answered
      BY <2>3
    <3>1. FromRecord(status).kind = "completed"
      BY <2>4, <2>6 DEF FromStream
    <3> QED BY <3>1, <2>5 DEF FromRecord
  <2> QED BY <2>2, <2>3, <2>6, <2>7, <2>8, <2>9
<1> QED BY Invariance, <1>1, PTL

(* A reply with nothing to disclose is made of a run with nothing to       *)
(* disclose: a note is missing only under a verdict of quarry's, and the   *)
(* figures exclude every verdict but complete, and one we have no word for.*)
THEOREM CleanRepliesAreComplete == Spec => []CleanReplyIsComplete
<1>1. IInv => CleanReplyIsComplete
  <2> SUFFICES ASSUME IInv, Reported, Clean(ReplyTo(ended)) PROVE
        /\ plan.verdict \in {"complete", "novel"}
        /\ forced = "no" /\ child \in Codes
        /\ Opened => plan.frame = "supported"
    BY DEF CleanReplyIsComplete
  <2>1. /\ Closed /\ Answered /\ plan.bound = "none" /\ ~GapsOf(plan)
        /\ ended.kind \in {"completed", "truncated", "no_answer"}
    BY DEF Clean, ReplyTo, Spend, BoundBy, Gaps, Note
  <2>2. ended = Classify /\ status \in Codes \cup {"signal", "unknown"}
        /\ status \in {child, "unknown"}
    BY DEF IInv, Verdict, TypeOK, Reported, Settled
  <2>3. status \in Codes /\ ended = FromExit(status) /\ forced = "no"
    BY <2>1, <2>2 DEF Classify, End, IInv, TypeOK
  <2>4. child \in Codes
    BY <2>2, <2>3 DEF Codes
  <2>5. Opened => plan.frame = "supported"
    <3>1. ~WrongVersion
      BY <2>1, <2>3 DEF FromExit, End
    <3>2. Closed => plan.frame # "unframed"
      BY DEF Closed, Seen, Parsed, LineOf, IInv, TypeOK
    <3> QED BY <2>1, <3>1, <3>2 DEF WrongVersion, IInv, TypeOK, Plans
  <2>6. plan.answered
    BY <2>1 DEF Answered, Seen, Parsed, LineOf, IInv, TypeOK
  <2>7. plan.verdict \in {"complete", "novel"}
    BY <2>1, <2>6 DEF GapsOf, IInv, TypeOK, Plans, Verdicts
  <2> QED BY <2>3, <2>4, <2>5, <2>7
<1> QED BY Invariance, <1>1, PTL
=============================================================================
