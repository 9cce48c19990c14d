--------------------------- MODULE LifecycleProofs ---------------------------
(***************************************************************************)
(* For any adapters, messages and number of lives: a platform takes for    *)
(* received only what a life of the gateway was handed, or what was held   *)
(* by a socket's task when that was ended; and what is asked for enters    *)
(* once and in order.                                                      *)
(***************************************************************************)
EXTENDS Lifecycle, FiniteSetTheorems, SequenceTheorems, WellFoundedInduction, TLAPS

Stages == {"none", "idle", "waiting", "linked", "acking"}

TypeOK ==
  /\ sent \in [Sources -> Nat] /\ told \in [Sources -> SUBSET Nat]
  /\ task \in [Tasks -> Stages]
  /\ mark \in [Asking -> Nat]
  /\ hand \in [Pushed -> Nat \cup {Nothing}]

(* An envelope is held only between its acknowledgement and the queue.     *)
HeldWhileAcking == \A s \in Pushed : hand[s] # Nothing => task[s] = "acking"

Accounted == reached \cup cut \cup Held(Pushed)

(* What the next request of a long poll would confirm has been accounted   *)
(* for.                                                                    *)
MarkIsReached == \A s \in Polled : \A n \in 1..mark[s] : <<s, n>> \in Accounted

IInv == TypeOK /\ HeldWhileAcking /\ MarkIsReached /\ ToldIsReached

-----------------------------------------------------------------------------
LEMMA Kinds ==
  /\ Asking \subseteq Tasks /\ Pushed \subseteq Tasks /\ Polled \subseteq Asking
  /\ Tasks \subseteq Sources /\ Hooked \subseteq Sources
  /\ Asking \cap Pushed = {} /\ Nothing \notin Nat
BY LifecycleAssumption DEF Asking, Tasks, Sources

(* Steps that tell no platform anything, move no mark and take up nothing. *)
LEMMA QuietStep ==
  ASSUME IInv, UNCHANGED <<sent, told, mark, hand, reached, cut>>,
         task' \in [Tasks -> Stages],
         \A s \in Pushed : task[s] = "acking" => task'[s] = "acking"
  PROVE  IInv'
<1>1. Accounted' = Accounted
  BY DEF Accounted, Held
<1>2. TypeOK'
  BY DEF IInv, TypeOK
<1>3. HeldWhileAcking'
  BY DEF IInv, HeldWhileAcking
<1>4. MarkIsReached' /\ ToldIsReached'
  BY <1>1 DEF IInv, MarkIsReached, ToldIsReached, Accounted
<1> QED BY <1>2, <1>3, <1>4 DEF IInv

LEMMA InitIInv == Init => IInv
<1> SUFFICES ASSUME Init PROVE IInv
  OBVIOUS
<1>1. TypeOK
  BY Kinds DEF Init, TypeOK, Stages
<1>2. HeldWhileAcking /\ ToldIsReached
  BY DEF Init, HeldWhileAcking, ToldIsReached
<1>3. MarkIsReached
  BY Kinds DEF Init, MarkIsReached
<1> QED BY <1>1, <1>2, <1>3 DEF IInv

(* The end of the process: what its tasks held is cut.                     *)
LEMMA DownIInv == IInv /\ Down => IInv'
<1> SUFFICES ASSUME IInv, Down PROVE IInv'
  OBVIOUS
<1>1. Accounted \subseteq Accounted'
  BY DEF Accounted, Down
<1>2. TypeOK'
  BY Kinds DEF Down, IInv, TypeOK, Stages, platformVars
<1>3. HeldWhileAcking'
  BY DEF Down, HeldWhileAcking
<1>4. MarkIsReached'
  BY Kinds DEF Down, MarkIsReached
<1>5. ToldIsReached'
  BY <1>1 DEF Down, IInv, ToldIsReached, Accounted, platformVars
<1> QED BY <1>2, <1>3, <1>4, <1>5 DEF IInv

LEMMA AskIInv ==
  ASSUME IInv, NEW s \in Asking, Ask(s)
  PROVE  IInv'
<1>1. Accounted' = Accounted
  BY DEF Accounted, Held, Ask, enterVars
<1>2. mark[s] \in Nat
  BY DEF IInv, TypeOK
<1>3. Confirmed(s) \subseteq Nat
        /\ \A n \in Confirmed(s) : <<s, n>> \in Accounted
  BY <1>2 DEF Confirmed, IInv, MarkIsReached
<1>4. s \in Tasks /\ s \in Sources /\ s \notin Pushed
  BY Kinds
<1>5. TypeOK'
  BY <1>3, <1>4 DEF Ask, Go, IInv, TypeOK, Stages
<1>6. HeldWhileAcking'
  BY <1>4 DEF Ask, Go, IInv, TypeOK, HeldWhileAcking
<1>7. MarkIsReached'
  BY <1>1 DEF Ask, IInv, MarkIsReached
<1>8. ASSUME NEW t \in Sources, NEW n \in told'[t] PROVE <<t, n>> \in Accounted'
  <2>1. told' = [told EXCEPT ![s] = told[s] \cup Confirmed(s)]
    BY DEF Ask
  <2>2. n \in told[t] \/ (t = s /\ n \in Confirmed(s))
    BY <1>4, <1>8, <2>1 DEF IInv, TypeOK
  <2>3. CASE n \in told[t]
    BY <1>1, <2>3 DEF IInv, ToldIsReached, Accounted
  <2>4. CASE t = s /\ n \in Confirmed(s)
    BY <1>1, <1>3, <2>4
  <2> QED BY <2>2, <2>3, <2>4
<1>9. ToldIsReached'
  BY <1>8 DEF ToldIsReached, Accounted
<1> QED BY <1>5, <1>6, <1>7, <1>9 DEF IInv

(* The mark passes only what is fetched now, and what the platform no      *)
(* longer offers because it was told.                                      *)
LEMMA GotIInv ==
  ASSUME IInv, NEW s \in Asking, NEW n \in 1..sent[s], Got(s, n)
  PROVE  IInv'
<1>1. n \in Nat /\ mark[s] \in Nat /\ s \in Tasks /\ s \in Sources /\ s \notin Pushed
  BY Kinds DEF IInv, TypeOK
<1>2. reached' = reached \cup {<<s, i>> : i \in Fetched(s, n)}
  BY DEF Got, Enter
<1>3. Accounted \subseteq Accounted'
  BY <1>2 DEF Accounted, Held, Got
<1>4. mark' = [mark EXCEPT ![s] = IF n > mark[s] THEN n ELSE mark[s]]
  BY DEF Got
<1>5. TypeOK'
  BY <1>1, <1>4 DEF Got, Go, IInv, TypeOK, Stages, platformVars
<1>6. HeldWhileAcking'
  BY <1>1 DEF Got, Go, IInv, TypeOK, HeldWhileAcking
<1>7. ASSUME NEW t \in Polled, NEW i \in 1..mark'[t] PROVE <<t, i>> \in Accounted'
  <2>1. CASE i \in 1..mark[t]
    BY <1>3, <2>1 DEF IInv, MarkIsReached
  <2>2. CASE i \notin 1..mark[t]
    <3>1. t \in Asking /\ mark[t] \in Nat
      BY Kinds DEF IInv, TypeOK
    <3>2. t = s /\ i \in (mark[s] + 1)..n
      BY <1>1, <1>4, <1>7, <2>2, <3>1 DEF IInv, TypeOK
    <3>3. CASE i \in told[s]
      BY <1>1, <1>3, <3>2, <3>3 DEF IInv, ToldIsReached, Accounted
    <3>4. CASE i \notin told[s]
      <4>1. i \in Offered(s, n)
        BY <1>7, <3>2, <3>4 DEF Offered
      <4>2. i \in Fetched(s, n)
        BY <1>1, <3>2, <4>1 DEF Fetched
      <4> QED BY <1>2, <3>2, <4>2 DEF Accounted
    <3> QED BY <3>3, <3>4
  <2> QED BY <2>1, <2>2
<1>8. MarkIsReached'
  BY <1>7 DEF MarkIsReached
<1>9. ToldIsReached'
  BY <1>3 DEF Got, IInv, ToldIsReached, Accounted, platformVars
<1> QED BY <1>5, <1>6, <1>8, <1>9 DEF IInv

(* An envelope: held from its acknowledgement on.                          *)
LEMMA EnvelopeIInv ==
  ASSUME IInv, NEW s \in Pushed, Envelope(s)
  PROVE  IInv'
<1>0. PICK n \in (1..sent[s]) \ told[s] :
        /\ hand' = [hand EXCEPT ![s] = n]
        /\ \E known \in Acknowledged(s, n) : told' = [told EXCEPT ![s] = known]
  BY DEF Envelope
<1>1. PICK known \in Acknowledged(s, n) :
        hand' = [hand EXCEPT ![s] = n] /\ told' = [told EXCEPT ![s] = known]
  BY <1>0
<1>2. s \in Tasks /\ s \in Sources /\ s \notin Asking /\ n \in Nat /\ n # Nothing
      /\ hand[s] = Nothing
  BY <1>1, Kinds DEF Envelope, IInv, TypeOK, HeldWhileAcking
<1>3. known \subseteq told[s] \cup {n} /\ told[s] \subseteq Nat
  BY <1>1, <1>2 DEF Acknowledged, IInv, TypeOK
<1>4. ASSUME NEW t \in Pushed, hand[t] # Nothing PROVE hand'[t] = hand[t]
  BY <1>1, <1>2, <1>4 DEF IInv, TypeOK
<1>5. Held(Pushed) \subseteq Held(Pushed)' /\ <<s, n>> \in Held(Pushed)'
  BY <1>1, <1>2, <1>4 DEF Held, IInv, TypeOK
<1>6. Accounted \subseteq Accounted'
  BY <1>5 DEF Accounted, Envelope, enterVars
<1>7. TypeOK'
  BY <1>1, <1>2, <1>3 DEF Envelope, Go, IInv, TypeOK, Stages
<1>8. HeldWhileAcking'
  BY <1>1, <1>2 DEF Envelope, Go, IInv, TypeOK, HeldWhileAcking
<1>9. MarkIsReached'
  BY <1>6 DEF Envelope, IInv, MarkIsReached
<1>10. ASSUME NEW t \in Sources, NEW i \in told'[t] PROVE <<t, i>> \in Accounted'
  <2>1. i \in told[t] \/ (t = s /\ i = n)
    BY <1>1, <1>2, <1>3, <1>10 DEF IInv, TypeOK
  <2>2. CASE i \in told[t]
    BY <1>6, <2>2 DEF IInv, ToldIsReached, Accounted
  <2>3. CASE t = s /\ i = n
    BY <1>5, <2>3 DEF Accounted
  <2> QED BY <2>1, <2>2, <2>3
<1>11. ToldIsReached'
  BY <1>10 DEF ToldIsReached, Accounted
<1> QED BY <1>7, <1>8, <1>9, <1>11 DEF IInv

LEMMA PassOnIInv ==
  ASSUME IInv, NEW s \in Pushed, PassOn(s)
  PROVE  IInv'
<1>1. reached' = reached \cup {<<s, hand[s]>>} /\ hand' = [hand EXCEPT ![s] = Nothing]
  BY DEF PassOn, Enter
<1>2. s \in Tasks /\ s \notin Asking
  BY Kinds
<1>3. Held(Pushed) \subseteq Held(Pushed)' \cup {<<s, hand[s]>>}
  BY <1>1 DEF Held, IInv, TypeOK
<1>4. Accounted \subseteq Accounted'
  BY <1>1, <1>3 DEF Accounted, PassOn
<1>5. TypeOK'
  BY <1>1, <1>2 DEF PassOn, Go, IInv, TypeOK, Stages, platformVars
<1>6. HeldWhileAcking'
  BY <1>1, <1>2 DEF PassOn, Go, IInv, TypeOK, HeldWhileAcking
<1>7. MarkIsReached' /\ ToldIsReached'
  BY <1>4 DEF PassOn, IInv, MarkIsReached, ToldIsReached, Accounted, platformVars
<1> QED BY <1>5, <1>6, <1>7 DEF IInv

(* A webhook is queued before it is answered.                              *)
LEMMA PostIInv ==
  ASSUME IInv, NEW s \in Hooked, Post(s)
  PROVE  IInv'
<1>0. PICK n \in (1..sent[s]) \ told[s] :
        /\ Enter(s, {n})
        /\ \E known \in Acknowledged(s, n) : told' = [told EXCEPT ![s] = known]
  BY DEF Post
<1>1. PICK known \in Acknowledged(s, n) :
        Enter(s, {n}) /\ told' = [told EXCEPT ![s] = known]
  BY <1>0
<1>2. s \in Sources /\ n \in Nat
  BY <1>1, Kinds DEF IInv, TypeOK
<1>3. known \subseteq told[s] \cup {n} /\ told[s] \subseteq Nat
  BY <1>1, <1>2 DEF Acknowledged, IInv, TypeOK
<1>4. <<s, n>> \in Accounted' /\ Accounted \subseteq Accounted'
  BY <1>1 DEF Enter, Post, Accounted, Held, taskVars
<1>5. TypeOK' /\ HeldWhileAcking'
  BY <1>1, <1>2, <1>3 DEF Post, IInv, TypeOK, HeldWhileAcking, taskVars
<1>6. MarkIsReached'
  BY <1>4 DEF Post, IInv, MarkIsReached, taskVars
<1>7. ASSUME NEW t \in Sources, NEW i \in told'[t] PROVE <<t, i>> \in Accounted'
  <2>1. i \in told[t] \/ (t = s /\ i = n)
    BY <1>1, <1>2, <1>3, <1>7 DEF IInv, TypeOK
  <2>2. CASE i \in told[t]
    BY <1>4, <2>2 DEF IInv, ToldIsReached, Accounted
  <2>3. CASE t = s /\ i = n
    BY <1>4, <2>3
  <2> QED BY <2>1, <2>2, <2>3
<1>8. ToldIsReached'
  BY <1>7 DEF ToldIsReached, Accounted
<1> QED BY <1>5, <1>6, <1>8 DEF IInv

LEMMA StopAdapterIInv ==
  ASSUME IInv, NEW s \in Tasks, StopAdapter(s)
  PROVE  IInv'
<1>1. hand' = [p \in Pushed |-> IF p = s THEN Nothing ELSE hand[p]]
      /\ cut' = cut \cup Held({s})
  BY DEF StopAdapter
<1>2. Held(Pushed) \subseteq Held(Pushed)' \cup Held({s})
  BY <1>1 DEF Held
<1>3. Accounted \subseteq Accounted'
  BY <1>1, <1>2 DEF Accounted, StopAdapter, enterVars
<1>4. TypeOK'
  BY <1>1 DEF StopAdapter, Go, IInv, TypeOK, Stages, platformVars
<1>5. HeldWhileAcking'
  BY <1>1, Kinds DEF StopAdapter, Go, IInv, TypeOK, HeldWhileAcking
<1>6. MarkIsReached' /\ ToldIsReached'
  BY <1>3 DEF StopAdapter, IInv, MarkIsReached, ToldIsReached, Accounted, platformVars
<1> QED BY <1>4, <1>5, <1>6 DEF IInv

LEMMA WriteIInv ==
  ASSUME IInv, NEW s \in Sources, Write(s)
  PROVE  IInv'
<1>1. sent' \in [Sources -> Nat]
  BY DEF Write, IInv, TypeOK
<1>2. Accounted' = Accounted
  BY DEF Write, Accounted, Held, taskVars, enterVars
<1>3. TypeOK' /\ HeldWhileAcking' /\ MarkIsReached' /\ ToldIsReached'
  BY <1>1, <1>2 DEF Write, IInv, TypeOK, HeldWhileAcking, MarkIsReached, ToldIsReached,
                    Accounted, taskVars
<1> QED BY <1>3 DEF IInv

LEMMA NextIInv == IInv /\ [Next]_vars => IInv'
<1> SUFFICES ASSUME IInv, [Next]_vars PROVE IInv'
  OBVIOUS
<1> USE DEF platformVars, taskVars, enterVars
<1>0. task \in [Tasks -> Stages]
  BY DEF IInv, TypeOK
<1>1. CASE Boot \/ McpDone \/ Serve \/ Listen \/ RunLoop \/ Interrupt \/ Lock \/ Closed
           \/ Take \/ Send \/ Done
  <2>1. UNCHANGED <<sent, told, task, mark, hand, reached, cut>>
    BY <1>1 DEF Boot, McpDone, Serve, Listen, RunLoop, Interrupt, Lock, Closed, Take, Send, Done
  <2> QED BY <1>0, <2>1, QuietStep
<1>2. ASSUME NEW s \in Tasks, StartAdapter(s) PROVE IInv'
  BY <1>0, <1>2, QuietStep DEF StartAdapter, Go, Stages
<1>3. ASSUME NEW s \in Tasks, NEW stage \in Stages, task[s] # "acking", Go(s, stage),
             UNCHANGED <<sent, told, mark, hand, reached, cut>>
      PROVE  IInv'
  BY <1>0, <1>3, QuietStep DEF Go
<1>4. ASSUME NEW s \in Asking, Miss(s) PROVE IInv'
  BY <1>3, <1>4, Kinds DEF Miss, Missed, Stages
<1>5. ASSUME NEW s \in Pushed, Connect(s) \/ Unlink(s) PROVE IInv'
  BY <1>3, <1>5, Kinds DEF Connect, Unlink, Stages
<1>6. CASE StartFails \/ Crash \/ Stopped \/ StopTimesOut
  BY <1>6, DownIInv DEF StartFails, Crash, Stopped, StopTimesOut
<1>7. CASE UNCHANGED vars
  BY <1>0, <1>7, QuietStep DEF vars
<1>8. CASE Start
  BY <1>1, <1>2, <1>6, <1>8 DEF Start
<1>9. CASE Stop
  BY <1>1, <1>6, <1>9, StopAdapterIInv DEF Stop
<1>10. ASSUME NEW s \in Asking, Asker(s) PROVE IInv'
  BY <1>4, <1>10, AskIInv, GotIInv DEF Asker
<1>11. ASSUME NEW s \in Pushed, Socket(s) PROVE IInv'
  BY <1>5, <1>11, EnvelopeIInv, PassOnIInv DEF Socket
<1> QED
  BY <1>1, <1>6, <1>7, <1>8, <1>9, <1>10, <1>11, PostIInv, WriteIInv DEF Next, Loop

-----------------------------------------------------------------------------
(* Whatever starts, stops and crashes there are, no platform takes for     *)
(* received what no life was handed, but for an envelope cut off between   *)
(* its acknowledgement and the queue.                                      *)
THEOREM NothingIsToldTooSoon == Spec => []ToldIsReached
<1>1. IInv => ToldIsReached
  BY DEF IInv
<1> QED BY <1>1, InitIInv, NextIInv, PTL DEF Spec

-----------------------------------------------------------------------------
(* What enters from an asking task.                                        *)
Below == {p \in Nat \X Nat : p[1] < p[2]}

LEMMA BelowIsWellFounded == IsWellFoundedOn(Below, Nat)
BY NatLessThanWellFounded DEF Below, OpToRel

LEMMA SetInduction ==
  ASSUME NEW T \in SUBSET Nat, 0 \in T, \A n \in T : n + 1 \in T
  PROVE  T = Nat
<1> SUFFICES ASSUME Nat \ T # {} PROVE FALSE
  OBVIOUS
<1>1. PICK n \in Nat \ T : \A m \in Nat \ T : ~(<<m, n>> \in Below)
  <2> DEFINE U == Nat \ T
  <2>1. U \in SUBSET Nat /\ U # {}
    OBVIOUS
  <2> HIDE DEF U
  <2>2. \E n \in U : \A m \in U : ~(<<m, n>> \in Below)
    BY <2>1, BelowIsWellFounded, WFMin
  <2> QED BY <2>2 DEF U
<1>2. n # 0 /\ n - 1 \in Nat /\ n - 1 \in T
  <2>1. n # 0
    OBVIOUS
  <2>2. n - 1 \in Nat /\ <<n - 1, n>> \in Below
    BY <2>1 DEF Below
  <2> QED BY <1>1, <2>1, <2>2
<1>3. (n - 1) + 1 \in T
  BY <1>2
<1> QED BY <1>1, <1>3

Increasing(f) == \A i, j \in DOMAIN f : i < j => f[i] < f[j]

(* A set of numbers can be put in order.                                   *)
LEMMA InOrder ==
  ASSUME NEW n \in Nat, NEW S \in SUBSET (1..n)
  PROVE  /\ Cardinality(S) \in Nat
         /\ \E f \in [1..Cardinality(S) -> S] : Increasing(f)
<1> DEFINE P(k) == \A R \in SUBSET (1..k) :
                     IsFiniteSet(R) /\ \E f \in [1..Cardinality(R) -> R] : Increasing(f)
           T == {k \in Nat : P(k)}
<1>1. 0 \in T
  <2>1. SUBSET (1..0) = {{}}
    OBVIOUS
  <2>2. IsFiniteSet({}) /\ Cardinality({}) = 0
    BY FS_EmptySet
  <2>3. [i \in 1..0 |-> i] \in [1..0 -> {}] /\ Increasing([i \in 1..0 |-> i])
    BY DEF Increasing
  <2> QED BY <2>1, <2>2, <2>3
<1>2. ASSUME NEW k \in T PROVE k + 1 \in T
  <2>1. k \in Nat /\ P(k)
    OBVIOUS
  <2>2. ASSUME NEW R \in SUBSET (1..(k + 1))
        PROVE  IsFiniteSet(R) /\ \E f \in [1..Cardinality(R) -> R] : Increasing(f)
    <3>1. CASE k + 1 \notin R
      <4>1. R \in SUBSET (1..k)
        BY <2>1, <3>1
      <4> QED BY <2>1, <4>1
    <3>2. CASE k + 1 \in R
      <4> DEFINE Q == R \ {k + 1}
      <4>1. Q \in SUBSET (1..k) /\ R = Q \cup {k + 1} /\ k + 1 \notin Q
        BY <2>1, <3>2
      <4> HIDE DEF Q
      <4>2. PICK f \in [1..Cardinality(Q) -> Q] : Increasing(f)
        BY <2>1, <4>1
      <4>3. /\ IsFiniteSet(R) /\ Cardinality(Q) \in Nat
            /\ Cardinality(R) = Cardinality(Q) + 1
        BY <2>1, <4>1, FS_AddElement, FS_CardinalityType
      <4>4. \A i \in 1..Cardinality(Q) : f[i] \in R /\ f[i] \in 1..k
        BY <4>1, <4>2
      <4> DEFINE m == Cardinality(Q)
                 g == [i \in 1..(m + 1) |-> IF i = m + 1 THEN k + 1 ELSE f[i]]
      <4>5. g \in [1..Cardinality(R) -> R]
        <5>1. \A i \in 1..(m + 1) : i # m + 1 => i \in 1..m
          BY <4>3
        <5>2. \A i \in 1..(m + 1) : g[i] \in R
          BY <3>2, <4>4, <5>1
        <5> QED BY <4>3, <5>2
      <4>6. ASSUME NEW i \in 1..(m + 1), NEW j \in 1..(m + 1), i < j PROVE g[i] < g[j]
        <5>1. i \in 1..m /\ f[i] \in 1..k /\ g[i] = f[i]
          <6>1. i \in 1..m /\ i # m + 1
            BY <4>3, <4>6
          <6> QED BY <4>4, <6>1
        <5>2. CASE j = m + 1
          BY <2>1, <5>1, <5>2
        <5>3. CASE j # m + 1
          <6>1. j \in 1..m /\ g[j] = f[j]
            BY <4>3, <5>3
          <6> QED BY <4>2, <4>6, <5>1, <6>1 DEF Increasing
        <5> QED BY <5>2, <5>3
      <4>7. Increasing(g)
        BY <4>6 DEF Increasing
      <4> QED BY <4>3, <4>5, <4>7
    <3> QED BY <3>1, <3>2
  <2> QED BY <2>1, <2>2
<1>3. T = Nat
  <2> HIDE DEF T
  <2>1. T \in SUBSET Nat
    BY DEF T
  <2> QED BY <1>1, <1>2, <2>1, SetInduction
<1>4. P(n)
  BY <1>3
<1> QED BY <1>4, FS_CardinalityType

LEMMA AsWrittenIs ==
  ASSUME NEW n \in Nat, NEW S \in SUBSET (1..n)
  PROVE  AsWritten(S) \in Seq(S) /\ Increasing(AsWritten(S))
<1>1. PICK f \in [1..Cardinality(S) -> S] : Increasing(f)
  BY InOrder
<1>2. /\ AsWritten(S) \in [1..Cardinality(S) -> S]
      /\ \A i, j \in DOMAIN AsWritten(S) : i < j => AsWritten(S)[i] < AsWritten(S)[j]
  <2> DEFINE P(g) == \A i, j \in DOMAIN g : i < j => g[i] < g[j]
  <2>1. \E g \in [1..Cardinality(S) -> S] : P(g)
    BY <1>1 DEF Increasing
  <2>2. AsWritten(S) = CHOOSE g \in [1..Cardinality(S) -> S] : P(g)
    BY DEF AsWritten
  <2> HIDE DEF P
  <2>3. AsWritten(S) \in [1..Cardinality(S) -> S] /\ P(AsWritten(S))
    BY <2>1, <2>2
  <2> QED BY <2>3 DEF P
<1>3. Cardinality(S) \in Nat
  BY InOrder
<1> QED BY <1>2, <1>3 DEF Increasing

(* What has entered in this life is in order, and behind the mark.         *)
Ordered ==
  /\ DOMAIN order = Sources
  /\ \A s \in Asking : /\ order[s] \in Seq(Nat) /\ Increasing(order[s])
                       /\ \A i \in DOMAIN order[s] : order[s][i] <= mark[s]

LEMMA Appended ==
  ASSUME NEW p \in Seq(Nat), NEW q \in Seq(Nat), Increasing(p), Increasing(q), NEW m \in Nat,
         \A i \in DOMAIN p : p[i] <= m, \A i \in DOMAIN q : q[i] > m
  PROVE  p \o q \in Seq(Nat) /\ Increasing(p \o q)
<1> DEFINE c == p \o q
<1>1. /\ c \in Seq(Nat) /\ Len(c) = Len(p) + Len(q) /\ Len(p) \in Nat /\ Len(q) \in Nat
      /\ \A i \in 1..Len(p) : c[i] = p[i]
      /\ \A i \in 1..Len(c) : i > Len(p) => c[i] = q[i - Len(p)]
      /\ DOMAIN c = 1..Len(c) /\ DOMAIN p = 1..Len(p) /\ DOMAIN q = 1..Len(q)
  BY ConcatProperties
<1> HIDE DEF c
<1>2. ASSUME NEW i \in 1..Len(c), NEW j \in 1..Len(c), i < j PROVE c[i] < c[j]
  <2>1. CASE j <= Len(p)
    <3>1. i \in 1..Len(p) /\ j \in 1..Len(p)
      BY <1>1, <1>2, <2>1
    <3> QED BY <1>1, <1>2, <3>1 DEF Increasing
  <2>2. CASE i > Len(p)
    <3>1. /\ i - Len(p) \in 1..Len(q) /\ j - Len(p) \in 1..Len(q) /\ i - Len(p) < j - Len(p)
          /\ c[i] = q[i - Len(p)] /\ c[j] = q[j - Len(p)]
      <4>1. i \in Nat /\ j \in Nat /\ j > Len(p)
        BY <1>1, <1>2, <2>2
      <4> QED BY <1>1, <1>2, <2>2, <4>1
    <3> QED BY <1>1, <3>1 DEF Increasing
  <2>3. CASE i <= Len(p) /\ j > Len(p)
    <3>1. i \in 1..Len(p) /\ j - Len(p) \in 1..Len(q) /\ c[i] = p[i] /\ c[j] = q[j - Len(p)]
      <4>1. i \in Nat /\ j \in Nat /\ i \in 1..Len(p)
        BY <1>1, <1>2, <2>3
      <4>2. j - Len(p) \in 1..Len(q)
        BY <1>1, <1>2, <2>3, <4>1
      <4>3. c[i] = p[i]
        BY <1>1, <4>1
      <4>4. c[j] = q[j - Len(p)]
        BY <1>1, <1>2, <2>3
      <4> QED BY <4>1, <4>2, <4>3, <4>4
    <3>2. p[i] \in Nat /\ p[i] <= m
      <4>1. i \in DOMAIN p
        BY <1>1, <3>1
      <4> QED BY <4>1
    <3> DEFINE k == j - Len(p)
    <3>3. k \in DOMAIN q
      BY <1>1, <3>1
    <3> HIDE DEF k
    <3>4. q[k] \in Nat /\ q[k] > m
      BY <3>3
    <3>5. c[i] = p[i] /\ c[j] = q[k]
      BY <3>1 DEF k
    <3> QED BY <3>2, <3>4, <3>5
  <2> QED BY <1>1, <2>1, <2>2, <2>3
<1> QED BY <1>1, <1>2 DEF c, Increasing

LEMMA GotOrdered ==
  ASSUME IInv, Ordered, NEW s \in Asking, NEW n \in 1..sent[s], Got(s, n)
  PROVE  Ordered'
<1> DEFINE parsed == {i \in Fetched(s, n) : <<s, i>> \notin Blank}
           top == IF n > mark[s] THEN n ELSE mark[s]
           texts == AsWritten(parsed)
<1>1. n \in Nat /\ mark[s] \in Nat /\ s \in Sources /\ top \in Nat
      /\ Asking \subseteq Sources
  BY Kinds DEF IInv, TypeOK
<1>2. \A i \in parsed : i \in 1..n /\ i > mark[s] /\ i <= top
  BY <1>1 DEF Fetched, Offered
<1>3. parsed \in SUBSET (1..n)
  BY <1>2
<1>4. order' = [order EXCEPT ![s] = order[s] \o texts] /\ mark' = [mark EXCEPT ![s] = top]
  BY DEF Got, Enter
<1> HIDE DEF parsed, top
<1>5. texts \in Seq(parsed) /\ Increasing(texts)
  BY <1>1, <1>3, AsWrittenIs
<1> HIDE DEF texts
<1>6. /\ texts \in Seq(Nat)
      /\ \A i \in DOMAIN texts : texts[i] \in Nat /\ texts[i] > mark[s] /\ texts[i] <= top
  <2>1. \A i \in DOMAIN texts : texts[i] \in parsed
    BY <1>5
  <2> QED BY <1>1, <1>2, <1>5, <2>1
<1>7. /\ order[s] \in Seq(Nat) /\ Increasing(order[s])
      /\ \A i \in DOMAIN order[s] : order[s][i] <= mark[s]
  BY DEF Ordered
<1>8. order[s] \o texts \in Seq(Nat) /\ Increasing(order[s] \o texts)
  BY <1>1, <1>5, <1>6, <1>7, Appended
<1>9. \A i \in DOMAIN (order[s] \o texts) : (order[s] \o texts)[i] <= top
  <2>1. mark[s] <= top
    BY <1>1 DEF top
  <2>2. \A i \in DOMAIN order[s] : order[s][i] \in Nat /\ order[s][i] <= top
    BY <1>1, <1>7, <2>1
  <2> QED BY <1>6, <1>7, <2>2, ConcatProperties
<1>10. DOMAIN order' = Sources
  BY <1>4 DEF Ordered
<1>11. ASSUME NEW t \in Asking
       PROVE  /\ order'[t] \in Seq(Nat) /\ Increasing(order'[t])
              /\ \A i \in DOMAIN order'[t] : order'[t][i] <= mark'[t]
  <2>1. CASE t = s
    <3>1. order'[t] = order[s] \o texts /\ mark'[t] = top
      BY <1>1, <1>4, <2>1 DEF Ordered, IInv, TypeOK
    <3> QED BY <1>8, <1>9, <3>1
  <2>2. CASE t # s
    <3>1. order'[t] = order[t] /\ mark'[t] = mark[t]
      BY <1>1, <1>4, <2>2 DEF Ordered, IInv, TypeOK
    <3> QED BY <3>1 DEF Ordered
  <2> QED BY <2>1, <2>2
<1> QED BY <1>10, <1>11 DEF Ordered

LEMMA OthersOrdered ==
  ASSUME Ordered, NEW s \in Sources \ Asking, NEW numbers, Enter(s, numbers), UNCHANGED mark
  PROVE  Ordered'
<1>1. PICK texts : order' = [order EXCEPT ![s] = order[s] \o texts]
  BY DEF Enter
<1>2. DOMAIN order' = Sources /\ \A t \in Asking : order'[t] = order[t]
  BY <1>1 DEF Ordered, Asking, Tasks, Sources
<1> QED BY <1>2 DEF Ordered

LEMMA NextOrdered == IInv /\ Ordered /\ [Next]_vars => Ordered'
<1> SUFFICES ASSUME IInv, Ordered, [Next]_vars PROVE Ordered'
  OBVIOUS
<1>1. ASSUME UNCHANGED <<order, mark>> PROVE Ordered'
  BY <1>1 DEF Ordered, Increasing
<1>2. ASSUME Down PROVE Ordered'
  <2>1. /\ order' = [s \in Sources |-> <<>>] /\ Asking \subseteq Sources
        /\ <<>> \in Seq(Nat) /\ DOMAIN <<>> = {}
    BY <1>2, Kinds DEF Down
  <2> QED BY <2>1 DEF Ordered, Increasing
<1>3. CASE Start
  BY <1>1, <1>2, <1>3 DEF Start, Boot, McpDone, Serve, Listen, StartFails, RunLoop,
                          StartAdapter, taskVars, enterVars
<1>4. CASE Stop
  BY <1>1, <1>2, <1>4 DEF Stop, Interrupt, Lock, Closed, Stopped, StopTimesOut, StopAdapter,
                          taskVars, enterVars
<1>5. CASE Crash
  BY <1>2, <1>5 DEF Crash
<1>6. CASE Loop \/ \E s \in Sources : Write(s)
  BY <1>1, <1>6 DEF Loop, Take, Send, Done, Write, taskVars, enterVars
<1>7. ASSUME NEW s \in Asking, Asker(s) PROVE Ordered'
  BY <1>1, <1>7, GotOrdered DEF Asker, Ask, Miss, enterVars
<1>8. ASSUME NEW s \in Pushed, Socket(s) PROVE Ordered'
  <2>1. s \in Sources \ Asking
    BY Kinds
  <2> QED BY <1>1, <1>8, <2>1, OthersOrdered DEF Socket, Connect, Envelope, PassOn, Unlink, enterVars
<1>9. ASSUME NEW s \in Hooked, Post(s) PROVE Ordered'
  <2>1. s \in Sources \ Asking
    BY LifecycleAssumption, Kinds DEF Tasks
  <2>2. PICK n : Enter(s, {n})
    BY <1>9 DEF Post
  <2>3. UNCHANGED mark
    BY <1>9 DEF Post, taskVars
  <2> QED BY <2>1, <2>2, <2>3, OthersOrdered
<1>10. CASE UNCHANGED vars
  BY <1>1, <1>10 DEF vars, taskVars, enterVars
<1> QED BY <1>3, <1>4, <1>5, <1>6, <1>7, <1>8, <1>9, <1>10 DEF Next

(* Whatever polls fail or are repeated, in one life what is asked for      *)
(* enters once and in the order in which it was written.                   *)
THEOREM AskedEntersOnceInOrder == Spec => []EntersOnceInOrder
<1>1. Init => Ordered
  <2> SUFFICES ASSUME Init PROVE Ordered
    OBVIOUS
  <2>1. /\ order = [s \in Sources |-> <<>>] /\ Asking \subseteq Sources
        /\ <<>> \in Seq(Nat) /\ DOMAIN <<>> = {}
    BY Kinds DEF Init
  <2> QED BY <2>1 DEF Ordered, Increasing
<1>2. Ordered => EntersOnceInOrder
  BY DEF Ordered, Increasing, EntersOnceInOrder
<1> QED BY <1>1, <1>2, InitIInv, NextIInv, NextOrdered, PTL DEF Spec
=============================================================================
