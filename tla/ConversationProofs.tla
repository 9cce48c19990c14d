------------------------- MODULE ConversationProofs -------------------------
(***************************************************************************)
(* For every configuration of the summariser: nothing is lost from a       *)
(* history but what was exposed to a summariser, cut off or expired.       *)
(***************************************************************************)
EXTENDS Conversation, SequenceTheorems, TLAPS

Histories == Seq(SUBSET Nat)

TaskRecords == [user : Users \cup {NoOne}, stage : Stages, rest : Histories]

TypeOK ==
  /\ history \in [Users -> Histories]
  /\ tasks \in [1..MaxSent -> TaskRecords]
  /\ sent \in 0..MaxSent
  /\ at \in {"idle", "stored", "thinking", "dead"}
  /\ at \in {"stored", "thinking"} => who \in Users /\ sent \in 1..MaxSent
  /\ said \in [Users -> SUBSET Nat]
  /\ exposed \in [Users -> SUBSET Nat]
  /\ gone \in [Users -> SUBSET Nat]

(* A message has at most one summariser, not before it is taken.           *)
TasksAreFresh ==
  /\ \A k \in 1..MaxSent : (tasks[k].stage = "none") <=> (tasks[k].user = NoOne)
  /\ \A k \in 1..MaxSent : k > sent => tasks[k] = NoTask
  /\ at = "stored" => tasks[sent] = NoTask

(* What a summariser that waits is to write tells of all it will clear.    *)
Safe(u, entries) == said[u] \subseteq entries \cup exposed[u] \cup gone[u]

PendingIsComplete ==
  \A k \in 1..MaxSent :
    tasks[k].stage = "asking" => Safe(tasks[k].user, Covered(tasks[k].rest))

(* The history tells of everything, with what the summariser that cleared  *)
(* it last has yet to write.                                               *)
HistoryIsComplete ==
  \A u \in Users :
    \/ Safe(u, Covered(history[u]))
    \/ \E k \in Rewriting(u) : Safe(u, Covered(history[u]) \cup Covered(tasks[k].rest))

IInv == TypeOK /\ TasksAreFresh /\ PendingIsComplete /\ HistoryIsComplete

-----------------------------------------------------------------------------
LEMMA CoveredPoint ==
  ASSUME NEW h, NEW x
  PROVE  x \in Covered(h) <=> \E i \in DOMAIN h : x \in h[i]
BY DEF Covered

LEMMA CoveredHead ==
  ASSUME NEW h \in Histories, h # <<>>
  PROVE  /\ Head(h) \in SUBSET Nat /\ Tail(h) \in Histories
         /\ Covered(h) = Head(h) \cup Covered(Tail(h))
<1>1. Head(h) \in SUBSET Nat /\ Tail(h) \in Histories /\ Len(h) \in Nat /\ Len(h) >= 1
      /\ DOMAIN h = 1..Len(h)
  BY DEF Histories
<1>2. Head(h) = h[1] /\ Len(Tail(h)) = Len(h) - 1 /\ DOMAIN Tail(h) = 1..(Len(h) - 1)
      /\ \A i \in 1..(Len(h) - 1) : Tail(h)[i] = h[i + 1]
  BY DEF Histories
<1>3. ASSUME NEW x PROVE x \in Covered(h) <=> x \in Head(h) \/ x \in Covered(Tail(h))
  <2>1. ASSUME x \in Covered(h) PROVE x \in Head(h) \/ x \in Covered(Tail(h))
    <3>1. PICK i \in 1..Len(h) : x \in h[i]
      BY <1>1, <2>1, CoveredPoint
    <3>2. CASE i = 1
      BY <1>2, <3>1, <3>2
    <3>3. CASE i # 1
      <4>1. i - 1 \in 1..(Len(h) - 1) /\ (i - 1) + 1 = i
        BY <1>1, <3>3
      <4>2. x \in Tail(h)[i - 1]
        BY <1>2, <3>1, <4>1
      <4> QED BY <1>2, <4>1, <4>2, CoveredPoint
    <3> QED BY <3>2, <3>3
  <2>2. ASSUME x \in Head(h) PROVE x \in Covered(h)
    BY <1>1, <1>2, <2>2, CoveredPoint
  <2>3. ASSUME x \in Covered(Tail(h)) PROVE x \in Covered(h)
    <3>1. PICK i \in 1..(Len(h) - 1) : x \in Tail(h)[i]
      BY <1>2, <2>3, CoveredPoint
    <3>2. i + 1 \in 1..Len(h) /\ x \in h[i + 1]
      BY <1>1, <1>2, <3>1
    <3> QED BY <1>1, <3>2, CoveredPoint
  <2> QED BY <2>1, <2>2, <2>3
<1> QED BY <1>1, <1>3

LEMMA CoveredIsNat ==
  ASSUME NEW h \in Histories
  PROVE  Covered(h) \in SUBSET Nat
BY DEF Covered, Histories

LEMMA AddedType ==
  ASSUME NEW h \in Histories, NEW e \in SUBSET Nat
  PROVE  Added(h, e) \in Histories
<1> DEFINE longer == Append(h, e)
<1>1. longer \in Seq(SUBSET Nat) /\ Len(longer) \in Nat
  BY DEF Histories
<1>2. MaxHistory \in Nat \ {0}
  BY HistoryAssumption
<1> HIDE DEF longer
<1>3. CASE Len(longer) - MaxHistory > 0
  <2>1. SubSeq(longer, (Len(longer) - MaxHistory) + 1, Len(longer)) \in Seq(SUBSET Nat)
    <3>1. \A i \in ((Len(longer) - MaxHistory) + 1)..Len(longer) : longer[i] \in SUBSET Nat
      BY <1>1, <1>2, <1>3
    <3> QED BY <1>1, <1>2, <1>3, <3>1, SubSeqProperties
  <2> QED BY <1>3, <2>1 DEF Added, longer, Histories
<1>4. CASE ~(Len(longer) - MaxHistory > 0)
  BY <1>1, <1>4 DEF Added, longer, Histories
<1> QED BY <1>3, <1>4

(* Adding an entry loses nothing that is not counted as gone.           *)
LEMMA AddedCovers ==
  ASSUME NEW h, NEW e
  PROVE  Covered(h) \cup e \subseteq Covered(Added(h, e)) \cup Trimmed(h, e)
BY DEF Trimmed

LEMMA TrimmedIsNat ==
  ASSUME NEW h \in Histories, NEW e \in SUBSET Nat
  PROVE  Trimmed(h, e) \in SUBSET Nat
BY CoveredIsNat DEF Trimmed

LEMMA RewrittenCovers ==
  ASSUME NEW h \in Histories
  PROVE  Rewritten(h) \in Histories /\ Covered(h) \subseteq Covered(Rewritten(h))
<1> DEFINE n == Condensed(h)
<1>1. n \in 0..Len(h) /\ Len(h) \in Nat /\ DOMAIN h = 1..Len(h)
  BY HistoryAssumption DEF Condensed, Histories
<1> HIDE DEF n
<1>2. /\ Oldest(h) = SubSeq(h, 1, n) /\ Recent(h) = SubSeq(h, n + 1, Len(h))
  BY DEF Oldest, Recent, n
<1>3. /\ Oldest(h) \in Histories /\ Len(Oldest(h)) = n
      /\ \A i \in 1..n : Oldest(h)[i] = h[i]
  <2>1. \A i \in 1..n : h[i] \in SUBSET Nat
    BY <1>1 DEF Histories
  <2> QED BY <1>1, <1>2, <2>1, SubSeqProperties DEF Histories
<1>4. /\ Recent(h) \in Histories /\ Len(Recent(h)) = Len(h) - n
      /\ \A i \in 1..(Len(h) - n) : Recent(h)[i] = h[n + i]
  <2>1. \A i \in (n + 1)..Len(h) : h[i] \in SUBSET Nat
    BY <1>1 DEF Histories
  <2>2. /\ SubSeq(h, n + 1, Len(h)) \in Seq(SUBSET Nat)
        /\ Len(SubSeq(h, n + 1, Len(h))) = IF n + 1 <= Len(h) THEN Len(h) - (n + 1) + 1 ELSE 0
        /\ \A i \in 1..(Len(h) - (n + 1) + 1) : SubSeq(h, n + 1, Len(h))[i] = h[n + 1 + i - 1]
    <3> DEFINE first == n + 1
               last == Len(h)
               values == SUBSET Nat
    <3>1. first \in Int /\ last \in Int
      BY <1>1
    <3>2. \A i \in first..last : h[i] \in values
      BY <2>1
    <3> HIDE DEF first, last, values
    <3>3. /\ SubSeq(h, first, last) \in Seq(values)
          /\ Len(SubSeq(h, first, last)) = IF first <= last THEN last - first + 1 ELSE 0
          /\ \A i \in 1..(last - first + 1) : SubSeq(h, first, last)[i] = h[first + i - 1]
      BY <3>1, <3>2, SubSeqProperties
    <3> QED BY <3>3 DEF first, last, values
  <2>3. /\ (IF n + 1 <= Len(h) THEN Len(h) - (n + 1) + 1 ELSE 0) = Len(h) - n
        /\ Len(h) - (n + 1) + 1 = Len(h) - n
        /\ \A i \in 1..(Len(h) - n) : n + 1 + i - 1 = n + i
    <3> DEFINE m == Len(h)
    <3>1. m \in Nat /\ n \in Nat /\ n <= m
      BY <1>1
    <3> HIDE DEF m
    <3>2. (IF n + 1 <= m THEN m - (n + 1) + 1 ELSE 0) = m - n /\ m - (n + 1) + 1 = m - n
      BY <3>1
    <3>3. \A i \in 1..(m - n) : n + 1 + i - 1 = n + i
      BY <3>1
    <3> QED BY <3>2, <3>3 DEF m
  <2>4. \A i \in 1..(Len(h) - n) : SubSeq(h, n + 1, Len(h))[i] = h[n + i]
    BY <2>2, <2>3
  <2>5. Len(SubSeq(h, n + 1, Len(h))) = Len(h) - n
    BY <2>2, <2>3
  <2>6. SubSeq(h, n + 1, Len(h)) \in Histories
    BY <2>2 DEF Histories
  <2> DEFINE end == SubSeq(h, n + 1, Len(h))
  <2>7. Recent(h) = end
    BY <1>2
  <2>8. end \in Histories /\ Len(end) = Len(h) - n /\ \A i \in 1..(Len(h) - n) : end[i] = h[n + i]
    BY <2>4, <2>5, <2>6
  <2> HIDE DEF end
  <2> QED BY <2>7, <2>8
<1>5. Covered(Oldest(h)) \in SUBSET Nat
  BY <1>3, CoveredIsNat
<1> DEFINE first == <<Covered(Oldest(h))>>
<1>6. first \in Seq(SUBSET Nat) /\ Len(first) = 1 /\ first[1] = Covered(Oldest(h))
  BY <1>5
<1>7. Rewritten(h) = first \o Recent(h)
  BY DEF Rewritten
<1> HIDE DEF first
<1>8. /\ Rewritten(h) \in Histories /\ Len(Rewritten(h)) = 1 + (Len(h) - n)
      /\ Rewritten(h)[1] = first[1]
      /\ \A i \in 1..(Len(h) - n) : Rewritten(h)[1 + i] = Recent(h)[i]
  <2> DEFINE rest == Recent(h)
  <2>0. rest \in Seq(SUBSET Nat) /\ Len(rest) = Len(h) - n
    BY <1>4 DEF Histories
  <2> HIDE DEF rest
  <2>5. /\ first \o rest \in Seq(SUBSET Nat)
        /\ Len(first \o rest) = Len(first) + Len(rest)
        /\ \A i \in 1..(Len(first) + Len(rest)) :
             (first \o rest)[i] = IF i <= Len(first) THEN first[i] ELSE rest[i - Len(first)]
    BY <1>6, <2>0, ConcatProperties
  <2>6. Rewritten(h) = first \o rest
    BY <1>7 DEF rest
  <2>1. Rewritten(h) \in Histories /\ Len(Rewritten(h)) = 1 + (Len(h) - n)
    BY <1>6, <2>0, <2>5, <2>6 DEF Histories
  <2>2. \A i \in 1..(1 + (Len(h) - n)) :
          Rewritten(h)[i] = IF i <= 1 THEN first[i] ELSE Recent(h)[i - 1]
    BY <1>6, <2>0, <2>5, <2>6 DEF rest
  <2>3. \A i \in 1..(Len(h) - n) : 1 + i \in 1..(1 + (Len(h) - n)) /\ ~(1 + i <= 1) /\ (1 + i) - 1 = i
    BY <1>1
  <2>4. 1 \in 1..(1 + (Len(h) - n))
    BY <1>1
  <2> QED BY <2>1, <2>2, <2>3, <2>4
<1>9. DOMAIN Rewritten(h) = 1..(1 + (Len(h) - n)) /\ DOMAIN Oldest(h) = 1..n
  BY <1>3, <1>8 DEF Histories
<1>10. ASSUME NEW x \in Covered(h) PROVE x \in Covered(Rewritten(h))
  <2>1. PICK i \in 1..Len(h) : x \in h[i]
    BY <1>1, CoveredPoint
  <2>2. CASE i <= n
    <3>1. i \in 1..n /\ x \in Oldest(h)[i]
      BY <1>1, <1>3, <2>1, <2>2
    <3>2. x \in Covered(Oldest(h))
      BY <1>9, <3>1, CoveredPoint
    <3>3. 1 \in DOMAIN Rewritten(h) /\ x \in Rewritten(h)[1]
      BY <1>1, <1>6, <1>8, <1>9, <3>2
    <3> QED BY <3>3, CoveredPoint
  <2>3. CASE ~(i <= n)
    <3>1. i - n \in 1..(Len(h) - n) /\ n + (i - n) = i /\ 1 + (i - n) \in 1..(1 + (Len(h) - n))
      BY <1>1, <2>3
    <3>2. x \in Rewritten(h)[1 + (i - n)]
      BY <1>4, <1>8, <2>1, <3>1
    <3> QED BY <1>9, <3>1, <3>2, CoveredPoint
  <2> QED BY <2>2, <2>3
<1> QED BY <1>8, <1>10

-----------------------------------------------------------------------------
LEMMA NothingCovered == Covered(<<>>) = {}
BY DEF Covered

LEMMA InitIInv == Init => IInv
<1> SUFFICES ASSUME Init PROVE IInv
  OBVIOUS
<1>1. NoTask \in TaskRecords
  BY DEF NoTask, TaskRecords, Stages, Histories
<1>2. TypeOK
  BY <1>1, LoopAssumption DEF Init, TypeOK, Histories
<1>3. TasksAreFresh /\ PendingIsComplete
  BY DEF Init, TasksAreFresh, PendingIsComplete, NoTask
<1>4. HistoryIsComplete
  BY DEF Init, HistoryIsComplete, Safe
<1> QED BY <1>2, <1>3, <1>4 DEF IInv

(* A message or an answer is stored, or lost.                              *)
LEMMA StoreIInv ==
  ASSUME IInv, NEW u \in Users, NEW number \in Nat, NEW next \in {"idle", "stored"},
         Store(u, number, next), sent' \in {sent, sent + 1}, sent' \in 0..MaxSent,
         sent' = sent => next = "idle",
         next = "stored" => sent' \in 1..MaxSent /\ who' = u /\ sent' = sent + 1
  PROVE  IInv'
<1> USE DEF IInv
<1>1. /\ tasks' = tasks
      /\ said' = [said EXCEPT ![u] = @ \cup {number}]
      /\ at' \in {next, "dead"}
  BY DEF Store
<1>2. \/ /\ history' = [history EXCEPT ![u] = Added(history[u], {number})]
         /\ gone' = [gone EXCEPT ![u] = gone[u] \cup Trimmed(history[u], {number})]
         /\ exposed' = [exposed EXCEPT ![u] = IF Busy(u) THEN exposed[u] \cup {number} ELSE exposed[u]]
      \/ /\ history' = history /\ gone' = gone
         /\ exposed' = [exposed EXCEPT ![u] = exposed[u] \cup {number}]
  BY DEF Store, Stored
<1>3. history[u] \in Histories /\ {number} \in SUBSET Nat
  BY DEF TypeOK
<1>4. Added(history[u], {number}) \in Histories /\ Trimmed(history[u], {number}) \in SUBSET Nat
  BY <1>3, AddedType, TrimmedIsNat
<1>5. TypeOK'
  BY <1>1, <1>2, <1>3, <1>4 DEF TypeOK
<1>6. TasksAreFresh'
  BY <1>1 DEF TypeOK, TasksAreFresh
<1>7. /\ said'[u] = said[u] \cup {number} /\ exposed[u] \subseteq exposed'[u]
      /\ gone[u] \subseteq gone'[u]
      /\ \A v \in Users \ {u} : said'[v] = said[v] /\ exposed'[v] = exposed[v]
                                /\ gone'[v] = gone[v] /\ history'[v] = history[v]
      /\ Busy(u) => number \in exposed'[u]
      /\ Covered(history[u]) \cup {number}
           \subseteq Covered(history'[u]) \cup exposed'[u] \cup gone'[u]
  BY <1>1, <1>2, AddedCovers DEF TypeOK
<1>8. PendingIsComplete'
  <2> SUFFICES ASSUME NEW k \in 1..MaxSent, tasks[k].stage = "asking"
               PROVE  Safe(tasks[k].user, Covered(tasks[k].rest))'
    BY <1>1 DEF PendingIsComplete
  <2>1. tasks[k].user \in Users /\ Safe(tasks[k].user, Covered(tasks[k].rest))
    BY DEF PendingIsComplete, TasksAreFresh, TypeOK, TaskRecords
  <2>2. tasks[k].user = u => Busy(u)
    BY DEF Busy
  <2> QED BY <1>1, <1>7, <2>1, <2>2 DEF Safe
<1>9. HistoryIsComplete'
  <2> SUFFICES ASSUME NEW v \in Users
               PROVE  \/ Safe(v, Covered(history[v]))'
                      \/ \E k \in Rewriting(v) : Safe(v, Covered(history[v]) \cup Covered(tasks[k].rest))'
    BY <1>1 DEF HistoryIsComplete, Rewriting
  <2>1. CASE Safe(v, Covered(history[v]))
    BY <1>7, <2>1 DEF Safe
  <2>2. CASE \E k \in Rewriting(v) : Safe(v, Covered(history[v]) \cup Covered(tasks[k].rest))
    <3>1. PICK k \in Rewriting(v) : Safe(v, Covered(history[v]) \cup Covered(tasks[k].rest))
      BY <2>2
    <3>2. Safe(v, Covered(history[v]) \cup Covered(tasks[k].rest))'
      BY <1>1, <1>7, <3>1 DEF Safe
    <3> QED BY <3>2
  <2> QED BY <2>1, <2>2 DEF HistoryIsComplete
<1> QED BY <1>5, <1>6, <1>8, <1>9

LEMMA ThinkIInv ==
  ASSUME IInv, Think PROVE IInv'
<1> USE DEF IInv
<1>1. /\ who \in Users /\ sent \in 1..MaxSent /\ tasks[sent] = NoTask
      /\ history' = history /\ said' = said /\ gone' = gone /\ sent' = sent
      /\ who' = who /\ at' = "thinking"
      /\ exposed' = [exposed EXCEPT ![who] = exposed[who] \cup Unwritten(who)]
  BY DEF Think, TypeOK, TasksAreFresh
<1>2. \/ tasks' = tasks
      \/ tasks' = [tasks EXCEPT ![sent] = Task(history[who])]
  BY DEF Think
<1>3. history[who] \in Histories
  BY <1>1 DEF TypeOK
<1>4. NoTask \in TaskRecords
  BY DEF NoTask, TaskRecords, Stages, Histories
<1>5. Task(history[who]) \in TaskRecords
  BY <1>1, <1>3, <1>4, RewrittenCovers DEF Task, TaskRecords, Stages
<1>6. Unwritten(who) \in SUBSET Nat
  <2> SUFFICES ASSUME NEW k \in Rewriting(who) PROVE Covered(tasks[k].rest) \in SUBSET Nat
    BY DEF Unwritten
  <2>1. tasks[k].rest \in Histories
    BY DEF Rewriting, TypeOK, TaskRecords
  <2> QED BY <2>1, CoveredIsNat
<1>7. TypeOK'
  BY <1>1, <1>2, <1>5, <1>6 DEF TypeOK
<1>8. Task(history[who]) = NoTask
      \/ /\ Task(history[who]).user = who /\ Task(history[who]).stage = "asking"
         /\ Task(history[who]).rest = Rewritten(history[who])
  BY DEF Task
<1>9. /\ \A k \in 1..MaxSent \ {sent} : tasks'[k] = tasks[k]
      /\ tasks'[sent] \in {NoTask, Task(history[who])}
  BY <1>1, <1>2 DEF TypeOK
<1>10. TasksAreFresh'
  <2>1. NoTask.stage = "none" /\ NoTask.user = NoOne
    BY DEF NoTask
  <2>2. \A k \in 1..MaxSent : (tasks'[k].stage = "none") <=> (tasks'[k].user = NoOne)
    BY <1>1, <1>8, <1>9, <2>1, LoopAssumption DEF TasksAreFresh
  <2>3. \A k \in 1..MaxSent : k > sent => tasks'[k] = NoTask
    BY <1>1, <1>9 DEF TasksAreFresh
  <2> QED BY <1>1, <2>2, <2>3 DEF TasksAreFresh
<1>11. \A v \in Users : exposed[v] \subseteq exposed'[v]
  BY <1>1 DEF TypeOK
<1>12. \A k \in 1..MaxSent : tasks[k].stage = "writing" => k # sent
  BY <1>1 DEF NoTask
<1>13. said[who] \subseteq Covered(history[who]) \cup exposed'[who] \cup gone[who]
  <2>1. CASE Safe(who, Covered(history[who]))
    BY <1>1, <1>11, <2>1 DEF Safe
  <2>2. CASE \E k \in Rewriting(who) : Safe(who, Covered(history[who]) \cup Covered(tasks[k].rest))
    <3>1. PICK k \in Rewriting(who) : Safe(who, Covered(history[who]) \cup Covered(tasks[k].rest))
      BY <2>2
    <3>2. Covered(tasks[k].rest) \subseteq Unwritten(who)
      BY <3>1 DEF Unwritten
    <3>3. Unwritten(who) \subseteq exposed'[who]
      BY <1>1 DEF TypeOK
    <3> QED BY <1>1, <1>11, <3>1, <3>2, <3>3 DEF Safe
  <2> QED BY <1>1, <2>1, <2>2 DEF HistoryIsComplete
<1>14. PendingIsComplete'
  <2> SUFFICES ASSUME NEW k \in 1..MaxSent, tasks'[k].stage = "asking"
               PROVE  said[tasks'[k].user] \subseteq
                        Covered(tasks'[k].rest) \cup exposed'[tasks'[k].user]
                          \cup gone[tasks'[k].user]
    BY <1>1 DEF PendingIsComplete, Safe
  <2>1. CASE k # sent
    <3>1. tasks'[k] = tasks[k]
      BY <1>9, <2>1
    <3>2. tasks[k].user \in Users /\ Safe(tasks[k].user, Covered(tasks[k].rest))
      BY <3>1 DEF PendingIsComplete, TasksAreFresh, TypeOK, TaskRecords
    <3> QED BY <1>11, <3>1, <3>2 DEF Safe
  <2>2. CASE k = sent
    <3>1. tasks'[k] = Task(history[who]) /\ Task(history[who]) # NoTask
      BY <1>9, <2>2 DEF NoTask
    <3>2. tasks'[k].user = who /\ tasks'[k].rest = Rewritten(history[who])
      BY <1>8, <3>1
    <3> QED BY <1>3, <1>13, <3>2, RewrittenCovers
  <2> QED BY <2>1, <2>2
<1>15. HistoryIsComplete'
  <2> SUFFICES ASSUME NEW v \in Users
               PROVE  \/ Safe(v, Covered(history[v]))'
                      \/ \E k \in Rewriting(v)' : Safe(v, Covered(history[v]) \cup Covered(tasks[k].rest))'
    BY DEF HistoryIsComplete
  <2>1. CASE Safe(v, Covered(history[v]))
    BY <1>1, <1>11, <2>1 DEF Safe
  <2>2. CASE \E k \in Rewriting(v) : Safe(v, Covered(history[v]) \cup Covered(tasks[k].rest))
    <3>1. PICK k \in Rewriting(v) : Safe(v, Covered(history[v]) \cup Covered(tasks[k].rest))
      BY <2>2
    <3>2. k \in 1..MaxSent /\ tasks[k].user = v /\ tasks[k].stage = "writing"
      BY <3>1 DEF Rewriting
    <3>3. tasks'[k] = tasks[k]
      BY <1>9, <1>12, <3>2
    <3>4. k \in Rewriting(v)'
      BY <3>2, <3>3 DEF Rewriting
    <3>5. Safe(v, Covered(history[v]) \cup Covered(tasks[k].rest))'
      BY <1>1, <1>11, <3>1, <3>3 DEF Safe
    <3> QED BY <3>4, <3>5
  <2> QED BY <2>1, <2>2 DEF HistoryIsComplete
<1> QED BY <1>7, <1>10, <1>14, <1>15

(* A summariser that gives up, or has written all back, leaves the rest as *)
(* it is.                                                                  *)
LEMMA FinishIInv ==
  ASSUME IInv, NEW k \in 1..MaxSent, SummaryFails(k) \/ Written(k)
  PROVE  IInv'
<1> USE DEF IInv
<1>1. /\ history' = history /\ sent' = sent /\ who' = who /\ at' = at /\ said' = said
      /\ exposed' = exposed /\ gone' = gone
      /\ tasks' = [tasks EXCEPT ![k] = NoTask]
      /\ tasks[k].stage = "asking" \/ (tasks[k].stage = "writing" /\ tasks[k].rest = <<>>)
  BY DEF SummaryFails, Written, Finish
<1>2. NoTask \in TaskRecords /\ NoTask.stage = "none" /\ NoTask.user = NoOne
  BY DEF NoTask, TaskRecords, Stages, Histories
<1>3. tasks'[k] = NoTask /\ \A j \in 1..MaxSent \ {k} : tasks'[j] = tasks[j]
  BY <1>1 DEF TypeOK
<1>4. TypeOK'
  BY <1>1, <1>2 DEF TypeOK
<1>5. TasksAreFresh'
  <2>1. \A j \in 1..MaxSent : (tasks'[j].stage = "none") <=> (tasks'[j].user = NoOne)
    BY <1>2, <1>3 DEF TasksAreFresh
  <2>2. \A j \in 1..MaxSent : j > sent' => tasks'[j] = NoTask
    BY <1>1, <1>3 DEF TasksAreFresh
  <2>3. at' = "stored" => tasks'[sent'] = NoTask
    BY <1>1, <1>3 DEF TasksAreFresh, TypeOK
  <2> QED BY <2>1, <2>2, <2>3 DEF TasksAreFresh
<1>6. PendingIsComplete'
  <2> SUFFICES ASSUME NEW j \in 1..MaxSent, tasks'[j].stage = "asking"
               PROVE  Safe(tasks[j].user, Covered(tasks[j].rest))'
    BY DEF PendingIsComplete
  <2>1. j # k
    BY <1>2, <1>3
  <2>2. tasks'[j] = tasks[j]
    BY <1>3, <2>1
  <2> QED BY <1>1, <2>2 DEF PendingIsComplete, Safe
<1>7. HistoryIsComplete'
  <2> SUFFICES ASSUME NEW u \in Users
               PROVE  \/ Safe(u, Covered(history[u]))'
                      \/ \E j \in Rewriting(u)' : Safe(u, Covered(history[u]) \cup Covered(tasks[j].rest))'
    BY DEF HistoryIsComplete
  <2>1. CASE Safe(u, Covered(history[u]))
    BY <1>1, <2>1 DEF Safe
  <2>2. CASE \E j \in Rewriting(u) : Safe(u, Covered(history[u]) \cup Covered(tasks[j].rest))
    <3>1. PICK j \in Rewriting(u) : Safe(u, Covered(history[u]) \cup Covered(tasks[j].rest))
      BY <2>2
    <3>2. j \in 1..MaxSent /\ tasks[j].user = u /\ tasks[j].stage = "writing"
      BY <3>1 DEF Rewriting
    <3>3. CASE j = k
      <4>1. Covered(tasks[j].rest) = {}
        BY <1>1, <3>2, <3>3, NothingCovered
      <4> QED BY <1>1, <3>1, <4>1 DEF Safe
    <3>4. CASE j # k
      <4>1. tasks'[j] = tasks[j]
        BY <1>3, <3>2, <3>4
      <4>2. j \in Rewriting(u)'
        BY <3>2, <4>1 DEF Rewriting
      <4>3. Safe(u, Covered(history[u]) \cup Covered(tasks[j].rest))'
        BY <1>1, <3>1, <4>1 DEF Safe
      <4> QED BY <4>2, <4>3
    <3> QED BY <3>3, <3>4
  <2> QED BY <2>1, <2>2 DEF HistoryIsComplete
<1> QED BY <1>4, <1>5, <1>6, <1>7

(* The history is cleared: what it told of is yet to be written.           *)
LEMMA SummariseIInv ==
  ASSUME IInv, NEW k \in 1..MaxSent, Summarise(k)
  PROVE  IInv'
<1> USE DEF IInv
<1> DEFINE u == tasks[k].user
<1>1. /\ sent' = sent /\ who' = who /\ at' = at /\ said' = said
      /\ exposed' = exposed /\ gone' = gone
      /\ tasks[k].stage = "asking"
      /\ tasks' = [tasks EXCEPT ![k] = [tasks[k] EXCEPT !.stage = "writing"]]
      /\ history' = [history EXCEPT ![u] = <<>>] \/ history' = history
  BY DEF Summarise
<1>2. tasks[k] \in TaskRecords /\ u \in Users
  BY <1>1 DEF TypeOK, TasksAreFresh, TaskRecords
<1>3. /\ tasks'[k] \in TaskRecords
      /\ tasks'[k].user = u /\ tasks'[k].stage = "writing" /\ tasks'[k].rest = tasks[k].rest
      /\ \A j \in 1..MaxSent \ {k} : tasks'[j] = tasks[j]
  BY <1>1, <1>2 DEF TypeOK, TaskRecords, Stages
<1>4. /\ history' \in [Users -> Histories]
      /\ \A v \in Users \ {u} : history'[v] = history[v]
  <2>1. <<>> \in Histories
    BY DEF Histories
  <2> HIDE DEF u
  <2> QED BY <1>1, <1>2, <2>1 DEF TypeOK
<1>5. k <= sent /\ (at = "stored" => k # sent)
  <2>1. tasks[k] # NoTask
    BY <1>1 DEF NoTask
  <2> QED BY <2>1 DEF TasksAreFresh, TypeOK
<1>6. TypeOK'
  <2>1. tasks' \in [1..MaxSent -> TaskRecords]
    BY <1>1, <1>3 DEF TypeOK
  <2> QED BY <1>1, <1>4, <2>1 DEF TypeOK
<1>7. TasksAreFresh'
  <2>1. \A j \in 1..MaxSent : (tasks'[j].stage = "none") <=> (tasks'[j].user = NoOne)
    BY <1>2, <1>3, LoopAssumption DEF TasksAreFresh
  <2>2. \A j \in 1..MaxSent : j > sent' => tasks'[j] = NoTask
    BY <1>1, <1>3, <1>5 DEF TasksAreFresh, TypeOK
  <2>3. at' = "stored" => tasks'[sent'] = NoTask
    BY <1>1, <1>3, <1>5 DEF TasksAreFresh, TypeOK
  <2> QED BY <2>1, <2>2, <2>3 DEF TasksAreFresh
<1>8. PendingIsComplete'
  <2> SUFFICES ASSUME NEW j \in 1..MaxSent, tasks'[j].stage = "asking"
               PROVE  Safe(tasks[j].user, Covered(tasks[j].rest))'
    BY DEF PendingIsComplete
  <2>1. tasks'[j] = tasks[j]
    BY <1>3
  <2> QED BY <1>1, <2>1 DEF PendingIsComplete, Safe
<1>9. HistoryIsComplete'
  <2> SUFFICES ASSUME NEW v \in Users
               PROVE  \/ Safe(v, Covered(history[v]))'
                      \/ \E j \in Rewriting(v)' : Safe(v, Covered(history[v]) \cup Covered(tasks[j].rest))'
    BY DEF HistoryIsComplete
  <2>1. CASE v = u
    <3>1. k \in Rewriting(v)'
      BY <1>3, <2>1 DEF Rewriting
    <3>2. Safe(v, Covered(tasks[k].rest))
      BY <1>1, <2>1 DEF PendingIsComplete
    <3>3. Safe(v, Covered(history[v]) \cup Covered(tasks[k].rest))'
      BY <1>1, <1>3, <3>2 DEF Safe
    <3> QED BY <3>1, <3>3
  <2>2. CASE v # u
    <3>1. history'[v] = history[v]
      BY <1>4, <2>2
    <3>2. CASE Safe(v, Covered(history[v]))
      BY <1>1, <3>1, <3>2 DEF Safe
    <3>3. CASE \E j \in Rewriting(v) : Safe(v, Covered(history[v]) \cup Covered(tasks[j].rest))
      <4>1. PICK j \in Rewriting(v) : Safe(v, Covered(history[v]) \cup Covered(tasks[j].rest))
        BY <3>3
      <4>2. j \in 1..MaxSent /\ tasks[j].user = v /\ tasks[j].stage = "writing"
        BY <4>1 DEF Rewriting
      <4>3. tasks'[j] = tasks[j]
        BY <1>3, <2>2, <4>2
      <4>4. j \in Rewriting(v)'
        BY <4>2, <4>3 DEF Rewriting
      <4>5. Safe(v, Covered(history[v]) \cup Covered(tasks[j].rest))'
        BY <1>1, <3>1, <4>1, <4>3 DEF Safe
      <4> QED BY <4>4, <4>5
    <3> QED BY <3>2, <3>3 DEF HistoryIsComplete
  <2> QED BY <2>1, <2>2
<1> QED BY <1>6, <1>7, <1>8, <1>9

(* An entry is written back, or lost.                                      *)
LEMMA WriteBackIInv ==
  ASSUME IInv, NEW k \in 1..MaxSent, WriteBack(k)
  PROVE  IInv'
<1> USE DEF IInv
<1> DEFINE u == tasks[k].user
           entry == Head(tasks[k].rest)
<1>1. /\ sent' = sent /\ who' = who /\ at' = at /\ said' = said
      /\ tasks[k].stage = "writing" /\ tasks[k].rest # <<>>
      /\ tasks' = [tasks EXCEPT ![k] = [tasks[k] EXCEPT !.rest = Tail(tasks[k].rest)]]
  BY DEF WriteBack
<1>2. tasks[k] \in TaskRecords /\ u \in Users /\ tasks[k].rest \in Histories
  BY <1>1 DEF TypeOK, TasksAreFresh, TaskRecords
<1>3. /\ entry \in SUBSET Nat /\ Tail(tasks[k].rest) \in Histories
      /\ Covered(tasks[k].rest) = entry \cup Covered(Tail(tasks[k].rest))
  BY <1>1, <1>2, CoveredHead
<1>4. \/ /\ history' = [history EXCEPT ![u] = Added(history[u], entry)]
         /\ gone' = [gone EXCEPT ![u] = gone[u] \cup Trimmed(history[u], entry)]
         /\ exposed' = exposed
      \/ /\ history' = history /\ gone' = gone
         /\ exposed' = [exposed EXCEPT ![u] = exposed[u] \cup entry]
  BY DEF WriteBack, Stored
<1>5. history[u] \in Histories
  BY <1>2 DEF TypeOK
<1>6. Added(history[u], entry) \in Histories /\ Trimmed(history[u], entry) \in SUBSET Nat
  BY <1>3, <1>5, AddedType, TrimmedIsNat
<1>7. /\ tasks'[k] \in TaskRecords
      /\ tasks'[k].user = u /\ tasks'[k].stage = "writing"
      /\ tasks'[k].rest = Tail(tasks[k].rest)
      /\ \A j \in 1..MaxSent \ {k} : tasks'[j] = tasks[j]
  BY <1>1, <1>2, <1>3 DEF TypeOK, TaskRecords, Stages
<1> HIDE DEF entry
<1>8. /\ \A v \in Users : exposed[v] \subseteq exposed'[v] /\ gone[v] \subseteq gone'[v]
      /\ \A v \in Users \ {u} : history'[v] = history[v]
      /\ Covered(history[u]) \cup entry
           \subseteq Covered(history'[u]) \cup exposed'[u] \cup gone'[u]
  BY <1>2, <1>4, AddedCovers DEF TypeOK
<1>9. k <= sent /\ (at = "stored" => k # sent)
  <2>1. tasks[k] # NoTask
    BY <1>1 DEF NoTask
  <2> QED BY <2>1 DEF TasksAreFresh, TypeOK
<1>10. TypeOK'
  <2>1. tasks' \in [1..MaxSent -> TaskRecords]
    BY <1>1, <1>7 DEF TypeOK
  <2>2. /\ history' \in [Users -> Histories]
        /\ exposed' \in [Users -> SUBSET Nat] /\ gone' \in [Users -> SUBSET Nat]
    BY <1>2, <1>3, <1>4, <1>6 DEF TypeOK
  <2> QED BY <1>1, <2>1, <2>2 DEF TypeOK
<1>11. TasksAreFresh'
  <2>1. \A j \in 1..MaxSent : (tasks'[j].stage = "none") <=> (tasks'[j].user = NoOne)
    BY <1>2, <1>7, LoopAssumption DEF TasksAreFresh
  <2>2. \A j \in 1..MaxSent : j > sent' => tasks'[j] = NoTask
    BY <1>1, <1>7, <1>9 DEF TasksAreFresh, TypeOK
  <2>3. at' = "stored" => tasks'[sent'] = NoTask
    BY <1>1, <1>7, <1>9 DEF TasksAreFresh, TypeOK
  <2> QED BY <2>1, <2>2, <2>3 DEF TasksAreFresh
<1>12. PendingIsComplete'
  <2> SUFFICES ASSUME NEW j \in 1..MaxSent, tasks'[j].stage = "asking"
               PROVE  Safe(tasks[j].user, Covered(tasks[j].rest))'
    BY DEF PendingIsComplete
  <2>1. tasks'[j] = tasks[j]
    BY <1>7
  <2>2. tasks[j].user \in Users /\ Safe(tasks[j].user, Covered(tasks[j].rest))
    BY <2>1 DEF PendingIsComplete, TasksAreFresh, TypeOK, TaskRecords
  <2> QED BY <1>1, <1>8, <2>1, <2>2 DEF Safe
<1>13. HistoryIsComplete'
  <2> SUFFICES ASSUME NEW v \in Users
               PROVE  \/ Safe(v, Covered(history[v]))'
                      \/ \E j \in Rewriting(v)' : Safe(v, Covered(history[v]) \cup Covered(tasks[j].rest))'
    BY DEF HistoryIsComplete
  <2>1. CASE Safe(v, Covered(history[v]))
    BY <1>1, <1>8, <2>1 DEF Safe
  <2>2. CASE \E j \in Rewriting(v) : Safe(v, Covered(history[v]) \cup Covered(tasks[j].rest))
    <3>1. PICK j \in Rewriting(v) : Safe(v, Covered(history[v]) \cup Covered(tasks[j].rest))
      BY <2>2
    <3>2. j \in 1..MaxSent /\ tasks[j].user = v /\ tasks[j].stage = "writing"
      BY <3>1 DEF Rewriting
    <3>3. j \in Rewriting(v)'
      <4>1. tasks'[j].user = v /\ tasks'[j].stage = "writing"
        BY <1>7, <3>2
      <4> QED BY <3>2, <4>1 DEF Rewriting
    <3>4. Safe(v, Covered(history[v]) \cup Covered(tasks[j].rest))'
      <4>1. CASE j = k
        BY <1>1, <1>3, <1>7, <1>8, <3>1, <3>2, <4>1 DEF Safe
      <4>2. CASE j # k
        <5>1. tasks'[j] = tasks[j]
          BY <1>7, <3>2, <4>2
        <5> QED BY <1>1, <1>8, <3>1, <5>1 DEF Safe
      <4> QED BY <4>1, <4>2
    <3> QED BY <3>3, <3>4
  <2> QED BY <2>1, <2>2 DEF HistoryIsComplete
<1> QED BY <1>10, <1>11, <1>12, <1>13

(* A history expires: what it told of is gone with it.                     *)
LEMMA ExpireIInv ==
  ASSUME IInv, NEW u \in Users, Expire(u)
  PROVE  IInv'
<1> USE DEF IInv
<1>1. /\ tasks' = tasks /\ sent' = sent /\ who' = who /\ at' = at /\ said' = said
      /\ exposed' = exposed
      /\ history' = [history EXCEPT ![u] = <<>>]
      /\ gone' = [gone EXCEPT ![u] = gone[u] \cup Covered(history[u])]
  BY DEF Expire
<1>2. <<>> \in Histories /\ Covered(history[u]) \in SUBSET Nat
  BY CoveredIsNat DEF TypeOK, Histories
<1>3. TypeOK' /\ TasksAreFresh'
  BY <1>1, <1>2 DEF TypeOK, TasksAreFresh
<1>4. /\ \A v \in Users : gone[v] \subseteq gone'[v]
      /\ \A v \in Users : Covered(history[v]) \subseteq Covered(history'[v]) \cup gone'[v]
  BY <1>1 DEF TypeOK
<1>5. PendingIsComplete'
  <2> SUFFICES ASSUME NEW k \in 1..MaxSent, tasks[k].stage = "asking"
               PROVE  Safe(tasks[k].user, Covered(tasks[k].rest))'
    BY <1>1 DEF PendingIsComplete
  <2>1. tasks[k].user \in Users /\ Safe(tasks[k].user, Covered(tasks[k].rest))
    BY DEF PendingIsComplete, TasksAreFresh, TypeOK, TaskRecords
  <2> QED BY <1>1, <1>4, <2>1 DEF Safe
<1>6. HistoryIsComplete'
  <2> SUFFICES ASSUME NEW v \in Users
               PROVE  \/ Safe(v, Covered(history[v]))'
                      \/ \E k \in Rewriting(v) : Safe(v, Covered(history[v]) \cup Covered(tasks[k].rest))'
    BY <1>1 DEF HistoryIsComplete, Rewriting
  <2>1. CASE Safe(v, Covered(history[v]))
    BY <1>1, <1>4, <2>1 DEF Safe
  <2>2. CASE \E k \in Rewriting(v) : Safe(v, Covered(history[v]) \cup Covered(tasks[k].rest))
    <3>1. PICK k \in Rewriting(v) : Safe(v, Covered(history[v]) \cup Covered(tasks[k].rest))
      BY <2>2
    <3>2. Safe(v, Covered(history[v]) \cup Covered(tasks[k].rest))'
      BY <1>1, <1>4, <3>1 DEF Safe
    <3> QED BY <3>2
  <2> QED BY <2>1, <2>2 DEF HistoryIsComplete
<1> QED BY <1>3, <1>5, <1>6

-----------------------------------------------------------------------------
LEMMA NextIInv == IInv /\ [Next]_vars => IInv'
<1> SUFFICES ASSUME IInv, [Next]_vars PROVE IInv'
  OBVIOUS
<1>1. MaxSent \in Nat /\ sent \in 0..MaxSent
  BY LoopAssumption DEF IInv, TypeOK
<1>2. ASSUME NEW u \in Users, Receive(u) PROVE IInv'
  <2>1. /\ sent' = sent + 1 /\ sent < MaxSent /\ who' = u /\ Store(u, 2 * sent + 1, "stored")
        /\ 2 * sent + 1 \in Nat /\ sent' \in 1..MaxSent /\ sent' \in 0..MaxSent /\ sent' # sent
    BY <1>1, <1>2 DEF Receive
  <2> QED BY <2>1, StoreIInv
<1>3. ASSUME Think PROVE IInv'
  BY <1>3, ThinkIInv
<1>4. ASSUME Conclude PROVE IInv'
  <2>1. /\ sent' = sent /\ who \in Users /\ Store(who, 2 * sent, "idle")
        /\ 2 * sent \in Nat
    BY <1>1, <1>4 DEF Conclude, IInv, TypeOK
  <2> QED BY <1>1, <2>1, StoreIInv
<1>5. ASSUME NEW k \in 1..MaxSent, Summariser(k) PROVE IInv'
  BY <1>5, FinishIInv, SummariseIInv, WriteBackIInv DEF Summariser
<1>6. ASSUME UNCHANGED vars PROVE IInv'
  <2>1. /\ history' = history /\ tasks' = tasks /\ sent' = sent /\ at' = at /\ who' = who
        /\ said' = said /\ exposed' = exposed /\ gone' = gone
    BY <1>6 DEF vars
  <2>2. TypeOK' /\ TasksAreFresh'
    BY <2>1 DEF IInv, TypeOK, TasksAreFresh
  <2>3. PendingIsComplete' /\ HistoryIsComplete'
    BY <2>1 DEF IInv, PendingIsComplete, HistoryIsComplete, Safe, Rewriting
  <2> QED BY <2>2, <2>3 DEF IInv
<1>7. ASSUME NEW u \in Users, Expire(u) PROVE IInv'
  BY <1>7, ExpireIInv
<1> QED BY <1>2, <1>3, <1>4, <1>5, <1>6, <1>7 DEF Next

(* The invariant of every configuration of the summariser.                 *)
THEOREM Invariance == Spec => []IInv
<1>1. Init => IInv
  BY InitIInv
<1>2. IInv /\ [Next]_vars => IInv'
  BY NextIInv
<1> QED BY <1>1, <1>2, PTL DEF Spec

(* NothingElseIsLost: while no summariser writes, the history itself tells *)
(* of all that was not exposed, cut off or expired.                        *)
THEOREM OnlyTheExposedAreLost == Spec => []NothingElseIsLost
<1>1. IInv => NothingElseIsLost
  BY DEF IInv, HistoryIsComplete, NothingElseIsLost, Safe
<1> QED BY <1>1, Invariance, PTL
=============================================================================
