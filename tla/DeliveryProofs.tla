--------------------------- MODULE DeliveryProofs ---------------------------
(***************************************************************************)
(* Proofs about module Delivery, for any users, sockets, sessions, answers *)
(* and limits, any settings of the limiter and any number of messages.     *)
(***************************************************************************)
EXTENDS Delivery, FiniteSetTheorems, SequenceTheorems, WellFoundedInduction,
        TLAPS

-----------------------------------------------------------------------------
(* Induction over the naturals, for sets of them.                          *)
Below == {p \in Nat \X Nat : p[1] < p[2]}

LEMMA BelowIsWellFounded == IsWellFoundedOn(Below, Nat)
<1>1. OpToRel(<, Nat) = Below
  BY DEF OpToRel, Below
<1>2. IsWellFoundedOn(OpToRel(<, Nat), Nat)
  BY NatLessThanWellFounded
<1> QED BY <1>1, <1>2

LEMMA Least ==
  ASSUME NEW T \in SUBSET Nat, T # {}
  PROVE  \E n \in T : \A m \in T : n <= m
<1>1. \E n \in T : \A m \in T : <<m, n>> \notin Below
  BY BelowIsWellFounded, WFMin
<1>2. \A m, n \in Nat : <<m, n>> \notin Below => n <= m
  <2> TAKE m, n \in Nat
  <2>1. m < n => <<m, n>> \in Nat \X Nat /\ <<m, n>>[1] < <<m, n>>[2]
    OBVIOUS
  <2> QED BY <2>1 DEF Below
<1> QED BY <1>1, <1>2

LEMMA SetInduction ==
  ASSUME NEW T \in SUBSET Nat, 0 \in T, \A n \in T : n + 1 \in T
  PROVE  T = Nat
<1> SUFFICES ASSUME Nat \ T # {} PROVE FALSE
  OBVIOUS
<1>1. PICK n \in Nat \ T : \A m \in Nat \ T : n <= m
  <2> DEFINE U == Nat \ T
  <2>1. U \in SUBSET Nat /\ U # {}
    OBVIOUS
  <2> HIDE DEF U
  <2>2. \E n \in U : \A m \in U : n <= m
    BY <2>1, Least
  <2> QED BY <2>2 DEF U
<1>2. n # 0 /\ n - 1 \in Nat /\ n - 1 \in T
  BY <1>1
<1>3. (n - 1) + 1 \in T
  BY <1>2
<1> QED BY <1>1, <1>3

(* A finite set of numbers that is not empty has a largest one.            *)
LEMMA Largest ==
  ASSUME NEW S \in SUBSET Nat, S # {}, IsFiniteSet(S)
  PROVE  \E n \in S : \A m \in S : m <= n
<1> DEFINE P(U) == \E n \in U : \A m \in U : m <= n
           T == {k \in Nat : \A U \in SUBSET Nat :
                   IsFiniteSet(U) /\ U # {} /\ Cardinality(U) = k => P(U)}
<1>1. 0 \in T
  BY FS_EmptySet
<1>2. ASSUME NEW k \in T PROVE k + 1 \in T
  <2> SUFFICES ASSUME NEW U \in SUBSET Nat, IsFiniteSet(U), U # {},
                      Cardinality(U) = k + 1
               PROVE  P(U)
    OBVIOUS
  <2>1. PICK x \in U : TRUE
    OBVIOUS
  <2>2. IsFiniteSet(U \ {x}) /\ Cardinality(U \ {x}) = k
    <3>1. IsFiniteSet(U \ {x}) /\ Cardinality(U \ {x}) = Cardinality(U) - 1
      BY <2>1, FS_RemoveElement
    <3>2. k \in Nat /\ (k + 1) - 1 = k
      OBVIOUS
    <3> QED BY <3>1, <3>2
  <2>3. CASE U \ {x} = {}
    BY <2>1, <2>3
  <2>4. CASE U \ {x} # {}
    <3>1. P(U \ {x})
      BY <2>2, <2>4
    <3>2. PICK n \in U \ {x} : \A m \in U \ {x} : m <= n
      BY <3>1
    <3>3. CASE x <= n
      BY <3>2, <3>3
    <3>4. CASE ~(x <= n)
      BY <3>2, <3>4, <2>1
    <3> QED BY <3>3, <3>4
  <2> QED BY <2>3, <2>4
<1>3. T = Nat
  <2> HIDE DEF T
  <2>1. T \in SUBSET Nat
    BY DEF T
  <2> QED BY <1>1, <1>2, <2>1, SetInduction
<1>4. Cardinality(S) \in T
  BY <1>3, FS_CardinalityType
<1> QED BY <1>4

-----------------------------------------------------------------------------
(* Web chat: an entry of the session map is that of a socket which still   *)
(* serves it, and sockets and entries are of their types.                  *)
ChatType ==
  /\ socket \in [Sockets -> [is : {"none", "open", "streaming"},
                             id : Sessions \cup {Nobody}]]
  /\ sessions \in [Sessions -> Sockets \cup {Nobody}]

ChatInv == ChatType /\ EntryHasASocket

LEMMA ChatInit == Init => ChatInv
BY DEF Init, ChatInv, ChatType, EntryHasASocket

LEMMA ChatStep == ChatInv /\ [Next]_vars => ChatInv'
<1> SUFFICES ASSUME ChatInv, [Next]_vars PROVE ChatInv'
  OBVIOUS
<1> USE DEF ChatInv, ChatType
<1>1. ASSUME UNCHANGED chatVars PROVE ChatInv'
  BY <1>1 DEF chatVars, EntryHasASocket
<1>2. ASSUME NEW k \in Sockets, NEW s \in Sessions, Connect(k, s)
      PROVE  ChatInv'
  BY <1>2, DeliveryAssumption DEF Connect, EntryHasASocket
<1>3. ASSUME NEW k \in Sockets, Leave(k) PROVE ChatInv'
  BY <1>3, DeliveryAssumption DEF Leave, Removed, EntryHasASocket
<1>4. ASSUME NEW k \in Sockets, Talk(k) \/ StreamEnds(k) \/ StreamBreaks(k)
      PROVE  ChatInv'
  BY <1>4, DeliveryAssumption DEF Talk, StreamEnds, StreamBreaks, EntryHasASocket
<1>5. CASE Loop
  BY <1>1, <1>5
     DEF Loop, Take, Deny, Route, NoChannel, Think, SendPiece
<1>6. CASE Next /\ ~Loop
  BY <1>1, <1>2, <1>3, <1>4, <1>6
     DEF Next, Tick, Post, Mail, Prefer, Poll, Fire, Reload, HangUp, Closed
<1>7. CASE UNCHANGED vars
  BY <1>1, <1>7 DEF vars
<1> QED BY <1>5, <1>6, <1>7

(* Whatever sockets come and go under one id, an entry of the session map  *)
(* is always that of a socket which still serves that id.                  *)
THEOREM EntriesAreServed == Spec => []EntryHasASocket
<1>1. ChatInv => EntryHasASocket
  BY DEF ChatInv
<1> QED BY <1>1, ChatInit, ChatStep, PTL DEF Spec, Safe

-----------------------------------------------------------------------------
(* The limiter.  Of a sequence of times: it is sorted, of any 2 * Highest  *)
(* + 1 that follow each other the ends are the shortest window apart, the  *)
(* last `count` belong to the window that is running, and at most Highest  *)
(* of the others are less than the shortest window older than its start.   *)
Sorted(times) == \A i, j \in 1 .. Len(times) : i <= j => times[i] <= times[j]

Spaced(times) ==
  \A i \in 1 .. Len(times) :
     i + 2 * Highest <= Len(times) => times[i] + Shortest <= times[i + 2 * Highest]

Running(times, w) ==
  /\ w.count <= Highest /\ w.count <= Len(times)
  /\ \A i \in 1 .. Len(times) :
       /\ i + w.count <= Len(times) => times[i] <= w.start
       /\ i + w.count + Highest <= Len(times) => times[i] + Shortest <= w.start

Accounted(times, w, now) ==
  /\ times \in Seq(Nat) /\ Sorted(times) /\ Spaced(times)
  /\ \A i \in 1 .. Len(times) : times[i] <= now
  /\ w \in [count : Nat, start : Nat] /\ w.start <= now
  /\ Running(times, w)

RateInv ==
  /\ clock \in Nat /\ settings \in Settings
  /\ windows \in [Senders -> [count : Nat, start : Nat] \cup {Nobody}]
  /\ passed \in [Senders -> Seq(Nat)]
  /\ \A u \in Senders :
       IF windows[u] = Nobody THEN passed[u] = <<>>
       ELSE Accounted(passed[u], windows[u], clock)

LEMMA HighestIsHighest ==
  /\ Highest \in Nat /\ 1 <= Highest
  /\ \A config \in Settings : config.perWindow <= Highest
<1> DEFINE S == Rates \cup {1}
<1>0. Rates \in SUBSET Nat /\ IsFiniteSet(Rates)
  <2>1. Rates \in SUBSET Nat
    BY DeliveryAssumption DEF Rates, RateLimitConfig
  <2>2. IsFiniteSet(Rates)
    <3> DEFINE f == [config \in Settings |-> config.perWindow]
    <3>1. f \in Surjection(Settings, Rates)
      BY DEF Surjection, Rates
    <3> HIDE DEF f
    <3> QED BY <3>1, DeliveryAssumption, FS_Surjection
  <2> QED BY <2>1, <2>2
<1>1. S \in SUBSET Nat /\ S # {} /\ IsFiniteSet(S)
  BY <1>0, FS_AddElement
<1>2. \E n \in S : \A m \in S : m <= n
  <2> HIDE DEF S
  <2> QED BY <1>1, Largest
<1>3. Highest \in S /\ \A m \in S : m <= Highest
  BY <1>2 DEF Highest
<1>4. Highest \in Nat /\ 1 <= Highest
  BY <1>1, <1>3
<1>5. \A config \in Settings : config.perWindow \in S
  BY DEF Rates
<1> QED BY <1>3, <1>4, <1>5

LEMMA ShortestIsShortest ==
  Shortest \in Nat /\ \A config \in Settings : Shortest <= config.window
<1>1. Windows \in SUBSET Nat /\ Windows # {}
  BY DeliveryAssumption DEF Windows, RateLimitConfig
<1>2. \E n \in Windows : \A m \in Windows : n <= m
  BY <1>1, Least
<1>3. Shortest \in Windows /\ \A m \in Windows : Shortest <= m
  BY <1>2 DEF Shortest
<1> QED BY <1>1, <1>3 DEF Windows

(* A message that is let through is accounted for, in the window that is   *)
(* running or in a new one; one that is not let through changes nothing.   *)
LEMMA LetThrough ==
  ASSUME NEW times, NEW w, NEW now \in Nat, NEW config \in Settings,
         Accounted(times, w, now), Allowed(w, now, config)
  PROVE  Accounted(Append(times, now), Recorded(w, now, config), now)
<1> DEFINE H == Highest
           L == Len(times)
           later == Append(times, now)
           v == Recorded(w, now, config)
<1>1. /\ H \in Nat /\ 1 <= H
      /\ config.perWindow <= H /\ config.perWindow \in Nat
      /\ Shortest \in Nat
      /\ Shortest <= config.window /\ config.window \in Nat
  BY HighestIsHighest, ShortestIsShortest, DeliveryAssumption DEF RateLimitConfig
<1>2. /\ times \in Seq(Nat) /\ L \in Nat
      /\ w.count \in Nat /\ w.start \in Nat /\ w.start <= now
      /\ w.count <= H /\ w.count <= L
      /\ \A i \in 1 .. L : times[i] <= now
  BY DEF Accounted, Running
<1>3. /\ later \in Seq(Nat) /\ Len(later) = L + 1
      /\ \A i \in 1 .. L : later[i] = times[i] /\ times[i] \in Nat
      /\ later[L + 1] = now
  BY <1>2
<1>4. /\ v \in [count : Nat, start : Nat]
      /\ \/ v.count = w.count + 1 /\ v.start = w.start /\ v.count <= H
         \/ v.count = 1 /\ v.start = now /\ w.start + Shortest <= now
  <2>1. w \in [count : Nat, start : Nat]
    BY DEF Accounted
  <2>2. CASE Expired(w, now, config)
    <3>1. w.start + config.window <= now
      BY <1>1, <1>2, <2>2 DEF Expired
    <3> QED BY <1>1, <1>2, <2>2, <3>1 DEF Recorded, Reset
  <2>3. CASE ~Expired(w, now, config)
    <3>1. w.count < config.perWindow
      BY <2>3 DEF Allowed
    <3>2. v = [w EXCEPT !.count = @ + 1]
      BY <1>1, <1>2, <2>3, <3>1 DEF Recorded
    <3>3. v \in [count : Nat, start : Nat] /\ v.count = w.count + 1 /\ v.start = w.start
      BY <2>1, <3>2
    <3> QED BY <1>1, <1>2, <3>1, <3>3
  <2> QED BY <2>2, <2>3
<1>5. \A i, j \in 1 .. L : i <= j => times[i] <= times[j]
  BY DEF Accounted, Sorted
<1>6. \A i \in 1 .. L : i + 2 * H <= L => times[i] + Shortest <= times[i + 2 * H]
  BY DEF Accounted, Spaced
<1>7. \A i \in 1 .. L :
         /\ i + w.count <= L => times[i] <= w.start
         /\ i + w.count + H <= L => times[i] + Shortest <= w.start
  BY DEF Accounted, Running
<1>8. later \in Seq(Nat) /\ v \in [count : Nat, start : Nat]
  BY <1>3, <1>4
<1>n. /\ H \in Nat /\ L \in Nat /\ Shortest \in Nat /\ w.count \in Nat
      /\ w.start \in Nat /\ 1 <= H /\ w.count <= H /\ w.start <= now
  BY <1>1, <1>2
<1> HIDE DEF later, v, H, L
<1>9. Sorted(later)
  <2> SUFFICES ASSUME NEW i \in 1 .. L + 1, NEW j \in 1 .. L + 1, i <= j
               PROVE  later[i] <= later[j]
    BY <1>3 DEF Sorted
  <2>1. CASE j = L + 1
    BY <1>2, <1>3, <2>1
  <2>2. CASE j # L + 1
    <3>1. i \in 1 .. L /\ j \in 1 .. L
      BY <1>2, <2>2
    <3> QED BY <1>3, <1>5, <3>1
  <2> QED BY <2>1, <2>2
<1>10. \A i \in 1 .. Len(later) : later[i] <= now
  <2> SUFFICES ASSUME NEW i \in 1 .. L + 1 PROVE later[i] <= now
    BY <1>3
  <2>1. CASE i \in 1 .. L
    BY <1>2, <1>3, <2>1
  <2>2. CASE i = L + 1
    BY <1>1, <1>3, <2>2
  <2> QED BY <1>2, <2>1, <2>2
<1>11. Running(later, v)
  <2>1. v.count <= H /\ v.count <= L + 1
    BY <1>1, <1>2, <1>4
  <2>2. ASSUME NEW i \in 1 .. L + 1, i + v.count <= L + 1
        PROVE  later[i] <= v.start
    <3>1. i \in 1 .. L
      BY <1>2, <1>4, <2>2
    <3>2. /\ later[i] = times[i] /\ times[i] \in Nat /\ times[i] <= now
          /\ i + w.count <= L => times[i] <= w.start
      BY <1>2, <1>3, <1>7, <3>1
    <3> QED BY <1>2, <1>4, <2>2, <3>1, <3>2
  <2>3. ASSUME NEW i \in 1 .. L + 1, i + v.count + H <= L + 1
        PROVE  later[i] + Shortest <= v.start
    <3>1. i \in 1 .. L /\ i + H <= L
      BY <1>1, <1>2, <1>4, <2>3
    <3>2. /\ later[i] = times[i] /\ times[i] \in Nat
          /\ i + w.count <= L => times[i] <= w.start
          /\ i + w.count + H <= L => times[i] + Shortest <= w.start
      BY <1>3, <1>7, <3>1
    <3>3. CASE v.count = w.count + 1 /\ v.start = w.start
      <4>1. i \in Nat /\ i + w.count + H <= L
        BY <1>n, <2>3, <3>1, <3>3
      <4> QED BY <3>2, <3>3, <4>1
    <3>4. CASE v.start = now /\ w.start + Shortest <= now
      <4>1. i \in Nat /\ i + w.count <= L
        BY <1>n, <3>1
      <4>2. times[i] <= w.start
        BY <3>2, <4>1
      <4> QED BY <1>n, <3>2, <3>4, <4>2
    <3> QED BY <1>4, <3>3, <3>4
  <2> QED BY <1>3, <2>1, <2>2, <2>3 DEF Running, H
<1>12. Spaced(later)
  <2> SUFFICES ASSUME NEW i \in 1 .. L + 1, i + 2 * H <= L + 1
               PROVE  later[i] + Shortest <= later[i + 2 * H]
    BY <1>3 DEF Spaced, H
  <2>1. CASE i + 2 * H <= L
    <3>1. i \in 1 .. L /\ i + 2 * H \in 1 .. L
      BY <1>1, <1>2, <2>1
    <3> QED BY <1>3, <1>6, <2>1, <3>1
  <2>2. CASE i + 2 * H = L + 1
    <3>0. i + 2 * H \in Nat /\ i <= L /\ i \in 1 .. L
      BY <1>n, <2>2
    <3>1. i \in 1 .. L /\ later[i + 2 * H] = now
      BY <1>3, <2>2, <3>0
    <3>2. /\ later[i] = times[i] /\ times[i] \in Nat
          /\ i + w.count <= L => times[i] <= w.start
          /\ i + w.count + H <= L => times[i] + Shortest <= w.start
      BY <1>3, <1>7, <3>1
    <3>3. CASE v.count = w.count + 1 /\ v.start = w.start /\ v.count <= H
      <4>1. i \in Nat /\ i + w.count + H <= L
        BY <1>n, <2>2, <3>1, <3>3
      <4>2. times[i] + Shortest <= w.start
        BY <3>2, <4>1
      <4> QED BY <1>n, <3>1, <3>2, <4>2
    <3>4. CASE w.start + Shortest <= now
      <4>1. i \in Nat /\ i + w.count <= L
        BY <1>n, <2>2, <3>1
      <4>2. times[i] <= w.start
        BY <3>2, <4>1
      <4> QED BY <1>n, <3>1, <3>2, <3>4, <4>2
    <3> QED BY <1>4, <3>3, <3>4
  <2>3. i + 2 * H <= L \/ i + 2 * H = L + 1
    BY <1>1, <1>2
  <2> QED BY <2>1, <2>2, <2>3
<1>13. v.start <= now
  BY <1>1, <1>2, <1>4
<1> QED BY <1>8, <1>9, <1>10, <1>11, <1>12, <1>13 DEF Accounted, later, v

LEMMA HeldBack ==
  ASSUME NEW w \in [count : Nat, start : Nat], NEW now \in Nat,
         NEW config \in RateLimitConfig, ~Allowed(w, now, config)
  PROVE  Recorded(w, now, config) = w
BY DEF Recorded, Allowed, RateLimitConfig

(* Waiting does not undo it, and it starts with nothing.                   *)
LEMMA StillAccounted ==
  ASSUME NEW times, NEW w, NEW now \in Nat, NEW then \in Nat, now <= then,
         Accounted(times, w, now)
  PROVE  Accounted(times, w, then)
<1>1. /\ times \in Seq(Nat) /\ w.start \in Nat /\ w.start <= now
      /\ \A i \in 1 .. Len(times) : times[i] <= now /\ times[i] \in Nat
  BY DEF Accounted
<1>2. w.start <= then /\ \A i \in 1 .. Len(times) : times[i] <= then
  BY <1>1
<1> QED BY <1>2 DEF Accounted

LEMMA UnusedIsAccounted ==
  ASSUME NEW now \in Nat PROVE Accounted(<<>>, Unused(now), now)
<1>1. Highest \in Nat
  BY HighestIsHighest
<1> QED BY <1>1 DEF Accounted, Unused, Sorted, Spaced, Running

LEMMA RateInit == Init => RateInv
BY DEF Init, RateInv, Senders

LEMMA RateStep == RateInv /\ [Next]_vars => RateInv'
<1> SUFFICES ASSUME RateInv, [Next]_vars PROVE RateInv'
  OBVIOUS
<1>1. ASSUME UNCHANGED rateVars PROVE RateInv'
  BY <1>1 DEF rateVars, RateInv, Accounted, Sorted, Spaced, Running
<1>2. CASE Tick
  <2>1. /\ clock \in Nat /\ clock' = clock + 1
        /\ UNCHANGED <<settings, windows, passed>>
    BY <1>2 DEF Tick, RateInv
  <2>2. ASSUME NEW u \in Senders, windows[u] # Nobody
        PROVE  Accounted(passed[u], windows[u], clock + 1)
    BY <2>1, <2>2, StillAccounted DEF RateInv
  <2> QED BY <2>1, <2>2 DEF RateInv
<1>3. ASSUME NEW config \in Settings, Reload(config) PROVE RateInv'
  BY <1>3 DEF Reload, RateInv
<1>4. CASE Take /\ settings.enabled
  <2> DEFINE w(u) == WindowOf(u)
  <2>1. /\ clock \in Nat /\ settings \in Settings /\ settings \in RateLimitConfig
        /\ UNCHANGED <<settings, clock>>
    BY <1>4, DeliveryAssumption DEF Take, RateInv
  <2>2. ASSUME NEW u \in Senders
        PROVE  Accounted(passed[u], w(u), clock)
    BY <2>1, <2>2, UnusedIsAccounted DEF RateInv, WindowOf
  <2> DEFINE m == Head(inbox)
             r == Recorded(WindowOf(m.user), clock, settings)
             yes == Allowed(WindowOf(m.user), clock, settings)
  <2>3. /\ windows' = [windows EXCEPT ![m.user] = r]
        /\ passed' = IF yes THEN [passed EXCEPT ![m.user] = Append(@, clock)]
                     ELSE passed
    BY <1>4 DEF Take
  <2> HIDE DEF m
  <2>4. ASSUME NEW u \in Senders, u # m.user
        PROVE  windows'[u] = windows[u] /\ passed'[u] = passed[u]
    BY <2>3, <2>4 DEF RateInv
  <2>5. CASE m.user \in Senders /\ yes
    <3>1. Accounted(Append(passed[m.user], clock), r, clock)
      BY <2>1, <2>2, <2>5, LetThrough
    <3>2. windows'[m.user] = r /\ passed'[m.user] = Append(passed[m.user], clock)
      BY <2>3, <2>5 DEF RateInv
    <3>3. r \in [count : Nat, start : Nat]
      BY <3>1 DEF Accounted
    <3>4. Append(passed[m.user], clock) \in Seq(Nat)
      BY <3>1 DEF Accounted
    <3>5. /\ windows' \in [Senders -> [count : Nat, start : Nat] \cup {Nobody}]
          /\ passed' \in [Senders -> Seq(Nat)]
      BY <2>3, <2>5, <3>3, <3>4 DEF RateInv
    <3>6. r # Nobody
      BY <3>3, DeliveryAssumption
    <3>7. ASSUME NEW u \in Senders
          PROVE  IF windows'[u] = Nobody THEN passed'[u] = <<>>
                 ELSE Accounted(passed'[u], windows'[u], clock)
      <4>1. CASE u = m.user
        BY <3>1, <3>2, <3>6, <4>1
      <4>2. CASE u # m.user
        BY <2>4, <4>2 DEF RateInv
      <4> QED BY <4>1, <4>2
    <3> HIDE DEF r, yes
    <3> QED BY <2>1, <3>5, <3>7 DEF RateInv
  <2>6. CASE m.user \in Senders /\ ~yes
    <3>1. Accounted(passed[m.user], w(m.user), clock)
      BY <2>2, <2>6
    <3>2. w(m.user) \in [count : Nat, start : Nat]
      BY <3>1 DEF Accounted
    <3>3. r = w(m.user)
      BY <2>1, <2>6, <3>2, HeldBack
    <3>4. windows'[m.user] = w(m.user) /\ passed' = passed
      BY <2>3, <2>6, <3>3 DEF RateInv
    <3>5. windows' \in [Senders -> [count : Nat, start : Nat] \cup {Nobody}]
      BY <2>3, <2>6, <3>2, <3>3 DEF RateInv
    <3>6. w(m.user) # Nobody
      BY <3>2, DeliveryAssumption
    <3>7. ASSUME NEW u \in Senders
          PROVE  IF windows'[u] = Nobody THEN passed'[u] = <<>>
                 ELSE Accounted(passed'[u], windows'[u], clock)
      <4>1. CASE u = m.user
        BY <3>1, <3>4, <3>6, <4>1
      <4>2. CASE u # m.user
        BY <2>4, <4>2 DEF RateInv
      <4> QED BY <4>1, <4>2
    <3> QED BY <2>1, <3>4, <3>5, <3>7 DEF RateInv
  <2>7. CASE m.user \notin Senders
    <3>1. windows' = windows /\ passed' = passed
      BY <2>3, <2>7 DEF RateInv
    <3> QED BY <2>1, <3>1, <1>1 DEF rateVars
  <2> QED BY <2>5, <2>6, <2>7
<1>5. CASE Take /\ ~settings.enabled
  BY <1>1, <1>5 DEF Take, rateVars
<1>6. CASE Loop
  BY <1>1, <1>4, <1>5, <1>6 DEF Loop, Deny, Route, NoChannel, Think, SendPiece
<1>7. CASE Next /\ ~Loop
  BY <1>1, <1>2, <1>3, <1>7
     DEF Next, Post, Mail, Prefer, Poll, Fire, Connect, HangUp, Closed, Leave,
         Talk, StreamEnds, StreamBreaks
<1>8. CASE UNCHANGED vars
  BY <1>1, <1>8 DEF vars
<1> QED BY <1>6, <1>7, <1>8

(* What is spaced is bounded: from the first message in a span on, the one *)
(* that is 2 * Highest later is no longer in it.                           *)
LEMMA SpacedIsBounded ==
  ASSUME NEW times \in Seq(Nat), Sorted(times), Spaced(times), NEW t \in Nat
  PROVE  Cardinality({i \in DOMAIN times : times[i] \in t..(t + Shortest - 1)})
           <= 2 * Highest
<1> DEFINE S == {i \in 1 .. Len(times) : times[i] \in t..(t + Shortest - 1)}
<1>1. /\ Highest \in Nat /\ Shortest \in Nat
      /\ DOMAIN times = 1 .. Len(times) /\ Len(times) \in Nat
      /\ \A i \in 1 .. Len(times) : times[i] \in Nat
  BY HighestIsHighest, ShortestIsShortest
<1>2. CASE S = {}
  <2>1. Cardinality(S) = 0
    <3> HIDE DEF S
    <3> QED BY <1>2, FS_EmptySet
  <2>2. S = {i \in DOMAIN times : times[i] \in t..(t + Shortest - 1)}
    BY <1>1
  <2>3. 0 <= 2 * Highest
    BY <1>1
  <2> HIDE DEF S
  <2> QED BY <2>1, <2>2, <2>3
<1>3. CASE S # {}
  <2>1. S \in SUBSET Nat
    OBVIOUS
  <2>2. PICK n \in S : \A m \in S : n <= m
    <3> HIDE DEF S
    <3> QED BY <1>3, <2>1, Least
  <2> DEFINE I == n .. (n + 2 * Highest - 1)
  <2>3. /\ n \in 1 .. Len(times) /\ t <= times[n]
        /\ \A i \in S : i \in 1 .. Len(times) /\ times[i] <= t + Shortest - 1
    BY <1>1, <2>2
  <2>4. ASSUME NEW i \in S PROVE i \in I
    <3>1. i \in 1 .. Len(times) /\ n <= i /\ times[i] <= t + Shortest - 1
      BY <2>2, <2>3
    <3>2. SUFFICES ASSUME n + 2 * Highest <= i PROVE FALSE
      BY <1>1, <2>3, <3>1
    <3> DEFINE j == n + 2 * Highest
    <3>3. j \in 1 .. Len(times) /\ j <= i
      BY <1>1, <2>3, <3>1, <3>2
    <3>4. times[n] + Shortest <= times[j]
      BY <1>1, <2>3, <3>3 DEF Spaced
    <3>5. times[j] <= times[i]
      BY <3>1, <3>3 DEF Sorted
    <3>6. times[n] \in Nat /\ times[j] \in Nat /\ times[i] \in Nat
      BY <1>1, <2>3, <3>1, <3>3
    <3> HIDE DEF j
    <3> QED BY <1>1, <2>3, <3>1, <3>4, <3>5, <3>6
  <2>5. IsFiniteSet(I) /\ Cardinality(I) = 2 * Highest
    <3> DEFINE m == n + 2 * Highest - 1
    <3>1. n \in Int /\ m \in Int /\ n <= m /\ m - n + 1 = 2 * Highest
      BY <1>1, <2>3, HighestIsHighest
    <3> HIDE DEF m
    <3>2. IsFiniteSet(n .. m)
      BY <3>1, FS_Interval
    <3>3. Cardinality(n .. m) = IF n > m THEN 0 ELSE m - n + 1
      BY <3>1, FS_Interval
    <3>4. Cardinality(n .. m) = m - n + 1
      BY <3>1, <3>3
    <3> QED BY <3>1, <3>2, <3>4 DEF m
  <2>6. S \in SUBSET I
    BY <2>4
  <2>7. Cardinality(S) <= Cardinality(I)
    <3> HIDE DEF S, I
    <3> QED BY <2>5, <2>6, FS_Subset
  <2> QED BY <1>1, <2>5, <2>7
<1> QED BY <1>2, <1>3

(* In any span as long as the shortest window the limiter lets at most     *)
(* twice the highest configured number of a user's messages through,       *)
(* however often its settings are reloaded.                                *)
THEOREM RateStaysBounded == Spec => []RateIsBounded
<1>1. ASSUME RateInv PROVE RateIsBounded
  <2> SUFFICES ASSUME NEW u \in Senders, NEW t \in 0..clock
               PROVE  Cardinality({i \in DOMAIN passed[u] :
                         passed[u][i] \in t..(t + Shortest - 1)}) <= 2 * Highest
    BY DEF RateIsBounded
  <2>1. passed[u] \in Seq(Nat) /\ Sorted(passed[u]) /\ Spaced(passed[u])
    BY <1>1 DEF RateInv, Accounted, Sorted, Spaced
  <2>2. t \in Nat
    BY <1>1 DEF RateInv
  <2> QED BY <2>1, <2>2, SpacedIsBounded
<1> QED BY <1>1, RateInit, RateStep, PTL DEF Spec, Safe

-----------------------------------------------------------------------------
(* A function that is defined step by step from 0 on exists.               *)
Steps(n, V) == [1..n -> [V -> V]]
Follows(f, n, start, step) == f[0] = start /\ \A i \in 1..n : f[i] = step[i][f[i - 1]]

LEMMA StepByStep ==
  ASSUME NEW n \in Nat, NEW V, NEW start \in V, NEW step \in Steps(n, V)
  PROVE  \E f \in [0..n -> V] : Follows(f, n, start, step)
<1> DEFINE Good(f, k) == f[0] = start /\ \A i \in 1..n : i <= k => f[i] = step[i][f[i - 1]]
           T == {k \in Nat : \E f \in [0..n -> V] : Good(f, k)}
<1>1. 0 \in T
  <2>1. [i \in 0..n |-> start] \in [0..n -> V] /\ Good([i \in 0..n |-> start], 0)
    OBVIOUS
  <2> QED BY <2>1
<1>2. ASSUME NEW k \in T PROVE k + 1 \in T
  <2>1. k \in Nat /\ \E f \in [0..n -> V] : Good(f, k)
    OBVIOUS
  <2>2. PICK f \in [0..n -> V] : Good(f, k)
    BY <2>1
  <2>3. CASE k + 1 \in 1..n
    <3>1. k \in 0..n /\ step[k + 1][f[k]] \in V
      BY <2>1, <2>3 DEF Steps
    <3> DEFINE g == [f EXCEPT ![k + 1] = step[k + 1][f[k]]]
    <3>2. /\ g \in [0..n -> V] /\ g[k + 1] = step[k + 1][f[k]]
          /\ \A i \in 0..n : i <= k => g[i] = f[i]
      BY <2>1, <2>3, <3>1
    <3> HIDE DEF g
    <3>3. ASSUME NEW i \in 1..n, i <= k + 1 PROVE g[i] = step[i][g[i - 1]]
      <4>1. i - 1 \in 0..n /\ i - 1 <= k /\ g[i - 1] = f[i - 1]
        BY <2>1, <3>2, <3>3
      <4>2. CASE i = k + 1
        BY <2>1, <3>2, <4>1, <4>2
      <4>3. CASE i # k + 1
        <5>1. i <= k /\ i \in 0..n
          BY <2>1, <3>3, <4>3
        <5> QED BY <2>2, <3>2, <4>1, <5>1
      <4> QED BY <4>2, <4>3
    <3>4. g[0] = start
      BY <2>1, <2>2, <3>2
    <3>5. Good(g, k + 1)
      BY <3>3, <3>4
    <3> HIDE DEF Good
    <3> QED BY <2>1, <3>2, <3>5
  <2>4. CASE k + 1 \notin 1..n
    <3>1. \A i \in 1..n : i <= k + 1 => i <= k
      BY <2>1, <2>4
    <3>2. Good(f, k + 1)
      BY <2>2, <3>1
    <3> HIDE DEF Good
    <3> QED BY <2>1, <3>2
  <2> QED BY <2>3, <2>4
<1>3. T = Nat
  <2> HIDE DEF T
  <2>1. T \in SUBSET Nat
    BY DEF T
  <2> QED BY <1>1, <1>2, <2>1, SetInduction
<1>4. \E f \in [0..n -> V] : Good(f, n)
  <2> HIDE DEF Good
  <2> QED BY <1>3
<1> QED BY <1>4 DEF Follows

(* And keeps a type that each step keeps.                                  *)
LEMMA TypeByStep ==
  ASSUME NEW n \in Nat, NEW V, NEW f, f[0] \in V, \A i \in 1..n : f[i - 1] \in V => f[i] \in V
  PROVE  \A i \in 0..n : f[i] \in V
<1> DEFINE T == {k \in Nat : k \in 0..n => f[k] \in V}
<1>1. 0 \in T
  OBVIOUS
<1>2. ASSUME NEW k \in T PROVE k + 1 \in T
  <2>1. k \in Nat
    OBVIOUS
  <2> SUFFICES ASSUME k + 1 \in 0..n PROVE f[k + 1] \in V
    BY <2>1
  <2>2. k \in 0..n /\ k + 1 \in 1..n /\ (k + 1) - 1 = k
    BY <2>1
  <2> QED BY <2>2
<1>3. T = Nat
  <2> HIDE DEF T
  <2>1. T \in SUBSET Nat
    BY DEF T
  <2> QED BY <1>1, <1>2, <2>1, SetInduction
<1> QED BY <1>3

(* Two recursive functions of module Outgoing.                             *)
LEMMA WidthType == \A c \in Characters : Width[c] \in Nat \ {0}
BY DEF Characters, Width

LEMMA OffsetsAre ==
  ASSUME NEW text \in Seq(Characters)
  PROVE  /\ Offsets(text) \in [0..Len(text) -> Nat] /\ Offsets(text)[0] = 0
         /\ \A i \in 1..Len(text) : Offsets(text)[i] = Offsets(text)[i - 1] + Width[text[i]]
<1> DEFINE n == Len(text)
           upTo == CHOOSE f : f = [i \in 0..n |-> IF i = 0 THEN 0 ELSE f[i - 1] + Width[text[i]]]
           step == [i \in 1..n |-> [v \in Nat |-> v + Width[text[i]]]]
<1>1. n \in Nat /\ \A i \in 1..n : Width[text[i]] \in Nat
  BY WidthType
<1>2. Offsets(text) = upTo
  BY DEF Offsets
<1>3. step \in Steps(n, Nat)
  BY <1>1 DEF Steps
<1>4. PICK f \in [0..n -> Nat] : Follows(f, n, 0, step)
  <2> HIDE DEF step, n
  <2>1. 0 \in Nat
    OBVIOUS
  <2> QED BY <1>1, <1>3, <2>1, StepByStep
<1>5. \A i \in 1..n : f[i] = f[i - 1] + Width[text[i]]
  <2> TAKE i \in 1..n
  <2>1. i - 1 \in 0..n /\ f[i - 1] \in Nat
    BY <1>1
  <2>2. f[i] = step[i][f[i - 1]]
    BY <1>4 DEF Follows
  <2> QED BY <2>1, <2>2
<1>6. f = [i \in 0..n |-> IF i = 0 THEN 0 ELSE f[i - 1] + Width[text[i]]]
  <2>1. \A i \in 0..n : f[i] = IF i = 0 THEN 0 ELSE f[i - 1] + Width[text[i]]
    <3>1. \A i \in 0..n : i # 0 => i \in 1..n
      BY <1>1
    <3> QED BY <1>4, <1>5, <3>1 DEF Follows
  <2> QED BY <2>1
<1>7. upTo = [i \in 0..n |-> IF i = 0 THEN 0 ELSE upTo[i - 1] + Width[text[i]]]
  BY <1>6
<1> HIDE DEF upTo
<1>8. upTo[0] = 0 /\ \A i \in 1..n : upTo[i] = upTo[i - 1] + Width[text[i]]
  <2>1. 0 \in 0..n /\ \A i \in 1..n : i \in 0..n /\ i # 0
    BY <1>1
  <2> HIDE DEF n
  <2> QED BY <1>7, <2>1
<1>9. \A i \in 0..n : upTo[i] \in Nat
  <2>1. \A i \in 1..n : upTo[i - 1] \in Nat => upTo[i] \in Nat
    BY <1>1, <1>8
  <2> HIDE DEF n
  <2>2. upTo[0] \in Nat
    BY <1>8
  <2> QED BY <1>1, <2>1, <2>2, TypeByStep
<1>10. upTo \in [0..n -> Nat]
  BY <1>7, <1>9
<1> QED BY <1>2, <1>8, <1>10

LEMMA FormattedType ==
  ASSUME NEW text \in Seq(Characters), NEW platform
  PROVE  Formatted(text, platform) \in Seq(Characters)
<1> DEFINE n == Len(text)
           V == Seq(Characters)
           upTo == CHOOSE f : f = [i \in 0..n |-> IF i = 0 THEN <<>> ELSE f[i - 1] \o Escape(text[i])]
           step == [i \in 1..n |-> [v \in V |-> v \o Escape(text[i])]]
<1>1. n \in Nat /\ \A i \in 1..n : Escape(text[i]) \in V
  <2>1. "escape" \in Characters /\ "dot" \in Characters
    BY DEF Characters, Width
  <2>2. \A c \in Characters : Escape(c) \in V
    BY <2>1 DEF Escape
  <2> QED BY <2>2
<1>2. Escaped(text) = upTo[n]
  BY DEF Escaped
<1>3. /\ <<>> \in V
      /\ \A v \in V, i \in 1..n : v \o Escape(text[i]) \in V
  BY <1>1
<1> HIDE DEF V
<1>4. step \in Steps(n, V)
  BY <1>3 DEF Steps
<1>5. PICK f \in [0..n -> V] : Follows(f, n, <<>>, step)
  <2> HIDE DEF step, n
  <2> QED BY <1>1, <1>3, <1>4, StepByStep
<1>6. \A i \in 1..n : f[i] = f[i - 1] \o Escape(text[i])
  <2> TAKE i \in 1..n
  <2>1. i - 1 \in 0..n /\ f[i - 1] \in V
    BY <1>1
  <2>2. f[i] = step[i][f[i - 1]]
    BY <1>5 DEF Follows
  <2> QED BY <2>1, <2>2
<1>7. f = [i \in 0..n |-> IF i = 0 THEN <<>> ELSE f[i - 1] \o Escape(text[i])]
  <2>1. \A i \in 0..n : f[i] = IF i = 0 THEN <<>> ELSE f[i - 1] \o Escape(text[i])
    <3>1. \A i \in 0..n : i # 0 => i \in 1..n
      BY <1>1
    <3> QED BY <1>5, <1>6, <3>1 DEF Follows
  <2> QED BY <2>1
<1>8. upTo = [i \in 0..n |-> IF i = 0 THEN <<>> ELSE upTo[i - 1] \o Escape(text[i])]
  BY <1>7
<1> HIDE DEF upTo
<1>9. upTo[0] = <<>> /\ \A i \in 1..n : upTo[i] = upTo[i - 1] \o Escape(text[i])
  <2>1. 0 \in 0..n /\ \A i \in 1..n : i \in 0..n /\ i # 0
    BY <1>1
  <2> HIDE DEF n
  <2> QED BY <1>8, <2>1
<1>10. \A i \in 0..n : upTo[i] \in V
  <2>1. \A i \in 1..n : upTo[i - 1] \in V => upTo[i] \in V
    BY <1>3, <1>9
  <2> HIDE DEF n
  <2>2. upTo[0] \in V
    BY <1>3, <1>9
  <2> QED BY <1>1, <2>1, <2>2, TypeByStep
<1>11. Escaped(text) \in V
  BY <1>1, <1>2, <1>10
<1> QED BY <1>11 DEF Formatted, V

(* A longer slice has at least as many bytes.                              *)
LEMMA BytesGrow ==
  ASSUME NEW text \in Seq(Characters), NEW from \in 1..Len(text),
         NEW a \in (from - 1)..Len(text), NEW b \in a..Len(text)
  PROVE  /\ Bytes(text, from, a) \in Nat /\ Bytes(text, from, b) \in Nat
         /\ Bytes(text, from, a) <= Bytes(text, from, b)
<1> DEFINE n == Len(text)
           T == {k \in Nat : \A i \in 0..n : i + k \in 0..n => Offsets(text)[i] <= Offsets(text)[i + k]}
<1>1. /\ n \in Nat /\ \A i \in 0..n : Offsets(text)[i] \in Nat
      /\ \A i \in 1..n : Offsets(text)[i] >= Offsets(text)[i - 1]
  <2>1. \A i \in 1..n : Width[text[i]] \in Nat
    BY WidthType
  <2>2. n \in Nat /\ \A i \in 0..n : Offsets(text)[i] \in Nat
    BY OffsetsAre
  <2>3. \A i \in 1..n : Offsets(text)[i] = Offsets(text)[i - 1] + Width[text[i]]
    BY OffsetsAre
  <2>4. \A i \in 1..n : i - 1 \in 0..n
    BY <2>2
  <2>5. ASSUME NEW i \in 1..n PROVE Offsets(text)[i] >= Offsets(text)[i - 1]
    <3>1. /\ Offsets(text)[i] = Offsets(text)[i - 1] + Width[text[i]]
          /\ Offsets(text)[i - 1] \in Nat /\ Width[text[i]] \in Nat
      BY <2>1, <2>2, <2>3, <2>4
    <3> QED BY <3>1
  <2> QED BY <2>2, <2>5
<1>2. 0 \in T
  BY <1>1
<1>3. ASSUME NEW k \in T PROVE k + 1 \in T
  <2>1. k \in Nat /\ \A i \in 0..n : i + k \in 0..n => Offsets(text)[i] <= Offsets(text)[i + k]
    OBVIOUS
  <2> SUFFICES ASSUME NEW i \in 0..n, i + (k + 1) \in 0..n
               PROVE  Offsets(text)[i] <= Offsets(text)[i + (k + 1)]
    BY <2>1
  <2> DEFINE j == i + (k + 1)
  <2>2. j \in 1..n /\ j - 1 = i + k /\ i + k \in 0..n
    BY <1>1, <2>1
  <2>3. Offsets(text)[j - 1] <= Offsets(text)[j]
    BY <1>1, <2>2
  <2>4. Offsets(text)[i] <= Offsets(text)[i + k]
    BY <2>1, <2>2
  <2>5. Offsets(text)[i] \in Nat /\ Offsets(text)[j - 1] \in Nat /\ Offsets(text)[j] \in Nat
    BY <1>1, <2>2
  <2> QED BY <2>2, <2>3, <2>4, <2>5
<1>4. T = Nat
  <2> HIDE DEF T
  <2>1. T \in SUBSET Nat
    BY DEF T
  <2> QED BY <1>2, <1>3, <2>1, SetInduction
<1>5. ASSUME NEW i \in 0..n, NEW j \in i..n PROVE Offsets(text)[i] <= Offsets(text)[j]
  <2>1. j - i \in Nat /\ i + (j - i) = j /\ j \in 0..n
    BY <1>1
  <2>2. j - i \in T
    <3> HIDE DEF T
    <3> QED BY <1>4, <2>1
  <2> QED BY <2>1, <2>2
<1>6. from - 1 \in 0..n /\ a \in (from - 1)..n /\ b \in (from - 1)..n /\ a \in 0..n /\ b \in a..n
  BY <1>1
<1>7. /\ Offsets(text)[from - 1] <= Offsets(text)[a] /\ Offsets(text)[a] <= Offsets(text)[b]
      /\ Offsets(text)[from - 1] <= Offsets(text)[b]
  <2> HIDE DEF n
  <2> QED BY <1>5, <1>6
<1>8. /\ Offsets(text)[from - 1] \in Nat /\ Offsets(text)[a] \in Nat /\ Offsets(text)[b] \in Nat
  <2>1. b \in 0..n
    BY <1>1, <1>6
  <2> QED BY <1>1, <1>6, <2>1
<1> QED BY <1>7, <1>8 DEF Bytes

LEMMA Maximum ==
  ASSUME NEW n \in Nat, NEW S \in SUBSET (0..n), S # {}
  PROVE  /\ (CHOOSE i \in S : \A j \in S : j <= i) \in S
         /\ \A j \in S : j <= (CHOOSE i \in S : \A j_1 \in S : j_1 <= i)
<1>1. S \in SUBSET Nat
  OBVIOUS
<1>2. IsFiniteSet(S)
  <2>1. IsFiniteSet(0..n)
    BY FS_Interval
  <2> QED BY <2>1, FS_Subset
<1>3. \E i \in S : \A j \in S : j <= i
  BY <1>1, <1>2, Largest
<1> QED BY <1>3

LEMMA HardIs ==
  ASSUME NEW text \in Seq(Characters), NEW limit \in Nat, NEW from \in 1..Len(text),
         Width[text[from]] <= limit
  PROVE  /\ Hard(text, from, limit) \in from..Len(text)
         /\ Bytes(text, from, Hard(text, from, limit)) <= limit
<1> DEFINE fitting == {to \in (from - 1)..Len(text) : Bytes(text, from, to) <= limit}
<1>1. Len(text) \in Nat /\ from \in Nat
  OBVIOUS
<1>2. Bytes(text, from, from) = Width[text[from]]
  <2>1. /\ Offsets(text)[from] = Offsets(text)[from - 1] + Width[text[from]]
        /\ Offsets(text)[from - 1] \in Nat /\ Width[text[from]] \in Nat
    <3>1. from - 1 \in 0..Len(text)
      BY <1>1
    <3>2. text[from] \in Characters
      OBVIOUS
    <3> QED BY <3>1, <3>2, OffsetsAre, WidthType
  <2> QED BY <2>1 DEF Bytes
<1>3. from \in fitting
  BY <1>1, <1>2
<1>4. fitting \in SUBSET (0..Len(text))
  BY <1>1
<1>5. Hard(text, from, limit) = CHOOSE to \in fitting : \A other \in fitting : other <= to
  BY DEF Hard
<1> HIDE DEF fitting
<1>6. Hard(text, from, limit) \in fitting /\ from <= Hard(text, from, limit)
  BY <1>1, <1>3, <1>4, <1>5, Maximum
<1>7. /\ Hard(text, from, limit) \in (from - 1)..Len(text)
      /\ Bytes(text, from, Hard(text, from, limit)) <= limit
  BY <1>6 DEF fitting
<1> QED BY <1>1, <1>6, <1>7

LEMMA CutIs ==
  ASSUME NEW text \in Seq(Characters), NEW from \in 1..Len(text), NEW to \in from..Len(text)
  PROVE  Cut(text, from, to) \in from..to
<1> DEFINE S == Spaces(text, from, to)
           last == CHOOSE i \in S : \A j \in S : j <= i
<1>1. CASE S = {}
  BY <1>1 DEF Cut
<1>2. CASE S # {}
  <2>1. S \in SUBSET (0..Len(text)) /\ S \subseteq from..to /\ Len(text) \in Nat
    BY DEF Spaces
  <2>2. last \in S
    <3> HIDE DEF S
    <3> QED BY <1>2, <2>1, Maximum
  <2>3. Cut(text, from, to) = IF last = from THEN to ELSE last - 1
    BY <1>2 DEF Cut
  <2> HIDE DEF last, S
  <2>4. last \in from..to
    BY <2>1, <2>2
  <2> QED BY <2>3, <2>4
<1> QED BY <1>1, <1>2

LEMMA ResumedIs ==
  ASSUME NEW text \in Seq(Characters), NEW to \in 1..Len(text)
  PROVE  /\ Resumed(text, to) \in (to + 1)..(Len(text) + 1)
         /\ Resumed(text, to) # Len(text) + 1 => text[Resumed(text, to)] # "space"
         /\ \A i \in (to + 1)..(Resumed(text, to) - 1) : text[i] = "space"
<1> DEFINE ahead == {i \in (to + 1)..Len(text) : text[i] # "space"} \cup {Len(text) + 1}
           next == CHOOSE i \in ahead : \A j \in ahead : i <= j
<1>1. Len(text) \in Nat /\ to \in Nat
  OBVIOUS
<1>2. ahead \in SUBSET Nat /\ ahead # {} /\ ahead \subseteq (to + 1)..(Len(text) + 1)
  BY <1>1
<1>3. next \in ahead /\ \A j \in ahead : next <= j
  <2> HIDE DEF ahead
  <2>1. \E i \in ahead : \A j \in ahead : i <= j
    BY <1>2, Least
  <2> QED BY <2>1
<1>4. Resumed(text, to) = next
  BY DEF Resumed
<1> HIDE DEF next
<1>5. next \in (to + 1)..(Len(text) + 1)
  BY <1>2, <1>3
<1>6. next # Len(text) + 1 => text[next] # "space"
  BY <1>3
<1>7. ASSUME NEW i \in (to + 1)..(next - 1) PROVE text[i] = "space"
  <2>1. i \in (to + 1)..Len(text) /\ ~(next <= i)
    BY <1>1, <1>5
  <2>2. i \notin ahead
    <3> HIDE DEF ahead
    <3> QED BY <1>3, <2>1
  <2> QED BY <2>1, <2>2
<1> QED BY <1>4, <1>5, <1>6, <1>7

-----------------------------------------------------------------------------
(* A function that is defined from its end on, with jumps forward, exists. *)
Jumps(n) == {next \in [1..n -> 1..(n + 1)] : \A i \in 1..n : next[i] > i}

Continues(f, n, stop, step, next) ==
  f[n + 1] = stop /\ \A i \in 1..n : f[i] = step[i][f[next[i]]]

LEMMA BackToFront ==
  ASSUME NEW n \in Nat, NEW V, NEW stop \in V, NEW step \in Steps(n, V), NEW next \in Jumps(n)
  PROVE  \E f \in [1..(n + 1) -> V] : Continues(f, n, stop, step, next)
<1> DEFINE Good(f, k) ==
             f[n + 1] = stop /\ \A i \in 1..n : i > n - k => f[i] = step[i][f[next[i]]]
           T == {k \in Nat : \E f \in [1..(n + 1) -> V] : Good(f, k)}
<1>0. \A i \in 1..n : next[i] \in 1..(n + 1) /\ next[i] > i
  BY DEF Jumps
<1>1. 0 \in T
  <2>1. /\ [i \in 1..(n + 1) |-> stop] \in [1..(n + 1) -> V]
        /\ Good([i \in 1..(n + 1) |-> stop], 0)
    OBVIOUS
  <2> HIDE DEF Good
  <2> QED BY <2>1
<1>2. ASSUME NEW k \in T PROVE k + 1 \in T
  <2>1. k \in Nat /\ \E f \in [1..(n + 1) -> V] : Good(f, k)
    OBVIOUS
  <2>2. PICK f \in [1..(n + 1) -> V] : Good(f, k)
    BY <2>1
  <2> DEFINE j == n - k
  <2>3. CASE j \in 1..n
    <3>1. /\ next[j] \in 1..(n + 1) /\ next[j] > j /\ f[next[j]] \in V
          /\ step[j][f[next[j]]] \in V
      BY <1>0, <2>3 DEF Steps
    <3> DEFINE g == [f EXCEPT ![j] = step[j][f[next[j]]]]
    <3>2. /\ g \in [1..(n + 1) -> V] /\ g[j] = step[j][f[next[j]]]
          /\ \A i \in 1..(n + 1) : i > j => g[i] = f[i]
      BY <2>1, <2>3, <3>1
    <3> HIDE DEF g
    <3>3. ASSUME NEW i \in 1..n, i > n - (k + 1) PROVE g[i] = step[i][g[next[i]]]
      <4>1. i >= j /\ i \in 1..(n + 1)
        BY <2>1, <3>3
      <4>2. next[i] \in 1..(n + 1) /\ next[i] > j
        BY <1>0, <2>1, <4>1
      <4>3. g[next[i]] = f[next[i]]
        BY <3>2, <4>2
      <4>4. CASE i = j
        BY <3>2, <4>3, <4>4
      <4>5. CASE i # j
        <5>1. i > j
          BY <2>1, <4>1, <4>5
        <5>2. g[i] = f[i] /\ f[i] = step[i][f[next[i]]]
          BY <2>2, <3>2, <4>1, <5>1
        <5> QED BY <4>3, <5>2
      <4> QED BY <4>4, <4>5
    <3>4. g[n + 1] = stop
      <4>1. n + 1 \in 1..(n + 1) /\ n + 1 > j
        BY <2>1
      <4> QED BY <2>2, <3>2, <4>1
    <3>5. Good(g, k + 1)
      BY <3>3, <3>4
    <3> HIDE DEF Good
    <3> QED BY <2>1, <3>2, <3>5
  <2>4. CASE j \notin 1..n
    <3>1. \A i \in 1..n : i > n - (k + 1) => i > n - k
      BY <2>1, <2>4
    <3>2. Good(f, k + 1)
      BY <2>2, <3>1
    <3> HIDE DEF Good
    <3> QED BY <2>1, <3>2
  <2> QED BY <2>3, <2>4
<1>3. T = Nat
  <2> HIDE DEF T
  <2>1. T \in SUBSET Nat
    BY DEF T
  <2> QED BY <1>1, <1>2, <2>1, SetInduction
<1>4. PICK f \in [1..(n + 1) -> V] : Good(f, n)
  <2> HIDE DEF Good
  <2> QED BY <1>3
<1>5. \A i \in 1..n : f[i] = step[i][f[next[i]]]
  <2> TAKE i \in 1..n
  <2>1. i > n - n
    OBVIOUS
  <2> QED BY <1>4, <2>1
<1> QED BY <1>4, <1>5 DEF Continues

(* The pieces of a text from its i-th character on.                        *)
Slices == Nat \X Nat

WholeFrom(text, limit, i, pieces) ==
  /\ pieces \in Seq(Slices)
  /\ i = Len(text) + 1 => pieces = <<>>
  /\ i # Len(text) + 1 => pieces # <<>> /\ pieces[1][1] = i
  /\ \A k \in DOMAIN pieces : Sound(text, limit, pieces, k)

LEMMA LastPiece ==
  ASSUME NEW text \in Seq(Characters), NEW limit \in Nat, NEW i \in 1..Len(text),
         Bytes(text, i, Len(text)) <= limit
  PROVE  WholeFrom(text, limit, i, << <<i, Len(text)>> >>)
<1> DEFINE pieces == << <<i, Len(text)>> >>
<1>1. Len(text) \in Nat /\ i # Len(text) + 1
  OBVIOUS
<1>2. /\ pieces \in Seq(Slices) /\ Len(pieces) = 1 /\ DOMAIN pieces = {1}
      /\ pieces # <<>> /\ pieces[1] = <<i, Len(text)>>
  BY <1>1 DEF Slices
<1> HIDE DEF pieces
<1>3. pieces[1][1] = i /\ pieces[1][2] = Len(text) /\ Follower(text, pieces, 1) = Len(text) + 1
  BY <1>2 DEF Follower
<1>4. Fits(text, limit, pieces[1])
  BY <1>3 DEF Fits
<1>5. Sound(text, limit, pieces, 1)
  BY <1>1, <1>3, <1>4 DEF Sound
<1>6. WholeFrom(text, limit, i, pieces)
  BY <1>1, <1>2, <1>3, <1>5 DEF WholeFrom
<1> QED BY <1>6 DEF pieces

(* A piece that fits, and behind the white space after it the others.      *)
LEMMA OnePieceMore ==
  ASSUME NEW text \in Seq(Characters), NEW limit \in Nat, NEW i \in 1..Len(text),
         NEW to \in i..Len(text), Bytes(text, i, to) <= limit,
         NEW rest, WholeFrom(text, limit, Resumed(text, to), rest)
  PROVE  WholeFrom(text, limit, i, << <<i, to>> >> \o rest)
<1> DEFINE pieces == << <<i, to>> >> \o rest
           r == Resumed(text, to)
<1>1. Len(text) \in Nat /\ i \in Nat /\ to \in 1..Len(text) /\ to \in Nat /\ i # Len(text) + 1
  OBVIOUS
<1>2. /\ r \in (to + 1)..(Len(text) + 1)
      /\ r # Len(text) + 1 => text[r] # "space"
      /\ \A l \in (to + 1)..(r - 1) : text[l] = "space"
  BY <1>1, ResumedIs
<1>3. rest \in Seq(Slices) /\ Len(rest) \in Nat
  BY DEF WholeFrom
<1>4. /\ pieces \in Seq(Slices) /\ Len(pieces) = Len(rest) + 1 /\ pieces[1] = <<i, to>>
      /\ \A k \in 1..Len(rest) : pieces[k + 1] = rest[k]
      /\ DOMAIN pieces = 1..(Len(rest) + 1) /\ DOMAIN rest = 1..Len(rest)
  <2>1. << <<i, to>> >> \in Seq(Slices) /\ Len(<< <<i, to>> >>) = 1
        /\ << <<i, to>> >>[1] = <<i, to>>
    BY <1>1 DEF Slices
  <2> DEFINE first == << <<i, to>> >>
  <2> HIDE DEF first
  <2>2. first \in Seq(Slices) /\ Len(first) = 1 /\ first[1] = <<i, to>>
    BY <2>1 DEF first
  <2>3. /\ first \o rest \in Seq(Slices) /\ Len(first \o rest) = 1 + Len(rest)
        /\ \A k \in 1..(1 + Len(rest)) :
             (first \o rest)[k] = IF k <= 1 THEN first[k] ELSE rest[k - 1]
    <3>1. /\ first \o rest \in Seq(Slices) /\ Len(first \o rest) = Len(first) + Len(rest)
          /\ \A k \in 1..(Len(first) + Len(rest)) :
               (first \o rest)[k] = IF k <= Len(first) THEN first[k] ELSE rest[k - Len(first)]
      BY <1>3, <2>2, ConcatProperties, ZenonT(20)
    <3> QED BY <2>2, <3>1
  <2>5. (first \o rest)[1] = <<i, to>>
    BY <1>3, <2>2, <2>3
  <2>6. ASSUME NEW k \in 1..Len(rest) PROVE (first \o rest)[k + 1] = rest[k]
    <3>1. k + 1 \in 1..(1 + Len(rest)) /\ ~(k + 1 <= 1) /\ (k + 1) - 1 = k
      BY <1>3
    <3> QED BY <2>3, <3>1
  <2>4. DOMAIN (first \o rest) = 1..(Len(rest) + 1) /\ DOMAIN rest = 1..Len(rest)
    BY <1>3, <2>3
  <2>7. 1 + Len(rest) = Len(rest) + 1
    BY <1>3
  <2> QED BY <2>3, <2>4, <2>5, <2>6, <2>7 DEF first
<1>5. r = Len(text) + 1 => rest = <<>>
  BY DEF WholeFrom
<1>6. r # Len(text) + 1 => rest # <<>> /\ rest[1][1] = r
  BY DEF WholeFrom
<1>7. \A k \in 1..Len(rest) : Sound(text, limit, rest, k)
  BY <1>4 DEF WholeFrom
<1> HIDE DEF pieces, r
<1>8. Follower(text, pieces, 1) = r
  <2>1. CASE r = Len(text) + 1
    <3>1. Len(pieces) = 1
      BY <1>4, <1>5, <2>1
    <3> QED BY <2>1, <3>1 DEF Follower
  <2>2. CASE r # Len(text) + 1
    <3>1. Len(rest) # 0 /\ 1 \in 1..Len(rest) /\ 1 # Len(pieces)
      BY <1>3, <1>4, <1>6, <2>2
    <3>2. pieces[1 + 1] = rest[1]
      BY <1>4, <3>1
    <3> QED BY <1>6, <2>2, <3>1, <3>2 DEF Follower
  <2> QED BY <2>1, <2>2
<1>9. Sound(text, limit, pieces, 1)
  <2>1. pieces[1][1] = i /\ pieces[1][2] = to
    BY <1>4
  <2>2. Fits(text, limit, pieces[1])
    BY <2>1 DEF Fits
  <2> QED BY <1>1, <1>2, <1>8, <2>1, <2>2 DEF Sound
<1>10. ASSUME NEW k \in 1..Len(rest) PROVE Sound(text, limit, pieces, k + 1)
  <2>1. pieces[k + 1] = rest[k] /\ k + 1 > 1
    BY <1>3, <1>4
  <2>2. Follower(text, pieces, k + 1) = Follower(text, rest, k)
    <3>1. CASE k = Len(rest)
      BY <1>3, <1>4, <3>1 DEF Follower
    <3>2. CASE k # Len(rest)
      <4>1. k + 1 \in 1..Len(rest) /\ k + 1 # Len(pieces)
        BY <1>3, <1>4, <3>2
      <4>2. pieces[(k + 1) + 1] = rest[k + 1]
        BY <1>4, <4>1
      <4> QED BY <3>2, <4>1, <4>2 DEF Follower
    <3> QED BY <3>1, <3>2
  <2>3. Sound(text, limit, rest, k)
    BY <1>7
  <2>4. text[rest[k][1]] # "space"
    <3>1. CASE k = 1
      <4>1. rest # <<>>
        BY <1>3, <3>1
      <4> QED BY <1>2, <1>5, <1>6, <3>1, <4>1
    <3>2. CASE k # 1
      BY <1>3, <2>3, <3>2 DEF Sound
    <3> QED BY <3>1, <3>2
  <2> QED BY <2>1, <2>2, <2>3, <2>4 DEF Sound
<1>11. \A k \in DOMAIN pieces : Sound(text, limit, pieces, k)
  <2> TAKE k \in DOMAIN pieces
  <2>1. k = 1 \/ (k - 1 \in 1..Len(rest) /\ k = (k - 1) + 1)
    BY <1>3, <1>4
  <2> QED BY <1>9, <1>10, <2>1
<1>12. pieces # <<>> /\ pieces[1][1] = i
  BY <1>3, <1>4
<1>13. WholeFrom(text, limit, i, pieces)
  BY <1>1, <1>4, <1>11, <1>12 DEF WholeFrom
<1> QED BY <1>13 DEF pieces

(* Each character fits, so each piece has one and the text has an end.     *)
LEMMA SplitIsWhole ==
  ASSUME NEW text \in Seq(Characters), NEW limit \in Nat, text # <<>>,
         \A i \in 1..Len(text) : Width[text[i]] <= limit
  PROVE  WholeFrom(text, limit, 1, Split(text, limit))
<1> DEFINE n == Len(text)
           to(i) == Cut(text, i, Hard(text, i, limit))
           next == [i \in 1..n |-> Resumed(text, to(i))]
           short(i) == Bytes(text, i, n) <= limit
           V == Seq(Slices)
           step == [i \in 1..n |-> [v \in V |->
                      IF short(i) THEN << <<i, n>> >> ELSE << <<i, to(i)>> >> \o v]]
           rest == CHOOSE f : f = [i \in 1..(n + 1) |->
                      IF i > n THEN <<>> ELSE IF short(i) THEN << <<i, n>> >>
                      ELSE << <<i, to(i)>> >> \o f[Resumed(text, to(i))]]
<1>1. n \in Nat /\ n # 0
  OBVIOUS
<1>2. ASSUME NEW i \in 1..n
      PROVE  /\ to(i) \in i..n /\ Bytes(text, i, to(i)) <= limit
             /\ Resumed(text, to(i)) \in (i + 1)..(n + 1)
  <2> DEFINE h == Hard(text, i, limit)
  <2>1. h \in i..n /\ Bytes(text, i, h) <= limit
    BY HardIs
  <2> HIDE DEF h
  <2>2. Cut(text, i, h) \in i..h
    BY <2>1, CutIs
  <2> DEFINE c == Cut(text, i, h)
  <2>3. c \in i..n /\ c \in (i - 1)..n /\ h \in c..n /\ c \in 1..n
    BY <1>1, <2>1, <2>2
  <2> HIDE DEF c
  <2>4. Bytes(text, i, c) \in Nat /\ Bytes(text, i, h) \in Nat /\ Bytes(text, i, c) <= Bytes(text, i, h)
    BY <2>3, BytesGrow
  <2>5. Bytes(text, i, c) <= limit
    BY <2>1, <2>4
  <2>6. Resumed(text, c) \in (c + 1)..(n + 1)
    BY <2>3, ResumedIs
  <2>7. Resumed(text, c) \in (i + 1)..(n + 1)
    BY <1>1, <2>3, <2>6
  <2> QED BY <2>3, <2>5, <2>7 DEF c, h
<1> HIDE DEF to
<1>3. next \in Jumps(n)
  <2>1. \A i \in 1..n : Resumed(text, to(i)) \in 1..(n + 1) /\ Resumed(text, to(i)) > i
    BY <1>1, <1>2
  <2> HIDE DEF n
  <2> QED BY <2>1 DEF Jumps
<1>4. step \in Steps(n, V) /\ <<>> \in V
  <2>1. ASSUME NEW i \in 1..n, NEW v \in V
        PROVE  << <<i, n>> >> \in V /\ << <<i, to(i)>> >> \o v \in V
    <3>1. i \in Nat /\ n \in Nat /\ to(i) \in Nat
      BY <1>1, <1>2
    <3>2. << <<i, n>> >> \in V /\ << <<i, to(i)>> >> \in V
      <4> HIDE DEF n
      <4> QED BY <3>1 DEF Slices
    <3>3. << <<i, to(i)>> >> \o v \in V
      BY <3>2, ConcatProperties, ZenonT(20)
    <3> QED BY <3>2, <3>3
  <2>2. <<>> \in V
    OBVIOUS
  <2> HIDE DEF n, V, short
  <2> QED BY <2>1, <2>2 DEF Steps
<1>5. PICK f \in [1..(n + 1) -> V] : Continues(f, n, <<>>, step, next)
  <2> HIDE DEF n, V, step, next
  <2> QED BY <1>1, <1>3, <1>4, BackToFront
<1>6. f[n + 1] = <<>>
  BY <1>5 DEF Continues
<1>7. ASSUME NEW i \in 1..n
      PROVE  f[i] = IF short(i) THEN << <<i, n>> >>
                    ELSE << <<i, to(i)>> >> \o f[Resumed(text, to(i))]
  <2>1. next[i] = Resumed(text, to(i)) /\ next[i] \in 1..(n + 1)
    BY <1>1, <1>2
  <2>2. f[i] = step[i][f[next[i]]] /\ f[next[i]] \in V
    <3> HIDE DEF step, next, V
    <3> QED BY <1>5, <2>1 DEF Continues
  <2> HIDE DEF n, V, short, next
  <2> QED BY <2>1, <2>2
<1>8. f = [i \in 1..(n + 1) |->
             IF i > n THEN <<>> ELSE IF short(i) THEN << <<i, n>> >>
             ELSE << <<i, to(i)>> >> \o f[Resumed(text, to(i))]]
  <2> DEFINE g(i) == IF i > n THEN <<>> ELSE IF short(i) THEN << <<i, n>> >>
                     ELSE << <<i, to(i)>> >> \o f[Resumed(text, to(i))]
  <2>1. ASSUME NEW i \in 1..(n + 1) PROVE f[i] = g(i)
    <3>1. CASE i = n + 1
      <4>1. i > n
        BY <1>1, <3>1
      <4> QED BY <1>6, <3>1, <4>1
    <3>2. CASE i # n + 1
      <4>1. i \in 1..n /\ ~(i > n)
        BY <1>1, <3>2
      <4> QED BY <1>7, <4>1
    <3> QED BY <3>1, <3>2
  <2> HIDE DEF g
  <2>2. f = [i \in 1..(n + 1) |-> g(i)]
    BY <2>1
  <2> QED BY <2>2 DEF g
<1>9. rest = [i \in 1..(n + 1) |->
                IF i > n THEN <<>> ELSE IF short(i) THEN << <<i, n>> >>
                ELSE << <<i, to(i)>> >> \o rest[Resumed(text, to(i))]]
  <2> HIDE DEF n, short
  <2> QED BY <1>8
<1>10. Split(text, limit) = rest[1]
  BY DEF Split, to
<1> HIDE DEF rest
<1>11. rest[n + 1] = <<>>
  <2>1. n + 1 \in 1..(n + 1) /\ n + 1 > n
    BY <1>1
  <2> HIDE DEF n, short
  <2> QED BY <1>9, <2>1
<1>12. ASSUME NEW i \in 1..n
       PROVE  rest[i] = IF short(i) THEN << <<i, n>> >>
                        ELSE << <<i, to(i)>> >> \o rest[Resumed(text, to(i))]
  <2>1. i \in 1..(n + 1) /\ ~(i > n)
    BY <1>1
  <2> HIDE DEF n, short
  <2> QED BY <1>9, <2>1
<1> DEFINE W(i) == WholeFrom(text, limit, i, rest[i])
           T == {k \in Nat : \A i \in 1..(n + 1) : i >= n + 1 - k => W(i)}
<1>13. W(n + 1)
  <2>1. <<>> \in Seq(Slices) /\ DOMAIN <<>> = {}
    OBVIOUS
  <2> QED BY <1>11, <2>1 DEF WholeFrom
<1>14. ASSUME NEW i \in 1..n, W(Resumed(text, to(i))) PROVE W(i)
  <2>1. CASE short(i)
    <3>1. WholeFrom(text, limit, i, << <<i, n>> >>)
      BY <2>1, LastPiece
    <3> QED BY <1>12, <2>1, <3>1
  <2>2. CASE ~short(i)
    <3>1. WholeFrom(text, limit, i, << <<i, to(i)>> >> \o rest[Resumed(text, to(i))])
      BY <1>2, <1>14, OnePieceMore
    <3> QED BY <1>12, <2>2, <3>1
  <2> QED BY <2>1, <2>2
<1> HIDE DEF W, short, n
<1>15. 0 \in T
  BY <1>1, <1>13
<1>16. ASSUME NEW k \in T PROVE k + 1 \in T
  <2>1. k \in Nat /\ \A i \in 1..(n + 1) : i >= n + 1 - k => W(i)
    OBVIOUS
  <2>2. ASSUME NEW i \in 1..(n + 1), i >= n + 1 - (k + 1) PROVE W(i)
    <3>1. CASE i >= n + 1 - k
      BY <2>1, <3>1
    <3>2. CASE ~(i >= n + 1 - k)
      <4>1. i \in 1..n /\ i + 1 >= n + 1 - k
        BY <1>1, <2>1, <2>2, <3>2
      <4> DEFINE r == Resumed(text, to(i))
      <4>2. r \in (i + 1)..(n + 1)
        BY <1>2, <4>1
      <4> HIDE DEF r
      <4>3. r \in 1..(n + 1) /\ r >= n + 1 - k
        BY <1>1, <2>1, <4>1, <4>2
      <4>4. W(r)
        BY <2>1, <4>3
      <4> QED BY <1>14, <4>1, <4>4 DEF r
    <3> QED BY <3>1, <3>2
  <2> QED BY <2>1, <2>2
<1>17. T = Nat
  <2> HIDE DEF T
  <2>1. T \in SUBSET Nat
    BY DEF T
  <2> QED BY <1>15, <1>16, <2>1, SetInduction
<1>18. W(1)
  <2>1. 1 \in 1..(n + 1) /\ 1 >= n + 1 - n
    BY <1>1
  <2>2. n \in T
    <3> HIDE DEF T
    <3> QED BY <1>1, <1>17
  <2> QED BY <2>1, <2>2
<1> QED BY <1>10, <1>18 DEF W

LEMMA ChunksOfAText ==
  ASSUME NEW text \in Seq(Characters), NEW limit \in Nat, ~Spins(text, limit)
  PROVE  Whole(text, limit, Chunks(text, limit)) /\ Chunks(text, limit) # <<>>
<1> DEFINE n == Len(text)
<1>1. n \in Nat
  OBVIOUS
<1>2. CASE limit = 0 \/ Bytes(text, 1, n) <= limit
  <2> DEFINE pieces == << <<1, n>> >>
  <2>1. Chunks(text, limit) = pieces
    BY <1>2 DEF Chunks
  <2>2. /\ pieces # <<>> /\ pieces[1] = <<1, n>> /\ Len(pieces) = 1
        /\ DOMAIN pieces = {1} /\ pieces[1][1] = 1 /\ pieces[1][2] = n
    OBVIOUS
  <2> HIDE DEF pieces
  <2>3. Follower(text, pieces, 1) = n + 1
    BY <2>2 DEF Follower
  <2>4. Fits(text, limit, pieces[1])
    BY <1>2, <2>2 DEF Fits
  <2>5. text # <<>> => 1 \in 1..n
    BY <1>1
  <2>6. Sound(text, limit, pieces, 1)
    BY <1>1, <2>2, <2>3, <2>4, <2>5 DEF Sound
  <2> QED BY <2>1, <2>2, <2>6 DEF Whole
<1>3. CASE limit # 0 /\ ~(Bytes(text, 1, n) <= limit)
  <2>1. Chunks(text, limit) = Split(text, limit)
    BY <1>3 DEF Chunks
  <2>2. Bytes(text, 1, n) \in Nat /\ limit > 0
    <3>1. Offsets(text)[n] \in Nat /\ Offsets(text)[1 - 1] = 0
      BY <1>1, OffsetsAre
    <3> QED BY <1>3, <3>1 DEF Bytes
  <2>3. text # <<>>
    <3>1. Offsets(text)[0] = 0
      BY OffsetsAre
    <3>2. 1 - 1 = 0 /\ 0 - 0 = 0 /\ 0 <= limit
      OBVIOUS
    <3>3. Bytes(text, 1, 0) = 0
      BY <3>1, <3>2 DEF Bytes
    <3>4. n # 0
      BY <1>3, <3>2, <3>3
    <3> QED BY <3>4
  <2>4. \A i \in 1..n : Width[text[i]] <= limit
    <3> TAKE i \in 1..n
    <3>1. ~(Width[text[i]] > limit)
      BY <1>3, <2>2 DEF Spins
    <3>2. Width[text[i]] \in Nat
      BY WidthType
    <3> QED BY <3>1, <3>2
  <2>5. WholeFrom(text, limit, 1, Split(text, limit))
    BY <2>3, <2>4, SplitIsWhole
  <2>6. 1 # n + 1
    BY <1>1, <2>3
  <2> QED BY <2>1, <2>5, <2>6 DEF WholeFrom, Whole
<1> QED BY <1>2, <1>3

-----------------------------------------------------------------------------
(* What is being sent stays what was cut.                                  *)
LEMMA TextsAreWhole ==
  ASSUME NEW text \in Texts
  PROVE  /\ text.platform \in DOMAIN Limits
         /\ text.pieces # <<>> => Whole(text.whole, Limits[text.platform], text.pieces)
<1>1. PICK said \in Answers, p \in DOMAIN Limits :
        text = [platform |-> p, whole |-> Formatted(said, p),
                pieces |-> IF Spins(Formatted(said, p), Limits[p]) THEN <<>>
                           ELSE Chunks(Formatted(said, p), Limits[p])]
  BY DEF Texts
<1>2. Formatted(said, p) \in Seq(Characters) /\ Limits[p] \in Nat
  BY DeliveryAssumption, FormattedType
<1> DEFINE whole == Formatted(said, p)
<1>3. /\ text.platform = p /\ text.whole = whole
      /\ text.pieces = IF Spins(whole, Limits[p]) THEN <<>> ELSE Chunks(whole, Limits[p])
  BY <1>1
<1> HIDE DEF whole
<1>4. ~Spins(whole, Limits[p]) => Whole(whole, Limits[p], Chunks(whole, Limits[p]))
  BY <1>2, ChunksOfAText DEF whole
<1> QED BY <1>3, <1>4

LEMMA ChunksStep == ChunksAreWhole /\ [Next]_vars => ChunksAreWhole'
<1> SUFFICES ASSUME ChunksAreWhole, [Next]_vars PROVE ChunksAreWhole'
  OBVIOUS
<1> USE DEF ChunksAreWhole
<1>1. CASE UNCHANGED loopVars
  BY <1>1 DEF loopVars
<1>2. CASE at' # "sending"
  BY <1>2
<1>3. ASSUME NEW text \in Texts, Think(text) PROVE ChunksAreWhole'
  <2> SUFFICES ASSUME text.pieces # <<>>
               PROVE  Whole(answer', Limits[reply'[1]], out')
    BY <1>3 DEF Think
  <2>1. /\ answer' = text.whole /\ out' = text.pieces /\ reply' = reply
        /\ reply[1] = text.platform
    BY <1>3 DEF Think
  <2>2. Whole(text.whole, Limits[text.platform], text.pieces)
    BY TextsAreWhole
  <2> QED BY <2>1, <2>2
<1>4. ASSUME NEW a \in Adapters, SendPiece(a) PROVE ChunksAreWhole'
  <2>1. at = "sending"
    BY <1>4 DEF SendPiece
  <2>2. at' # "sending" \/ UNCHANGED <<answer, out, reply>>
    BY <1>4 DEF SendPiece, Hang, Return
  <2> QED BY <2>1, <2>2
<1>5. CASE Loop
  <2>1. CASE Take \/ Deny \/ Route \/ NoChannel
    BY <1>2, <2>1 DEF Take, Deny, Route, NoChannel, Hang, Return
  <2> QED BY <1>3, <1>4, <1>5, <2>1 DEF Loop
<1>6. CASE Next /\ ~Loop
  BY <1>1, <1>6
     DEF Next, Tick, Post, Mail, Prefer, Poll, Fire, Reload, Connect, HangUp,
         Closed, Leave, Talk, StreamEnds, StreamBreaks
<1>7. CASE UNCHANGED vars
  BY <1>1, <1>7 DEF vars
<1> QED BY <1>5, <1>6, <1>7

(* MessageChunker::chunk: whatever is said and whatever the limits are,    *)
(* what is being sent is the whole answer, in pieces that are not empty    *)
(* and fit the platform they go to.                                        *)
THEOREM AnswersAreSentWhole == Spec => []ChunksAreWhole
<1>1. Init => ChunksAreWhole
  BY DEF Init, ChunksAreWhole
<1> QED BY <1>1, ChunksStep, PTL DEF Spec, Safe
=============================================================================
