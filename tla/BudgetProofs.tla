---------------------------- MODULE BudgetProofs ----------------------------
(***************************************************************************)
(* For every operator, sender, text and zone: a grant respects the ceiling *)
(* and the request, every change of a cap is said, a deadline is never     *)
(* pulled earlier than the time that was named, and a cache key belongs to *)
(* one scope.                                                              *)
(***************************************************************************)
EXTENDS Budget, SequenceTheorems, WellFoundedInduction, TLAPS

TypeOK ==
  /\ now \in Nows
  /\ policy \in Policies
  /\ stage \in Stages
  /\ caps \in Caps
  /\ stage \in {"parsed", "granted"} => request.sender \in Senders

(* What was granted is what a sound entry makes of the caps.               *)
Decided ==
  stage = "granted" =>
    /\ entry \in Entries
    /\ Refusal(entry, caps,
               MintFault(ScopeOf(request.sender[1], request.sender[2], entry.scope_tags)))
         = "none"
    /\ grant = Grant(entry, caps)
    /\ Budgets(entry)

(* What was parsed is still what parse_caps makes of the words, at the time *)
(* and in the zone they were read in.                                      *)
Parsed ==
  stage \in {"parsed", "granted"} =>
    /\ request.text \in Texts /\ request.at \in Nows /\ request.zone \in DOMAIN Zones
    /\ caps = D!Caps(request.text, request.at, Zones[request.zone])

IInv == TypeOK /\ Decided /\ Parsed

-----------------------------------------------------------------------------
(* What a way through the policy leaves, unless it refuses: a bounded cap. *)
LEMMA ApplyIsBounded ==
  ASSUME NEW e, NEW asked, NEW may \in BOOLEAN, NEW max \in Quantity, NEW default,
         may /\ asked # None => asked \in Nat,
         Apply(e, asked, may, max, default).refusal = "none"
  PROVE  Capped(asked, Apply(e, asked, may, max, default).cap, max, default, FALSE)
<1> DEFINE out == Apply(e, asked, may, max, default)
<1>1. CASE asked = None \/ ~may
  <2>1. out.cap = None \/ out.cap = default
    BY <1>1 DEF Apply, Instead, Outcome
  <2> QED BY <2>1 DEF Capped
<1>2. CASE asked # None /\ may
  <2>1. asked \in Nat
    BY <1>2
  <2>2. CASE ~Over(asked, max)
    <3>1. out.cap = asked
      BY <1>2, <2>2 DEF Apply, Outcome
    <3>2. AtMost(asked, asked)
      BY <2>1 DEF AtMost, Limited
    <3>3. max # None => AtMost(asked, max)
      BY <2>1, <2>2 DEF Over, AtMost, Limited, Quantity
    <3> HIDE DEF out
    <3>4. Capped(asked, out.cap, max, default, FALSE)
      BY <1>2, <3>1, <3>2, <3>3 DEF Capped
    <3> QED BY <3>4 DEF out
  <2>3. CASE Over(asked, max)
    <3>1. max \in Int /\ Limited(max) /\ asked > max
      BY <2>3 DEF Over, Quantity
    <3>2. out.cap = max
      BY <1>2, <2>3 DEF Apply, Outcome, Refused
    <3>3. AtMost(max, asked) /\ AtMost(max, max)
      BY <2>1, <3>1 DEF AtMost, Limited
    <3> HIDE DEF out
    <3>4. Capped(asked, out.cap, max, default, FALSE)
      BY <1>2, <3>2, <3>3 DEF Capped
    <3> QED BY <3>4 DEF out
  <2> QED BY <2>2, <2>3
<1> QED BY <1>1, <1>2

(* And a change of the cap that is said, or a denied cap that is dropped.  *)
LEMMA ApplySays ==
  ASSUME NEW e, NEW asked, NEW may \in BOOLEAN, NEW max, NEW default,
         Apply(e, asked, may, max, default).refusal = "none",
         Apply(e, asked, may, max, default).cap # asked,
         Apply(e, asked, may, max, default).told = "nothing"
  PROVE  ~may /\ asked # None /\ Apply(e, asked, may, max, default).cap = None
<1>1. CASE asked = None
  BY <1>1 DEF Apply, Instead, Outcome
<1>2. CASE asked # None /\ ~may
  BY <1>2 DEF Apply, Instead, Outcome
<1>3. CASE asked # None /\ may
  BY <1>3 DEF Apply, Outcome, Refused
<1> QED BY <1>1, <1>2, <1>3

(* The spend, which may also be without limit.                             *)
LEMMA SpendIsSound ==
  ASSUME NEW e, NEW asked \in Nat \cup {None, Unlimited}, Budgets(e),
         Spend(e, asked).refusal = "none"
  PROVE  /\ Capped(asked, Spend(e, asked).cap, e.max_spend, e.default_spend,
                   e.allow_unlimited)
         /\ Spend(e, asked).cap # asked /\ Spend(e, asked).told = "nothing"
              => "spend" \notin e.allowed /\ asked # None /\ Spend(e, asked).cap = None
<1> DEFINE may == "spend" \in e.allowed
<1>1. CASE asked # None /\ may /\ ~Limited(asked)
  <2>1. asked = Unlimited
    BY <1>1 DEF Limited
  <2>2. e.allow_unlimited /\ Spend(e, asked) = Outcome(Unlimited, "nothing")
    BY <1>1 DEF Spend, Outcome, Refused
  <2>3. Spend(e, asked).cap = Unlimited
    BY <2>2 DEF Outcome
  <2>4. Capped(asked, Spend(e, asked).cap, e.max_spend, e.default_spend, e.allow_unlimited)
    BY <2>1, <2>2, <2>3 DEF Capped
  <2> QED BY <2>1, <2>3, <2>4
<1>2. CASE ~(asked # None /\ may /\ ~Limited(asked))
  <2>1. Spend(e, asked) = Apply(e, asked, may, e.max_spend, e.default_spend)
    BY <1>2 DEF Spend
  <2>0. may /\ asked # None => asked \in Nat
    BY <1>2 DEF Limited, Unlimited
  <2>4. may \in BOOLEAN /\ e.max_spend \in Quantity
    BY DEF Budgets
  <2> HIDE DEF may
  <2>2. Capped(asked, Spend(e, asked).cap, e.max_spend, e.default_spend, FALSE)
    BY <2>0, <2>1, <2>4, ApplyIsBounded
  <2>3. Capped(asked, Spend(e, asked).cap, e.max_spend, e.default_spend, e.allow_unlimited)
    BY <2>2 DEF Capped
  <2>5. Spend(e, asked).cap # asked /\ Spend(e, asked).told = "nothing"
          => ~may /\ asked # None /\ Spend(e, asked).cap = None
    BY <2>1, <2>4, ApplySays
  <2> QED BY <2>3, <2>5 DEF may
<1> QED BY <1>1, <1>2

(* No refusal is no refusal of any denomination, and some cap.             *)
LEMMA NoRefusal ==
  ASSUME NEW e, NEW c, NEW fault, Refusal(e, c, fault) = "none"
  PROVE  /\ Spend(e, c.spend).refusal = "none" /\ Latency(e, c.latency).refusal = "none"
         /\ Spend(e, c.spend).cap # None \/ Latency(e, c.latency).cap # None
              \/ Due(e, c.due).cap # None
BY DEF Refusal

LEMMA GrantFields ==
  ASSUME NEW e, NEW c
  PROVE  /\ Grant(e, c)["spend"] = Spend(e, c.spend)
         /\ Grant(e, c)["latency"] = Latency(e, c.latency)
         /\ Grant(e, c)["due"] = Due(e, c.due)
BY DEF Grant, Denominations

-----------------------------------------------------------------------------
LEMMA InitIInv == Init => IInv
BY DEF Init, IInv, TypeOK, Decided, Parsed, Stages, Caps, NoCaps, Quantity

LEMMA ZoneIsValid ==
  ASSUME NEW pref PROVE ZoneOf(pref) \in DOMAIN Zones
BY ZoneAssumption DEF ZoneOf, D!ZoneName

LEMMA ParseIInv ==
  ASSUME IInv, NEW s \in Senders, NEW text \in Texts, Parse(s, text)
  PROVE  IInv'
<1>1. caps' \in Caps
  <2>1. NoCaps \in Caps
    BY DEF NoCaps, Caps, Quantity
  <2>2. D!Caps(text, now, Zones[ZoneOf(prefs[s[1]])]) \in Caps
    BY TextAssumption, ZoneIsValid DEF IInv, TypeOK
  <2> QED BY <2>1, <2>2 DEF Parse
<1>2. stage' \in {"asked", "parsed"} /\ request'.sender = s
  BY DEF Parse
<1>3. Parsed'
  <2>1. CASE stage' = "parsed"
    <3>1. caps' = D!Caps(text, now, Zones[ZoneOf(prefs[s[1]])])
      BY <2>1 DEF Parse
    <3>2. /\ request'.text = text /\ request'.at = now
          /\ request'.zone = ZoneOf(prefs[s[1]])
      BY DEF Parse
    <3> QED BY <3>1, <3>2, ZoneIsValid DEF Parsed, IInv, TypeOK
  <2>2. CASE stage' = "asked"
    BY <2>2 DEF Parsed
  <2> QED BY <1>2, <2>1, <2>2
<1> QED BY <1>1, <1>2, <1>3 DEF IInv, TypeOK, Decided, Parse, Stages

LEMMA ResolveIInv ==
  ASSUME IInv, Resolve PROVE IInv'
<1>1. TypeOK'
  BY DEF IInv, TypeOK, Resolve, Stages
<1>2. Decided'
  <2> DEFINE found == EntryFor(policy, request.sender[1], request.sender[2])
             fault == MintFault(ScopeOf(request.sender[1], request.sender[2],
                                        found.scope_tags))
  <2> SUFFICES ASSUME stage' = "granted"
               PROVE  /\ found \in Entries
                      /\ Refusal(found, caps, fault) = "none"
                      /\ grant' = Grant(found, caps) /\ Budgets(found)
    BY DEF Decided, Resolve
  <2>1. found # None /\ Refusal(found, caps, fault) = "none"
    BY DEF Resolve
  <2>2. grant' = Grant(found, caps)
    BY DEF Resolve
  <2>3. Budgets(found)
    BY <2>1, EntryAssumption DEF Resolve, IInv, TypeOK
  <2>4. found \in Entries
    <3>1. found \in {policy.default} \cup Range(policy.channels) \cup Range(policy.senders)
      BY DEF EntryFor, Range
    <3>2. policy \in Policies
      BY DEF IInv, TypeOK
    <3> HIDE DEF found
    <3>3. found \in EntriesOf(policy)
      BY <2>1, <3>1 DEF EntriesOf
    <3> QED BY <3>2, <3>3 DEF Entries
  <2> QED BY <2>1, <2>2, <2>3, <2>4
<1>3. Parsed'
  BY DEF IInv, Parsed, Resolve
<1> QED BY <1>1, <1>2, <1>3 DEF IInv

LEMMA NextIInv == IInv /\ [Next]_vars => IInv'
<1> SUFFICES ASSUME IInv, [Next]_vars PROVE IInv'
  OBVIOUS
<1>1. CASE Tick
  BY <1>1 DEF Tick, IInv, TypeOK, Decided, Parsed
<1>2. CASE \E u \in Users, name \in Names : SetTimezone(u, name)
  BY <1>2 DEF SetTimezone, IInv, TypeOK, Decided, Parsed
<1>3. CASE \E new \in Policies : Reload(new)
  BY <1>3 DEF Reload, IInv, TypeOK, Decided, Parsed
<1>4. CASE \E s \in Senders, text \in Texts : Parse(s, text)
  BY <1>4, ParseIInv
<1>5. CASE Resolve
  BY <1>5, ResolveIInv
<1>6. CASE UNCHANGED vars
  BY <1>6 DEF vars, IInv, TypeOK, Decided, Parsed
<1> QED BY <1>1, <1>2, <1>3, <1>4, <1>5, <1>6 DEF Next

LEMMA Invariance == Spec => []IInv
BY InitIInv, NextIInv, PTL DEF Spec

(* The variables keep their types, whatever is loaded, stored or asked.    *)
THEOREM TypeCorrect == Spec => []TypeOK
<1>1. IInv => TypeOK
  BY DEF IInv
<1> QED BY <1>1, Invariance, PTL

(* ConfigCapsPolicy::resolve never grants more than the operator's ceiling *)
(* or more than the sender asked for, whatever entry decided.              *)
THEOREM GrantsAreBounded == Spec => []GrantIsBounded
<1>1. IInv => GrantIsBounded
  <2> SUFFICES ASSUME IInv, stage = "granted"
               PROVE  /\ Capped(caps.spend, grant["spend"].cap, entry.max_spend,
                                entry.default_spend, entry.allow_unlimited)
                      /\ Capped(caps.latency, grant["latency"].cap, entry.max_latency,
                                entry.default_latency, FALSE)
    BY DEF GrantIsBounded
  <2>1. /\ grant["spend"] = Spend(entry, caps.spend)
        /\ grant["latency"] = Latency(entry, caps.latency)
    BY GrantFields DEF IInv, Decided
  <2>2. PICK fault : Refusal(entry, caps, fault) = "none"
    BY DEF IInv, Decided
  <2>3. Spend(entry, caps.spend).refusal = "none" /\ Latency(entry, caps.latency).refusal = "none"
    BY <2>2, NoRefusal
  <2>4. caps.spend \in Nat \cup {None, Unlimited} /\ caps.latency \in Nat \cup {None} /\ Budgets(entry)
    BY DEF IInv, TypeOK, Decided, Caps
  <2>5. Capped(caps.spend, grant["spend"].cap, entry.max_spend, entry.default_spend,
               entry.allow_unlimited)
    BY <2>1, <2>3, <2>4, SpendIsSound
  <2>6. ("latency" \in entry.allowed) \in BOOLEAN /\ entry.max_latency \in Quantity
    BY <2>4 DEF Budgets
  <2>7. Capped(caps.latency, Latency(entry, caps.latency).cap, entry.max_latency,
               entry.default_latency, FALSE)
    BY <2>3, <2>4, <2>6, ApplyIsBounded DEF Latency
  <2> QED BY <2>1, <2>5, <2>7
<1> QED BY <1>1, Invariance, PTL

(* And it changes no cap without telling the sender, but for one that is   *)
(* denied and has no default.                                              *)
THEOREM ChangesAreSaid == Spec => []EveryChangeIsSaid
<1>1. IInv => EveryChangeIsSaid
  <2> SUFFICES ASSUME IInv, stage = "granted"
               PROVE  /\ \A d \in Denominations :
                           grant[d].cap # caps[d] /\ grant[d].told = "nothing" =>
                             d \notin entry.allowed /\ caps[d] # None /\ grant[d].cap = None
                      /\ \E d \in Denominations : grant[d].cap # None
    BY DEF EveryChangeIsSaid
  <2>1. /\ grant["spend"] = Spend(entry, caps.spend)
        /\ grant["latency"] = Latency(entry, caps.latency)
        /\ grant["due"] = Due(entry, caps.due)
    BY GrantFields DEF IInv, Decided
  <2>2. PICK fault : Refusal(entry, caps, fault) = "none"
    BY DEF IInv, Decided
  <2>3. /\ Spend(entry, caps.spend).refusal = "none"
        /\ Latency(entry, caps.latency).refusal = "none"
        /\ \E d \in Denominations : grant[d].cap # None
    BY <2>1, <2>2, NoRefusal DEF Denominations
  <2>4. caps.spend \in Nat \cup {None, Unlimited} /\ Budgets(entry)
        /\ caps["spend"] = caps.spend /\ caps["latency"] = caps.latency /\ caps["due"] = caps.due
    BY DEF IInv, TypeOK, Decided, Caps
  <2>5. grant["spend"].cap # caps.spend /\ grant["spend"].told = "nothing" =>
          "spend" \notin entry.allowed /\ caps.spend # None /\ grant["spend"].cap = None
    BY <2>1, <2>3, <2>4, SpendIsSound
  <2>6. grant["latency"].cap # caps.latency /\ grant["latency"].told = "nothing" =>
          "latency" \notin entry.allowed /\ caps.latency # None /\ grant["latency"].cap = None
    <3> DEFINE may == "latency" \in entry.allowed
    <3>1. may \in BOOLEAN
      OBVIOUS
    <3>2. Latency(entry, caps.latency)
            = Apply(entry, caps.latency, may, entry.max_latency, entry.default_latency)
      BY DEF Latency
    <3> HIDE DEF may
    <3>3. grant["latency"].cap # caps.latency /\ grant["latency"].told = "nothing" =>
            ~may /\ caps.latency # None /\ grant["latency"].cap = None
      BY <2>1, <2>3, <3>1, <3>2, ApplySays
    <3> QED BY <3>3 DEF may
  <2>7. grant["due"].cap # caps.due /\ grant["due"].told = "nothing" =>
          "due" \notin entry.allowed /\ caps.due # None /\ grant["due"].cap = None
    BY <2>1 DEF Due, Outcome
  <2> QED BY <2>3, <2>4, <2>5, <2>6, <2>7 DEF Denominations
<1> QED BY <1>1, Invariance, PTL

-----------------------------------------------------------------------------
(* Of a set of whole numbers with a lower bound, Min is the least.         *)
Below == {p \in Nat \X Nat : p[1] < p[2]}

LEMMA BelowIsWellFounded == IsWellFoundedOn(Below, Nat)
<1>1. OpToRel(<, Nat) = Below
  BY DEF OpToRel, Below
<1>2. IsWellFoundedOn(OpToRel(<, Nat), Nat)
  BY NatLessThanWellFounded
<1> QED BY <1>1, <1>2

LEMMA Least ==
  ASSUME NEW T \in SUBSET Nat, T # {}
  PROVE  \E n \in T : \A m \in T : n <= m
<1>1. \E n \in T : \A m \in T : <<m, n>> \notin Below
  BY BelowIsWellFounded, WFMin
<1>2. \A m, n \in Nat : <<m, n>> \notin Below => n <= m
  <2> TAKE m, n \in Nat
  <2>1. m < n => <<m, n>> \in Nat \X Nat /\ <<m, n>>[1] < <<m, n>>[2]
    OBVIOUS
  <2> QED BY <2>1 DEF Below
<1> QED BY <1>1, <1>2

LEMMA MinIsLeast ==
  ASSUME NEW S \in SUBSET Int, S # {}, NEW low \in Int, \A x \in S : low <= x
  PROVE  D!Min(S) \in S /\ \A x \in S : D!Min(S) <= x
<1> DEFINE T == {n \in Nat : low + n \in S}
<1>1. \A x \in S : x - low \in T /\ low + (x - low) = x
  OBVIOUS
<1>2. T \in SUBSET Nat /\ T # {}
  BY <1>1
<1>3. PICK n \in T : \A m \in T : n <= m
  <2> HIDE DEF T
  <2> QED BY <1>2, Least
<1>4. low + n \in S /\ n \in Nat
  BY <1>3
<1>5. \A x \in S : low + n <= x
  BY <1>1, <1>3, <1>4
<1> QED BY <1>4, <1>5 DEF D!Min

(* A reading of a local time reads as that time.                           *)
LEMMA ReadingReads ==
  ASSUME NEW z \in DOMAIN Zones, NEW local \in Int, D!Readings(Zones[z], local) # {}
  PROVE  /\ D!Min(D!Readings(Zones[z], local)) \in D!Readings(Zones[z], local)
         /\ D!Local(Zones[z], D!Min(D!Readings(Zones[z], local))) = local
<1> DEFINE zone == Zones[z]
           a == local - zone.ahead
           b == local - zone.ahead - zone.shift
           S == D!Readings(zone, local)
<1>1. a \in Int /\ b \in Int
  BY ZoneAssumption
<1>2. S \subseteq {a, b} /\ \A t \in S : D!Local(zone, t) = local
  BY DEF D!Readings
<1>3. \E low \in Int : \A x \in S : low <= x
  <2>1. CASE a <= b
    BY <1>1, <1>2, <2>1
  <2>2. CASE b <= a
    BY <1>1, <1>2, <2>2
  <2> QED BY <1>1, <2>1, <2>2
<1>4. S \in SUBSET Int /\ S # {}
  BY <1>1, <1>2
<1> HIDE DEF S
<1>5. D!Min(S) \in S
  BY <1>3, <1>4, MinIsLeast
<1> QED BY <1>2, <1>5 DEF S

(* resolve_local gives an instant that reads as the time named or, if there *)
(* is no such instant, as a later time.                                    *)
LEMMA ResolvedIsNotEarlier ==
  ASSUME NEW z \in DOMAIN Zones, NEW local \in Int,
         D!ResolveLocal(Zones[z], local).cap # None
  PROVE  LET due == D!ResolveLocal(Zones[z], local).cap
         IN /\ D!Local(Zones[z], due) >= local
            /\ D!Local(Zones[z], due) > local => D!Readings(Zones[z], local) = {}
<1> DEFINE zone == Zones[z]
           due == D!ResolveLocal(zone, local).cap
<1>1. CASE D!Readings(zone, local) # {}
  <2>1. due = D!Min(D!Readings(zone, local))
    BY <1>1 DEF D!ResolveLocal, D!Cap
  <2>2. D!Local(zone, due) = local
    BY <1>1, <2>1, ReadingReads
  <2> QED BY <2>2
<1>2. CASE D!Readings(zone, local) = {}
  <2> DEFINE L == D!Later(zone, local)
             l == D!Min(L)
  <2>1. L # {} /\ due = D!Min(D!Readings(zone, l))
    BY <1>2 DEF D!ResolveLocal, D!Cap, D!Ask
  <2>2. /\ L \in SUBSET Int
        /\ \A x \in L : local + 1 <= x /\ D!Single(zone, x)
    BY ClockAssumption DEF D!Later
  <2>3. l \in L
    <3>1. local + 1 \in Int /\ \A x \in L : local + 1 <= x
      BY <2>2
    <3> HIDE DEF L
    <3> QED BY <2>1, <2>2, <3>1, MinIsLeast
  <2>4. l \in Int /\ local + 1 <= l /\ D!Readings(zone, l) # {}
    BY <2>2, <2>3 DEF D!Single
  <2> HIDE DEF l
  <2>5. D!Local(zone, due) = l
    BY <2>1, <2>4, ReadingReads
  <2> QED BY <1>2, <2>4, <2>5
<1> QED BY <1>1, <1>2

(* What a phrase names is an hour of some day.                             *)
LEMMA NamedIsHour ==
  ASSUME NEW text \in Texts, NEW local \in Int, text.by # None,
         text.by.kind = "clock" => D!ClockHour(text.by) # None
  PROVE  D!Named(text.by, local) \in Int
<1> DEFINE by == text.by
<1>1. /\ by.kind \in {"tomorrow", "today", "weekday", "part", "clock"}
      /\ by.kind = "weekday" => by.weekday \in Int
      /\ by.kind = "clock" => by.hour \in Nat
  BY ClockAssumption
<1>2. D!Day(local) \in Int /\ D!Hour(local) \in Int
  BY DEF D!Day, D!Hour
<1>3. \A part : D!PartHour(part) \in Int
  BY DEF D!PartHour
<1>4. \A day, hour \in Int : D!At(day, hour) \in Int
  BY DEF D!At
<1>5. by.kind = "weekday" => D!DaysAhead(local, by.weekday) \in Int
  BY <1>1, <1>2 DEF D!DaysAhead
<1>6. by.kind = "clock" => D!ClockHour(by) \in Int
  BY <1>1 DEF D!ClockHour
<1>7. \A day \in Int : day + 1 \in Int /\ day + 0 \in Int
  OBVIOUS
<1> SUFFICES D!Named(by, local) \in Int
  OBVIOUS
<1> HIDE DEF by
<1>8. CASE by.kind = "tomorrow"
  BY <1>2, <1>3, <1>4, <1>7, <1>8 DEF D!Named
<1>9. CASE by.kind = "today"
  BY <1>2, <1>3, <1>4, <1>9 DEF D!Named
<1>10. CASE by.kind = "weekday"
  <2>1. D!Day(local) + D!DaysAhead(local, by.weekday) \in Int
    BY <1>2, <1>5, <1>10
  <2> QED BY <1>3, <1>4, <1>10, <2>1 DEF D!Named
<1>11. CASE by.kind = "part"
  BY <1>2, <1>3, <1>4, <1>7, <1>11 DEF D!Named
<1>12. CASE by.kind = "clock"
  BY <1>2, <1>4, <1>6, <1>7, <1>12 DEF D!Named
<1> QED BY <1>1, <1>8, <1>9, <1>10, <1>11, <1>12

(* A deadline reads on the sender's clock as the time they named or, where *)
(* daylight saving skips that time, as a later one.                        *)
THEOREM DeadlinesReadAsSaid == Spec => []DeadlineReadsAsSaid
<1>1. IInv => DeadlineReadsAsSaid
  <2> SUFFICES ASSUME IInv, stage \in {"parsed", "granted"}, caps.due # None
               PROVE  LET zone == Zones[request.zone]
                          named == D!Named(request.text.by, D!Local(zone, request.at))
                      IN /\ D!Local(zone, caps.due) >= named
                         /\ D!Local(zone, caps.due) > named => D!Readings(zone, named) = {}
    BY DEF DeadlineReadsAsSaid
  <2> DEFINE zone == Zones[request.zone]
             by == request.text.by
             local == D!Local(zone, request.at)
             named == D!Named(by, local)
  <2>1. /\ request.text \in Texts /\ request.at \in Int
        /\ request.zone \in DOMAIN Zones
        /\ caps.due = D!ParseDue(by, request.at, zone).cap
    <3>1. /\ request.text \in Texts /\ request.at \in Int
          /\ request.zone \in DOMAIN Zones
      BY ClockAssumption DEF IInv, Parsed
    <3>2. caps = D!Caps(request.text, request.at, zone)
      BY DEF IInv, Parsed
    <3> QED BY <3>1, <3>2 DEF D!Caps
  <2>2. local \in Int
    BY <2>1, ZoneAssumption DEF D!Local
  <2>3. /\ by # None
        /\ by.kind = "clock" => D!ClockHour(by) # None
        /\ caps.due = D!ResolveLocal(zone, named).cap
    BY <2>1 DEF D!ParseDue, D!Cap, D!Ask
  <2>4. named \in Int
    BY <2>1, <2>2, <2>3, NamedIsHour
  <2> HIDE DEF named
  <2>5. /\ D!Local(zone, caps.due) >= named
        /\ D!Local(zone, caps.due) > named => D!Readings(zone, named) = {}
    BY <2>1, <2>3, <2>4, ResolvedIsNotEarlier
  <2> QED BY <2>5 DEF named
<1> QED BY <1>1, Invariance, PTL

-----------------------------------------------------------------------------
(* Cache keys.  A tag is written as its name, "=", its value and ";".      *)
Is == "="
Stop == ";"

LEMMA Signs == Is # Stop
BY Zenon DEF Is, Stop

Letters == STRING \cup {Is, Stop}
Words == Seq(Letters)
Plain(s) == \A i \in 1 .. Len(s) : s[i] # Is /\ s[i] # Stop
Ended(s) == s = <<>> \/ s[Len(s)] = Stop

Cat(p, q) == p \o q
Sign(c) == <<c>>
Tagged(k, v) == Cat(Cat(Cat(k, Sign(Is)), v), Sign(Stop))

LEMMA WordsAre ==
  /\ \A p \in Words : Len(p) \in Nat /\ (p = <<>> <=> Len(p) = 0)
  /\ <<>> \in Words
  /\ \A p, q \in Words :
       Len(p) = Len(q) /\ (\A i \in 1 .. Len(p) : p[i] = q[i]) => p = q
BY SeqEqual, EmptySeq DEF Words

LEMMA SingletonSeq ==
  ASSUME NEW S, NEW c \in S PROVE <<c>> \in Seq(S)
OBVIOUS

LEMMA SignIs ==
  ASSUME NEW c \in Letters
  PROVE  Sign(c) \in Words /\ Len(Sign(c)) = 1 /\ Sign(c)[1] = c
<1>1. <<c>> \in Seq(Letters)
  BY SingletonSeq
<1> QED BY <1>1 DEF Words, Sign

Joined(s, p, q) ==
  /\ s \in Words
  /\ Len(p) \in Nat /\ Len(q) \in Nat /\ Len(s) = Len(p) + Len(q)
  /\ \A i \in 1 .. Len(p) : s[i] = p[i]
  /\ \A i \in 1 .. Len(q) : s[Len(p) + i] = q[i]

LEMMA Joint ==
  ASSUME NEW p \in Words, NEW q \in Words
  PROVE  Joined(Cat(p, q), p, q)
<1>1. p \in Seq(Letters) /\ q \in Seq(Letters)
  BY DEF Words
<1>2. /\ Cat(p, q) \in Seq(Letters) /\ Len(Cat(p, q)) = Len(p) + Len(q)
      /\ \A i \in 1 .. Len(p) + Len(q) :
           Cat(p, q)[i] = IF i <= Len(p) THEN p[i] ELSE q[i - Len(p)]
  BY <1>1, ConcatProperties DEF Cat
<1>3. Len(p) \in Nat /\ Len(q) \in Nat
  BY <1>1
<1>4. ASSUME NEW i \in 1 .. Len(p) PROVE Cat(p, q)[i] = p[i]
  BY <1>2, <1>3
<1>5. ASSUME NEW i \in 1 .. Len(q) PROVE Cat(p, q)[Len(p) + i] = q[i]
  <2>1. Len(p) + i \in 1 .. Len(p) + Len(q) /\ ~(Len(p) + i <= Len(p))
        /\ Len(p) + i - Len(p) = i
    BY <1>3
  <2> QED BY <1>2, <2>1
<1> QED BY <1>2, <1>3, <1>4, <1>5 DEF Words, Joined

(* What can be read off a text x with a tag after it.                      *)
Shape(s, x, k, v) ==
  /\ s \in Words /\ s # <<>> /\ Ended(s)
  /\ Len(s) = Len(x) + Len(k) + Len(v) + 2
  /\ Len(x) # 0 => s[Len(x)] = Stop
  /\ s[Len(x) + Len(k) + 1] = Is
  /\ \A i \in 1 .. Len(x) : s[i] = x[i]
  /\ \A i \in 1 .. Len(k) : s[Len(x) + i] = k[i] /\ k[i] # Stop
  /\ \A i \in 1 .. Len(v) : s[Len(x) + Len(k) + 1 + i] = v[i] /\ v[i] # Is

LEMMA TaggedShape ==
  ASSUME NEW x \in Words, NEW k \in Words, NEW v \in Words, Ended(x), Plain(k), Plain(v)
  PROVE  Shape(Cat(x, Tagged(k, v)), x, k, v)
<1> DEFINE a == Cat(k, Sign(Is))
           b == Cat(a, v)
           c == Cat(b, Sign(Stop))
           s == Cat(x, c)
<1>s. SUFFICES Shape(s, x, k, v)
  BY DEF Tagged
<1>0. Len(x) \in Nat /\ Len(k) \in Nat /\ Len(v) \in Nat
  BY WordsAre
<1>1. /\ a \in Words /\ Len(a) \in Nat /\ Len(a) = Len(k) + 1 /\ a[Len(k) + 1] = Is
      /\ \A i \in 1 .. Len(k) : a[i] = k[i]
  <2>1. Sign(Is) \in Words /\ Len(Sign(Is)) = 1 /\ Sign(Is)[1] = Is
    BY SignIs DEF Letters
  <2>2. Joined(a, k, Sign(Is))
    BY <2>1, Joint
  <2> HIDE DEF a
  <2>3. 1 \in 1 .. Len(Sign(Is))
    BY <2>1
  <2> QED BY <2>1, <2>2, <2>3 DEF Joined
<1> HIDE DEF a
<1>2. /\ b \in Words /\ Len(b) \in Nat /\ Len(b) = Len(a) + Len(v)
      /\ \A i \in 1 .. Len(a) : b[i] = a[i]
      /\ \A i \in 1 .. Len(v) : b[Len(a) + i] = v[i]
  BY <1>1, Joint DEF Joined
<1> HIDE DEF b
<1>3. /\ c \in Words /\ Len(c) \in Nat /\ Len(c) = Len(b) + 1 /\ c[Len(b) + 1] = Stop
      /\ \A i \in 1 .. Len(b) : c[i] = b[i]
  <2>1. Sign(Stop) \in Words /\ Len(Sign(Stop)) = 1 /\ Sign(Stop)[1] = Stop
    BY SignIs DEF Letters
  <2>2. Joined(c, b, Sign(Stop))
    BY <1>2, <2>1, Joint
  <2> HIDE DEF c
  <2>3. 1 \in 1 .. Len(Sign(Stop))
    BY <2>1
  <2> QED BY <2>1, <2>2, <2>3 DEF Joined
<1> HIDE DEF c
<1>5. /\ s \in Words /\ Len(s) \in Nat /\ Len(s) = Len(x) + Len(c)
      /\ \A i \in 1 .. Len(x) : s[i] = x[i]
      /\ \A i \in 1 .. Len(c) : s[Len(x) + i] = c[i]
  BY <1>3, Joint DEF Joined
<1> HIDE DEF s
<1>6. Len(s) = Len(x) + Len(k) + Len(v) + 2
  BY <1>0, <1>1, <1>2, <1>3, <1>5
<1>7. \A i \in 1 .. Len(k) : s[Len(x) + i] = k[i] /\ k[i] # Stop
  <2> TAKE i \in 1 .. Len(k)
  <2>1. i \in 1 .. Len(a) /\ i \in 1 .. Len(b) /\ i \in 1 .. Len(c)
    BY <1>0, <1>1, <1>2, <1>3
  <2> QED BY <1>1, <1>2, <1>3, <1>5, <2>1 DEF Plain
<1>8. s[Len(x) + Len(k) + 1] = Is
  <2> DEFINE i == Len(k) + 1
  <2>1. i \in 1 .. Len(a) /\ i \in 1 .. Len(b) /\ i \in 1 .. Len(c)
    BY <1>0, <1>1, <1>2, <1>3
  <2>2. Len(x) + i = Len(x) + Len(k) + 1
    BY <1>0
  <2>3. a[i] = Is
    BY <1>1
  <2> HIDE DEF i
  <2>4. s[Len(x) + i] = Is
    BY <1>2, <1>3, <1>5, <2>1, <2>3
  <2> QED BY <2>2, <2>4
<1>9. \A i \in 1 .. Len(v) : s[Len(x) + Len(k) + 1 + i] = v[i] /\ v[i] # Is
  <2> TAKE i \in 1 .. Len(v)
  <2> DEFINE j == Len(a) + i
  <2>1. j \in 1 .. Len(b) /\ j \in 1 .. Len(c) /\ Len(x) + j = Len(x) + Len(k) + 1 + i
    BY <1>0, <1>1, <1>2, <1>3
  <2>2. b[j] = v[i]
    BY <1>2
  <2> HIDE DEF j
  <2>3. s[Len(x) + j] = v[i]
    BY <1>3, <1>5, <2>1, <2>2
  <2> QED BY <2>1, <2>3 DEF Plain
<1>10. s # <<>> /\ Ended(s)
  <2>1. Len(c) \in 1 .. Len(c) /\ Len(s) = Len(x) + Len(c) /\ c[Len(c)] = Stop
    BY <1>0, <1>1, <1>2, <1>3, <1>5
  <2>2. s[Len(s)] = Stop
    BY <1>5, <2>1
  <2>3. Len(s) # 0
    BY <1>0, <1>6
  <2> QED BY <1>5, <2>2, <2>3, WordsAre DEF Ended
<1>11. Len(x) # 0 => s[Len(x)] = Stop
  <2> SUFFICES ASSUME Len(x) # 0 PROVE s[Len(x)] = Stop
    OBVIOUS
  <2>1. x # <<>> /\ Len(x) \in 1 .. Len(x)
    BY <1>0, WordsAre
  <2> QED BY <1>5, <2>1 DEF Ended
<1> QED BY <1>5, <1>6, <1>7, <1>8, <1>9, <1>10, <1>11 DEF Shape

(* What was written can be read again, from the end.                       *)
LEMMA TaggedParses ==
  ASSUME NEW x \in Words, NEW k \in Words, NEW v \in Words, Ended(x), Plain(k), Plain(v),
         NEW y \in Words, NEW l \in Words, NEW w \in Words, Ended(y), Plain(l), Plain(w),
         Cat(x, Tagged(k, v)) = Cat(y, Tagged(l, w))
  PROVE  x = y /\ k = l /\ v = w
<1> DEFINE s == Cat(x, Tagged(k, v))
<1>0. /\ Len(x) \in Nat /\ Len(k) \in Nat /\ Len(v) \in Nat
      /\ Len(y) \in Nat /\ Len(l) \in Nat /\ Len(w) \in Nat
  BY WordsAre
<1>1. /\ Len(s) = Len(x) + Len(k) + Len(v) + 2
      /\ Len(x) # 0 => s[Len(x)] = Stop
      /\ s[Len(x) + Len(k) + 1] = Is
      /\ \A i \in 1 .. Len(x) : s[i] = x[i]
      /\ \A i \in 1 .. Len(k) : s[Len(x) + i] = k[i] /\ k[i] # Stop
      /\ \A i \in 1 .. Len(v) : s[Len(x) + Len(k) + 1 + i] = v[i] /\ v[i] # Is
  <2>1. Shape(s, x, k, v)
    BY TaggedShape
  <2> HIDE DEF s
  <2> QED BY <2>1 DEF Shape
<1>3. /\ Len(s) = Len(y) + Len(l) + Len(w) + 2
      /\ Len(y) # 0 => s[Len(y)] = Stop
      /\ s[Len(y) + Len(l) + 1] = Is
      /\ \A i \in 1 .. Len(y) : s[i] = y[i]
      /\ \A i \in 1 .. Len(l) : s[Len(y) + i] = l[i] /\ l[i] # Stop
      /\ \A i \in 1 .. Len(w) : s[Len(y) + Len(l) + 1 + i] = w[i] /\ w[i] # Is
  <2>1. Shape(s, y, l, w)
    BY TaggedShape
  <2> QED BY <2>1 DEF Shape
<1> HIDE DEF s
<1> DEFINE e == Len(x) + Len(k) + 1
           f == Len(y) + Len(l) + 1
<1>4. e = f
  <2>1. CASE e < f
    <3>1. f - e \in 1 .. Len(v) /\ e + (f - e) = f
      BY <1>0, <1>1, <1>3, <2>1
    <3>2. s[e + (f - e)] # Is
      BY <1>1, <3>1
    <3> QED BY <1>3, <3>1, <3>2
  <2>2. CASE f < e
    <3>1. e - f \in 1 .. Len(w) /\ f + (e - f) = e
      BY <1>0, <1>1, <1>3, <2>2
    <3>2. s[f + (e - f)] # Is
      BY <1>3, <3>1
    <3> QED BY <1>1, <3>1, <3>2
  <2> QED BY <1>0, <2>1, <2>2
<1>5. Len(x) = Len(y)
  <2>1. CASE Len(x) < Len(y)
    <3>1. Len(y) - Len(x) \in 1 .. Len(k) /\ Len(x) + (Len(y) - Len(x)) = Len(y)
          /\ Len(y) # 0
      BY <1>0, <1>4, <2>1
    <3>2. s[Len(x) + (Len(y) - Len(x))] # Stop
      BY <1>1, <3>1
    <3> QED BY <1>3, <3>1, <3>2
  <2>2. CASE Len(y) < Len(x)
    <3>1. Len(x) - Len(y) \in 1 .. Len(l) /\ Len(y) + (Len(x) - Len(y)) = Len(x)
          /\ Len(x) # 0
      BY <1>0, <1>4, <2>2
    <3>2. s[Len(y) + (Len(x) - Len(y))] # Stop
      BY <1>3, <3>1
    <3> QED BY <1>1, <3>1, <3>2
  <2> QED BY <1>0, <2>1, <2>2
<1>6. Len(k) = Len(l) /\ Len(v) = Len(w)
  BY <1>0, <1>1, <1>3, <1>4, <1>5
<1>7. \A i \in 1 .. Len(x) : x[i] = y[i]
  BY <1>1, <1>3, <1>5
<1>8. \A i \in 1 .. Len(k) : k[i] = l[i]
  BY <1>1, <1>3, <1>5, <1>6
<1>9. \A i \in 1 .. Len(v) : v[i] = w[i]
  BY <1>1, <1>3, <1>5, <1>6
<1> QED BY <1>5, <1>6, <1>7, <1>8, <1>9, WordsAre

LEMMA CatType == \A p, q \in Words : Cat(p, q) \in Words
BY Joint DEF Joined

LEMMA SetInduction ==
  ASSUME NEW T \in SUBSET Nat, 0 \in T, \A n \in T : n + 1 \in T
  PROVE  T = Nat
<1> SUFFICES ASSUME Nat \ T # {} PROVE FALSE
  OBVIOUS
<1>1. PICK n \in Nat \ T : \A m \in Nat \ T : n <= m
  <2> DEFINE U == Nat \ T
  <2>1. U \in SUBSET Nat /\ U # {}
    OBVIOUS
  <2> HIDE DEF U
  <2>2. \E n \in U : \A m \in U : n <= m
    BY <2>1, Least
  <2> QED BY <2>2 DEF U
<1>2. n # 0 /\ n - 1 \in Nat /\ n - 1 \in T
  BY <1>1
<1>3. (n - 1) + 1 \in T
  BY <1>2
<1> QED BY <1>1, <1>3

(* FlattenSeq puts the sequences together one after the other.             *)
LEMMA Flat ==
  ASSUME NEW seqs \in Seq(Words), Len(seqs) # 0
  PROVE  \E f \in [1 .. Len(seqs) -> Words] :
           /\ f[1] = seqs[1]
           /\ \A i \in 2 .. Len(seqs) : f[i] = Cat(f[i - 1], seqs[i])
           /\ FlattenSeq(seqs) = f[Len(seqs)]
<1> DEFINE n == Len(seqs)
           Step(f, i) == IF i = 1 THEN seqs[i] ELSE f[i - 1] \o seqs[i]
           T == {k \in Nat : \E f \in [1 .. n -> Words] :
                    \A i \in 1 .. n : i <= k => f[i] = Step(f, i)}
           flatten == CHOOSE f : f = [i \in 1 .. n |-> IF i = 1 THEN seqs[i] ELSE f[i - 1] \o seqs[i]]
           U == {k \in Nat : \A i \in 1 .. n : i <= k => flatten[i] \in Words}
<1>1. n \in Nat /\ n # 0 /\ \A i \in 1 .. n : seqs[i] \in Words
  OBVIOUS
<1>2. \A f \in [1 .. n -> Words] : \A i \in 1 .. n : Step(f, i) \in Words
  BY <1>1, CatType DEF Cat
<1>3. FlattenSeq(seqs) = flatten[n]
  BY <1>1 DEF FlattenSeq
<1>4. 0 \in T
  <2>1. [i \in 1 .. n |-> seqs[i]] \in [1 .. n -> Words]
    BY <1>1
  <2> QED BY <1>1, <2>1
<1>5. ASSUME NEW k \in T PROVE k + 1 \in T
  <2>1. PICK f \in [1 .. n -> Words] : \A i \in 1 .. n : i <= k => f[i] = Step(f, i)
    OBVIOUS
  <2> DEFINE g == [f EXCEPT ![k + 1] = Step(f, k + 1)]
  <2>2. k \in Nat
    OBVIOUS
  <2>3. g \in [1 .. n -> Words]
    BY <1>2, <2>1, <2>2
  <2>4. ASSUME NEW i \in 1 .. n, i <= k + 1 PROVE g[i] = Step(g, i)
    <3>1. \A j \in 1 .. n : j <= k => g[j] = f[j]
      BY <2>1, <2>2
    <3>2. CASE i = k + 1
      <4>1. g[i] = Step(f, i)
        BY <2>1, <3>2
      <4>2. i # 1 => i - 1 \in 1 .. n /\ i - 1 <= k
        BY <1>1, <2>2, <3>2
      <4> HIDE DEF g
      <4> QED BY <3>1, <4>1, <4>2
    <3>3. CASE i <= k
      <4>1. g[i] = Step(f, i)
        BY <2>1, <3>1, <3>3
      <4>2. i # 1 => i - 1 \in 1 .. n /\ i - 1 <= k
        BY <1>1, <2>2, <3>3
      <4> HIDE DEF g
      <4> QED BY <3>1, <4>1, <4>2
    <3> QED BY <1>1, <2>2, <2>4, <3>2, <3>3
  <2> HIDE DEF g
  <2>5. \E h \in [1 .. n -> Words] : \A i \in 1 .. n : i <= k + 1 => h[i] = Step(h, i)
    BY <2>3, <2>4
  <2> HIDE DEF Step
  <2> QED BY <2>2, <2>5
<1>6. T = Nat
  <2> HIDE DEF T
  <2>1. T \in SUBSET Nat
    BY DEF T
  <2> QED BY <1>4, <1>5, <2>1, SetInduction
<1>7. PICK g \in [1 .. n -> Words] : \A i \in 1 .. n : g[i] = Step(g, i)
  <2>1. n \in T
    BY <1>1, <1>6
  <2> QED BY <1>1, <2>1
<1>8. g = [i \in 1 .. n |-> IF i = 1 THEN seqs[i] ELSE g[i - 1] \o seqs[i]]
  BY <1>7
<1>9. flatten = [i \in 1 .. n |-> IF i = 1 THEN seqs[i] ELSE flatten[i - 1] \o seqs[i]]
  BY <1>8
<1> HIDE DEF flatten
<1>10. \A i \in 1 .. n : flatten[i] = Step(flatten, i)
  BY <1>9
<1>11. U = Nat
  <2>1. 0 \in U
    BY <1>1
  <2>2. ASSUME NEW k \in U PROVE k + 1 \in U
    <3>1. k \in Nat /\ \A i \in 1 .. n : i <= k => flatten[i] \in Words
      OBVIOUS
    <3>2. ASSUME NEW i \in 1 .. n, i <= k + 1 PROVE flatten[i] \in Words
      <4>1. CASE i <= k
        BY <3>1, <4>1
      <4>2. CASE i = 1
        BY <1>1, <1>10, <4>2
      <4>3. CASE i = k + 1 /\ i # 1
        <5>1. i - 1 \in 1 .. n /\ i - 1 <= k
          BY <1>1, <3>1, <4>3
        <5>2. flatten[i - 1] \in Words /\ seqs[i] \in Words
          BY <1>1, <3>1, <5>1
        <5>3. flatten[i] = flatten[i - 1] \o seqs[i]
          BY <1>10, <4>3
        <5> QED BY <5>2, <5>3, CatType DEF Cat
      <4> QED BY <3>1, <3>2, <4>1, <4>2, <4>3
    <3> QED BY <3>1, <3>2
  <2> HIDE DEF U
  <2>3. U \in SUBSET Nat
    BY DEF U
  <2> QED BY <2>1, <2>2, <2>3, SetInduction
<1>12. \A i \in 1 .. n : flatten[i] \in Words
  <2>1. n \in U
    BY <1>1, <1>11
  <2> QED BY <1>1, <2>1
<1>13. flatten \in [1 .. n -> Words]
  BY <1>9, <1>12
<1>14. flatten[1] = seqs[1] /\ \A i \in 2 .. n : flatten[i] = Cat(flatten[i - 1], seqs[i])
  <2>1. 1 \in 1 .. n /\ \A i \in 2 .. n : i \in 1 .. n /\ i # 1
    BY <1>1
  <2> QED BY <1>10, <2>1 DEF Cat
<1> QED BY <1>3, <1>13, <1>14

(* What a scope without a fault consists of.                               *)
IsScope(tags) ==
  /\ tags = [k \in DOMAIN tags |-> tags[k]]
  /\ \A k \in DOMAIN tags :
       /\ \E i \in 1 .. Len(TagOrder) : k = TagOrder[i]
       /\ k \in Words /\ Plain(k) /\ tags[k] \in Words /\ Plain(tags[k])

LEMMA StringsAreWords == Seq(STRING) \subseteq Words
<1> SUFFICES ASSUME NEW s \in Seq(STRING) PROVE s \in Seq(Letters)
  BY DEF Words
<1>1. STRING \subseteq Letters
  BY DEF Letters
<1> HIDE DEF Letters
<1> QED BY <1>1, SeqMonotonic

LEMMA NotForbidden ==
  ASSUME NEW s \in Words, ~Forbidden(s) PROVE Plain(s)
<1>1. DOMAIN s = 1 .. Len(s)
  BY DEF Words
<1>2. Is \in Separators /\ Stop \in Separators
  BY Zenon DEF Is, Stop, Separators
<1> QED BY <1>1, <1>2 DEF Plain, Forbidden, Range

LEMMA ScopesAre ==
  ASSUME NEW tags \in Scopes PROVE IsScope(tags)
<1>1. PICK s \in Senders, e \in Entries : tags = ScopeOf(s[1], s[2], e.scope_tags)
  BY DEF Scopes
<1>2. MintFault(tags) = "none"
  BY DEF Scopes
<1>3. /\ TagOrder \in Seq(Seq(STRING))
      /\ User \in Range(TagOrder) /\ Channel \in Range(TagOrder)
      /\ s[1] \in Seq(STRING) /\ s[2] \in Seq(STRING)
      /\ DOMAIN e.scope_tags \subseteq Range(TagOrder)
      /\ \A k \in DOMAIN e.scope_tags : e.scope_tags[k] \in Seq(STRING)
  BY TagAssumption
<1>4. tags = [k \in DOMAIN tags |-> tags[k]]
  BY <1>1 DEF ScopeOf
<1>5. \A k \in DOMAIN tags : ~Forbidden(k) /\ ~Forbidden(tags[k])
  BY <1>2 DEF MintFault
<1>6. \A k \in DOMAIN tags : k \in Range(TagOrder) /\ tags[k] \in Seq(STRING)
  BY <1>1, <1>3 DEF ScopeOf
<1>7. ASSUME NEW k \in DOMAIN tags
      PROVE  /\ \E i \in 1 .. Len(TagOrder) : k = TagOrder[i]
             /\ k \in Words /\ Plain(k) /\ tags[k] \in Words /\ Plain(tags[k])
  <2>1. PICK i \in 1 .. Len(TagOrder) : k = TagOrder[i]
    BY <1>3, <1>6 DEF Range
  <2>2. k \in Seq(STRING)
    BY <1>3, <2>1
  <2>3. k \in Words /\ tags[k] \in Words
    BY <1>6, <2>2, StringsAreWords
  <2> QED BY <1>5, <2>1, <2>3, NotForbidden
<1> QED BY <1>4, <1>7 DEF IsScope

Piece(tags, i) ==
  IF TagOrder[i] \in DOMAIN tags THEN Tagged(TagOrder[i], tags[TagOrder[i]]) ELSE <<>>

(* f[i] is what the first i tags make of the key.                          *)
Growing(f, tags) ==
  /\ f \in [1 .. Len(TagOrder) -> Words]
  /\ f[1] = Piece(tags, 1)
  /\ \A i \in 2 .. Len(TagOrder) : f[i] = Cat(f[i - 1], Piece(tags, i))
  /\ Key(tags) = f[Len(TagOrder)]

LEMMA TaggedIsWords ==
  ASSUME NEW k \in Words, NEW v \in Words PROVE Tagged(k, v) \in Words
<1>1. Sign(Is) \in Words /\ Sign(Stop) \in Words
  BY SignIs DEF Letters
<1> QED BY <1>1, CatType DEF Tagged

LEMMA KeyHasPrefixes ==
  ASSUME NEW tags, IsScope(tags), TagOrder # <<>>
  PROVE  \E f : Growing(f, tags)
<1> DEFINE n == Len(TagOrder)
           seqs == [i \in 1 .. n |-> Piece(tags, i)]
<1>1. n \in Nat /\ n # 0 /\ DOMAIN TagOrder = 1 .. n
  BY TagAssumption
<1>2. \A i \in 1 .. n : Piece(tags, i) \in Words
  BY TaggedIsWords, WordsAre DEF Piece, IsScope
<1>3. seqs \in Seq(Words) /\ Len(seqs) = n
  BY <1>1, <1>2
<1>4. Key(tags) = FlattenSeq(seqs)
  <2>1. \A k, v : Tagged(k, v) = k \o <<"=">> \o v \o <<";">>
    BY DEF Tagged, Cat, Sign, Is, Stop
  <2>2. [i \in DOMAIN TagOrder |->
           IF TagOrder[i] \in DOMAIN tags
           THEN TagOrder[i] \o <<"=">> \o tags[TagOrder[i]] \o <<";">> ELSE <<>>] = seqs
    BY Zenon, <1>1, <2>1 DEF Piece
  <2> QED BY Zenon, <2>2 DEF Key
<1> HIDE DEF seqs
<1>5. PICK f \in [1 .. n -> Words] :
         /\ f[1] = seqs[1]
         /\ \A i \in 2 .. n : f[i] = Cat(f[i - 1], seqs[i])
         /\ FlattenSeq(seqs) = f[n]
  BY <1>1, <1>3, Flat
<1>6. \A i \in 1 .. n : seqs[i] = Piece(tags, i)
  BY DEF seqs
<1>7. 1 \in 1 .. n /\ \A i \in 2 .. n : i \in 1 .. n
  BY <1>1
<1>8. Growing(f, tags)
  BY <1>4, <1>5, <1>6, <1>7 DEF Growing
<1> QED BY <1>8

(* What the first tags make is empty, or ends with one of them.            *)
EndsWithTag(s, tags, i) ==
  \E m \in 1 .. i : \E x \in Words :
    /\ TagOrder[m] \in DOMAIN tags /\ Ended(x)
    /\ s = Cat(x, Tagged(TagOrder[m], tags[TagOrder[m]]))

LEMMA Empty == <<>> \in Words /\ Ended(<<>>) /\ \A s \in Words : Cat(s, <<>>) = s /\ Cat(<<>>, s) = s
BY WordsAre, ConcatEmptySeq DEF Ended, Cat, Words

LEMMA LastTag ==
  ASSUME NEW tags, IsScope(tags), TagOrder # <<>>, NEW f, Growing(f, tags),
         NEW i \in 1 .. Len(TagOrder)
  PROVE  f[i] \in Words /\ Ended(f[i]) /\ (f[i] = <<>> \/ EndsWithTag(f[i], tags, i))
<1> DEFINE n == Len(TagOrder)
           P(k) == f[k] = <<>> \/ EndsWithTag(f[k], tags, k)
           T == {k \in Nat : k + 1 \in 1 .. n => P(k + 1)}
<1>1. n \in Nat /\ n # 0
  BY TagAssumption
<1>2. ASSUME NEW k \in 1 .. n, NEW x \in Words, Ended(x), Piece(tags, k) # <<>>
      PROVE  EndsWithTag(Cat(x, Piece(tags, k)), tags, k)
  <2>1. /\ TagOrder[k] \in DOMAIN tags
        /\ Piece(tags, k) = Tagged(TagOrder[k], tags[TagOrder[k]])
    BY <1>2 DEF Piece
  <2>2. k \in 1 .. k
    BY <1>1
  <2> QED BY <1>2, <2>1, <2>2 DEF EndsWithTag
<1>3. ASSUME NEW k \in 1 .. n PROVE Piece(tags, k) \in Words /\ f[k] \in Words
  BY TaggedIsWords, WordsAre DEF Piece, IsScope, Growing
<1>4. ASSUME NEW k \in 1 .. n, P(k) PROVE Ended(f[k])
  <2>1. CASE f[k] = <<>>
    BY <2>1, Empty
  <2>2. CASE EndsWithTag(f[k], tags, k)
    <3>1. PICK m \in 1 .. k : \E x \in Words :
             /\ TagOrder[m] \in DOMAIN tags /\ Ended(x)
             /\ f[k] = Cat(x, Tagged(TagOrder[m], tags[TagOrder[m]]))
      BY <2>2 DEF EndsWithTag
    <3>2. PICK x \in Words :
             /\ TagOrder[m] \in DOMAIN tags /\ Ended(x)
             /\ f[k] = Cat(x, Tagged(TagOrder[m], tags[TagOrder[m]]))
      BY <3>1
    <3>3. /\ TagOrder[m] \in Words /\ Plain(TagOrder[m])
          /\ tags[TagOrder[m]] \in Words /\ Plain(tags[TagOrder[m]])
      BY <3>2 DEF IsScope
    <3>4. Shape(Cat(x, Tagged(TagOrder[m], tags[TagOrder[m]])), x, TagOrder[m],
                tags[TagOrder[m]])
      BY <3>2, <3>3, TaggedShape
    <3> QED BY <3>2, <3>4 DEF Shape
  <2> QED BY <1>4, <2>1, <2>2
<1>5. 0 \in T
  <2>1. f[1] = Piece(tags, 1) /\ 1 \in 1 .. n
    BY <1>1 DEF Growing
  <2>2. CASE Piece(tags, 1) = <<>>
    BY <2>1, <2>2
  <2>3. CASE Piece(tags, 1) # <<>>
    <3>1. Cat(<<>>, Piece(tags, 1)) = Piece(tags, 1)
      BY <1>3, <2>1, Empty
    <3>2. EndsWithTag(Cat(<<>>, Piece(tags, 1)), tags, 1)
      BY <1>2, <2>1, <2>3, Empty
    <3> QED BY <2>1, <3>1, <3>2
  <2> QED BY <2>2, <2>3
<1>6. ASSUME NEW j \in T PROVE j + 1 \in T
  <2>1. j \in Nat
    OBVIOUS
  <2> DEFINE k == j + 2
  <2>2. SUFFICES ASSUME k \in 1 .. n PROVE P(k)
    <3>1. (j + 1) + 1 = k /\ j + 1 \in Nat
      BY <2>1
    <3> QED BY <3>1
  <2>3. j + 1 \in 1 .. n /\ k \in 2 .. n /\ k - 1 = j + 1
    BY <1>1, <2>1, <2>2
  <2>4. P(j + 1)
    BY <2>3
  <2>5. f[k] = Cat(f[j + 1], Piece(tags, k))
    BY <2>3 DEF Growing
  <2>6. f[j + 1] \in Words /\ Ended(f[j + 1])
    BY <1>3, <1>4, <2>3, <2>4
  <2>7. CASE Piece(tags, k) = <<>>
    <3>1. f[k] = f[j + 1]
      BY <2>5, <2>6, <2>7, Empty
    <3>2. \A m \in 1 .. j + 1 : m \in 1 .. k
      BY <2>1
    <3>3. EndsWithTag(f[j + 1], tags, j + 1) => EndsWithTag(f[j + 1], tags, k)
      <4> HIDE DEF k
      <4> QED BY <3>2 DEF EndsWithTag
    <3> QED BY <2>4, <3>1, <3>3
  <2>8. CASE Piece(tags, k) # <<>>
    BY <1>2, <2>2, <2>5, <2>6, <2>8
  <2> QED BY <2>7, <2>8
<1>7. T = Nat
  <2> HIDE DEF T
  <2>1. T \in SUBSET Nat
    BY DEF T
  <2> QED BY <1>5, <1>6, <2>1, SetInduction
<1>8. i - 1 \in T
  <2>1. i - 1 \in Nat
    BY <1>1
  <2> HIDE DEF T
  <2> QED BY <1>7, <2>1
<1>9. P(i)
  <2>1. (i - 1) + 1 = i /\ i \in 1 .. n
    BY <1>1
  <2> HIDE DEF P
  <2> QED BY <1>8, <2>1
<1> QED BY <1>3, <1>4, <1>9

LEMMA PieceIs ==
  ASSUME NEW tags, IsScope(tags), NEW k \in 1 .. Len(TagOrder)
  PROVE  /\ Piece(tags, k) \in Words
         /\ TagOrder[k] \notin DOMAIN tags => Piece(tags, k) = <<>>
         /\ TagOrder[k] \in DOMAIN tags =>
              /\ Piece(tags, k) = Tagged(TagOrder[k], tags[TagOrder[k]])
              /\ Piece(tags, k) # <<>>
              /\ TagOrder[k] \in Words /\ Plain(TagOrder[k])
              /\ tags[TagOrder[k]] \in Words /\ Plain(tags[TagOrder[k]])
<1>1. CASE TagOrder[k] \notin DOMAIN tags
  BY <1>1, Empty DEF Piece
<1>2. CASE TagOrder[k] \in DOMAIN tags
  <2>1. /\ TagOrder[k] \in Words /\ Plain(TagOrder[k])
        /\ tags[TagOrder[k]] \in Words /\ Plain(tags[TagOrder[k]])
    BY <1>2 DEF IsScope
  <2>2. Piece(tags, k) = Tagged(TagOrder[k], tags[TagOrder[k]])
    BY <1>2 DEF Piece
  <2>3. Tagged(TagOrder[k], tags[TagOrder[k]]) \in Words
    BY <2>1, TaggedIsWords
  <2>4. Cat(<<>>, Tagged(TagOrder[k], tags[TagOrder[k]])) # <<>>
    <3>1. Shape(Cat(<<>>, Tagged(TagOrder[k], tags[TagOrder[k]])), <<>>, TagOrder[k],
                tags[TagOrder[k]])
      BY <2>1, Empty, TaggedShape
    <3> QED BY <3>1 DEF Shape
  <2>5. Tagged(TagOrder[k], tags[TagOrder[k]]) # <<>>
    BY <2>3, <2>4, Empty
  <2> QED BY <1>2, <2>1, <2>2, <2>3, <2>5
<1> QED BY <1>1, <1>2

(* A key that ends with a tag is no key of the tags before it.             *)
LEMMA OneOnly ==
  ASSUME NEW a, NEW b, IsScope(a), IsScope(b), NEW k \in 1 .. Len(TagOrder),
         NEW x \in Words, NEW y \in Words, Ended(x), TagOrder[k] \in DOMAIN a,
         y = <<>> \/ EndsWithTag(y, b, k - 1)
  PROVE  Cat(x, Piece(a, k)) # y
<1> SUFFICES ASSUME Cat(x, Piece(a, k)) = y PROVE FALSE
  OBVIOUS
<1>1. /\ Piece(a, k) = Tagged(TagOrder[k], a[TagOrder[k]])
      /\ TagOrder[k] \in Words /\ Plain(TagOrder[k])
      /\ a[TagOrder[k]] \in Words /\ Plain(a[TagOrder[k]])
  BY PieceIs
<1>2. CASE y = <<>>
  <2>1. Shape(y, x, TagOrder[k], a[TagOrder[k]])
    BY <1>1, TaggedShape
  <2> QED BY <1>2, <2>1 DEF Shape
<1>3. CASE EndsWithTag(y, b, k - 1)
  <2>1. PICK m \in 1 .. k - 1 : \E z \in Words :
           /\ TagOrder[m] \in DOMAIN b /\ Ended(z)
           /\ y = Cat(z, Tagged(TagOrder[m], b[TagOrder[m]]))
    BY <1>3 DEF EndsWithTag
  <2>2. PICK z \in Words :
           /\ TagOrder[m] \in DOMAIN b /\ Ended(z)
           /\ y = Cat(z, Tagged(TagOrder[m], b[TagOrder[m]]))
    BY <2>1
  <2>3. /\ TagOrder[m] \in Words /\ Plain(TagOrder[m])
        /\ b[TagOrder[m]] \in Words /\ Plain(b[TagOrder[m]])
    BY <2>2 DEF IsScope
  <2>4. Cat(x, Tagged(TagOrder[k], a[TagOrder[k]]))
          = Cat(z, Tagged(TagOrder[m], b[TagOrder[m]]))
    BY <1>1, <2>2
  <2>5. TagOrder[k] = TagOrder[m]
    BY <1>1, <2>2, <2>3, <2>4, TaggedParses
  <2>6. m \in 1 .. Len(TagOrder) /\ m # k
    BY TagAssumption
  <2> QED BY <2>5, <2>6, TagAssumption
<1> QED BY <1>2, <1>3

LEMMA OnePiece ==
  ASSUME NEW a, NEW b, IsScope(a), IsScope(b), NEW k \in 1 .. Len(TagOrder),
         NEW x \in Words, NEW y \in Words, Ended(x), Ended(y),
         x = <<>> \/ EndsWithTag(x, a, k - 1), y = <<>> \/ EndsWithTag(y, b, k - 1),
         Cat(x, Piece(a, k)) = Cat(y, Piece(b, k))
  PROVE  x = y /\ Piece(a, k) = Piece(b, k)
<1>1. CASE TagOrder[k] \in DOMAIN a /\ TagOrder[k] \in DOMAIN b
  <2>1. /\ Piece(a, k) = Tagged(TagOrder[k], a[TagOrder[k]])
        /\ TagOrder[k] \in Words /\ Plain(TagOrder[k])
        /\ a[TagOrder[k]] \in Words /\ Plain(a[TagOrder[k]])
    BY <1>1, PieceIs
  <2>2. /\ Piece(b, k) = Tagged(TagOrder[k], b[TagOrder[k]])
        /\ b[TagOrder[k]] \in Words /\ Plain(b[TagOrder[k]])
    BY <1>1, PieceIs
  <2>3. x = y /\ a[TagOrder[k]] = b[TagOrder[k]]
    BY <2>1, <2>2, TaggedParses
  <2> QED BY <2>1, <2>2, <2>3
<1>2. CASE TagOrder[k] \in DOMAIN a /\ TagOrder[k] \notin DOMAIN b
  <2>1. Cat(y, Piece(b, k)) = y
    BY <1>2, PieceIs, Empty
  <2> QED BY <1>2, <2>1, OneOnly
<1>3. CASE TagOrder[k] \notin DOMAIN a /\ TagOrder[k] \in DOMAIN b
  <2>1. Cat(x, Piece(a, k)) = x
    BY <1>3, PieceIs, Empty
  <2> QED BY <1>3, <2>1, OneOnly
<1>4. CASE TagOrder[k] \notin DOMAIN a /\ TagOrder[k] \notin DOMAIN b
  <2>1. Piece(a, k) = <<>> /\ Piece(b, k) = <<>>
    BY <1>4, PieceIs
  <2> QED BY <2>1, Empty
<1> QED BY <1>1, <1>2, <1>3, <1>4

(* The same key is made of the same pieces, from the last to the first.    *)
Before(f, k) == IF k = 1 THEN <<>> ELSE f[k - 1]

LEMMA BeforeIs ==
  ASSUME NEW tags, IsScope(tags), TagOrder # <<>>, NEW f, Growing(f, tags),
         NEW k \in 1 .. Len(TagOrder)
  PROVE  /\ Before(f, k) \in Words /\ Ended(Before(f, k))
         /\ Before(f, k) = <<>> \/ EndsWithTag(Before(f, k), tags, k - 1)
         /\ f[k] = Cat(Before(f, k), Piece(tags, k))
<1>1. CASE k = 1
  <2>1. Before(f, k) = <<>> /\ f[k] = Piece(tags, k)
    BY <1>1 DEF Before, Growing
  <2>2. Piece(tags, k) \in Words
    BY PieceIs
  <2> QED BY <2>1, <2>2, Empty
<1>2. CASE k # 1
  <2>1. k - 1 \in 1 .. Len(TagOrder) /\ k \in 2 .. Len(TagOrder)
    BY <1>2, TagAssumption
  <2>2. Before(f, k) = f[k - 1]
    BY <1>2 DEF Before
  <2>3. f[k] = Cat(f[k - 1], Piece(tags, k))
    BY <2>1 DEF Growing
  <2> HIDE DEF Before
  <2>4. f[k - 1] \in Words /\ Ended(f[k - 1])
        /\ (f[k - 1] = <<>> \/ EndsWithTag(f[k - 1], tags, k - 1))
    BY <2>1, LastTag
  <2> QED BY <2>2, <2>3, <2>4
<1> QED BY <1>1, <1>2

LEMMA SamePieces ==
  ASSUME NEW a, NEW b, IsScope(a), IsScope(b), TagOrder # <<>>, Key(a) = Key(b),
         NEW i \in 1 .. Len(TagOrder)
  PROVE  Piece(a, i) = Piece(b, i)
<1>1. PICK f : Growing(f, a)
  BY KeyHasPrefixes
<1>2. PICK g : Growing(g, b)
  BY KeyHasPrefixes
<1> DEFINE n == Len(TagOrder)
           Same(k) == k \in 1 .. n => f[k] = g[k]
           T == {k \in Nat : Same(n - k)}
<1>3. n \in Nat /\ n # 0
  BY TagAssumption
<1>4. ASSUME NEW k \in 1 .. n, f[k] = g[k]
      PROVE  Before(f, k) = Before(g, k) /\ Piece(a, k) = Piece(b, k)
  <2>1. /\ Before(f, k) \in Words /\ Ended(Before(f, k))
        /\ Before(f, k) = <<>> \/ EndsWithTag(Before(f, k), a, k - 1)
        /\ f[k] = Cat(Before(f, k), Piece(a, k))
    BY <1>1, BeforeIs
  <2>2. /\ Before(g, k) \in Words /\ Ended(Before(g, k))
        /\ Before(g, k) = <<>> \/ EndsWithTag(Before(g, k), b, k - 1)
        /\ g[k] = Cat(Before(g, k), Piece(b, k))
    BY <1>2, BeforeIs
  <2> HIDE DEF n
  <2>3. k \in 1 .. Len(TagOrder)
    BY DEF n
  <2>4. Cat(Before(f, k), Piece(a, k)) = Cat(Before(g, k), Piece(b, k))
    BY <1>4, <2>1, <2>2
  <2> QED BY <2>1, <2>2, <2>3, <2>4, OnePiece
<1>5. 0 \in T
  <2>1. Key(a) = f[n]
    BY <1>1 DEF Growing
  <2>2. Key(b) = g[n]
    BY <1>2 DEF Growing
  <2>3. f[n] = g[n]
    BY <2>1, <2>2
  <2> HIDE DEF n
  <2>4. n - 0 = n
    BY <1>3
  <2> QED BY <2>3, <2>4
<1>6. ASSUME NEW j \in T PROVE j + 1 \in T
  <2>1. j \in Nat /\ Same(n - j)
    OBVIOUS
  <2> DEFINE k == n - (j + 1)
  <2>2. SUFFICES ASSUME k \in 1 .. n PROVE f[k] = g[k]
    BY <2>1
  <2>3. n - j \in 1 .. n /\ n - j # 1 /\ (n - j) - 1 = k
    BY <1>3, <2>1, <2>2
  <2>4. Before(f, n - j) = f[k] /\ Before(g, n - j) = g[k]
    BY <2>3 DEF Before
  <2> QED BY <1>4, <2>1, <2>3, <2>4
<1>7. T = Nat
  <2> HIDE DEF T
  <2>1. T \in SUBSET Nat
    BY DEF T
  <2> QED BY <1>5, <1>6, <2>1, SetInduction
<1>8. n - i \in T /\ n - (n - i) = i
  <2>1. n - i \in Nat /\ n - (n - i) = i
    BY <1>3
  <2> HIDE DEF T
  <2> QED BY <1>7, <2>1
<1>9. f[i] = g[i]
  BY <1>8
<1> QED BY <1>4, <1>9

(* ScopeTags::key in src/src/quarry/policy.rs gives two scopes the same    *)
(* key only if they are the same scope.                                    *)
LEMMA KeyIsInjective ==
  ASSUME NEW a \in Scopes, NEW b \in Scopes, Key(a) = Key(b)
  PROVE  a = b
<1>1. IsScope(a) /\ IsScope(b)
  BY ScopesAre
<1>2. TagOrder # <<>> /\ Len(TagOrder) \in Nat
  <2>1. TagOrder \in Seq(Seq(STRING)) /\ User \in Range(TagOrder)
    BY TagAssumption
  <2> QED BY <2>1 DEF Range
<1>3. ASSUME NEW i \in 1 .. Len(TagOrder)
      PROVE  /\ TagOrder[i] \in DOMAIN a <=> TagOrder[i] \in DOMAIN b
             /\ TagOrder[i] \in DOMAIN a => a[TagOrder[i]] = b[TagOrder[i]]
  <2>1. Piece(a, i) = Piece(b, i)
    BY <1>1, <1>2, SamePieces
  <2>2. TagOrder[i] \in DOMAIN a <=> TagOrder[i] \in DOMAIN b
    BY <1>1, <2>1, PieceIs
  <2>3. ASSUME TagOrder[i] \in DOMAIN a PROVE a[TagOrder[i]] = b[TagOrder[i]]
    <3>1. /\ Piece(a, i) = Tagged(TagOrder[i], a[TagOrder[i]])
          /\ TagOrder[i] \in Words /\ Plain(TagOrder[i])
          /\ a[TagOrder[i]] \in Words /\ Plain(a[TagOrder[i]])
      BY <1>1, <2>3, PieceIs
    <3>2. /\ Piece(b, i) = Tagged(TagOrder[i], b[TagOrder[i]])
          /\ b[TagOrder[i]] \in Words /\ Plain(b[TagOrder[i]])
      BY <1>1, <2>2, <2>3, PieceIs
    <3>3. Cat(<<>>, Tagged(TagOrder[i], a[TagOrder[i]]))
            = Cat(<<>>, Tagged(TagOrder[i], b[TagOrder[i]]))
      BY <2>1, <3>1, <3>2
    <3> QED BY <3>1, <3>2, <3>3, Empty, TaggedParses
  <2> QED BY <2>2, <2>3
<1>4. \A k \in DOMAIN a : k \in DOMAIN b /\ a[k] = b[k]
  BY <1>1, <1>3 DEF IsScope
<1>5. \A k \in DOMAIN b : k \in DOMAIN a
  BY <1>1, <1>3 DEF IsScope
<1>6. DOMAIN a = DOMAIN b /\ \A k \in DOMAIN a : a[k] = b[k]
  BY <1>4, <1>5
<1>7. a = [k \in DOMAIN a |-> a[k]] /\ b = [k \in DOMAIN b |-> b[k]]
  BY <1>1 DEF IsScope
<1> QED BY <1>6, <1>7

LEMMA DifferentTags == User # Channel
BY SMT DEF User, Channel

(* No two scopes share a cache key, and what is granted is cached under    *)
(* the sender's own user and channel, whatever tags the operator adds.     *)
THEOREM ScopesAreOwn == Spec => []ScopeIsOwn
<1>1. IInv => ScopeIsOwn
  <2> SUFFICES ASSUME IInv PROVE ScopeIsOwn
    OBVIOUS
  <2>1. \A a, b \in Scopes : Key(a) = Key(b) => a = b
    BY KeyIsInjective
  <2> DEFINE tags == ScopeOf(request.sender[1], request.sender[2], entry.scope_tags)
  <2>2. ASSUME stage = "granted"
        PROVE  /\ tags \in Scopes
               /\ \A other \in Scopes :
                    NarrowsTo(tags, other) => other[User] = request.sender[1]
                                              /\ other[Channel] = request.sender[2]
    <3>1. /\ request.sender \in Senders /\ entry \in Entries
          /\ Refusal(entry, caps, MintFault(tags)) = "none"
      BY <2>2 DEF IInv, TypeOK, Decided
    <3> HIDE DEF tags
    <3>2. MintFault(tags) = "none"
      BY <3>1 DEF Refusal
    <3>3. tags \in Scopes
      BY <3>1, <3>2 DEF Scopes, tags
    <3>4. /\ User \in DOMAIN tags /\ tags[User] = request.sender[1]
          /\ Channel \in DOMAIN tags /\ tags[Channel] = request.sender[2]
      BY DifferentTags DEF ScopeOf, tags
    <3> QED BY <3>3, <3>4 DEF NarrowsTo
  <2> QED BY <2>1, <2>2 DEF ScopeIsOwn
<1> QED BY <1>1, Invariance, PTL
=============================================================================
