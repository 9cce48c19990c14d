------------------------------- MODULE Budget -------------------------------
(***************************************************************************)
(* The budget of a run, from the words of a sender to a grant: caps are    *)
(* parsed in the sender's time zone (src/src/quarry/caps.rs), then         *)
(* resolved against the operator's policy (src/src/quarry/policy.rs).      *)
(* Meanwhile time passes, the sender changes the stored zone and the       *)
(* operator reloads the policy.                                            *)
(***************************************************************************)
EXTENDS Policy, FiniteSets

CONSTANTS
  Senders,    \* pairs of a verified user and a channel
  Texts,      \* what a message says of caps
  Zones,      \* the valid zone names, each with its clock
  Names,      \* what may be stored or configured as a zone
  Default,    \* quarry.default_timezone
  Policies,   \* what the operator may load
  Walk,       \* hours the search past a gap goes
  Nows        \* the instants at which something happens

D == INSTANCE Deadlines

Caps == [spend : Nat \cup {None, Unlimited}, latency : Nat \cup {None}, due : Quantity]

Budgets(e) == /\ e.max_spend \in Quantity   /\ e.default_spend \in Quantity
              /\ e.max_latency \in Quantity /\ e.default_latency \in Quantity

ASSUME TextAssumption ==
  \A text \in Texts, t \in Nows, z \in DOMAIN Zones : D!Caps(text, t, Zones[z]) \in Caps
ASSUME ZoneAssumption ==
  /\ "UTC" \in DOMAIN Zones
  /\ \A z \in DOMAIN Zones :
       Zones[z].ahead \in Int /\ Zones[z].at \in Int /\ Zones[z].shift \in Int
ASSUME ClockAssumption ==
  /\ Nows \subseteq Int /\ Walk \in Nat
  /\ \A by \in {text.by : text \in Texts} \ {None} :
       /\ by.kind \in {"tomorrow", "today", "weekday", "part", "clock"}
       /\ by.kind = "weekday" => by.weekday \in 0..6
       /\ by.kind = "clock" => by.hour \in Nat
ASSUME EntryAssumption ==
  \A p \in Policies, s \in Senders :
    EntryFor(p, s[1], s[2]) # None => Budgets(EntryFor(p, s[1], s[2]))

(* Every entry there is, and the names and texts its tags may be.          *)
EntriesOf(p) == ({p.default} \cup Range(p.channels) \cup Range(p.senders)) \ {None}
Entries == UNION {EntriesOf(p) : p \in Policies}

ASSUME TagAssumption ==
  /\ TagOrder \in Seq(Seq(STRING))
  /\ \A i, j \in 1..Len(TagOrder) : TagOrder[i] = TagOrder[j] => i = j
  /\ {User, Channel} \subseteq Range(TagOrder)
  /\ \A s \in Senders : s[1] \in Seq(STRING) /\ s[2] \in Seq(STRING)
  /\ \A e \in Entries :
       /\ DOMAIN e.scope_tags \subseteq Range(TagOrder)
       /\ \A k \in DOMAIN e.scope_tags : e.scope_tags[k] \in Seq(STRING)

VARIABLES
  now,
  policy,    \* HotConfig.quarry_policy
  prefs,     \* the stored time zone of each user
  stage,     \* "idle", "asked", "parsed", "granted" or "refused"
  request,   \* the message being budgeted: sender, text, when, zone; None at first
  caps,      \* RequestedCaps
  entry,     \* the policy entry that decided, None if there was none
  grant,     \* for each denomination its outcome
  refusal

vars == <<now, policy, prefs, stage, request, caps, entry, grant, refusal>>

Users == {s[1] : s \in Senders}

Stages == {"idle", "asked", "parsed", "granted", "refused"}

NoCaps  == [spend |-> None, latency |-> None, due |-> None]
NoGrant == [d \in Denominations |-> Outcome(None, "nothing")]

ZoneOf(pref) == D!ZoneName(pref, Default, Zones)

Init ==
  /\ now \in Nows
  /\ policy \in Policies
  /\ prefs = [u \in Users |-> None]
  /\ stage = "idle"
  /\ request = None
  /\ caps = NoCaps
  /\ entry = None
  /\ grant = NoGrant
  /\ refusal = "none"

(* Time passes.                                                            *)
Tick ==
  /\ \E t \in Nows : t > now /\ now' = t
  /\ UNCHANGED <<policy, prefs, stage, request, caps, entry, grant, refusal>>

(* UserPreferences::set_timezone, clear.                                   *)
SetTimezone(u, name) ==
  /\ name # prefs[u]
  /\ prefs' = [prefs EXCEPT ![u] = name]
  /\ UNCHANGED <<now, policy, stage, request, caps, entry, grant, refusal>>

(* SIGHUP: HotConfig::apply.                                               *)
Reload(new) ==
  /\ new # policy
  /\ policy' = new
  /\ UNCHANGED <<now, prefs, stage, request, caps, entry, grant, refusal>>

(* sender_timezone, then parse_caps.                                       *)
Parse(s, text) ==
  LET zone == ZoneOf(prefs[s[1]])
      asks == D!Questions(text, now, Zones[zone]) # {}
  IN /\ stage # "parsed"
     /\ request' = [sender |-> s, text |-> text, at |-> now, zone |-> zone]
     /\ stage' = IF asks THEN "asked" ELSE "parsed"
     /\ caps' = IF asks THEN NoCaps ELSE D!Caps(text, now, Zones[zone])
     /\ entry' = None /\ grant' = NoGrant /\ refusal' = "none"
     /\ UNCHANGED <<now, policy, prefs>>

(* ConfigCapsPolicy::resolve, with the policy of this moment.              *)
Resolve ==
  LET user == request.sender[1]
      channel == request.sender[2]
      found == EntryFor(policy, user, channel)
      why == IF found = None THEN "no_policy"
             ELSE Refusal(found, caps, MintFault(ScopeOf(user, channel, found.scope_tags)))
  IN /\ stage = "parsed"
     /\ entry' = found
     /\ refusal' = why
     /\ stage' = IF why = "none" THEN "granted" ELSE "refused"
     /\ grant' = IF why = "none" THEN Grant(found, caps) ELSE NoGrant
     /\ UNCHANGED <<now, policy, prefs, request, caps>>

Next ==
  \/ Tick
  \/ \E u \in Users, name \in Names : SetTimezone(u, name)
  \/ \E new \in Policies : Reload(new)
  \/ \E s \in Senders, text \in Texts : Parse(s, text)
  \/ Resolve

Spec == Init /\ [][Next]_vars

-----------------------------------------------------------------------------
AtMost(amount, bound) == ~Limited(bound) \/ (Limited(amount) /\ amount <= bound)

(* A run is never granted more than the operator's ceiling and never more  *)
(* than its sender asked for, whatever entry decided: the exceptions are a *)
(* default, which is the operator's own figure, and an explicit request    *)
(* for no limit under an entry that allows it.                             *)
Capped(asked, cap, max, default, unlimited) ==
  cap # None =>
    \/ cap = default
    \/ unlimited /\ cap = Unlimited /\ asked = Unlimited
    \/ asked # None /\ AtMost(cap, asked) /\ (max # None => AtMost(cap, max))

GrantIsBounded ==
  stage = "granted" =>
    /\ Capped(caps.spend, grant["spend"].cap, entry.max_spend, entry.default_spend,
              entry.allow_unlimited)
    /\ Capped(caps.latency, grant["latency"].cap, entry.max_latency, entry.default_latency,
              FALSE)

(* No quiet degradation (P9): whatever cap differs from the words of the   *)
(* sender is named to them before money is spent.  The one gap is a cap    *)
(* they may not set and that has no default: it is dropped without a word, *)
(* and then some other cap bounds the run.                                 *)
EveryChangeIsSaid ==
  stage = "granted" =>
    /\ \A d \in Denominations :
         grant[d].cap # caps[d] /\ grant[d].told = "nothing" =>
           d \notin entry.allowed /\ caps[d] # None /\ grant[d].cap = None
    /\ \E d \in Denominations : grant[d].cap # None

(* Two scopes that differ in a tag never share a cache key, and a run's    *)
(* scope carries its own sender, whatever the operator's tags are: no      *)
(* answer cached for one sender is served to another.                      *)
Scopes ==
  {tags \in {ScopeOf(s[1], s[2], e.scope_tags) : s \in Senders, e \in Entries} :
     MintFault(tags) = "none"}

ScopeIsOwn ==
  /\ \A a, b \in Scopes : Key(a) = Key(b) => a = b
  /\ stage = "granted" =>
       LET tags == ScopeOf(request.sender[1], request.sender[2], entry.scope_tags)
       IN /\ tags \in Scopes
          /\ \A other \in Scopes :
               NarrowsTo(tags, other) => other[User] = request.sender[1]
                                         /\ other[Channel] = request.sender[2]

(* A deadline reads on the sender's own clock as the time they named, or,  *)
(* where daylight saving skips that time, as a later one: it is never      *)
(* pulled earlier.  The zone is the stored one when that is valid.         *)
DeadlineReadsAsSaid ==
  stage \in {"parsed", "granted"} /\ caps.due # None =>
    LET zone == Zones[request.zone]
        named == D!Named(request.text.by, D!Local(zone, request.at))
    IN /\ D!Local(zone, caps.due) >= named
       /\ D!Local(zone, caps.due) > named => D!Readings(zone, named) = {}
=============================================================================
