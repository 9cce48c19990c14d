------------------------------- MODULE Policy -------------------------------
(***************************************************************************)
(* What a sender may spend, and under which scope their run is cached      *)
(* (src/src/quarry/policy.rs, ConfigCapsPolicy::resolve and ScopeTags).    *)
(* Amounts are micro-dollars, durations milliseconds; a cap of Unlimited   *)
(* says "no limit" and None says nothing.                                  *)
(***************************************************************************)
EXTENDS Integers, Sequences, SequencesExt

CONSTANTS
  None,       \* an Option that is empty
  TagOrder    \* the tag names there are, sorted as a BTreeMap sorts them

Unlimited == -1
Limited(amount) == amount >= 0

Denominations == {"spend", "latency", "due"}

(* A missing cap, or a number of something.                                *)
Quantity == Int \cup {None}

ASSUME NoneAssumption == None \notin Int

-----------------------------------------------------------------------------
(* Scope.  A name or a value is a sequence of symbols.                     *)

(* forbidden_in_tag: quarry's own separators.                              *)
Separators == {"=", ";"}
Forbidden(s) == Range(s) \cap Separators # {}

(* ScopeTags::mint: "none" is Ok.                                          *)
MintFault_mutant(tags) ==
  IF \E k \in DOMAIN tags : Forbidden(k) THEN "scope_forbidden_character" ELSE "none"
MintFault(tags) ==
  IF DOMAIN tags = {}                                       THEN "scope_empty"
  ELSE IF <<>> \in DOMAIN tags                              THEN "scope_empty_key"
  ELSE IF \E k \in DOMAIN tags : Forbidden(k) \/ Forbidden(tags[k])
                                                            THEN "scope_forbidden_character"
  ELSE "none"

(* ScopeTags::key: k=v; for each tag, sorted.                              *)
Key(tags) ==
  FlattenSeq([i \in DOMAIN TagOrder |->
    IF TagOrder[i] \in DOMAIN tags
    THEN TagOrder[i] \o <<"=">> \o tags[TagOrder[i]] \o <<";">> ELSE <<>>])

(* ScopeTags::narrows_to.                                                  *)
NarrowsTo(tags, other) ==
  \A k \in DOMAIN tags : k \in DOMAIN other /\ other[k] = tags[k]

(* mint_scope: the sender's verified identity, and what the operator adds. *)
User == <<"user">>
Channel == <<"channel">>
ScopeOf(user, channel, extra) ==
  [k \in {User, Channel} \cup DOMAIN extra |->
     IF k = User THEN user ELSE IF k = Channel THEN channel ELSE extra[k]]

-----------------------------------------------------------------------------
(* Caps.                                                                   *)

(* entry_for: the most specific entry, taken whole.                        *)
EntryFor(policy, user, channel) ==
  IF user \in DOMAIN policy.senders          THEN policy.senders[user]
  ELSE IF channel \in DOMAIN policy.channels THEN policy.channels[channel]
  ELSE policy.default

(* What becomes of one denomination: the cap granted, what the sender is   *)
(* told about it, and the refusal if there is one.                         *)
Outcome(cap, told) == [cap |-> cap, told |-> told, refusal |-> "none"]
Refused(why)       == [cap |-> None, told |-> "nothing", refusal |-> why]

(* The operator's cap stands in for the sender's, if there is one.         *)
Instead_mutant(default, told) == Outcome(default, "nothing")
Instead(default, told) ==
  IF default = None THEN Outcome(None, "nothing") ELSE Outcome(default, told)

Over_mutant(asked, max) == max # None /\ asked > max
Over(asked, max) == max # None /\ Limited(max) /\ asked > max

Apply(entry, asked, may, max, default) ==
  IF asked = None              THEN Instead(default, "defaulted")
  ELSE IF ~may                 THEN Instead(default, "not_permitted")
  ELSE IF ~Over(asked, max)    THEN Outcome(asked, "nothing")
  ELSE IF entry.reduce         THEN Outcome(max, "reduced")
  ELSE Refused("over_limit")

(* A sender who may set the spend may ask for no limit, which is not       *)
(* compared with the maximum.                                              *)
Spend(entry, asked) ==
  LET may == "spend" \in entry.allowed
  IN IF asked # None /\ may /\ ~Limited(asked)
     THEN IF entry.allow_unlimited THEN Outcome(Unlimited, "nothing")
          ELSE Refused("unlimited_forbidden")
     ELSE Apply(entry, asked, may, entry.max_spend, entry.default_spend)

Latency(entry, asked) ==
  Apply(entry, asked, "latency" \in entry.allowed, entry.max_latency, entry.default_latency)

Due(entry, asked) ==
  IF asked = None \/ "due" \in entry.allowed THEN Outcome(asked, "nothing")
  ELSE Outcome(None, "not_permitted")

(* resolve: the first refusal in this order, or a grant.                   *)
Refusal(entry, caps, fault) ==
  LET spend == Spend(entry, caps.spend)
      latency == Latency(entry, caps.latency)
      due == Due(entry, caps.due)
  IN IF spend.refusal # "none"       THEN spend.refusal
     ELSE IF latency.refusal # "none" THEN latency.refusal
     ELSE IF fault # "none"           THEN fault
     ELSE IF spend.cap = None /\ latency.cap = None /\ due.cap = None
                                      THEN "no_cap_granted" ELSE "none"

Grant(entry, caps) ==
  [d \in Denominations |->
     IF d = "spend" THEN Spend(entry, caps.spend)
     ELSE IF d = "latency" THEN Latency(entry, caps.latency) ELSE Due(entry, caps.due)]
=============================================================================
