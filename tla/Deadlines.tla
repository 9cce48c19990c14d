------------------------------ MODULE Deadlines -----------------------------
(***************************************************************************)
(* Caps out of a sender's words (src/src/quarry/caps.rs, parse_caps).      *)
(* What the scanner finds in a text is its input here: amounts, a          *)
(* duration, the phrase after "by".  An instant is an hour since some      *)
(* midnight; 23:59 is hour 24, and the minutes of a clock time only tell    *)
(* whether it has passed.  An amount is in tenths of a micro-dollar and a  *)
(* duration in tenths of a millisecond, so that rounding shows.            *)
(***************************************************************************)
EXTENDS Integers, Sequences, FiniteSetsExt

CONSTANTS
  None,
  Walk       \* how many hours the search past a gap goes; the code: 3

Unlimited == -1

Round(tenths) == (tenths + 5) \div 10

-----------------------------------------------------------------------------
(* Money and durations.                                                    *)

Cap(value)  == [cap |-> value, question |-> "none"]
Ask(why)    == [cap |-> None, question |-> why]

(* parse_spend: one positive amount, or the words for none or for no limit. *)
ParseSpend(spend) ==
  IF spend.words = "nothing"           THEN Ask("unusable_spend")
  ELSE IF spend.words = "unlimited"    THEN Cap(Unlimited)
  ELSE IF Len(spend.amounts) = 0       THEN Cap(None)
  ELSE IF Len(spend.amounts) > 1       THEN Ask("ambiguous")
  ELSE IF spend.amounts[1] <= 0        THEN Ask("unusable_spend")
  ELSE Cap(Round(spend.amounts[1]))

(* parse_latency: milliseconds are truncated, other units rounded, and     *)
(* only the others are looked at for zero.                                 *)
ParseLatency(latency) ==
  IF latency = None                    THEN Cap(None)
  ELSE IF latency.unit = "millisecond" THEN Cap(latency.value \div 10)
  ELSE IF latency.value <= 0           THEN Cap(None)
  ELSE Cap(Round(latency.value))

-----------------------------------------------------------------------------
(* Wall clocks.  A zone is ahead of UTC by zone.ahead, and by zone.shift   *)
(* more from the instant zone.at on.                                       *)
Local(zone, t) == t + zone.ahead + (IF t >= zone.at THEN zone.shift ELSE 0)

Readings(zone, local) ==
  {t \in {local - zone.ahead, local - zone.ahead - zone.shift} : Local(zone, t) = local}

(* resolve_local: of two readings the earlier; in a gap, the first local   *)
(* time after it that has one reading.                                     *)
Single(zone, local) == \E t \in Readings(zone, local) : Readings(zone, local) = {t}

Later_mutant(zone, local) == {l \in (local - Walk)..(local - 1) : Single(zone, l)}
Later(zone, local) == {l \in (local + 1)..(local + Walk) : Single(zone, l)}

ResolveLocal(zone, local) ==
  IF Readings(zone, local) # {}     THEN Cap(Min(Readings(zone, local)))
  ELSE IF Later(zone, local) # {}   THEN Cap(Min(Readings(zone, Min(Later(zone, local)))))
  ELSE Ask("ambiguous")

Hour(local) == local % 24
Day(local)  == local \div 24
At(day, hour) == 24 * day + hour

(* DAY_PARTS, the whole day being until its end.                           *)
PartHour(part) ==
  IF part = "morning" THEN 9 ELSE IF part = "noon" THEN 12
  ELSE IF part = "afternoon" THEN 17 ELSE 24

(* The hour a clock phrase names; None if there is no such hour.           *)
ClockHour(clock) ==
  LET hour == IF clock.meridiem = "pm" /\ clock.hour < 12 THEN clock.hour + 12
              ELSE IF clock.meridiem = "am" /\ clock.hour = 12 THEN 0 ELSE clock.hour
  IN IF hour > 23 THEN None ELSE hour

Passed(clock, local) ==
  \/ ClockHour(clock) < Hour(local)
  \/ ClockHour(clock) = Hour(local) /\ clock.minute \in {None, 0}

(* The day and hour the phrase names on the sender's clock.                *)
DaysAhead(local, weekday) ==
  LET ahead == (weekday - Day(local)) % 7 IN IF ahead = 0 THEN 7 ELSE ahead

Named(by, local) ==
  IF by.kind = "tomorrow"      THEN At(Day(local) + 1, PartHour(by.part))
  ELSE IF by.kind = "today"    THEN At(Day(local), PartHour(by.part))
  ELSE IF by.kind = "weekday"
  THEN At(Day(local) + DaysAhead(local, by.weekday), PartHour(by.part))
  ELSE IF by.kind = "part"
  THEN At(Day(local) + (IF Hour(local) >= PartHour(by.part) THEN 1 ELSE 0),
          PartHour(by.part))
  ELSE At(Day(local) + (IF Passed(by, local) THEN 1 ELSE 0), ClockHour(by))

(* parse_due; a phrase it does not recognise is no deadline.               *)
ParseDue(by, now, zone) ==
  IF by = None THEN Cap(None)
  ELSE IF by.kind = "clock" /\ by.meridiem = "none"
       /\ by.minute = None /\ by.hour < 13 THEN Ask("ambiguous")
  ELSE IF by.kind = "clock" /\ ClockHour(by) = None THEN Cap(None)
  ELSE ResolveLocal(zone, Named(by, Local(zone, now)))

-----------------------------------------------------------------------------
(* SenderTimezone::resolve: the stored zone, or the operator's, or UTC.     *)
ZoneName(pref, default, zones) ==
  IF pref \in DOMAIN zones         THEN pref
  ELSE IF default \in DOMAIN zones THEN default ELSE "UTC"

(* parse_caps.  A question anywhere asks; so does having found no cap.     *)
Caps(text, now, zone) ==
  [spend   |-> ParseSpend(text.spend).cap,
   latency |-> ParseLatency(text.latency).cap,
   due     |-> ParseDue(text.by, now, zone).cap]

Questions(text, now, zone) ==
  LET caps == Caps(text, now, zone)
      found == {ParseSpend(text.spend).question, ParseDue(text.by, now, zone).question,
                IF text.noun THEN "not_a_denomination" ELSE "none"} \ {"none"}
  IN IF found # {}              THEN found
     ELSE IF caps.spend = 0     THEN {"unusable_spend"}
     ELSE IF \A d \in DOMAIN caps : caps[d] = None THEN {"no_cap_found"} ELSE {}
=============================================================================
