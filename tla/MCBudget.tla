------------------------------ MODULE MCBudget ------------------------------
(* One sender in two channels, three days around a change of the clock, in *)
(* a zone that springs forward, one that falls back and UTC.               *)
EXTENDS Budget

MCSenders == {<<<<"a">>, <<"c">>>>, <<<<"a">>, <<"c", ";", "team", "=", "x">>>>}
MCTagOrder == <<Channel, <<"team">>, User>>

MCZones ==
  [z \in {"UTC", "Spring", "Autumn"} |->
     [ahead |-> IF z = "UTC" THEN 0 ELSE 1, at |-> 30,
      shift |-> IF z = "Spring" THEN 1 ELSE IF z = "Autumn" THEN -1 ELSE 0]]
MCNames == {None, "Spring", "Autumn", "Atlantis"}

Clock(hour, minute, meridiem) ==
  [kind |-> "clock", hour |-> hour, minute |-> minute, meridiem |-> meridiem]
Bys ==
  {None, [kind |-> "tomorrow", part |-> "morning"], [kind |-> "today", part |-> "morning"],
   [kind |-> "today", part |-> "end"], [kind |-> "part", part |-> "noon"],
   [kind |-> "weekday", weekday |-> 1, part |-> "end"],
   Clock(5, None, "none"), Clock(5, 30, "none"), Clock(7, 0, "none"), Clock(12, None, "am"),
   Clock(25, None, "none")}

Words(w)   == [words |-> w, amounts |-> <<>>]
Dollars(s) == [words |-> "amounts", amounts |-> s]
Spends == {Dollars(<<>>), Words("unlimited"), Dollars(<<4>>), Dollars(<<20>>), Dollars(<<70>>)}
Latencies == {None, [unit |-> "millisecond", value |-> 4], [unit |-> "second", value |-> 80]}

Text(spend, latency, by, noun) ==
  [spend |-> spend, latency |-> latency, by |-> by, noun |-> noun]
MCTexts ==
  {Text(spend, latency, None, FALSE) : spend \in Spends, latency \in Latencies}
  \cup {Text(Dollars(<<20>>), None, by, FALSE) : by \in Bys}
  \cup {Text(Dollars(<<20, 70>>), None, None, FALSE), Text(Words("nothing"), None, None, FALSE), Text(Dollars(<<70>>), None, None, TRUE),
        Text(Dollars(<<>>), None, [kind |-> "tomorrow", part |-> "end"], FALSE)}

Entry(allowed, reduce, unlimited, max, default, tags) ==
  [allowed |-> allowed, reduce |-> reduce, allow_unlimited |-> unlimited,
   max_spend |-> max, default_spend |-> default, max_latency |-> 5,
   default_latency |-> None, scope_tags |-> tags]
Team(value) == [k \in {<<"team">>} |-> value]
NoTags == [k \in {} |-> <<>>]

Open   == Entry(Denominations, TRUE, TRUE, -1, None, Team(<<"x">>))
Tight  == Entry({"spend", "due"}, TRUE, FALSE, 3, 2, NoTags)
Strict == Entry({"spend", "latency"}, FALSE, FALSE, 3, None, Team(<<"y">>))
Mute   == Entry({}, FALSE, FALSE, -1, 2, NoTags)

Empty == [s \in {} |-> None]
MCPolicies ==
  {[default |-> None, channels |-> Empty, senders |-> Empty],
   [default |-> Open, channels |-> Empty, senders |-> Empty],
   [default |-> Mute, channels |-> Empty, senders |-> Empty],
   [default |-> Mute, channels |-> [c \in {<<"c">>} |-> Tight], senders |-> Empty],
   [default |-> None, channels |-> [c \in {<<"c">>} |-> Tight],
    senders |-> [u \in {<<"a">>} |-> Strict]]}

MCNows == {8, 28, 32}
=============================================================================
