----------------------------- MODULE Addresses ------------------------------
(***************************************************************************)
(* The channel adapters (src/src/channels), told apart by                  *)
(*   on     the platform, under whose name they are registered;            *)
(*   hears  where they say a message came from: the registered id, or the  *)
(*          room of the platform it was written in;                        *)
(*   polls  whether they fetch messages, or are handed them;               *)
(*   needs  what must be in a message that they are to send;               *)
(*   fails  what they make of one they cannot send: an error, or success   *)
(*          all the same;                                                  *)
(*   errs   what they may make of an error of the platform;                *)
(*   waits  which messages they wait for with no timeout: all of them, or  *)
(*          the ones that have what they need, or none.                    *)
(***************************************************************************)
EXTENDS Naturals

CONSTANT Adapters   \* the ones that are configured

Adapter(on, hears, polls, needs, fails, errs, waits) ==
  [on |-> on, hears |-> hears, polls |-> polls,
   needs |-> needs, fails |-> fails, errs |-> errs, waits |-> waits]

(* start lends the client to a task that holds the lock sending needs, for *)
(* as long as the client runs.  Of the others those that use a client with *)
(* no timeout wait for their platform, if they get so far as to ask it.    *)
Discord      == Adapter("discord", "room", FALSE, "room", "refused", {"refused"}, "all")
Slack        == Adapter("slack", "room", FALSE, "room", "refused", {"refused"}, "all")
(* Slack says "not ok" with an HTTP success.                               *)
SlackSocket  == Adapter("slack", "room", FALSE, "room", "lost", {"refused"}, "all")
Telegram     == Adapter("telegram", "main", FALSE, "user", "refused", {"refused"}, "addressed")
TelegramPoll == Adapter("telegram", "main", TRUE, "user", "refused", {"refused"}, "none")
WhatsApp     == Adapter("whatsapp", "main", FALSE, "user", "refused", {"refused"}, "all")
Sms          == Adapter("sms", "main", FALSE, "user", "refused", {"refused"}, "all")
Email        == Adapter("email", "main", TRUE, "user", "lost", {"refused"}, "none")
Teams        == Adapter("teams", "main", FALSE, "route", "lost", {"refused", "lost"}, "addressed")
Webhook      == Adapter("webhook", "main", FALSE, "never", "lost", {}, "none")
WebChat      == Adapter("webchat", "main", FALSE, "never", "lost", {}, "none")
Test         == Adapter("testchan", "main", FALSE, "nothing", "sent", {}, "none")

Kinds == {Discord, Slack, SlackSocket, Telegram, TelegramPoll, WhatsApp, Sms,
          Email, Teams, Webhook, WebChat, Test}

(* Slack and Telegram each run in one mode or the other.                   *)
ASSUME AdaptersAssumption ==
  /\ Adapters \subseteq Kinds
  /\ \A a, b \in Adapters : a.on = b.on => a = b

Polling == {a \in Adapters : a.polls}

(* The id an adapter is registered under, and a room of its platform.      *)
Main(a) == <<a.on, "main">>
Room(a) == <<a.on, "room">>

Registered(channel) == {a \in Adapters : Main(a) = channel}

Inbound(a, user) ==
  [channel |-> IF a.hears = "room" THEN Room(a) ELSE Main(a),
   user |-> user,
   route |-> IF a = Teams THEN "conversation" ELSE "none"]

(* The message that send_text makes of a piece of an answer.               *)
Outbound(channel) == [channel |-> channel, user |-> "assistant", route |-> "none"]

Addressed(a, m) ==
  \/ a.needs = "nothing"
  \/ a.needs = "room" /\ m.channel = Room(a)
  \/ a.needs = "user" /\ m.user # "assistant"
  \/ a.needs = "route" /\ m.route # "none"

Waits(a, m) == a.waits = "all" \/ (a.waits = "addressed" /\ Addressed(a, m))

Outcomes(a, m) ==
  (IF Addressed(a, m) THEN {"sent"} \cup a.errs ELSE {a.fails})
    \cup (IF Waits(a, m) THEN {"hung"} \cup a.errs ELSE {})
=============================================================================
