------------------------------ MODULE Delivery ------------------------------
(***************************************************************************)
(* How messages get to the gateway's loop and answers get back             *)
(* (src/src/gateway/mod.rs, http.rs, src/src/cron, src/src/channels):      *)
(* webhooks, pollers, cron jobs and web chat feed one queue; the loop asks *)
(* the limiter, chooses the channel of the answer, waits for the model,    *)
(* and sends the answer piece by piece.  A web chat is answered on its     *)
(* socket, beside the loop, and its answers enter the queue as well.       *)
(* Duplicates and approvals are module Pipeline, memory is Conversation.   *)
(***************************************************************************)
EXTENDS Outgoing, Addresses, RateWindow, FiniteSets

CONSTANTS
  Users, Nobody,
  Channels,     \* what users may be given as their preferred channel
  Jobs,         \* cron jobs: a channel and a user
  Answers,      \* what the model may say
  Limits,       \* the chunker's limit for each platform, 0 if it has none
  Settings,     \* of the limiter, one after the other
  Sockets, Sessions,
  MaxMessages, MaxNow   \* bounds

ASSUME DeliveryAssumption ==
  /\ Nobody \notin Users \cup Channels \cup Sockets
  /\ Nobody \notin [count : Nat, start : Nat]
  /\ Settings \subseteq RateLimitConfig /\ Settings # {} /\ IsFiniteSet(Settings)
  /\ MaxMessages \in Nat /\ MaxNow \in Nat
  /\ Answers \subseteq Seq(Characters) /\ \A p \in DOMAIN Limits : Limits[p] \in Nat

VARIABLES
  waiting,    \* messages on their platforms, not yet fetched
  inbox,      \* message_tx: the queue of the loop
  queued,     \* messages ever put in it
  at,         \* where the loop stands
  job,        \* the message it handles
  reply,      \* the channel its answer goes to
  answer,     \* the formatted answer
  out,        \* the pieces of it
  sent,       \* how many of them are sent
  preferred, windows, clock,
  settings,   \* hot_config: those of the limiter
  passed,     \* history: when the limiter let messages of a user through
  socket,     \* the web chat sockets
  sessions    \* for each session the socket that is reached by its id

loopVars == <<at, job, reply, answer, out, sent>>
rateVars == <<windows, settings, clock, passed>>
chatVars == <<socket, sessions>>
vars == <<waiting, inbox, queued, loopVars, preferred, rateVars, chatVars>>

Senders == Users \cup {"assistant"}

NoMessage == [channel |-> <<>>, user |-> "nobody", route |-> "none"]

Init ==
  /\ waiting = [a \in Polling |-> <<>>]
  /\ inbox = <<>> /\ queued = 0
  /\ at = "idle" /\ job = NoMessage /\ reply = <<>> /\ answer = <<>>
  /\ out = <<>> /\ sent = 0
  /\ preferred = [u \in Users |-> Nobody]
  /\ windows = [u \in Senders |-> Nobody]
  /\ settings \in Settings
  /\ clock = 0
  /\ passed = [u \in Senders |-> <<>>]
  /\ socket = [k \in Sockets |-> [is |-> "none", id |-> Nobody]]
  /\ sessions = [s \in Sessions |-> Nobody]

Streaming == {k \in Sockets : socket[k].is = "streaming"}
Unfetched == LET from(a) == {a} \X DOMAIN waiting[a] IN UNION {from(a) : a \in DOMAIN waiting}
MayPost == queued + Cardinality(Unfetched) + Cardinality(Streaming) < MaxMessages

Enqueue(messages) ==
  /\ inbox' = inbox \o messages
  /\ queued' = queued + Len(messages)

-----------------------------------------------------------------------------
(* Producers.                                                              *)
Post(a, u) ==
  /\ a \notin Polling \cup {WebChat} /\ MayPost
  /\ Enqueue(<<Inbound(a, u)>>)
  /\ UNCHANGED <<waiting, loopVars, preferred, rateVars, chatVars>>

Mail(a, u) ==
  /\ MayPost
  /\ waiting' = [waiting EXCEPT ![a] = Append(@, Inbound(a, u))]
  /\ UNCHANGED <<inbox, queued, loopVars, preferred, rateVars, chatVars>>

(* One answer of the platform holds all that waits; a poll that fails is   *)
(* tried again later.                                                      *)
Poll(a) ==
  /\ waiting[a] # <<>>
  /\ Enqueue(waiting[a])
  /\ waiting' = [waiting EXCEPT ![a] = <<>>]
  /\ UNCHANGED <<loopVars, preferred, rateVars, chatVars>>

Fire(j) ==
  /\ MayPost
  /\ Enqueue(<<[channel |-> j.channel, user |-> j.user, route |-> "none"]>>)
  /\ UNCHANGED <<waiting, loopVars, preferred, rateVars, chatVars>>

Prefer(u, c) ==
  /\ preferred' = [preferred EXCEPT ![u] = c]
  /\ UNCHANGED <<waiting, inbox, queued, loopVars, rateVars, chatVars>>

(* The loop keeps the settings locked while it denies a message.           *)
Denying == at = "denying" \/ (at = "hung" /\ reply = <<>>)

Reload(config) ==
  /\ ~Denying
  /\ settings' = config
  /\ UNCHANGED <<waiting, inbox, queued, loopVars, preferred, windows, clock, passed, chatVars>>

Tick ==
  /\ clock < MaxNow /\ clock' = clock + 1
  /\ UNCHANGED <<waiting, inbox, queued, loopVars, preferred, windows, settings, passed, chatVars>>

-----------------------------------------------------------------------------
(* Web chat: a socket is entered and removed under the id of its session,  *)
(* and it ends when its sender is dropped from the map.                    *)
Connect(k, s) ==
  /\ socket[k].is = "none"
  /\ socket' = [socket EXCEPT ![k] = [is |-> "open", id |-> s]]
  /\ sessions' = [sessions EXCEPT ![s] = k]
  /\ UNCHANGED <<waiting, inbox, queued, loopVars, preferred, rateVars>>

Removed_mutant(k) == sessions
Removed(k) == [sessions EXCEPT ![socket[k].id] = Nobody]

Leave(k) ==
  /\ socket[k].is = "open"
  /\ socket' = [socket EXCEPT ![k] = [is |-> "none", id |-> Nobody]]
  /\ sessions' = Removed(k)
  /\ UNCHANGED <<waiting, inbox, queued, loopVars, preferred, rateVars>>

HangUp(k) == Leave(k)

Closed(k) == socket[k].is = "open" /\ sessions[socket[k].id] # k /\ Leave(k)

Talk(k) ==
  /\ socket[k].is = "open" /\ MayPost
  /\ socket' = [socket EXCEPT ![k].is = "streaming"]
  /\ UNCHANGED <<waiting, inbox, queued, loopVars, preferred, rateVars, sessions>>

StreamEnds(k) ==
  /\ socket[k].is = "streaming"
  /\ socket' = [socket EXCEPT ![k].is = "open"]
  /\ Enqueue(<<[channel |-> <<"webchat", socket[k].id>>, user |-> "assistant", route |-> "none"]>>)
  /\ UNCHANGED <<waiting, loopVars, preferred, rateVars, sessions>>

(* The model fails, or the client no longer listens.                       *)
StreamBreaks(k) ==
  /\ socket[k].is = "streaming"
  /\ socket' = [socket EXCEPT ![k].is = "open"]
  /\ UNCHANGED <<waiting, inbox, queued, loopVars, preferred, rateVars, sessions>>

-----------------------------------------------------------------------------
(* The loop.                                                               *)
WindowOf(u) == IF windows[u] = Nobody THEN Unused(clock) ELSE windows[u]

Take ==
  LET m == Head(inbox)
      w == WindowOf(m.user)
  IN /\ at = "idle" /\ inbox # <<>>
     /\ inbox' = Tail(inbox) /\ job' = m
     /\ IF settings.enabled
        THEN /\ windows' = [windows EXCEPT ![m.user] = Recorded(w, clock, settings)]
             /\ IF Allowed(w, clock, settings)
                THEN at' = "routing" /\ passed' = [passed EXCEPT ![m.user] = Append(@, clock)]
                ELSE at' = "denying" /\ UNCHANGED passed
        ELSE at' = "routing" /\ UNCHANGED <<windows, passed>>
     /\ UNCHANGED <<waiting, queued, reply, answer, out, sent, preferred, settings, clock, chatVars>>

(* The handler returns, and its locals with it.                            *)
Return ==
  /\ at' = "idle" /\ job' = NoMessage
  /\ reply' = <<>> /\ answer' = <<>> /\ out' = <<>> /\ sent' = 0

(* An adapter that never returns keeps the loop for good.                  *)
Hang == at' = "hung" /\ UNCHANGED <<job, reply, answer, out, sent>>

(* The channel the message came by is told, whether or not that succeeds.  *)
Deny ==
  /\ at = "denying"
  /\ \/ Registered(job.channel) = {} /\ Return
     \/ \E a \in Registered(job.channel) : \E o \in Outcomes(a, Outbound(job.channel)) :
           IF o = "hung" THEN Hang ELSE Return
  /\ UNCHANGED <<waiting, inbox, queued, preferred, rateVars, chatVars>>

(* The channel is chosen before the model is asked.                        *)
Route ==
  /\ at = "routing" /\ at' = "thinking"
  /\ reply' = IF job.user \in Users /\ preferred[job.user] # Nobody
              THEN preferred[job.user] ELSE job.channel
  /\ UNCHANGED <<waiting, inbox, queued, job, answer, out, sent, preferred, rateVars, chatVars>>

(* What may be said, as it is formatted and cut for a platform; the cutting *)
(* of some texts never ends.                                                *)
Texts ==
  {LET formatted == Formatted(text, p)
   IN [platform |-> p, whole |-> formatted,
       pieces |-> IF Spins(formatted, Limits[p]) THEN <<>> ELSE Chunks(formatted, Limits[p])] :
     text \in Answers, p \in DOMAIN Limits}

Think(text) ==
  /\ at = "thinking" /\ text.platform = reply[1]
  /\ answer' = text.whole
  /\ out' = text.pieces /\ sent' = 0
  /\ at' = IF text.pieces = <<>> THEN "spinning" ELSE "sending"
  /\ UNCHANGED <<waiting, inbox, queued, job, reply, preferred, rateVars, chatVars>>

(* A piece that is refused is the last: the error ends the handler.        *)
Sent_mutant(o) == IF o = "refused" THEN sent ELSE sent + 1
Sent(o) == IF o = "refused" THEN Len(out) ELSE sent + 1

SendPiece(a) ==
  /\ at = "sending" /\ a \in Registered(reply)
  /\ \E o \in Outcomes(a, Outbound(reply)) :
        IF o = "hung" THEN Hang
        ELSE IF Sent(o) = Len(out) THEN Return
        ELSE sent' = Sent(o) /\ UNCHANGED <<at, job, reply, answer, out>>
  /\ UNCHANGED <<waiting, inbox, queued, preferred, rateVars, chatVars>>

NoChannel ==
  /\ at = "sending" /\ Registered(reply) = {}
  /\ Return
  /\ UNCHANGED <<waiting, inbox, queued, preferred, rateVars, chatVars>>

-----------------------------------------------------------------------------
Loop ==
  \/ Take \/ Deny \/ Route \/ NoChannel
  \/ \E text \in Texts : Think(text)
  \/ \E a \in Adapters : SendPiece(a)

Next ==
  \/ Loop \/ Tick
  \/ \E u \in Users : \/ \E a \in Adapters : Post(a, u)
                      \/ \E a \in DOMAIN waiting : Mail(a, u)
                      \/ \E c \in Channels : Prefer(u, c)
  \/ \E a \in DOMAIN waiting : Poll(a)
  \/ \E j \in Jobs : Fire(j)
  \/ \E config \in Settings : Reload(config)
  \/ \E k \in Sockets : \/ \E s \in Sessions : Connect(k, s)
                        \/ HangUp(k) \/ Closed(k) \/ Talk(k)
                        \/ StreamEnds(k) \/ StreamBreaks(k)

Safe == Init /\ [][Next]_vars

(* The loop is a task of its own.  The model's clients have timeouts, so   *)
(* that Think comes; an adapter that has none may take the step Hang.      *)
Spec == Safe /\ WF_vars(Loop)

-----------------------------------------------------------------------------
(* RateLimiter: in any span as long as the shortest of the windows it is   *)
(* given it lets no more than twice the highest number of messages of a    *)
(* user through, however often one or the other is reloaded, and however   *)
(* often it is switched off, when it is not asked, and on.                 *)
Rates == {config.perWindow : config \in Settings}
Highest == CHOOSE n \in Rates \cup {1} : \A m \in Rates \cup {1} : m <= n

Windows == {config.window : config \in Settings}
Shortest == CHOOSE n \in Windows : \A m \in Windows : n <= m

RateIsBounded ==
  \A u \in Senders : \A t \in 0..clock :
     Cardinality({i \in DOMAIN passed[u] : passed[u][i] \in t..(t + Shortest - 1)}) <= 2 * Highest

(* handle_webchat_socket: whatever sockets come and go under one id, an    *)
(* entry in the map is always that of a socket which still serves that id. *)
EntryHasASocket ==
  \A s \in Sessions : sessions[s] # Nobody =>
     socket[sessions[s]].is # "none" /\ socket[sessions[s]].id = s

(* MessageChunker::chunk: what is being sent is the whole answer, nothing  *)
(* but white space lost, in pieces that are not empty and fit the platform *)
(* they go to, whatever channel was chosen while the model was asked.      *)
ChunksAreWhole ==
  at = "sending" => Whole(answer, Limits[reply[1]], out)

(* The loop ends what it takes: it comes to the end of its queue, whether  *)
(* pieces of an answer are sent, refused or lost and whether there is a    *)
(* channel for it, unless one message keeps it for good: an adapter with   *)
(* no timeout waits for its platform, or a character is wider than the     *)
(* limit the chunker is given.                                             *)
Free == at = "idle" /\ inbox = <<>>
Kept == at \in {"hung", "spinning"}
QueueDrains == ~Free ~> Free \/ Kept

(* handle_message_inner, send_text: what has come in by a channel can be   *)
(* answered: there is an adapter for the channel the answer is to go to,   *)
(* and it can make out from what it is given who is to get it.             *)
AnswersAreAddressed ==
  at = "sending" => \E a \in Registered(reply) : Addressed(a, Outbound(reply))
=============================================================================
