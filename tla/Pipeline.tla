------------------------------ MODULE Pipeline -----------------------------
(***************************************************************************)
(* The gateway's message loop (src/src/gateway/mod.rs): one task takes     *)
(* messages from one queue and handles each to its end before the next.    *)
(* A message passes the deduplicator, is offered to the approval registry  *)
(* if its sender was seen to owe an answer, passes the rate limiter and    *)
(* goes to the agent.  The registry and the gated runs beside the loop are *)
(* those of module PlanGate; here the only replies they get are messages.  *)
(*                                                                         *)
(* has_pending is asked once, when a message is taken, and its answer is   *)
(* used two awaits later: each action is what happens between two awaits.  *)
(*                                                                         *)
(* A user id and a text are the sequences of their parts between colons    *)
(* (at least one, none holding a colon), so that writing one after the     *)
(* other with a colon between them is to concatenate them.                 *)
(***************************************************************************)
EXTENDS PlanGate, Sequences

CONSTANTS
  Texts,      \* what senders write
  Meaning,    \* what the gate makes of each text: a yes, a no or neither
  MaxMail,    \* bound on the messages ever sent; the queue has none
  Capacity,   \* dedup.window_size, which 0 does not switch off
  PerWindow   \* messages a user may have handled per window

ASSUME MaxMailAssumption   == MaxMail \in Nat
ASSUME CapacityAssumption  == Capacity \in Nat
ASSUME PerWindowAssumption == PerWindow \in Nat \ {0}
ASSUME PartsAssumption     == Users \cup Texts \subseteq Seq(STRING)
ASSUME MeaningAssumption   == Meaning \in [Texts -> Words]

VARIABLES
  mail,      \* every message ever sent, in order, with what became of it
  taken,     \* how many of them the loop has taken off its queue
  at,        \* where the loop stands with message number `taken`
  awaiting,  \* awaiting_approval: what has_pending said of its sender
  chance,    \* history: the request its sender could then have answered
  window,    \* the deduplicator's ring
  count,     \* the rate limiter's count per user
  lapsed     \* lapsed[u]: the limiter's window for u is over

loopVars == <<mail, taken, at, awaiting, chance, window, count, lapsed>>

Stops == {"idle", "checked", "offering", "clarifying", "limiting",
          "thinking", "replying"}
Handled == {"duplicate", "settled", "clarified", "limited", "answered",
            "unsent"}
Fates == Handled \cup {"queued", "handling"}

Message == [from : Key, says : Texts,
            fate : Fates, settles : Requests \cup {NoRequest}]

LoopTypeOK ==
  /\ mail     \in Seq(Message) /\ Len(mail) <= MaxMail
  /\ taken    \in 0 .. Len(mail)
  /\ at       \in Stops
  /\ awaiting \in BOOLEAN
  /\ chance   \in Requests \cup {NoRequest}
  /\ window   \in Seq(Seq(STRING))
  /\ Capacity > 0 => Len(window) <= Capacity
  /\ count    \in [Users -> 0 .. PerWindow]
  /\ lapsed   \in [Users -> BOOLEAN]

LoopInit ==
  /\ Init
  /\ mail     = <<>>
  /\ taken    = 0
  /\ at       = "idle"
  /\ awaiting = FALSE
  /\ chance   = NoRequest
  /\ window   = <<>>
  /\ count    = [u \in Users |-> 0]
  /\ lapsed   = [u \in Users |-> FALSE]

-----------------------------------------------------------------------------
(* The message being handled, and the decisions of the code about it.      *)

Current == mail[taken]
Sender  == Current.from
User    == Sender[2]
Meant   == Meaning[Current.says]

(* An approval can still be answered: it is in front of its sender, before *)
(* its deadline, and the sender has said neither yes nor no to it.         *)
Open(r) ==
  /\ r # NoRequest
  /\ pending[origin[r]] = r
  /\ answerable[r] > 0
  /\ first[r] = "none"

(* ApprovalRegistry::has_pending does not look at the deadline.            *)
HasPending(k) == pending[k] # NoRequest

(* submit_reply: what it settles or asks again about.                      *)
Answerable(k) == pending[k] # NoRequest /\ InTime(pending[k])

(* A sender who owes an answer is exempt from deduplication.               *)
Exempt_mutant == FALSE
Exempt == awaiting

(* MessageDeduplicator::seen: the hash of "user:content", whatever the     *)
(* channel (SHA-256 is taken to tell every two strings apart); the ring    *)
(* drops its oldest entry when it is as long as its capacity.              *)
Entry_mutant(m) == m.from[2]
Entry(m) == m.from[2] \o m.says

Seen(m) == \E i \in DOMAIN window : window[i] = Entry(m)

Remember_mutant(m) == Append(window, Entry(m))
Remember(m) ==
  Append(IF Len(window) = Capacity /\ window # <<>> THEN Tail(window) ELSE window,
         Entry(m))

(* RateLimiter::check_and_record.                                          *)
OverLimit(u) == ~lapsed[u] /\ count[u] >= PerWindow

(* handle_message_inner returns, and its locals with it.                   *)
Finish(f, r) ==
  /\ mail' = [mail EXCEPT ![taken] = [@ EXCEPT !.fate = f, !.settles = r]]
  /\ awaiting' = FALSE
  /\ chance' = NoRequest

-----------------------------------------------------------------------------
(* A channel, web chat or cron puts a message into the queue.              *)
Send(k, x) ==
  /\ Len(mail) < MaxMail
  /\ mail' = Append(mail, [from |-> k, says |-> x,
                           fate |-> "queued", settles |-> NoRequest])
  /\ UNCHANGED <<taken, at, awaiting, chance, window, count, lapsed>>
  /\ UNCHANGED vars

(* The loop receives a message; handle_message_inner asks has_pending.     *)
Take ==
  /\ at = "idle"
  /\ taken < Len(mail)
  /\ LET k == mail[taken + 1].from IN
     /\ awaiting' = HasPending(k)
     /\ chance' = IF Open(pending[k]) THEN pending[k] ELSE NoRequest
  /\ taken' = taken + 1
  /\ mail' = [mail EXCEPT ![taken + 1].fate = "handling"]
  /\ at' = "checked"
  /\ UNCHANGED <<window, count, lapsed>>
  /\ UNCHANGED vars

DropDuplicate ==
  /\ at = "checked"
  /\ ~Exempt /\ Seen(Current)
  /\ Finish("duplicate", NoRequest)
  /\ at' = "idle"
  /\ UNCHANGED <<taken, window, count, lapsed>>
  /\ UNCHANGED vars

Admit ==
  /\ at = "checked"
  /\ Exempt \/ ~Seen(Current)
  /\ window' = IF Exempt THEN window ELSE Remember(Current)
  /\ at' = IF awaiting THEN "offering" ELSE "limiting"
  /\ UNCHANGED <<mail, taken, awaiting, chance, count, lapsed>>
  /\ UNCHANGED vars

(* submit_reply answers Settled: the message ends here.                    *)
OfferSettles ==
  /\ at = "offering"
  /\ Reply(Sender, Meant)
  /\ Finish("settled", pending[Sender])
  /\ at' = "idle"
  /\ UNCHANGED <<taken, window, count, lapsed>>

(* submit_reply answers NeedsClarification: a prompt is sent.              *)
OfferUnclear ==
  /\ at = "offering"
  /\ Answerable(Sender)
  /\ ~IsAnswer(Meant)
  /\ at' = "clarifying"
  /\ UNCHANGED <<mail, taken, awaiting, chance, window, count, lapsed>>
  /\ UNCHANGED vars

(* submit_reply answers NothingPending: settled and removed, or expired,   *)
(* since has_pending was asked.  The message is an ordinary one.           *)
OfferRaced ==
  /\ at = "offering"
  /\ ~Answerable(Sender)
  /\ at' = "limiting"
  /\ UNCHANGED <<mail, taken, awaiting, chance, window, count, lapsed>>
  /\ UNCHANGED vars

Deny ==
  /\ at = "limiting"
  /\ OverLimit(User)
  /\ Finish("limited", NoRequest)
  /\ at' = "idle"
  /\ UNCHANGED <<taken, window, count, lapsed>>
  /\ UNCHANGED vars

Allow ==
  /\ at = "limiting"
  /\ ~OverLimit(User)
  /\ count' = [count EXCEPT ![User] = IF lapsed[User] THEN 1 ELSE @ + 1]
  /\ lapsed' = [lapsed EXCEPT ![User] = FALSE]
  /\ at' = "thinking"
  /\ UNCHANGED <<mail, taken, awaiting, chance, window>>
  /\ UNCHANGED vars

(* The agent returns a text, or its error becomes an apology.              *)
Think ==
  /\ at = "thinking"
  /\ at' = "replying"
  /\ UNCHANGED <<mail, taken, awaiting, chance, window, count, lapsed>>
  /\ UNCHANGED vars

(* send_text delivers the clarification or the answer, or fails; the loop  *)
(* logs the error and goes on with the next message.                       *)
SendText(delivered) ==
  /\ Finish(delivered, NoRequest) \/ Finish("unsent", NoRequest)
  /\ at' = "idle"
  /\ UNCHANGED <<taken, window, count, lapsed>>
  /\ UNCHANGED vars

Clarify == at = "clarifying" /\ SendText("clarified")
Respond == at = "replying"   /\ SendText("answered")

(* Instant::elapsed reaches window_seconds.                                *)
WindowLapses(u) ==
  /\ count[u] > 0 /\ ~lapsed[u]
  /\ lapsed' = [lapsed EXCEPT ![u] = TRUE]
  /\ UNCHANGED <<mail, taken, at, awaiting, chance, window, count>>
  /\ UNCHANGED vars

-----------------------------------------------------------------------------
Handle ==
  \/ Take \/ DropDuplicate \/ Admit
  \/ OfferSettles \/ OfferUnclear \/ OfferRaced
  \/ Deny \/ Allow \/ Think \/ Clarify \/ Respond

(* The gated runs beside the loop, and the time they measure.              *)
GateMoves ==
  /\ \/ \E r \in Requests : Begin(r) \/ Task(r) \/ Abandon(r)
     \/ Tick
  /\ UNCHANGED loopVars

LoopNext ==
  \/ \E k \in Key, x \in Texts : Send(k, x)
  \/ Handle
  \/ \E u \in Users : WindowLapses(u)
  \/ GateMoves

loopAll == <<vars, loopVars>>

LoopSpec == LoopInit /\ [][LoopNext]_loopAll

-----------------------------------------------------------------------------
(* Properties.                                                             *)

(* A yes or a no whose sender has an open approval when the loop takes it  *)
(* settles that approval, unless the approval closes while the message is  *)
(* on its way: it is never dropped as a repeat of an earlier yes or no,    *)
(* never rate-limited, and never answered by the agent instead.            *)
AnswersAreHeard ==
  [][\A i \in DOMAIN mail :
       /\ mail[i].fate = "handling" /\ mail'[i].fate # "handling"
       /\ IsAnswer(Meaning[mail[i].says])
       /\ chance # NoRequest
       => mail'[i].settles = chance \/ ~Open(chance)]_loopAll

(* Behind every quarry process that was started stands a message: a yes    *)
(* from the request's own sender on its own channel, and no message before *)
(* it that answered the same request said otherwise.                       *)
ConsentIsSpoken ==
  \A r \in spawned : \E i \in 1 .. taken :
    /\ mail[i].from = origin[r]
    /\ Meaning[mail[i].says] = "yes"
    /\ mail[i].settles = r
    /\ \A j \in 1 .. i - 1 :
         mail[j].settles = r => Meaning[mail[j].says] = "yes"

(* The same user said the same thing.                                      *)
Repeats(i, j) ==
  mail[i].from[2] = mail[j].from[2] /\ mail[i].says = mail[j].says

(* One user's id goes on, after a colon, where the other's has its end,    *)
(* and the texts make up for it.                                           *)
ReadsLike(i, j) ==
  /\ Len(mail[i].from[2]) # Len(mail[j].from[2])
  /\ mail[i].from[2] \o mail[i].says = mail[j].from[2] \o mail[j].says

(* A message is dropped as a duplicate only after the same user has said   *)
(* the same thing in a message the deduplicator let through, except that   *)
(* users with different numbers of colons in their ids can be taken for    *)
(* one another: with ids that have none, every duplicate is a repeat.      *)
DuplicateHasOriginal ==
  \A i \in DOMAIN mail :
    mail[i].fate = "duplicate" =>
      \E j \in 1 .. i - 1 :
        /\ mail[j].fate # "duplicate"
        /\ Repeats(i, j) \/ ReadsLike(i, j)
=============================================================================
