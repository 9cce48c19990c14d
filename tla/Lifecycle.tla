----------------------------- MODULE Lifecycle ------------------------------
(***************************************************************************)
(* The life of the gateway process and what becomes of messages across it  *)
(* (src/src/main.rs, src/src/gateway/mod.rs, src/src/channels): it starts  *)
(* its adapters one by one, fetches from some platforms and is called by   *)
(* others, stops in an order of its own and within a budget, and may end   *)
(* at any moment.  Nothing of it is persisted: a new life begins with an   *)
(* empty queue and with its pollers at the beginning.  What a platform was *)
(* told of outlives the process.                                           *)
(***************************************************************************)
EXTENDS Naturals, Sequences, FiniteSets, SequencesExt

CONSTANTS
  Polled,    \* adapters that ask for updates, and so confirm those before
  Scanned,   \* that search a mailbox, which keeps what it has
  Pushed,    \* that are sent envelopes on a connection, and acknowledge them
  Hooked,    \* that the platform calls by HTTP
  Order,     \* those with a task of their own, in the order of registration
  Blank,     \* <<adapter, number>> of those no parser makes a message of
  Nothing,
  MaxSent,   \* bound on the messages written
  MaxLives   \* bound on the times the process is started

Asking  == Polled \cup Scanned
Tasks   == Asking \cup Pushed
Sources == Tasks \cup Hooked

ASSUME LifecycleAssumption ==
  /\ IsFiniteSet(Sources) /\ ToSet(Order) = Tasks
  /\ Polled \cap Scanned = {} /\ Asking \cap Pushed = {} /\ Tasks \cap Hooked = {}
  /\ Nothing \notin Nat /\ MaxSent \in Nat /\ MaxLives \in Nat

VARIABLES
  sent,      \* messages written on each platform, numbered from 1
  told,      \* messages a platform takes for received, and does not offer again
  life,      \* how often the process was started
  phase,     \* where cmd_start stands
  task,      \* the background task of each adapter
  mark,      \* offset, last_uid: the last message an asking task has seen
  hand,      \* the envelope a pushed task holds
  http,      \* the HTTP server: "none", "binding" or "listening"
  queue,     \* message_rx
  loop,      \* the message loop
  job,       \* the message it handles
  reached,   \* history: what any life was handed by a platform
  order,     \* history: what came from each platform in this life
  cut,       \* history: envelopes held when their task was ended
  handled    \* history: messages the loop has done with

platformVars == <<sent, told>>
taskVars == <<task, mark, hand>>
loopVars == <<loop, job, handled>>
enterVars == <<queue, reached, order>>
vars == <<platformVars, life, phase, taskVars, http, enterVars, loopVars, cut>>

Init ==
  /\ sent = [s \in Sources |-> 0] /\ told = [s \in Sources |-> {}]
  /\ life = 0 /\ phase = "down"
  /\ task = [s \in Tasks |-> "none"]
  /\ mark = [s \in Asking |-> 0] /\ hand = [s \in Pushed |-> Nothing]
  /\ http = "none" /\ queue = <<>> /\ loop = "none" /\ job = Nothing
  /\ reached = {} /\ order = [s \in Sources |-> <<>>] /\ cut = {} /\ handled = {}

Go(s, stage) == task' = [task EXCEPT ![s] = stage]
Stopping == phase \in {"stopping", "closing", "draining"}

(* The order in which they were written.                                   *)
AsWritten(numbers) ==
  CHOOSE f \in [1..Cardinality(numbers) -> numbers] :
    \A i, j \in DOMAIN f : i < j => f[i] < f[j]

(* The messages with these numbers are parsed, and put in the queue.       *)
Enter(s, numbers) ==
  LET texts == AsWritten({n \in numbers : <<s, n>> \notin Blank})
  IN /\ queue' = queue \o [i \in DOMAIN texts |-> <<s, texts[i]>>]
     /\ reached' = reached \cup {<<s, n>> : n \in numbers}
     /\ order' = [order EXCEPT ![s] = @ \o texts]

Held(tasks) == {<<s, hand[s]>> : s \in {t \in tasks \cap Pushed : hand[t] # Nothing}}

(* The process is no more, and its memory with it.                         *)
Down ==
  /\ phase' = "down"
  /\ task' = [s \in Tasks |-> "none"]
  /\ mark' = [s \in Asking |-> 0] /\ hand' = [s \in Pushed |-> Nothing]
  /\ http' = "none" /\ queue' = <<>> /\ loop' = "none" /\ job' = Nothing
  /\ order' = [s \in Sources |-> <<>>]
  /\ cut' = cut \cup Held(Pushed)
  /\ UNCHANGED <<platformVars, life, reached, handled>>

-----------------------------------------------------------------------------
(* Somebody writes.                                                        *)
Written == FoldFunction(+, 0, sent)

Write(s) ==
  /\ Written < MaxSent
  /\ sent' = [sent EXCEPT ![s] = @ + 1]
  /\ UNCHANGED <<told, life, phase, taskVars, http, enterVars, loopVars, cut>>

-----------------------------------------------------------------------------
(* Starting.  The gateway is built, and its channels are registered.      *)
Boot ==
  /\ phase = "down" /\ life < MaxLives
  /\ life' = life + 1
  /\ phase' = "connecting"
  /\ UNCHANGED <<platformVars, taskVars, http, enterVars, loopVars, cut>>

(* The MCP servers are waited for, for as long as they take: one that      *)
(* fails is left out, for one that does not answer there is no end.        *)
McpDone ==
  /\ phase = "connecting"
  /\ phase' = "wiring"
  /\ UNCHANGED <<platformVars, life, taskVars, http, enterVars, loopVars, cut>>

(* The HTTP server is given a task, with the senders of the adapters that  *)
(* are called, before the adapters are started and the queue is read.      *)
Serve ==
  /\ phase = "wiring"
  /\ phase' = "starting" /\ http' = "binding"
  /\ UNCHANGED <<platformVars, life, taskVars, enterVars, loopVars, cut>>

(* If it cannot listen, that is logged, and its task ends.                 *)
Listen ==
  /\ http = "binding" /\ http' \in {"listening", "none"}
  /\ UNCHANGED <<platformVars, life, phase, taskVars, enterVars, loopVars, cut>>

(* One after the other.                                                    *)
Turn(s, is) == s = Order[CHOOSE i \in DOMAIN Order :
                           is[Order[i]] /\ \A j \in 1..(i - 1) : ~is[Order[j]]]

StartAdapter(s) ==
  /\ phase = "starting" /\ task[s] = "none"
  /\ Turn(s, [t \in Tasks |-> task[t] = "none"])
  /\ Go(s, "idle")
  /\ UNCHANGED <<platformVars, life, phase, mark, hand, http, enterVars, loopVars, cut>>

(* The error of an adapter's start ends start, and with it the program.    *)
StartFails == phase = "starting" /\ Down

RunLoop ==
  /\ phase = "starting" /\ \A s \in Tasks : task[s] # "none"
  /\ phase' = "up" /\ loop' = "idle"
  /\ UNCHANGED <<platformVars, life, taskVars, http, enterVars, job, handled, cut>>

Crash == phase # "down" /\ Down

-----------------------------------------------------------------------------
(* A task that asks: getUpdates with its offset, which tells the platform  *)
(* what need not be kept; or a search of the mailbox, which tells nothing. *)
Confirmed_mutant(s) == IF s \in Polled THEN 1..sent[s] ELSE {}
Confirmed(s) == IF s \in Polled THEN 1..mark[s] ELSE {}

Ask(s) ==
  /\ task[s] = "idle"
  /\ told' = [told EXCEPT ![s] = @ \cup Confirmed(s)]
  /\ Go(s, "waiting")
  /\ UNCHANGED <<sent, life, phase, mark, hand, http, enterVars, loopVars, cut>>

(* What is there up to message n when the platform answers.  A search for  *)
(* "mark + 1:*" always gives the last message, new or not.                 *)
Offered(s, n) ==
  IF s \in Polled THEN ((mark[s] + 1)..n) \ told[s]
  ELSE ((mark[s] + 1)..n) \cup ({n} \ {0})

(* Those that are new.                                                     *)
Fetched_mutant(s, n) == Offered(s, n)
Fetched(s, n) == {i \in Offered(s, n) : i > mark[s]}

(* The mark goes past what could not be parsed, too.                       *)
Got(s, n) ==
  /\ task[s] = "waiting"
  /\ Offered(s, n) # {}
  /\ Enter(s, Fetched(s, n))
  /\ mark' = [mark EXCEPT ![s] = IF n > @ THEN n ELSE @]
  /\ Go(s, "idle")
  /\ UNCHANGED <<platformVars, life, phase, hand, http, loopVars, cut>>

Missed(s) == "idle"

Miss(s) ==
  /\ task[s] = "waiting"
  /\ Go(s, Missed(s))
  /\ UNCHANGED <<platformVars, life, phase, mark, hand, http, enterVars, loopVars, cut>>

-----------------------------------------------------------------------------
(* Slack's socket mode.  An envelope is acknowledged first and parsed      *)
(* then; one whose acknowledgement is lost is sent again.  Bound: that     *)
(* happens once to a message.                                              *)
Connect(s) ==
  /\ task[s] = "idle"
  /\ Go(s, "linked")
  /\ UNCHANGED <<platformVars, life, phase, mark, hand, http, enterVars, loopVars, cut>>

Acknowledged(s, n) ==
  {told[s] \cup {n}} \cup (IF <<s, n>> \in reached \cup cut THEN {} ELSE {told[s]})

Envelope(s) ==
  /\ task[s] = "linked"
  /\ \E n \in (1..sent[s]) \ told[s] :
        /\ hand' = [hand EXCEPT ![s] = n]
        /\ \E known \in Acknowledged(s, n) : told' = [told EXCEPT ![s] = known]
  /\ Go(s, "acking")
  /\ UNCHANGED <<sent, life, phase, mark, http, enterVars, loopVars, cut>>

PassOn(s) ==
  /\ task[s] = "acking"
  /\ Enter(s, {hand[s]})
  /\ hand' = [hand EXCEPT ![s] = Nothing]
  /\ Go(s, "linked")
  /\ UNCHANGED <<platformVars, life, phase, mark, http, loopVars, cut>>

(* A close or disconnect frame, or an error: it connects again.            *)
Unlink(s) ==
  /\ task[s] = "linked"
  /\ Go(s, "idle")
  /\ UNCHANGED <<platformVars, life, phase, mark, hand, http, enterVars, loopVars, cut>>

(* A webhook is queued before it is answered; without an answer the        *)
(* platform calls again.  Bound: as above.                                 *)
Post(s) ==
  /\ http = "listening"
  /\ \E n \in (1..sent[s]) \ told[s] :
        /\ Enter(s, {n})
        /\ \E known \in Acknowledged(s, n) : told' = [told EXCEPT ![s] = known]
  /\ UNCHANGED <<sent, life, phase, taskVars, http, loopVars, cut>>

-----------------------------------------------------------------------------
(* The message loop.  Sending reads the list of channels, which a stop     *)
(* that waits or is at work on it does not let it.                         *)
Take ==
  /\ loop = "idle" /\ queue # <<>>
  /\ job' = Head(queue) /\ queue' = Tail(queue)
  /\ loop' = "thinking"
  /\ UNCHANGED <<platformVars, life, phase, taskVars, http, reached, order, handled, cut>>

Send ==
  /\ loop = "thinking" /\ phase \notin {"stopping", "closing"}
  /\ loop' = "sending"
  /\ UNCHANGED <<platformVars, life, phase, taskVars, http, enterVars, job, handled, cut>>

Done ==
  /\ loop = "sending"
  /\ handled' = handled \cup {job}
  /\ loop' = "idle" /\ job' = Nothing
  /\ UNCHANGED <<platformVars, life, phase, taskVars, http, enterVars, cut>>

-----------------------------------------------------------------------------
(* Stopping: cron, then every adapter under the lock of the list, then     *)
(* what time is left for quarry runs (module Supervisor), and at last the  *)
(* tasks of the gateway: the HTTP server and the loop, whatever they do.   *)
Interrupt ==
  /\ phase = "up"
  /\ phase' = "stopping"
  /\ UNCHANGED <<platformVars, life, taskVars, http, enterVars, loopVars, cut>>

Lock ==
  /\ phase = "stopping" /\ loop # "sending"
  /\ phase' = "closing"
  /\ UNCHANGED <<platformVars, life, taskVars, http, enterVars, loopVars, cut>>

(* A task ends where it waits.                                             *)
StopAdapter(s) ==
  /\ phase = "closing" /\ task[s] # "none"
  /\ Turn(s, [t \in Tasks |-> task[t] # "none"])
  /\ Go(s, "none")
  /\ hand' = [p \in Pushed |-> IF p = s THEN Nothing ELSE hand[p]]
  /\ cut' = cut \cup Held({s})
  /\ UNCHANGED <<platformVars, life, phase, mark, http, enterVars, loopVars>>

Closed ==
  /\ phase = "closing" /\ \A s \in Tasks : task[s] = "none"
  /\ phase' = "draining"
  /\ UNCHANGED <<platformVars, life, taskVars, http, enterVars, loopVars, cut>>

Stopped == phase = "draining" /\ Down

(* The budget of the whole stop: wherever it stands, it is left.           *)
StopTimesOut == Stopping /\ Down

-----------------------------------------------------------------------------
Loop == Take \/ Send \/ Done

Asker(s) == Ask(s) \/ Miss(s) \/ \E n \in 1..sent[s] : Got(s, n)
Socket(s) == Connect(s) \/ Envelope(s) \/ PassOn(s) \/ Unlink(s)

Start == Boot \/ McpDone \/ Serve \/ Listen \/ StartFails \/ RunLoop \/ \E s \in Tasks : StartAdapter(s)

Stop == Interrupt \/ Lock \/ Closed \/ Stopped \/ StopTimesOut
          \/ \E s \in Tasks : StopAdapter(s)

Next ==
  \/ Start \/ Stop \/ Crash \/ Loop
  \/ \E s \in Sources : Write(s)
  \/ \E s \in Asking : Asker(s)
  \/ \E s \in Pushed : Socket(s)
  \/ \E s \in Hooked : Post(s)

(* The tasks run, an answer of the model comes at last, and a platform     *)
(* that is asked again and again is reached some time.                     *)
Spec ==
  /\ Init /\ [][Next]_vars
  /\ WF_vars(Loop)
  /\ \A s \in Asking : WF_vars(Ask(s)) /\ SF_vars(Got(s, sent[s]))
  /\ \A s \in Pushed : WF_vars(Connect(s)) /\ SF_vars(Envelope(s)) /\ WF_vars(PassOn(s))

-----------------------------------------------------------------------------
(* A platform never takes for received what no life of the gateway was     *)
(* handed, whenever one ends or begins: the offset of the long poll, the   *)
(* answer to a webhook and the envelope's acknowledgement follow the       *)
(* queue.  The exception is an envelope held by a task that was ended just *)
(* then (socket_mode_loop acknowledges first).                             *)
ToldIsReached ==
  \A s \in Sources : \A n \in told[s] : <<s, n>> \in reached \cup cut \cup Held(Pushed)

(* In one life, what is polled or searched for enters once and in the      *)
(* order in which it was written, whatever polls fail or are repeated      *)
(* (the offset of telegram_longpoll, last_uid of email).                   *)
EntersOnceInOrder ==
  \A s \in Asking : \A i, j \in DOMAIN order[s] : i < j => order[s][i] < order[s][j]

(* What its platform still holds, of the adapters with a task, is handled  *)
(* if only the gateway stays up, also if it was fetched and lost in an     *)
(* earlier life: at least once.                                            *)
Waits(s, n) == n \in (1..sent[s]) \ told[s] /\ <<s, n>> \notin Blank

=============================================================================
