---------------------------- MODULE Conversation ----------------------------
(***************************************************************************)
(* How a conversation is remembered.  The message loop of the gateway      *)
(* (src/src/gateway/mod.rs) stores a message, may start a summariser, asks *)
(* the agent, which is module Agents, and stores the answer.  The          *)
(* summariser works beside the loop: it has seen the history, waits for a  *)
(* model, clears the history and writes it anew, entry by entry.           *)
(*                                                                         *)
(* Message k of the loop is number 2k - 1 and its answer 2k.               *)
(***************************************************************************)
EXTENDS Memory

CONSTANTS
  Users,
  NoOne,
  MaxSent,    \* bound on the messages the loop takes
  Backends,   \* the memory.backend there may be
  Ttl         \* memory.redis_ttl_seconds; 0: a history does not expire

ASSUME LoopAssumption == NoOne \notin Users /\ MaxSent \in Nat /\ Ttl \in Nat

VARIABLES
  backend,
  history,   \* of each user
  tasks,     \* the summariser started for a message, if any
  sent,      \* messages taken
  who,       \* whose message the loop handles
  at,        \* "idle", "stored", "thinking" or "dead"
  said,      \* history: the messages stored so far
  exposed,   \* history: stored while a summariser ran, not yet written back
             \* when another saw the history, or not stored at all
  gone       \* history: those whose last entry was cut off at MaxHistory, or
             \* was in a history when it expired

vars == <<backend, history, tasks, sent, who, at, said, exposed, gone>>

NoTask == [user |-> NoOne, stage |-> "none", rest |-> <<>>]
Stages == {"none", "asking", "writing"}

Entries == SUBSET (1 .. 2 * MaxSent)

(* These stores block on a runtime of their own, which panics on a thread  *)
(* that runs asynchronous tasks: the first two when they are opened.       *)
PanicsAtStart == {"sqlite", "postgres"}
PanicsOnWrite == {"vector"}

(* A store that cannot be opened is replaced by the one in memory.         *)
Opened(configured) == IF configured = "redis" THEN {"redis", "memory"} ELSE {configured}

Init ==
  /\ backend \in UNION {Opened(b) : b \in Backends}
  /\ history = [u \in Users |-> <<>>]
  /\ tasks = [k \in 1..MaxSent |-> NoTask]
  /\ sent = 0
  /\ who = NoOne
  /\ at = IF backend \in PanicsAtStart THEN "dead" ELSE "idle"
  /\ said = [u \in Users |-> {}]
  /\ exposed = [u \in Users |-> {}]
  /\ gone = [u \in Users |-> {}]

Busy(u) == \E k \in 1..MaxSent : tasks[k].user = u

Rewriting(u) == {k \in 1..MaxSent : tasks[k].user = u /\ tasks[k].stage = "writing"}
Unwritten(u) == UNION {Covered(tasks[k].rest) : k \in Rewriting(u)}

(* A write to the store; on redis it may be lost, with no more than a line *)
(* in the log.                                                             *)
Stored(u, entry) ==
  /\ history' = [history EXCEPT ![u] = Added(@, entry)]
  /\ gone' = [gone EXCEPT ![u] = @ \cup Trimmed(history[u], entry)]

Lost == backend = "redis"

-----------------------------------------------------------------------------
(* The loop stores what a user says, and what they were answered.          *)
Store(u, number, next) ==
  /\ said' = [said EXCEPT ![u] = @ \cup {number}]
  /\ \/ /\ Stored(u, {number})
        /\ exposed' = [exposed EXCEPT ![u] = IF Busy(u) THEN @ \cup {number} ELSE @]
     \/ /\ Lost
        /\ exposed' = [exposed EXCEPT ![u] = @ \cup {number}]
        /\ UNCHANGED <<history, gone>>
  /\ at' = IF backend \in PanicsOnWrite THEN "dead" ELSE next
  /\ UNCHANGED <<backend, tasks>>

Receive(u) ==
  /\ at = "idle" /\ sent < MaxSent
  /\ sent' = sent + 1
  /\ who' = u
  /\ Store(u, 2 * sent + 1, "stored")

(* maybe_summarize, then process_message.  On redis a read may fail, and   *)
(* gives no history.                                                       *)
Task(seen) ==
  IF Triggers(seen) THEN [user |-> who, stage |-> "asking", rest |-> Rewritten(seen)]
  ELSE NoTask

Think ==
  /\ at = "stored"
  /\ \/ tasks' = [tasks EXCEPT ![sent] = Task(history[who])]
     \/ Lost /\ UNCHANGED tasks
  /\ exposed' = [exposed EXCEPT ![who] = @ \cup Unwritten(who)]
  /\ at' = "thinking"
  /\ UNCHANGED <<backend, history, sent, who, said, gone>>

Conclude ==
  /\ at = "thinking"
  /\ Store(who, 2 * sent, "idle")
  /\ who' = NoOne
  /\ UNCHANGED sent

-----------------------------------------------------------------------------
(* The summariser of message k.                                            *)
Finish(k) == tasks' = [tasks EXCEPT ![k] = NoTask]

SummaryFails(k) ==
  /\ tasks[k].stage = "asking"
  /\ Finish(k)
  /\ UNCHANGED <<backend, history, sent, who, at, said, exposed, gone>>

Summarise(k) ==
  /\ tasks[k].stage = "asking"
  /\ tasks' = [tasks EXCEPT ![k].stage = "writing"]
  /\ \/ history' = [history EXCEPT ![tasks[k].user] = <<>>]
     \/ Lost /\ UNCHANGED history
  /\ UNCHANGED <<backend, sent, who, at, said, exposed, gone>>

WriteBack(k) ==
  LET u == tasks[k].user
      entry == Head(tasks[k].rest)
  IN /\ tasks[k].stage = "writing" /\ tasks[k].rest # <<>>
     /\ \/ Stored(u, entry) /\ UNCHANGED exposed
        \/ /\ Lost
           /\ exposed' = [exposed EXCEPT ![u] = @ \cup entry]
           /\ UNCHANGED <<history, gone>>
     /\ tasks' = [tasks EXCEPT ![k].rest = Tail(@)]
     /\ UNCHANGED <<backend, sent, who, at, said>>

Written(k) ==
  /\ tasks[k].stage = "writing" /\ tasks[k].rest = <<>>
  /\ Finish(k)
  /\ UNCHANGED <<backend, history, sent, who, at, said, exposed, gone>>

Summariser(k) == SummaryFails(k) \/ Summarise(k) \/ WriteBack(k) \/ Written(k)

(* Every write on redis gives the key of a history Ttl seconds to live.    *)
(* They can run out between any two steps: while the user is silent, but   *)
(* also while the loop or a summariser waits for its model.                *)
Expire(u) ==
  /\ backend = "redis" /\ Ttl > 0
  /\ history[u] # <<>>
  /\ history' = [history EXCEPT ![u] = <<>>]
  /\ gone' = [gone EXCEPT ![u] = @ \cup Covered(history[u])]
  /\ UNCHANGED <<backend, tasks, sent, who, at, said, exposed>>

Next ==
  \/ \E u \in Users : Receive(u) \/ Expire(u)
  \/ Think \/ Conclude
  \/ \E k \in 1..MaxSent : Summariser(k)

(* The loop and the summarisers are tasks that the runtime keeps running,  *)
(* and a model's answer, good or bad, comes at last.                       *)
Spec ==
  /\ Init /\ [][Next]_vars
  /\ WF_vars(Think) /\ WF_vars(Conclude)
  /\ \A k \in 1..MaxSent : WF_vars(Summariser(k))

-----------------------------------------------------------------------------
(* The summariser condenses what it saw; only what is stored while it runs *)
(* can be lost to it, or what another has yet to write back when it looks. *)
(* Any other message is still told of by an entry of the history, however  *)
(* summaries and messages have overlapped, until it is cut off at          *)
(* MaxHistory or, on redis, the whole history expires.                     *)
NothingElseIsLost ==
  \A u \in Users :
    Rewriting(u) = {} => said[u] \subseteq Covered(history[u]) \cup exposed[u] \cup gone[u]
=============================================================================
