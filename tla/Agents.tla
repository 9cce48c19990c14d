------------------------------- MODULE Agents -------------------------------
(***************************************************************************)
(* The agent manager (src/src/agents/manager.rs): one agent per user, in a *)
(* map behind a fair read-write lock.  A call looks its user's agent up,   *)
(* makes one if there is none, and then holds the read side of the lock    *)
(* for as long as the model takes, retries and the pauses between them     *)
(* included.  A waiting writer holds up every reader behind it.            *)
(***************************************************************************)
EXTENDS Integers, Sequences

CONSTANTS
  Users,
  Calls,         \* tasks that call the manager
  Makes,         \* the kinds of call each of them makes
  NoOne,
  MaxAttempts,   \* retry.max_attempts, or 1 if retries are off
  Spares         \* number of fallback providers

(* process_message, complete_stateless, a "/plan", and a reader that counts *)
(* or clears: active_users, clear_history.                                 *)
Kinds == {"chat", "stateless", "plan", "peek"}

ASSUME AgentsAssumption ==
  /\ NoOne \notin Calls
  /\ Makes \in [Calls -> SUBSET Kinds]
  /\ MaxAttempts \in Nat \ {0}
  /\ Spares \in Nat

VARIABLES
  agents,    \* for each user the call that made their agent
  call,      \* what each call does, and for whom
  pc,
  readers,   \* the calls that hold the read side
  queue,     \* the requests for the lock, in order
  attempt    \* attempts a call has begun

vars == <<agents, call, pc, readers, queue, attempt>>

Init ==
  /\ agents = [u \in Users |-> NoOne]
  /\ call = [c \in Calls |-> NoOne]
  /\ pc = [c \in Calls |-> "idle"]
  /\ readers = {}
  /\ queue = <<>>
  /\ attempt = [c \in Calls |-> 0]

Go(c, stage) == pc' = [pc EXCEPT ![c] = stage]
Ask(c, side) == queue' = Append(queue, <<c, side>>)

(* The lock is fair: only the first request is granted.                    *)
Granted(c, side) ==
  /\ queue # <<>> /\ Head(queue) = <<c, side>>
  /\ side = "write" => readers = {}

-----------------------------------------------------------------------------
Begin(c, kind, u) ==
  /\ pc[c] = "idle"
  /\ call' = [call EXCEPT ![c] = [kind |-> kind, user |-> u]]
  /\ UNCHANGED <<agents, readers>>

(* A chat, from the loop, a web chat or the API: the agent is looked up.   *)
StartChat(c, u) ==
  /\ Begin(c, "chat", u)
  /\ Ask(c, "read") /\ Go(c, "looking")
  /\ attempt' = [attempt EXCEPT ![c] = 0]

(* The status page and the metrics count the agents; an administrator may  *)
(* clear the history of one.                                               *)
StartPeek(c) ==
  /\ Begin(c, "peek", NoOne)
  /\ Ask(c, "read") /\ Go(c, "looking")
  /\ attempt' = [attempt EXCEPT ![c] = 0]

(* "stateless" of the API.                                                 *)
StartStateless(c) ==
  /\ Begin(c, "stateless", NoOne)
  /\ Go(c, "creating")
  /\ UNCHANGED <<queue, attempt>>

(* "/plan ..." goes to the planning agent, past the map of agents.          *)
StartPlan(c) ==
  /\ Begin(c, "plan", NoOne)
  /\ Go(c, "calling")
  /\ attempt' = [attempt EXCEPT ![c] = 1]
  /\ UNCHANGED queue

Peek(c) ==
  /\ pc[c] = "looking" /\ call[c].kind = "peek" /\ Granted(c, "read")
  /\ queue' = Tail(queue)
  /\ Go(c, "answered")
  /\ UNCHANGED <<agents, call, readers, attempt>>

(* The guard of the lookup is dropped before an agent is made.             *)
Dropped_mutant(c) == readers \cup {c}
Dropped(c) == readers

Found(c) ==
  /\ pc[c] = "looking" /\ call[c].kind = "chat" /\ Granted(c, "read")
  /\ agents[call[c].user] # NoOne
  /\ queue' = Append(Tail(queue), <<c, "read">>)
  /\ Go(c, "joining")
  /\ UNCHANGED <<agents, call, readers, attempt>>

Missing(c) ==
  /\ pc[c] = "looking" /\ call[c].kind = "chat" /\ Granted(c, "read")
  /\ agents[call[c].user] = NoOne
  /\ queue' = Tail(queue)
  /\ readers' = Dropped(c)
  /\ Go(c, "creating")
  /\ UNCHANGED <<agents, call, attempt>>

Create(c) ==
  /\ pc[c] = "creating" /\ call[c].kind = "chat"
  /\ Ask(c, "write")
  /\ Go(c, "inserting")
  /\ UNCHANGED <<agents, call, readers, attempt>>

(* A stateless completion has a provider of its own, and no agent.         *)
Provide(c) ==
  /\ pc[c] = "creating" /\ call[c].kind = "stateless"
  /\ attempt' = [attempt EXCEPT ![c] = 1]
  /\ Go(c, "calling")
  /\ UNCHANGED <<agents, call, readers, queue>>

CreateFails(c) ==
  /\ pc[c] = "creating"
  /\ Go(c, "failed")
  /\ UNCHANGED <<agents, call, readers, queue, attempt>>

(* entry().or_insert(): another call may have been faster.                 *)
Settled_mutant(c, u) == c
Settled(c, u) == IF agents[u] = NoOne THEN c ELSE agents[u]

Insert(c) ==
  LET u == call[c].user
  IN /\ pc[c] = "inserting" /\ Granted(c, "write")
     /\ agents' = [agents EXCEPT ![u] = Settled(c, u)]
     /\ queue' = Append(Tail(queue), <<c, "read">>)
     /\ Go(c, "joining")
     /\ UNCHANGED <<call, readers, attempt>>

Join(c) ==
  /\ pc[c] = "joining" /\ Granted(c, "read")
  /\ queue' = Tail(queue)
  /\ readers' = readers \cup {c}
  /\ attempt' = [attempt EXCEPT ![c] = 1]
  /\ Go(c, "calling")
  /\ UNCHANGED <<agents, call>>

(* FallbackAgent::process: the fallbacks are asked in turn, and only when  *)
(* the first provider is overloaded.                                       *)
Succeeds(primary, spares) ==
  \/ primary = "ok"
  \/ primary = "overloaded" /\ \E i \in 1..Spares : spares[i] = "ok"

Providers == {"ok", "overloaded", "error"}

Release(c) == readers' = readers \ {c}

Answer(c) ==
  /\ pc[c] = "calling"
  /\ \E p \in Providers, s \in [1..Spares -> Providers] : Succeeds(p, s)
  /\ Release(c)
  /\ Go(c, "answered")
  /\ UNCHANGED <<agents, call, queue, attempt>>

(* A failed attempt is followed by another after a pause, with the lock    *)
(* held; a plan has one attempt.                                           *)
Attempts(c) == IF call[c].kind = "plan" THEN 1 ELSE MaxAttempts

Retry(c) ==
  /\ pc[c] = "calling" /\ attempt[c] < Attempts(c)
  /\ \E p \in Providers, s \in [1..Spares -> Providers] : ~Succeeds(p, s)
  /\ attempt' = [attempt EXCEPT ![c] = @ + 1]
  /\ Go(c, "pausing")
  /\ UNCHANGED <<agents, call, readers, queue>>

Pause(c) ==
  /\ pc[c] = "pausing"
  /\ Go(c, "calling")
  /\ UNCHANGED <<agents, call, readers, queue, attempt>>

GiveUp(c) ==
  /\ pc[c] = "calling" /\ attempt[c] >= Attempts(c)
  /\ \E p \in Providers, s \in [1..Spares -> Providers] : ~Succeeds(p, s)
  /\ Release(c)
  /\ Go(c, "failed")
  /\ UNCHANGED <<agents, call, queue, attempt>>

Over(c) == pc[c] \in {"answered", "failed"}

Return(c) ==
  /\ Over(c)
  /\ Go(c, "idle")
  /\ call' = [call EXCEPT ![c] = NoOne]
  /\ attempt' = [attempt EXCEPT ![c] = 0]
  /\ UNCHANGED <<agents, readers, queue>>

Work(c) ==
  \/ Peek(c) \/ Found(c) \/ Missing(c) \/ Create(c) \/ Provide(c)
  \/ CreateFails(c) \/ Insert(c) \/ Join(c) \/ Answer(c) \/ Retry(c) \/ Pause(c) \/ GiveUp(c)

Call(c) ==
  \/ "chat" \in Makes[c] /\ \E u \in Users : StartChat(c, u)
  \/ "peek" \in Makes[c] /\ StartPeek(c)
  \/ "stateless" \in Makes[c] /\ StartStateless(c)
  \/ "plan" \in Makes[c] /\ StartPlan(c)
  \/ Return(c)

Next == \E c \in Calls : Call(c) \/ Work(c)

(* A call in progress is a task that the runtime keeps running, and a      *)
(* model's answer, good or bad, comes at last; nobody has to call.         *)
Spec == Init /\ [][Next]_vars /\ \A c \in Calls : WF_vars(Work(c))

-----------------------------------------------------------------------------
(* An agent, once in the map, stays: no other call replaces it, and the    *)
(* conversation it holds with it.                                          *)
AgentIsKept ==
  [][\A u \in Users : agents[u] # NoOne => agents'[u] = agents[u]]_vars

(* Every call comes to an end, whoever waits for the lock before it and    *)
(* whoever holds it through their retries.                                 *)
EveryCallEnds == \A c \in Calls : pc[c] # "idle" ~> Over(c)
=============================================================================
