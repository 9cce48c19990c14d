------------------------------- MODULE Memory -------------------------------
(***************************************************************************)
(* What a memory store keeps of a conversation (src/src/memory/mod.rs) and *)
(* what the summariser makes of it (src/src/memory/summarizer.rs).  A      *)
(* history is a sequence, oldest first; an entry is the set of messages it *)
(* tells of: one, or those condensed into a summary.                       *)
(***************************************************************************)
EXTENDS Integers, Sequences

CONSTANTS
  MaxHistory,    \* entries kept per user
  TriggerAt,     \* summarise above this many entries
  TokenBudget,   \* or above this many tokens, one per entry; 0: never
  KeepRecent     \* entries the summariser leaves alone

ASSUME HistoryAssumption ==
  /\ MaxHistory \in Nat \ {0}
  /\ TriggerAt \in Nat /\ TokenBudget \in Nat /\ KeepRecent \in Nat

Covered(history) == UNION {history[i] : i \in DOMAIN history}

(* add_message: push, and keep the last.                                   *)
Added(history, entry) ==
  LET longer == Append(history, entry)
      over == Len(longer) - MaxHistory
  IN IF over > 0 THEN SubSeq(longer, over + 1, Len(longer)) ELSE longer

(* The messages that no entry tells of once the oldest have gone.          *)
Trimmed(history, entry) ==
  (Covered(history) \cup entry) \ Covered(Added(history, entry))

Triggers(history) ==
  \/ Len(history) > TriggerAt
  \/ TokenBudget > 0 /\ Len(history) > TokenBudget

(* to_summarize_count: none, if there are no more than are to be kept.     *)
Condensed(history) == IF Len(history) > KeepRecent THEN Len(history) - KeepRecent ELSE 0

Oldest(history) == SubSeq(history, 1, Condensed(history))
Recent(history) == SubSeq(history, Condensed(history) + 1, Len(history))

(* What the summariser writes in place of the history it saw.              *)
Rewritten_mutant(history) == Recent(history)
Rewritten(history) == <<Covered(Oldest(history))>> \o Recent(history)
=============================================================================
