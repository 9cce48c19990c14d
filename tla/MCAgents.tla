------------------------------ MODULE MCAgents ------------------------------
(* The message loop and a web chat talk to two users; a page counts agents *)
(* and an API call wants none.  Each is tried twice, with one fallback.    *)
EXTENDS Agents

CONSTANTS loop, chat, page, api

Made ==
  [c \in {loop, chat, page, api} |->
     IF c = page THEN {"peek"} ELSE IF c = api THEN {"stateless"} ELSE {"chat", "plan"}]
=============================================================================
