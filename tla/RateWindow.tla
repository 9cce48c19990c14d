----------------------------- MODULE RateWindow -----------------------------
(***************************************************************************)
(* The rate limiter of a user (src/src/gateway/rate_limiter.rs): a count   *)
(* and the start of the window it is for, under settings that may be       *)
(* others at each message.  If it is not enabled it is not asked.          *)
(***************************************************************************)
EXTENDS Naturals

RateLimitConfig == [enabled : BOOLEAN, perWindow : Nat, window : Nat]

Unused(now) == [count |-> 0, start |-> now]

Expired(w, now, config) == now - w.start >= config.window

Allowed(w, now, config) == Expired(w, now, config) \/ w.count < config.perWindow

Reset(w, now) == [count |-> 1, start |-> now]

Recorded_mutant(w, now, config) == IF Expired(w, now, config) THEN Reset(w, now) ELSE w
Recorded(w, now, config) ==
  IF Expired(w, now, config) THEN Reset(w, now)
  ELSE IF w.count >= config.perWindow THEN w
  ELSE [w EXCEPT !.count = @ + 1]
=============================================================================
