----------------------------- MODULE MCDelivery -----------------------------
(* Three adapters that behave differently, one of which may hang; a user,  *)
(* a cron job, and two sockets that share a session.  A limit is below the *)
(* width of a character, so that the chunker may spin.                     *)
EXTENDS Delivery

MCAdapters == {Test, TelegramPoll, WhatsApp}
OnDiscord  == {Discord}

MCJobs == {[channel |-> <<"nowhere", "main">>, user |-> "ann"]}

MCChannels == {Main(Test)}

MCAnswers ==
  {<<"space", "wide", "letter", "dot", "dot", "space", "space", "letter", "letter">>,
   <<"letter", "letter", "letter">>, <<>>}

MCLimits ==
  [p \in {a.on : a \in Kinds} \cup {"nowhere"} |->
     IF p = "telegram" THEN 4 ELSE IF p = "whatsapp" THEN 2 ELSE 0]

(* The limiter off, with no messages allowed, and with one in a window that *)
(* is shortened.                                                           *)
Limiter(enabled, perWindow, window) ==
  [enabled |-> enabled, perWindow |-> perWindow, window |-> window]

MCSettings ==
  {Limiter(FALSE, 1, 2), Limiter(TRUE, 0, 2), Limiter(TRUE, 1, 2), Limiter(TRUE, 1, 1)}
=============================================================================
