----------------------------- MODULE MCPipeline ----------------------------
(***************************************************************************)
(* Two requests, and two messages from users of whom one's id goes on      *)
(* after a colon, as ids do on Teams.  Everything is symmetric in the      *)
(* requests, and the runs check safety only.                               *)
(***************************************************************************)
EXTENDS Pipeline, TLC

Symmetry == Permutations(Requests)

MCUsers == {<<"29">>, <<"29", "ann">>}

MCMeaning == <<"yes">> :> "yes" @@ <<"no">> :> "no" @@ <<"ann", "yes">> :> "other"
MCTexts   == DOMAIN MCMeaning
=============================================================================
