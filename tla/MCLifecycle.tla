---------------------------- MODULE MCLifecycle ----------------------------
(* One adapter of each kind, two messages and two lives: what one life     *)
(* fetched, confirmed or held can be lost to, or repeated by, the next.    *)
EXTENDS Lifecycle

CONSTANTS telegram, slack, email

Registered == <<telegram, slack, email>>
Unreadable == {<<telegram, 1>>, <<slack, 2>>}
=============================================================================
