----------------------- MODULE MCAccountSubscriptions -----------------------
(* Two accounts and two sessions for TLC; one session reads one account    *)
(* only.                                                                   *)
EXTENDS AccountSubscriptions

CONSTANTS a1, a2, s1, s2

MCMayRead == {<<a1, s1>>, <<a1, s2>>, <<a2, s1>>}
=============================================================================
