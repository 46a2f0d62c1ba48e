-------------------------- MODULE MCRequestRouting --------------------------
(* Request numbers for TLC. One of them is also the number of an order     *)
(* that another client of the same TWS has placed.                         *)
EXTENDS RequestRouting

CONSTANTS s1, s2

MCOtherOrder == {2}
=============================================================================
