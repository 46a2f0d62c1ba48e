-------------------------- MODULE MCOutgoingWrites --------------------------
(* The sessions and their senders for TLC: clients and senders are         *)
(* interchangeable, as no property tells one from another.                 *)
EXTENDS OutgoingWrites, TLC

ClientsAndSenders == Permutations(Conn) \cup Permutations(Sender)
=============================================================================
