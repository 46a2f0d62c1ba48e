----------------------------- MODULE ListAnswer -----------------------------
(***************************************************************************)
(* What a client that asks for a list of contracts is promised: answers to *)
(* items, in any order and also again, and then one last message. If that  *)
(* is the end mark, every item that is owed has been answered; else it is  *)
(* an error. Nothing follows it.                                           *)
(***************************************************************************)
CONSTANT Item

VARIABLES
  owed,    (* items that are answered before the end, fixed at the start   *)
  got,     (* items that were answered                                     *)
  status   (* open, or how the list has ended                              *)

listVars == <<owed, got, status>>

Init == owed \in SUBSET Item /\ got = {} /\ status = "open"

Answer(items, next) ==
  /\ status = "open"
  /\ got' = got \cup items
  /\ status' = next
  /\ next = "ended" => owed \subseteq got'
  /\ UNCHANGED owed

Next == \E items \in SUBSET Item, next \in {"open", "ended", "failed"} :
          Answer(items, next)

Spec == Init /\ [][Next]_listVars
=============================================================================
