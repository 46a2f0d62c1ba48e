---------------------------- MODULE PreviousDays ----------------------------
(***************************************************************************)
(* The values of the previous days, for a list of contracts that a client  *)
(* asks for at once: PreviousDayValues.cpp.                                *)
(*                                                                         *)
(* A coroutine runs for each row of the list. It waits for the details of  *)
(* its contract and for one or two loads of bars, pushes a summary for     *)
(* each day it has bars of, and is resumed by whichever thread has the     *)
(* answer, so the coroutines of a list run at once. They share the set of  *)
(* contracts to do, pContractIds, and the one who takes the last out of it *)
(* pushes MultiEnd, which tells the client that the list is complete.      *)
(*                                                                         *)
(* A push is one step: it returns when its message is being written, and   *)
(* messages are written in this order (OutgoingWrites).                    *)
(***************************************************************************)
EXTENDS Integers, Sequences, FiniteSets

CONSTANTS
  Row,         (* the places of the list                                   *)
  Contract,
  contractId,  (* the contract of a place; one may be there twice          *)
  MaxDays      (* bound: days a load has bars of                           *)

ASSUME RowAssumption == IsFiniteSet(Row) /\ Row # {}
ASSUME ContractAssumption == contractId \in [Row -> Contract]
ASSUME DaysAssumption == MaxDays \in Nat

VARIABLES
  pc,            (* where the coroutine of a row stands                    *)
  loads,         (* loads it has to make                                   *)
  days,          (* summaries the current load still pushes                *)
  pContractIds,  (* contracts not done                                     *)
  failed,        (* history: rows whose contract could not be loaded       *)
  pushed         (* history: what was pushed to the client                 *)

vars == <<pc, loads, days, pContractIds, failed, pushed>>

Message == [type : {"summary", "error"}, row : Row] \cup [type : {"MultiEnd"}]
MultiEnd == [type |-> "MultiEnd"]

Init ==
  /\ pc = [r \in Row |-> "contract"]
  /\ loads = [r \in Row |-> 0]
  /\ days = [r \in Row |-> 0]
  /\ pContractIds = {contractId[r] : r \in Row}
  /\ failed = {}
  /\ pushed = <<>>

-----------------------------------------------------------------------------
(* The details of the contract did not come: it is taken out of the set,   *)
(* whoever is left to push MultiEnd, and the error is pushed.              *)
ContractFails(r) ==
  /\ pc[r] = "contract"
  /\ pc' = [pc EXCEPT ![r] = "report"]
  /\ pContractIds' = pContractIds \ {contractId[r]}
  /\ failed' = failed \cup {r}
  /\ UNCHANGED <<loads, days, pushed>>

PushError(r) ==
  /\ pc[r] = "report"
  /\ pc' = [pc EXCEPT ![r] = "done"]
  /\ pushed' = Append(pushed, [type |-> "error", row |-> r])
  /\ UNCHANGED <<loads, days, pContractIds, failed>>

(* One load is enough for an option and while the market is open; else a   *)
(* second one follows, for the day before.                                 *)
ContractLoaded(r) ==
  /\ pc[r] = "contract"
  /\ pc' = [pc EXCEPT ![r] = "fetch"]
  /\ \E n \in {1, 2} : loads' = [loads EXCEPT ![r] = n]
  /\ UNCHANGED <<days, pContractIds, failed, pushed>>

-----------------------------------------------------------------------------
(* load                                                                    *)

(* The bars have come, of some of the days; none if TWS answers with an    *)
(* error, which nobody looks at.                                           *)
HistoricalData(r) ==
  /\ pc[r] = "fetch"
  /\ pc' = [pc EXCEPT ![r] = "push"]
  /\ \E n \in 0..MaxDays : days' = [days EXCEPT ![r] = n]
  /\ UNCHANGED <<loads, pContractIds, failed, pushed>>

PushSummary(r) ==
  /\ pc[r] = "push"
  /\ days[r] > 0
  /\ days' = [days EXCEPT ![r] = @ - 1]
  /\ pushed' = Append(pushed, [type |-> "summary", row |-> r])
  /\ UNCHANGED <<pc, loads, pContractIds, failed>>

(* Fault: the set is given to both loads.                                  *)
LoadEndsEach(r) ==
  /\ pc[r] = "push"
  /\ days[r] = 0
  /\ loads' = [loads EXCEPT ![r] = @ - 1]
  /\ pc' = [pc EXCEPT ![r] = "erase"]
  /\ UNCHANGED <<days, pContractIds, failed, pushed>>

(* Fault: the coroutine is not resumed after the first load.               *)
LoadEndsUnresumed(r) ==
  /\ pc[r] = "push"
  /\ days[r] = 0
  /\ loads[r] = 1
  /\ loads' = [loads EXCEPT ![r] = 0]
  /\ pc' = [pc EXCEPT ![r] = "erase"]
  /\ UNCHANGED <<days, pContractIds, failed, pushed>>

(* "useRth ? pContractIds : sp<UnorderedSet<int32>>{}": only the last load *)
(* has the set.                                                            *)
LoadEnds(r) ==
  /\ pc[r] = "push"
  /\ days[r] = 0
  /\ loads' = [loads EXCEPT ![r] = @ - 1]
  /\ pc' = [pc EXCEPT ![r] = IF loads[r] = 1 THEN "erase" ELSE "fetch"]
  /\ UNCHANGED <<days, pContractIds, failed, pushed>>

(* Where the coroutine goes on when a load with the set is over.           *)
Resumed(r) == IF loads[r] = 0 THEN "done" ELSE "fetch"

(* Fault: the size is not tested.                                          *)
EraseOnly(r) ==
  /\ pc[r] = "erase"
  /\ pContractIds' = pContractIds \ {contractId[r]}
  /\ pc' = [pc EXCEPT ![r] = Resumed(r)]
  /\ UNCHANGED <<loads, days, failed, pushed>>

(* Fault: another load is made after the last one.                         *)
EraseRestarts(r) ==
  /\ pc[r] = "erase"
  /\ pContractIds' = pContractIds \ {contractId[r]}
  /\ pc' = [pc EXCEPT ![r] = "fetch"]
  /\ UNCHANGED <<loads, days, failed, pushed>>

(* "pContractIds->erase(pContract->Id) && pContractIds->size()==0": each   *)
(* locks the set for itself.                                               *)
Erase(r) ==
  /\ pc[r] = "erase"
  /\ pContractIds' = pContractIds \ {contractId[r]}
  /\ pc' = [pc EXCEPT ![r] = IF contractId[r] \in pContractIds
                             THEN "size" ELSE Resumed(r)]
  /\ UNCHANGED <<loads, days, failed, pushed>>

TestSize(r) ==
  /\ pc[r] = "size"
  /\ pc' = [pc EXCEPT ![r] = Resumed(r)]
  /\ pushed' = IF pContractIds = {} THEN Append(pushed, MultiEnd) ELSE pushed
  /\ UNCHANGED <<loads, days, pContractIds, failed>>

-----------------------------------------------------------------------------
Previous(r) == \/ ContractFails(r) \/ PushError(r) \/ ContractLoaded(r)
               \/ HistoricalData(r) \/ PushSummary(r) \/ LoadEnds(r)
               \/ Erase(r) \/ TestSize(r)

Next == \E r \in Row : Previous(r)

Spec == Init /\ [][Next]_vars

(* External: TWS answers every request, if only with an error.             *)
FairSpec == Spec /\ \A r \in Row : WF_vars(Previous(r))

-----------------------------------------------------------------------------
TypeOK ==
  /\ pc \in [Row -> {"contract", "report", "fetch", "push", "erase", "size",
                     "done"}]
  /\ loads \in [Row -> 0..2]
  /\ days \in [Row -> 0..MaxDays]
  /\ pContractIds \subseteq Contract
  /\ failed \subseteq Row
  /\ pushed \in Seq(Message)
  /\ \A r \in Row : pc[r] \in {"fetch", "push"} => loads[r] \in {1, 2}

Alone(r) == \A q \in Row : contractId[q] = contractId[r] => q = r

Ended == \E k \in DOMAIN pushed : pushed[k] = MultiEnd

(* MultiEnd tells the truth: after it no summary comes of a contract that  *)
(* is once in the list, though the coroutines end in any order, each after *)
(* one load or two. (The error of another contract may still come.)        *)
NoSummaryAfterEnd ==
  \A j, k \in DOMAIN pushed :
    j < k /\ pushed[j] = MultiEnd /\ pushed[k].type = "summary"
      => ~Alone(pushed[k].row)

(* A list whose coroutines are through got its MultiEnd, if every contract *)
(* could be loaded: two that take out the last contracts at the same time  *)
(* do not rely on each other.                                              *)
EndIfNoneFails ==
  (\A r \in Row : pc[r] = "done") /\ failed = {} => Ended

(* Every contract is settled: each coroutine comes to its end.             *)
EveryRowEnds == \A r \in Row : <>(pc[r] = "done")
-----------------------------------------------------------------------------
(* The invariants behind NoSummaryAfterEnd and EndIfNoneFails.             *)

(* A contract stays in the set until its last load is over, and MultiEnd   *)
(* is pushed when the set is empty.                                        *)
ToDoInv ==
  /\ \A r \in Row : Alone(r) /\ pc[r] \in {"contract", "fetch", "push", "erase"}
       => contractId[r] \in pContractIds
  /\ Ended => pContractIds = {}

(* What is in the set has a coroutine that will take it out, and who took  *)
(* out the last one will test the size.                                    *)
LastInv ==
  /\ \A c \in pContractIds : \E r \in Row :
       contractId[r] = c /\ pc[r] \in {"contract", "fetch", "push", "erase"}
  /\ pContractIds = {} /\ failed = {} /\ ~Ended => \E r \in Row : pc[r] = "size"
  /\ \A r \in Row : pc[r] \notin {"fetch", "push"} => loads[r] = 0
=============================================================================
