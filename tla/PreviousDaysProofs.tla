------------------------- MODULE PreviousDaysProofs -------------------------
(***************************************************************************)
(* Proofs about PreviousDays, for every list, with or without contracts    *)
(* that are in it twice, and any number of days: MultiEnd is pushed after  *)
(* the last summary, and is pushed if every contract could be loaded.      *)
(***************************************************************************)
EXTENDS PreviousDays, TLAPS

Busy == {"contract", "fetch", "push", "erase"}

(* The type invariant holds initially and is kept by every step.           *)
LEMMA TypeInit == Init => TypeOK
<1> SUFFICES ASSUME Init PROVE TypeOK
  OBVIOUS
<1>1. \A r \in Row : contractId[r] \in Contract
  BY ContractAssumption
<1>2. pushed \in Seq(Message)
  BY DEF Init
<1> QED
  BY <1>1, <1>2, DaysAssumption DEF Init, TypeOK

LEMMA MessageTypes ==
  /\ MultiEnd \in Message
  /\ \A r \in Row : [type |-> "summary", row |-> r] \in Message
  /\ \A r \in Row : [type |-> "error", row |-> r] \in Message
BY DEF MultiEnd, Message

LEMMA TypeStep == TypeOK /\ [Next]_vars => TypeOK'
<1> SUFFICES ASSUME TypeOK, [Next]_vars PROVE TypeOK'
  OBVIOUS
<1>u. CASE UNCHANGED vars
  BY <1>u DEF TypeOK, vars
<1>r. ASSUME NEW r \in Row, Previous(r) PROVE TypeOK'
  <2>1. CASE ContractFails(r)
    BY <2>1 DEF TypeOK, ContractFails
  <2>2. CASE PushError(r)
    <3>1. pushed' \in Seq(Message)
      BY <2>2, MessageTypes DEF TypeOK, PushError
    <3> QED BY <2>2, <3>1 DEF TypeOK, PushError
  <2>3. CASE ContractLoaded(r)
    BY <2>3 DEF TypeOK, ContractLoaded
  <2>4. CASE HistoricalData(r)
    BY <2>4, DaysAssumption DEF TypeOK, HistoricalData
  <2>5. CASE PushSummary(r)
    <3>1. pushed' \in Seq(Message)
      BY <2>5, MessageTypes DEF TypeOK, PushSummary
    <3>2. days' \in [Row -> 0..MaxDays]
      BY <2>5, DaysAssumption DEF TypeOK, PushSummary
    <3> QED BY <2>5, <3>1, <3>2 DEF TypeOK, PushSummary
  <2>6. CASE LoadEnds(r)
    <3>1. loads[r] \in {1, 2}
      BY <2>6 DEF TypeOK, LoadEnds
    <3> QED BY <2>6, <3>1 DEF TypeOK, LoadEnds
  <2>7. CASE Erase(r)
    <3>1. loads[r] \in {0, 1, 2}
      BY DEF TypeOK
    <3> QED BY <2>7, <3>1 DEF TypeOK, Erase, Resumed
  <2>8. CASE TestSize(r)
    <3>1. pushed' \in Seq(Message)
      BY <2>8, MessageTypes DEF TypeOK, TestSize
    <3>2. loads[r] \in {0, 1, 2}
      BY DEF TypeOK
    <3> QED BY <2>8, <3>1, <3>2 DEF TypeOK, TestSize, Resumed
  <2> QED BY <1>r, <2>1, <2>2, <2>3, <2>4, <2>5, <2>6, <2>7, <2>8 DEF Previous
<1> QED BY <1>u, <1>r DEF Next

(* PreviousDayValues: the variables keep their types.                      *)
THEOREM Typing == Spec => []TypeOK
<1>1. Init => TypeOK
  BY TypeInit
<1>2. TypeOK /\ [Next]_vars => TypeOK'
  BY TypeStep
<1> QED BY <1>1, <1>2, PTL DEF Spec

-----------------------------------------------------------------------------
(* What an append to a history does to its last element and the others.    *)
LEMMA Appended ==
  ASSUME NEW s \in Seq(Message), NEW m \in Message
  PROVE  /\ DOMAIN Append(s, m) = DOMAIN s \cup {Len(s) + 1}
         /\ \A k \in DOMAIN s : Append(s, m)[k] = s[k] /\ k < Len(s) + 1
         /\ Append(s, m)[Len(s) + 1] = m
         /\ DOMAIN s = 1..Len(s) /\ Len(s) \in Nat
OBVIOUS

(* Only TestSize pushes MultiEnd, and only for an empty set.               *)
LEMMA EndedStep ==
  ASSUME TypeOK, NEW r \in Row, Previous(r)
  PROVE  /\ Ended => Ended'
         /\ Ended' /\ ~Ended => TestSize(r) /\ pContractIds = {}
         /\ TestSize(r) /\ pContractIds = {} => Ended'
<1>1. CASE UNCHANGED pushed
  <2>1. Ended' <=> Ended
    BY <1>1 DEF Ended
  <2>2. ~(TestSize(r) /\ pContractIds = {})
    <3> SUFFICES ASSUME TestSize(r), pContractIds = {} PROVE FALSE
      OBVIOUS
    <3>1. Append(pushed, MultiEnd) = pushed
      BY <1>1 DEF TestSize
    <3>2. Len(Append(pushed, MultiEnd)) = Len(pushed) + 1 /\ Len(pushed) \in Nat
      BY MessageTypes DEF TypeOK
    <3> QED BY <3>1, <3>2
  <2> QED BY <2>1, <2>2
<1>2. ASSUME NEW m \in Message, pushed' = Append(pushed, m)
      PROVE  /\ Ended => Ended'
             /\ Ended' <=> Ended \/ m = MultiEnd
  BY <1>2, Appended DEF Ended, TypeOK
<1>3. CASE PushError(r)
  <2>1. [type |-> "error", row |-> r] # MultiEnd
    BY DEF MultiEnd
  <2>2. ~TestSize(r)
    BY <1>3 DEF PushError, TestSize
  <2> QED BY <1>2, <1>3, <2>1, <2>2, MessageTypes DEF PushError
<1>4. CASE PushSummary(r)
  <2>1. [type |-> "summary", row |-> r] # MultiEnd
    BY DEF MultiEnd
  <2>2. ~TestSize(r)
    BY <1>4 DEF PushSummary, TestSize
  <2> QED BY <1>2, <1>4, <2>1, <2>2, MessageTypes DEF PushSummary
<1>5. CASE TestSize(r) /\ pContractIds = {}
  BY <1>2, <1>5, MessageTypes DEF TestSize
<1>6. CASE TestSize(r) /\ pContractIds # {}
  BY <1>1, <1>6 DEF TestSize
<1> QED
  BY <1>1, <1>3, <1>4, <1>5, <1>6 DEF Previous, ContractFails, ContractLoaded,
     HistoricalData, LoadEnds, Erase

LEMMA ToDoInit == Init => ToDoInv
BY DEF Init, ToDoInv, Ended

(* A contract leaves the set by the step of a coroutine of its own, which  *)
(* is not busy with it any more.                                           *)
LEMMA ToDoStep == TypeOK /\ LastInv /\ ToDoInv /\ [Next]_vars => ToDoInv'
<1> SUFFICES ASSUME TypeOK, LastInv, ToDoInv, [Next]_vars PROVE ToDoInv'
  OBVIOUS
<1>u. CASE UNCHANGED vars
  BY <1>u DEF ToDoInv, Ended, Alone, vars
<1>r. ASSUME NEW r \in Row, Previous(r) PROVE ToDoInv'
  <2>1. \A q \in Row : q # r => pc'[q] = pc[q]
    BY <1>r DEF TypeOK, Previous, ContractFails, PushError, ContractLoaded,
       HistoricalData, PushSummary, LoadEnds, Erase, TestSize
  <2>2. pContractIds' = pContractIds \/ pContractIds' = pContractIds \ {contractId[r]}
    BY <1>r DEF Previous, ContractFails, PushError, ContractLoaded,
       HistoricalData, PushSummary, LoadEnds, Erase, TestSize
  <2>3. pContractIds' # pContractIds => pc'[r] \notin Busy
    BY <1>r DEF Busy, TypeOK, LastInv, Resumed, Previous, ContractFails,
       PushError, ContractLoaded, HistoricalData, PushSummary, LoadEnds,
       Erase, TestSize
  <2>4. pc'[r] \in Busy => pc[r] \in Busy
    BY <1>r DEF Busy, TypeOK, LastInv, Resumed, Previous, ContractFails,
       PushError, ContractLoaded, HistoricalData, PushSummary, LoadEnds,
       Erase, TestSize
  <2>5. ASSUME NEW q \in Row, Alone(q), pc'[q] \in Busy
        PROVE  contractId[q] \in pContractIds'
    <3>1. contractId[q] \in pContractIds
      BY <2>1, <2>4, <2>5 DEF ToDoInv, Busy
    <3>2. CASE q = r
      BY <2>2, <2>3, <2>5, <3>1, <3>2
    <3>3. CASE q # r
      BY <2>2, <2>5, <3>1, <3>3 DEF Alone
    <3> QED BY <3>2, <3>3
  <2>6. Ended' => pContractIds' = {}
    BY <1>r, <2>2, EndedStep DEF ToDoInv
  <2> QED BY <2>5, <2>6 DEF ToDoInv, Busy, Alone
<1> QED BY <1>u, <1>r DEF Next

-----------------------------------------------------------------------------
LEMMA LastInit == Init => LastInv
<1> SUFFICES ASSUME Init PROVE LastInv
  OBVIOUS
<1>1. pContractIds # {}
  BY RowAssumption DEF Init
<1>2. \A r \in Row : pc[r] = "contract" /\ loads[r] = 0
  BY DEF Init
<1>3. \A c \in pContractIds : \E r \in Row : contractId[r] = c
  BY DEF Init
<1> QED
  BY <1>1, <1>2, <1>3 DEF LastInv

(* The set loses contracts only to a coroutine that then tests its size,   *)
(* or to one that failed.                                                  *)
LEMMA LastStep == TypeOK /\ ToDoInv /\ LastInv /\ [Next]_vars => LastInv'
<1> SUFFICES ASSUME TypeOK, ToDoInv, LastInv, [Next]_vars PROVE LastInv'
  OBVIOUS
<1>u. CASE UNCHANGED vars
  BY <1>u DEF LastInv, Ended, vars
<1>r. ASSUME NEW r \in Row, Previous(r) PROVE LastInv'
  <2>1. \A q \in Row : q # r => pc'[q] = pc[q] /\ loads'[q] = loads[q]
    BY <1>r DEF TypeOK, Previous, ContractFails, PushError, ContractLoaded,
       HistoricalData, PushSummary, LoadEnds, Erase, TestSize
  <2>2. pContractIds' \subseteq pContractIds
    BY <1>r DEF Previous, ContractFails, PushError, ContractLoaded,
       HistoricalData, PushSummary, LoadEnds, Erase, TestSize
  <2>3. pc[r] \in Busy => pc'[r] \in Busy \/ contractId[r] \notin pContractIds'
    BY <1>r DEF Busy, TypeOK, Previous, ContractFails, PushError,
       ContractLoaded, HistoricalData, PushSummary, LoadEnds, Erase, TestSize
  <2>4. \A c \in pContractIds' : \E q \in Row :
          contractId[q] = c /\ pc'[q] \in Busy
    BY <2>1, <2>2, <2>3 DEF LastInv, Busy
  <2>5. \A q \in Row : pc'[q] \notin {"fetch", "push"} => loads'[q] = 0
    <3>1. loads[r] \in {0, 1, 2} /\ (pc[r] = "push" => loads[r] \in {1, 2})
      BY DEF TypeOK
    <3>2. pc'[r] \notin {"fetch", "push"} => loads'[r] = 0
      BY <1>r, <3>1 DEF TypeOK, LastInv, Resumed, Previous, ContractFails,
         PushError, ContractLoaded, HistoricalData, PushSummary, LoadEnds,
         Erase, TestSize
    <3> QED BY <2>1, <3>2 DEF LastInv
  <2>6. ASSUME pContractIds' = {}, failed' = {}, ~Ended'
        PROVE  \E q \in Row : pc'[q] = "size"
    <3>1. failed = {} /\ ~ContractFails(r) /\ ~Ended
      BY <1>r, <2>6, EndedStep DEF Previous, ContractFails, PushError,
         ContractLoaded, HistoricalData, PushSummary, LoadEnds, Erase, TestSize
    <3>2. CASE pContractIds = {}
      <4>1. PICK q \in Row : pc[q] = "size"
        BY <3>1, <3>2 DEF LastInv
      <4>2. ~TestSize(r)
        BY <1>r, <2>6, <3>2, EndedStep
      <4>3. CASE q = r
        BY <1>r, <4>1, <4>2, <4>3 DEF Previous, ContractFails, PushError,
           ContractLoaded, HistoricalData, PushSummary, LoadEnds, Erase
      <4> QED BY <2>1, <4>1, <4>3
    <3>3. CASE pContractIds # {}
      <4>1. Erase(r)
        BY <1>r, <2>6, <3>1, <3>3 DEF Previous, PushError, ContractLoaded,
           HistoricalData, PushSummary, LoadEnds, TestSize
      <4>2. contractId[r] \in pContractIds
        BY <2>6, <3>3, <4>1 DEF Erase
      <4> QED BY <4>1, <4>2 DEF Erase, TypeOK
    <3> QED BY <3>2, <3>3
  <2> QED BY <2>4, <2>5, <2>6 DEF LastInv, Busy
<1> QED BY <1>u, <1>r DEF Next

Inv == TypeOK /\ ToDoInv /\ LastInv

LEMMA Invariance == Spec => []Inv
<1>1. Init => Inv
  BY TypeInit, ToDoInit, LastInit DEF Inv
<1>2. Inv /\ [Next]_vars => Inv'
  BY TypeStep, ToDoStep, LastStep DEF Inv
<1> QED BY <1>1, <1>2, PTL DEF Spec

(* A list whose coroutines are through got its MultiEnd, unless one of its *)
(* contracts could not be loaded (Previous, the end of load).              *)
THEOREM EndPushed == Spec => []EndIfNoneFails
<1>1. Inv => EndIfNoneFails
  <2> SUFFICES ASSUME Inv, \A r \in Row : pc[r] = "done", failed = {}
               PROVE  Ended
    BY DEF EndIfNoneFails
  <2>1. pContractIds = {}
    BY DEF Inv, LastInv
  <2> QED BY <2>1 DEF Inv, LastInv
<1> QED BY <1>1, Invariance, PTL

-----------------------------------------------------------------------------
LEMMA OrderStep ==
  TypeOK /\ ToDoInv /\ NoSummaryAfterEnd /\ [Next]_vars => NoSummaryAfterEnd'
<1> SUFFICES ASSUME TypeOK, ToDoInv, NoSummaryAfterEnd, [Next]_vars
             PROVE  NoSummaryAfterEnd'
  OBVIOUS
<1>0. \A r \in Row : Alone(r)' <=> Alone(r)
  BY DEF Alone
<1>1. CASE UNCHANGED pushed
  BY <1>0, <1>1 DEF NoSummaryAfterEnd, Alone
<1>2. ASSUME NEW m \in Message, pushed' = Append(pushed, m),
             m.type = "summary" => ~Ended \/ ~Alone(m.row)
      PROVE  NoSummaryAfterEnd'
  <2> SUFFICES ASSUME NEW j \in DOMAIN pushed', NEW k \in DOMAIN pushed', j < k,
                      pushed'[j] = MultiEnd, pushed'[k].type = "summary"
               PROVE  ~Alone(pushed'[k].row)
    BY DEF NoSummaryAfterEnd, Alone
  <2>0. pushed \in Seq(Message)
    BY DEF TypeOK
  <2>1. j \in DOMAIN pushed /\ pushed'[j] = pushed[j]
    BY <1>2, <2>0, Appended
  <2>2. CASE k \in DOMAIN pushed
    <3>1. pushed'[k] = pushed[k]
      BY <1>2, <2>0, <2>2, Appended
    <3> QED BY <2>1, <2>2, <3>1 DEF NoSummaryAfterEnd
  <2>3. CASE k \notin DOMAIN pushed
    <3>1. pushed'[k] = m
      BY <1>2, <2>0, <2>3, Appended
    <3>2. Ended
      BY <2>1 DEF Ended
    <3> QED BY <1>2, <3>1, <3>2
  <2> QED BY <2>2, <2>3
<1>3. ASSUME NEW r \in Row, Previous(r) PROVE NoSummaryAfterEnd'
  <2>1. CASE PushError(r)
    <3>1. [type |-> "error", row |-> r].type # "summary"
      OBVIOUS
    <3> QED BY <1>2, <2>1, <3>1, MessageTypes DEF PushError
  <2>2. CASE PushSummary(r)
    <3>1. ~Ended \/ ~Alone(r)
      BY <2>2 DEF PushSummary, ToDoInv
    <3> QED BY <1>2, <2>2, <3>1, MessageTypes DEF PushSummary
  <2>3. CASE TestSize(r)
    <3>1. MultiEnd.type # "summary"
      BY DEF MultiEnd
    <3> QED BY <1>1, <1>2, <2>3, <3>1, MessageTypes DEF TestSize
  <2> QED
    BY <1>1, <1>3, <2>1, <2>2, <2>3 DEF Previous, ContractFails,
       ContractLoaded, HistoricalData, LoadEnds, Erase
<1> QED BY <1>1, <1>3 DEF Next, vars

(* After MultiEnd no summary is pushed of a contract that is once in the   *)
(* list (Previous, pContractIds).                                          *)
THEOREM EndIsLast == Spec => []NoSummaryAfterEnd
<1>1. Init => NoSummaryAfterEnd
  BY DEF Init, NoSummaryAfterEnd
<1>2. Inv /\ NoSummaryAfterEnd /\ [Next]_vars => NoSummaryAfterEnd'
  BY OrderStep DEF Inv
<1> QED BY <1>1, <1>2, Invariance, PTL DEF Spec

-----------------------------------------------------------------------------
(* A bound for the steps that are left to a coroutine: a load takes at     *)
(* most MaxDays + 2.                                                       *)
Remaining(r) ==
  LET again == IF loads[r] = 2 THEN MaxDays + 2 ELSE 0
  IN CASE pc[r] = "contract" -> 2 * MaxDays + 7
       [] pc[r] = "fetch" -> again + MaxDays + 4
       [] pc[r] = "push" -> again + days[r] + 3
       [] pc[r] = "erase" -> 2
       [] pc[r] \in {"size", "report"} -> 1
       [] OTHER -> 0

LEMMA RowShrinks ==
  ASSUME Inv, NEW r \in Row, Previous(r)
  PROVE  Remaining(r)' < Remaining(r)
<1> USE DaysAssumption DEF Remaining
<1>1. /\ days[r] \in 0..MaxDays /\ loads[r] \in 0..2
      /\ pc[r] = "push" => loads[r] \in {1, 2}
      /\ pc[r] \notin {"fetch", "push"} => loads[r] = 0
  BY DEF Inv, TypeOK, LastInv
<1>2. CASE ContractFails(r) \/ PushError(r)
  BY <1>2 DEF ContractFails, PushError, Inv, TypeOK
<1>3. CASE ContractLoaded(r)
  <2>1. pc[r] = "contract" /\ pc'[r] = "fetch"
    BY <1>3 DEF ContractLoaded, Inv, TypeOK
  <2> QED
    BY <2>1
<1>4. CASE HistoricalData(r)
  <2>1. /\ pc[r] = "fetch" /\ pc'[r] = "push" /\ loads' = loads
        /\ days'[r] \in 0..MaxDays
    BY <1>4 DEF HistoricalData, Inv, TypeOK
  <2> QED
    BY <2>1
<1>5. CASE PushSummary(r)
  <2>1. /\ pc[r] = "push" /\ pc' = pc /\ loads' = loads
        /\ days[r] > 0 /\ days'[r] = days[r] - 1
    BY <1>5 DEF PushSummary, Inv, TypeOK
  <2> QED
    BY <1>1, <2>1
<1>6. CASE LoadEnds(r)
  <2>1. /\ pc[r] = "push" /\ days[r] = 0 /\ loads'[r] = loads[r] - 1
        /\ pc'[r] = IF loads[r] = 1 THEN "erase" ELSE "fetch"
    BY <1>6 DEF LoadEnds, Inv, TypeOK
  <2> QED
    BY <1>1, <2>1
<1>7. CASE Erase(r) \/ TestSize(r)
  <2>1. \/ pc[r] = "erase" /\ pc'[r] \in {"size", "done"}
        \/ pc[r] = "size" /\ pc'[r] = "done"
    BY <1>1, <1>7 DEF Erase, TestSize, Resumed, Inv, TypeOK
  <2> QED
    BY <2>1
<1> QED
  BY <1>2, <1>3, <1>4, <1>5, <1>6, <1>7 DEF Previous

LEMMA RowsApart ==
  ASSUME Inv, NEW r \in Row, NEW q \in Row, q # r, Previous(q)
  PROVE  Remaining(r)' = Remaining(r)
<1>1. /\ pc'[r] = pc[r] /\ loads'[r] = loads[r] /\ days'[r] = days[r]
  BY DEF Inv, TypeOK, Previous, ContractFails, PushError, ContractLoaded,
     HistoricalData, PushSummary, LoadEnds, Erase, TestSize
<1> QED
  BY <1>1 DEF Remaining

(* Each step of a coroutine leaves it fewer steps, and no step of another  *)
(* gives it more: nobody keeps a list from its end by taking turns on the  *)
(* set. (EveryRowEnds needs this, and that a coroutine that has not ended  *)
(* can take a step.)                                                       *)
THEOREM RowIsBounded ==
  Spec => [][\A r \in Row :
               /\ Remaining(r)' \in Nat
               /\ IF Previous(r) THEN Remaining(r)' < Remaining(r)
                  ELSE Remaining(r)' = Remaining(r)]_vars
<1> DEFINE A == \A r \in Row :
                  /\ Remaining(r)' \in Nat
                  /\ IF Previous(r) THEN Remaining(r)' < Remaining(r)
                     ELSE Remaining(r)' = Remaining(r)
<1>1. Inv' => \A r \in Row : Remaining(r)' \in Nat
  BY DaysAssumption DEF Inv, TypeOK, LastInv, Remaining
<1>2. Inv /\ Next =>
        \A r \in Row : IF Previous(r) THEN Remaining(r)' < Remaining(r)
                       ELSE Remaining(r)' = Remaining(r)
  BY RowShrinks, RowsApart DEF Next
<1>3. Inv /\ Inv' /\ [Next]_vars => [A]_vars
  BY <1>1, <1>2
<1> QED
  BY <1>3, Invariance, PTL DEF Spec
=============================================================================
