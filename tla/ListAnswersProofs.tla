-------------------------- MODULE ListAnswersProofs --------------------------
(***************************************************************************)
(* ListAnswers implements ListAnswer, for lists of any length: every step  *)
(* that pushes is an answer, every other one a stutter. An answer with the *)
(* end mark covers what is owed, because the work goes through the list in *)
(* order (WorkInv), and nothing is pushed after it (OpenInv).              *)
(***************************************************************************)
EXTENDS ListAnswers, TLAPS

(* One message more.                                                       *)
LEMMA PushedOne ==
  ASSUME NEW items \in SUBSET Item, NEW last \in {"open", "ended", "failed"},
         pushed \in Seq(Message), Push(items, last)
  PROVE  /\ pushed' \in Seq(Message)
         /\ Got' = Got \cup items
         /\ Status' = last
<1> DEFINE m == [items |-> items, last |-> last]
<1>1. m \in Message /\ pushed' = Append(pushed, m)
  BY DEF Push, Message
<1>2. /\ pushed' \in Seq(Message) /\ Len(pushed') = Len(pushed) + 1
      /\ DOMAIN pushed = 1..Len(pushed) /\ Len(pushed) \in Nat
      /\ DOMAIN pushed' = 1..Len(pushed) + 1
      /\ \A n \in 1..Len(pushed) : pushed'[n] = pushed[n]
      /\ pushed'[Len(pushed) + 1] = m
  BY <1>1
<1>3. Got' = Got \cup items
  <2>1. \A i : i \in Got' <=> \E n \in DOMAIN pushed' : i \in pushed'[n].items
    BY DEF Got
  <2>2. \A i : i \in Got <=> \E n \in DOMAIN pushed : i \in pushed[n].items
    BY DEF Got
  <2>3. \A i : i \in Got' => i \in Got \/ i \in items
    BY <1>2, <2>1, <2>2
  <2>4. \A i : i \in Got => i \in Got'
    BY <1>2, <2>1, <2>2
  <2>5. \A i : i \in items => i \in Got'
    BY <1>2, <2>1
  <2> QED
    BY <2>3, <2>4, <2>5
<1>4. Status' = last
  <2>1. pushed' # <<>> /\ pushed'[Len(pushed')] = m
    BY <1>2
  <2> QED
    BY <2>1 DEF Status
<1> QED
  BY <1>2, <1>3, <1>4

LEMMA InitInv == Init => Inv /\ Got = {} /\ Status = "open"
<1> SUFFICES ASSUME Init PROVE Inv /\ Got = {} /\ Status = "open"
  OBVIOUS
<1>1. pushed = <<>> /\ Got = {} /\ Status = "open"
  BY DEF Init, Got, Status
<1>2. TypeOK
  BY <1>1, ItemsAssumption DEF Init, TypeOK, Kind, Item
<1> QED
  BY <1>1, <1>2 DEF Init, Inv, OpenInv, WorkInv

(* A step either pushes one message or none, and what Promise!Answer asks  *)
(* of the message is true of it.                                           *)
Allowed(items, last) ==
  /\ items \in SUBSET Item /\ last \in {"open", "ended", "failed"}
  /\ Push(items, last)
  /\ last = "ended" => Owed \subseteq Got \cup items
  /\ pc' # "done" => last = "open"

LEMMA StepPushes ==
  ASSUME Inv, Next
  PROVE  /\ pc # "done" /\ kind' = kind /\ size' = size
         /\ \/ pushed' = pushed
            \/ \E items, last : Allowed(items, last)
<1> USE DEF Inv, TypeOK, OpenInv, WorkInv, Owed, Item, Allowed, NextItem, Kind
<1>1. CASE Start
  BY <1>1 DEF Start
<1>2. CASE \E moved \in BOOLEAN : Detail(moved)
  <2> DEFINE batch == messages \cup {next}
             last == IF next = size THEN "ended" ELSE "open"
  <2>1. /\ pc = "item" /\ batch \in SUBSET Item
        /\ next = size => Owed \subseteq batch
        /\ pc' = IF next = size THEN "done" ELSE "item"
    BY <1>2, ItemsAssumption DEF Detail
  <2>2. pushed' = pushed \/ Push(batch, last)
    BY <1>2 DEF Detail
  <2>3. CASE pushed' = pushed
    BY <1>2, <2>1, <2>3 DEF Detail
  <2>4. CASE Push(batch, last)
    <3>1. Allowed(batch, last)
      BY <2>1, <2>4
    <3> QED
      BY <1>2, <2>1, <3>1 DEF Detail
  <2> QED
    BY <2>2, <2>3, <2>4
<1>3. CASE Volume
  <2> DEFINE last == IF size = 1 THEN "ended" ELSE "open"
  <2>1. /\ {next} \in SUBSET Item /\ Push({next}, last)
        /\ size = 1 => Owed \subseteq {next}
        /\ size # 1 => last = "open"
        /\ size = 1 => pc' = "done"
    BY <1>3, ItemsAssumption DEF Volume
  <2>2. Allowed({next}, last)
    BY <2>1
  <2> QED
    BY <1>3, <2>2 DEF Volume
<1>4. CASE VolumeEnd
  <2>1. Push({}, "ended") => Allowed({}, "ended")
    BY <1>4 DEF VolumeEnd
  <2> QED
    BY <1>4, <2>1 DEF VolumeEnd
<1>5. CASE Fundamentals
  <2>1. Allowed({next}, "open")
    BY <1>5, ItemsAssumption DEF Fundamentals
  <2> QED
    BY <1>5, <2>1 DEF Fundamentals
<1>6. CASE FundamentalsEnd
  <2>1. Allowed({}, "ended")
    BY <1>6 DEF FundamentalsEnd
  <2> QED
    BY <1>6, <2>1 DEF FundamentalsEnd
<1>7. CASE StatsContract
  BY <1>7 DEF StatsContract
<1>8. CASE StatsStored
  <2> PICK items \in SUBSET (1..size) :
        IF items = {} THEN UNCHANGED pushed ELSE Push(items, "open")
    BY <1>8 DEF StatsStored
  <2>1. items \in SUBSET Item
    BY ItemsAssumption
  <2>2. Push(items, "open") => Allowed(items, "open")
    BY <2>1
  <2> QED
    BY <1>8, <2>2 DEF StatsStored
<1>9. CASE StatsComputed
  <2>1. Push({next}, "open") => Allowed({next}, "open")
    BY <1>9, ItemsAssumption DEF StatsComputed
  <2> QED
    BY <1>9, <2>1 DEF StatsComputed
<1>10. CASE StatsEnd
  <2>1. Allowed({}, "ended")
    BY <1>10 DEF StatsEnd
  <2> QED
    BY <1>10, <2>1 DEF StatsEnd
<1>11. CASE StatsFails
  <2>1. Allowed({}, "failed")
    BY <1>11 DEF StatsFails
  <2> QED
    BY <1>11, <2>1 DEF StatsFails
<1> QED
  BY <1>1, <1>2, <1>3, <1>4, <1>5, <1>6, <1>7, <1>8, <1>9, <1>10, <1>11
     DEF Next

(* Got and Status are unchanged, or as the message says.                   *)
LEMMA StepGets ==
  ASSUME Inv, Next
  PROVE  /\ pushed' \in Seq(Message)
         /\ \/ pushed' = pushed /\ Got' = Got /\ Status' = Status
            \/ \E items, last : /\ Allowed(items, last)
                                /\ Got' = Got \cup items
                                /\ Status' = last
<1>1. CASE pushed' = pushed
  BY <1>1 DEF Inv, TypeOK, Got, Status
<1>2. CASE \E items, last : Allowed(items, last)
  BY <1>2, PushedOne DEF Inv, TypeOK, Allowed
<1> QED
  BY <1>1, <1>2, StepPushes

LEMMA InvStep == Inv /\ [Next]_vars => Inv'
<1> SUFFICES ASSUME Inv, [Next]_vars PROVE Inv'
  OBVIOUS
<1>1. CASE UNCHANGED vars
  BY <1>1 DEF vars, Inv, TypeOK, OpenInv, WorkInv, Got, Status
<1>2. CASE Next
  <2>1. TypeOK'
    <3>1. /\ kind' \in Kind /\ size' \in 0..MaxItems
          /\ pushed' \in Seq(Message)
      BY <1>2, StepPushes, StepGets DEF Inv, TypeOK
    <3>2. /\ pc' \in {"start", "item", "after", "compute", "end", "done"}
          /\ next' \in 1..MaxItems + 1
          /\ messages' \subseteq Item
      <4> USE ItemsAssumption DEF Inv, TypeOK, WorkInv, NextItem
      <4>1. CASE Start
        BY <4>1 DEF Start
      <4>2. CASE \E moved \in BOOLEAN : Detail(moved)
        BY <4>2 DEF Detail, Item
      <4>3. CASE Volume \/ VolumeEnd
        BY <4>3 DEF Volume, VolumeEnd
      <4>4. CASE Fundamentals \/ FundamentalsEnd
        BY <4>4 DEF Fundamentals, FundamentalsEnd
      <4>5. CASE StatsContract \/ StatsStored \/ StatsComputed
        BY <4>5 DEF StatsContract, StatsStored, StatsComputed
      <4>6. CASE StatsEnd \/ StatsFails
        BY <4>6 DEF StatsEnd, StatsFails
      <4> QED
        BY <1>2, <4>1, <4>2, <4>3, <4>4, <4>5, <4>6 DEF Next
    <3> QED
      BY <3>1, <3>2 DEF TypeOK
  <2>2. OpenInv'
    BY <1>2, StepPushes, StepGets DEF Inv, OpenInv, Allowed
  <2>3. WorkInv'
    <3>1. CASE Start
      BY <1>2, <3>1, StepGets, ItemsAssumption
         DEF Start, Inv, TypeOK, WorkInv, Got
    <3>2. CASE \E moved \in BOOLEAN : Detail(moved)
      BY <3>2, ItemsAssumption DEF Detail, NextItem, Inv, TypeOK, WorkInv
    <3>3. CASE Volume \/ Fundamentals
      <4>1. /\ pc = "item" /\ kind \in {"volume", "fundamentals"}
            /\ Got' = Got \cup {next} /\ UNCHANGED <<kind, size>>
        <5>1. {next} \in SUBSET Item /\ pushed \in Seq(Message)
          BY <3>3, ItemsAssumption
             DEF Volume, Fundamentals, Inv, TypeOK, WorkInv, Item
        <5> QED
          BY <3>3, <5>1, PushedOne DEF Volume, Fundamentals
      <4>2. /\ next' = IF next = size THEN 1 ELSE next + 1
            /\ pc' \in {"item", "after", "done"}
            /\ pc' = "item" => next # size
            /\ pc' = "after" => next = size
        BY <3>3 DEF Volume, Fundamentals, NextItem
      <4>3. 1..(next - 1) \cup {next} = 1..next
        BY ItemsAssumption DEF Inv, TypeOK
      <4>4. next \in Nat \ {0} /\ size \in Nat /\ next <= size
        BY <4>1, ItemsAssumption DEF Inv, TypeOK, WorkInv
      <4> QED
        BY <4>1, <4>2, <4>3, <4>4 DEF Inv, WorkInv
    <3>4. CASE StatsContract \/ StatsComputed \/ StatsStored
      BY <3>4, ItemsAssumption
         DEF StatsContract, StatsComputed, StatsStored, NextItem, Inv, TypeOK,
             WorkInv
    <3>5. CASE VolumeEnd \/ FundamentalsEnd \/ StatsEnd \/ StatsFails
      BY <3>5 DEF VolumeEnd, FundamentalsEnd, StatsEnd, StatsFails, WorkInv
    <3> QED
      BY <1>2, <3>1, <3>2, <3>3, <3>4, <3>5 DEF Next
  <2> QED
    BY <2>1, <2>2, <2>3 DEF Inv
<1> QED
  BY <1>1, <1>2

LEMMA PromiseStep ==
  Inv /\ [Next]_vars => [Promise!Next]_(Promise!listVars)
<1> SUFFICES ASSUME Inv, [Next]_vars, UNCHANGED vars \/ Next
             PROVE  [Promise!Next]_(Promise!listVars)
  OBVIOUS
<1>1. CASE UNCHANGED vars
  BY <1>1 DEF vars, Promise!listVars, Owed, Got, Status
<1>2. CASE Next
  <2>1. Owed' = Owed /\ Status = "open"
    BY <1>2, StepPushes DEF Owed, Inv, OpenInv
  <2>2. CASE Got' = Got /\ Status' = Status
    BY <2>1, <2>2 DEF Promise!listVars
  <2>3. CASE \E items, last : /\ Allowed(items, last)
                              /\ Got' = Got \cup items
                              /\ Status' = last
    BY <2>1, <2>3 DEF Allowed, Promise!Next, Promise!Answer
  <2> QED
    BY <1>2, <2>2, <2>3, StepGets
<1> QED
  BY <1>1, <1>2

LEMMA PromiseInit == Init => Promise!Init
BY InitInv, ItemsAssumption DEF Init, Promise!Init, Owed, Item

(* ImplementsListAnswer: the end mark of a list comes once, last, and      *)
(* after everything that belongs to it.                                    *)
THEOREM ListRefinement == Spec => ImplementsListAnswer
<1>1. Spec => [][Promise!Next]_(Promise!listVars)
  BY InitInv, InvStep, PromiseStep, PTL DEF Spec
<1> QED
  BY <1>1, PromiseInit, PTL DEF Spec, ImplementsListAnswer, Promise!Spec

(* What the refinement says to a client: an end mark is true. The last     *)
(* message is one only if everything that is owed was pushed.              *)
THEOREM EndIsTrue == Spec => [](Status = "ended" => Owed \subseteq Got)
<1> DEFINE P == Status = "ended" => Owed \subseteq Got
<1>1. Promise!Init => P
  BY DEF Promise!Init
<1>2. P /\ [Promise!Next]_(Promise!listVars) => P'
  BY DEF Promise!Next, Promise!Answer, Promise!listVars
<1> HIDE DEF P
<1>3. Spec => []P
  BY <1>1, <1>2, InitInv, InvStep, PromiseInit, PromiseStep, PTL DEF Spec
<1> QED
  BY <1>3 DEF P

(* Nothing is pushed after the last message, not even a second end mark    *)
(* (which the refinement would not see: it would change nothing that a     *)
(* client has got).                                                        *)
THEOREM NothingAfterEnd == Spec => [][Status = "open"]_pushed
<1>1. Inv /\ [Next]_vars => [Status = "open"]_pushed
  <2> SUFFICES ASSUME Inv, Next PROVE [Status = "open"]_pushed
    BY DEF vars
  <2> QED
    BY StepPushes DEF Inv, OpenInv
<1> QED
  BY <1>1, InitInv, InvStep, PTL DEF Spec

-----------------------------------------------------------------------------
(* A bound for the steps that are left.                                    *)
StepsLeft ==
  CASE pc = "start" -> 2 * size + 3
    [] pc = "item" -> 2 * size + 3 - next
    [] pc = "after" -> size + 2
    [] pc = "compute" -> size + 2 - next
    [] pc = "end" -> 1
    [] OTHER -> 0

(* The loops end: each step of a list leaves fewer steps, of which there   *)
(* are 2 * size + 3 at first. (EveryListEnds needs this, and that a        *)
(* coroutine that has not ended can take a step.)                          *)
THEOREM ListIsBounded ==
  Spec => [][StepsLeft' \in Nat /\ StepsLeft' < StepsLeft]_vars
<1>1. ASSUME Inv, Next PROVE StepsLeft' < StepsLeft
  <2> USE <1>1, ItemsAssumption
          DEF Inv, TypeOK, WorkInv, NextItem, StepsLeft
  <2>1. CASE Start
    BY <2>1 DEF Start
  <2>2. CASE \E moved \in BOOLEAN : Detail(moved)
    BY <2>2 DEF Detail
  <2>3. CASE Volume \/ VolumeEnd
    BY <2>3 DEF Volume, VolumeEnd
  <2>4. CASE Fundamentals \/ FundamentalsEnd
    BY <2>4 DEF Fundamentals, FundamentalsEnd
  <2>5. CASE StatsContract \/ StatsStored \/ StatsComputed
    BY <2>5 DEF StatsContract, StatsStored, StatsComputed
  <2>6. CASE StatsEnd \/ StatsFails
    BY <2>6 DEF StatsEnd, StatsFails
  <2> QED
    BY <1>1, <2>1, <2>2, <2>3, <2>4, <2>5, <2>6 DEF Next
<1>2. Inv /\ Inv' /\ [Next]_vars
        => [StepsLeft' \in Nat /\ StepsLeft' < StepsLeft]_vars
  <2>1. Inv' => StepsLeft' \in Nat
    BY ItemsAssumption DEF Inv, TypeOK, WorkInv, StepsLeft
  <2> QED
    BY <1>1, <2>1
<1> QED
  BY <1>2, InitInv, InvStep, PTL DEF Spec
=============================================================================
