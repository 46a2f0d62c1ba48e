------------------------- MODULE OrderNoticesProofs -------------------------
(***************************************************************************)
(* Proofs about OrderNotices for any sessions, orders and pool threads:    *)
(* which notices are withheld, and from whom; and, as long as no two tasks *)
(* run at once, that it is the first of an order and that the others come  *)
(* in order. The tasks are taken from a queue, so that what was announced, *)
(* what is being announced and what will be follow each other.             *)
(***************************************************************************)
EXTENDS OrderNotices, TLAPS

(* Every step keeps the types.                                             *)
LEMMA TypeStep == TypeOK /\ [Next]_vars => TypeOK'
<1> SUFFICES ASSUME TypeOK, [Next]_vars PROVE TypeOK'
    OBVIOUS
<1> USE BoundsAssumption DEF TypeOK, SessionPK
<1>1. CASE Connect
  BY <1>1 DEF Connect
<1>2. ASSUME NEW s \in sessions, Disconnect(s) PROVE TypeOK'
  BY <1>2 DEF Disconnect
<1>3. ASSUME NEW s \in SessionPK, NEW o \in Order, AddOrder(s, o) PROVE TypeOK'
  BY <1>3 DEF AddOrder
<1>4. ASSUME NEW o \in Order, PlaceOrder(o) PROVE TypeOK'
  BY <1>4 DEF PlaceOrder
<1>5. ASSUME NEW o \in Order, Answer(o) PROVE TypeOK'
  BY <1>5 DEF Answer
<1>6. ASSUME NEW o \in Order, OnOrderChange(o) PROVE TypeOK'
  <2>1. changes[o] + 1 \in 1..MaxChange
    BY <1>6 DEF OnOrderChange
  <2>2. [order |-> o, change |-> changes[o] + 1] \in Notice
    BY <2>1 DEF Notice
  <2> QED
    BY <1>6, <2>1, <2>2 DEF OnOrderChange
<1>7. CASE CoForEachSession
  <2>1. /\ pool # <<>>
        /\ Head(pool) \in Notice /\ Tail(pool) \in Seq(Notice)
    BY <1>7 DEF CoForEachSession
  <2>2. [notice |-> Head(pool), todo |-> sessions]
          \in [notice : Notice, todo : SUBSET SessionPK]
    BY <2>1
  <2> QED
    BY <1>7, <2>1, <2>2 DEF CoForEachSession
<1>8. ASSUME NEW task \in running, NEW s \in SessionPK, Visit(task, s)
      PROVE TypeOK'
  <2>1. task.notice \in Notice /\ task.notice.order \in Order
    BY DEF Notice
  <2>2. [task EXCEPT !.todo = @ \ {s}]
          \in [notice : Notice, todo : SUBSET SessionPK]
    OBVIOUS
  <2>3. running' \subseteq [notice : Notice, todo : SUBSET SessionPK]
    BY <1>8, <2>2 DEF Visit
  <2>4. sessionOrders' \in [SessionPK -> SUBSET Order]
    <3>1. \/ UNCHANGED sessionOrders
          \/ sessionOrders' =
               [sessionOrders EXCEPT ![s] = @ \ {task.notice.order}]
      BY <1>8 DEF Visit
    <3>2. sessionOrders[s] \ {task.notice.order} \in SUBSET Order
      OBVIOUS
    <3>3. CASE UNCHANGED sessionOrders
      BY <3>3
    <3>4. CASE sessionOrders' =
                 [sessionOrders EXCEPT ![s] = @ \ {task.notice.order}]
      BY <3>2, <3>4, Zenon
    <3> QED
      BY <3>1, <3>3, <3>4
  <2>5. withheld' \in [SessionPK -> SUBSET Notice]
    <3>1. \/ UNCHANGED withheld
          \/ withheld' = [withheld EXCEPT ![s] = @ \cup {task.notice}]
      BY <1>8 DEF Visit
    <3> QED
      BY <3>1, <2>1
  <2>6. told' \in [SessionPK -> Seq(Notice)]
    <3>1. told[s] \in Seq(Notice)
      OBVIOUS
    <3>2. Append(told[s], task.notice) \in Seq(Notice)
      BY <3>1, <2>1
    <3> QED
      BY <1>8, <3>2 DEF Visit
  <2> QED
    BY <1>8, <2>3, <2>4, <2>5, <2>6 DEF Visit
<1>9. ASSUME NEW task \in running, TaskEnds(task) PROVE TypeOK'
  BY <1>9 DEF TaskEnds
<1>10. CASE UNCHANGED vars
  BY <1>10 DEF vars
<1> QED
  BY <1>1, <1>2, <1>3, <1>4, <1>5, <1>6, <1>7, <1>8, <1>9, <1>10
  DEF Next, RunTask

LEMMA TypeInit == Init => TypeOK
BY BoundsAssumption DEF Init, TypeOK, SessionPK

(* TypeOK.                                                                 *)
THEOREM Typing == Spec => []TypeOK
BY TypeInit, TypeStep, PTL DEF Spec

-----------------------------------------------------------------------------
(* What a visit does, one line per case of the code.                       *)
LEMMA VisitEffect ==
  ASSUME TypeOK, NEW task \in running, NEW s \in SessionPK, Visit(task, s)
  PROVE  /\ UNCHANGED <<placing, owner, pool>>
         /\ task.notice \in Notice /\ task.notice.order \in Order
         /\ \A t \in running' : \E u \in running : t.notice = u.notice
         /\ \/ UNCHANGED <<sessionOrders, told, withheld>>
            \/ /\ task.notice.order \in sessionOrders[s]
               /\ sessionOrders' =
                    [sessionOrders EXCEPT ![s] = @ \ {task.notice.order}]
               /\ withheld' = [withheld EXCEPT ![s] = @ \cup {task.notice}]
               /\ UNCHANGED told
            \/ /\ task.notice.order \notin sessionOrders[s]
               /\ told' = [told EXCEPT ![s] = Append(@, task.notice)]
               /\ UNCHANGED <<sessionOrders, withheld>>
<1>1. task \in [notice : Notice, todo : SUBSET SessionPK]
  BY DEF TypeOK
<1>2. task.notice \in Notice /\ task.notice.order \in Order
  BY <1>1 DEF Notice
<1>3. running' = (running \ {task}) \cup {[task EXCEPT !.todo = @ \ {s}]}
  BY DEF Visit
<1>4. [task EXCEPT !.todo = @ \ {s}].notice = task.notice
  BY <1>1
<1>5. \A t \in running' : \E u \in running : t.notice = u.notice
  BY <1>3, <1>4
<1> QED
  BY <1>2, <1>5 DEF Visit

(* A session hears of one notice more.                                     *)
LEMMA ToldAppend ==
  ASSUME TypeOK, NEW s \in SessionPK, NEW n \in Notice,
         told' = [told EXCEPT ![s] = Append(@, n)]
  PROVE  \A t \in SessionPK : \A m \in Told(t)' :
           m \in Told(t) \/ (t = s /\ m = n)
<1> SUFFICES ASSUME NEW t \in SessionPK, NEW m \in Told(t)'
             PROVE  m \in Told(t) \/ (t = s /\ m = n)
    OBVIOUS
<1>1. CASE t # s
  BY <1>1 DEF TypeOK, Told
<1>2. CASE t = s
  <2>1. told'[s] = Append(told[s], n) /\ told[s] \in Seq(Notice)
    BY DEF TypeOK
  <2>2. PICK k \in DOMAIN told'[s] : m = told'[s][k]
    BY <1>2 DEF Told
  <2>3. (k \in DOMAIN told[s] /\ told'[s][k] = told[s][k]) \/ told'[s][k] = n
    BY <2>1
  <2> QED
    BY <1>2, <2>2, <2>3 DEF Told
<1> QED
  BY <1>1, <1>2

-----------------------------------------------------------------------------
(* What is announced.                                                      *)
LEMMA AnnouncedStep ==
  ASSUME TypeOK, [Next]_vars
  PROVE  /\ \A n \in Announced : n \in Notice /\ n.order \in Order
         /\ \A n \in Announced' :
              \/ n \in Announced
              \/ \E o \in Order :
                   /\ OnOrderChange(o)
                   /\ n = [order |-> o, change |-> changes[o] + 1]
<1>1. \A n \in Announced : n \in Notice /\ n.order \in Order
  <2>1. \A n \in Announced : n \in Notice
    BY DEF Announced, TypeOK, Told
  <2> QED
    BY <2>1 DEF Notice
<1>2. ASSUME UNCHANGED <<pool, told, withheld>>, running' \subseteq running
      PROVE  \A n \in Announced' : n \in Announced
  BY <1>2 DEF Announced, Told
<1>3. CASE \/ Connect \/ \E s \in sessions : Disconnect(s)
           \/ \E s \in SessionPK, o \in Order : AddOrder(s, o)
           \/ \E o \in Order : PlaceOrder(o) \/ Answer(o)
           \/ \E task \in running : TaskEnds(task)
           \/ UNCHANGED vars
  <2>1. UNCHANGED <<pool, told, withheld>> /\ running' \subseteq running
    BY <1>3 DEF Connect, Disconnect, AddOrder, PlaceOrder, Answer, TaskEnds,
                vars
  <2> QED
    BY <1>1, <1>2, <2>1
<1>4. ASSUME NEW o \in Order, OnOrderChange(o)
      PROVE  \A n \in Announced' :
               n \in Announced \/ n = [order |-> o, change |-> changes[o] + 1]
  <2> DEFINE new == [order |-> o, change |-> changes[o] + 1]
  <2>1. pool' = Append(pool, new) /\ pool \in Seq(Notice)
    BY <1>4 DEF OnOrderChange, TypeOK
  <2>2. \A k \in DOMAIN pool' :
          \/ k \in DOMAIN pool /\ pool'[k] = pool[k]
          \/ pool'[k] = new
    BY <2>1
  <2>3. UNCHANGED <<running, told, withheld>>
    BY <1>4 DEF OnOrderChange
  <2> HIDE DEF new
  <2>4. \A n \in Announced' : n \in Announced \/ n = new
    BY <2>2, <2>3 DEF Announced, Told
  <2> QED
    BY <2>4 DEF new
<1>5. CASE CoForEachSession
  <2>1. /\ pool # <<>> /\ pool \in Seq(Notice)
        /\ pool' = Tail(pool)
        /\ UNCHANGED <<told, withheld>>
        /\ running' = running \cup {[notice |-> Head(pool), todo |-> sessions]}
    BY <1>5 DEF CoForEachSession, TypeOK
  <2>2. \A k \in DOMAIN pool' :
          k + 1 \in DOMAIN pool /\ pool'[k] = pool[k + 1]
    BY <2>1
  <2>3. 1 \in DOMAIN pool /\ Head(pool) = pool[1]
    BY <2>1
  <2>4. \A t \in running' : t \in running \/ t.notice = pool[1]
    BY <2>1, <2>3
  <2>5. \A n \in Announced' : n \in Announced
    BY <2>1, <2>2, <2>3, <2>4 DEF Announced, Told
  <2> QED
    BY <1>1, <2>5
<1>6. ASSUME NEW task \in running, NEW s \in SessionPK, Visit(task, s)
      PROVE  \A n \in Announced' : n \in Announced
  <2>1. task.notice \in Announced
    BY DEF Announced
  <2>2. \A t \in SessionPK : \A w \in withheld'[t] :
          w \in withheld[t] \/ w = task.notice
    <3>1. \/ UNCHANGED withheld
          \/ withheld' = [withheld EXCEPT ![s] = @ \cup {task.notice}]
      BY <1>6, VisitEffect
    <3>2. \A t \in SessionPK :
            withheld'[t] \subseteq withheld[t] \cup {task.notice}
      <4>1. withheld \in [SessionPK -> SUBSET Notice]
        BY DEF TypeOK
      <4> QED
        BY <3>1, <4>1
    <3> QED
      BY <3>2
  <2>3. \A t \in SessionPK : \A m \in Told(t)' :
          m \in Told(t) \/ m = task.notice
    <3>1. CASE UNCHANGED told
      BY <3>1 DEF Told
    <3>2. CASE told' = [told EXCEPT ![s] = Append(@, task.notice)]
      BY <3>2, <1>6, VisitEffect, ToldAppend
    <3> QED
      BY <3>1, <3>2, <1>6, VisitEffect
  <2>4. /\ pool' = pool
        /\ \A t \in running' : \E u \in running : t.notice = u.notice
    BY <1>6, VisitEffect
  <2> QED
    BY <2>1, <2>2, <2>3, <2>4 DEF Announced
<1> QED
  BY <1>1, <1>3, <1>4, <1>5, <1>6 DEF Next, RunTask

LEMMA LiveStep == TypeOK /\ LiveInv /\ [Next]_vars => LiveInv'
<1> SUFFICES ASSUME TypeOK, LiveInv, [Next]_vars, NEW n \in Announced'
             PROVE  Live(n.order)'
    BY DEF LiveInv
<1>1. ASSUME NEW o \in Order, Live(o) PROVE Live(o)'
  BY <1>1 DEF Next, Connect, Disconnect, AddOrder, PlaceOrder, Answer,
         OnOrderChange, CoForEachSession, RunTask, Visit, TaskEnds, vars,
         Live, TypeOK
<1>2. CASE n \in Announced
  BY <1>1, <1>2, AnnouncedStep DEF LiveInv
<1>3. ASSUME NEW o \in Order, OnOrderChange(o),
             n = [order |-> o, change |-> changes[o] + 1]
      PROVE  Live(n.order)'
  BY <1>1, <1>3 DEF OnOrderChange
<1> QED
  BY <1>2, <1>3, AnnouncedStep

(* The orders the sessions heard of, or had withheld, are live.            *)
LEMMA HeardOrders ==
  ASSUME TypeOK, LiveInv, NEW t \in SessionPK, NEW n \in Told(t) \cup withheld[t]
  PROVE  n.order \in Order /\ Live(n.order)
<1>1. n \in Announced
  BY DEF Announced
<1>2. n \in Notice
  BY DEF TypeOK, Told
<1> QED
  BY <1>1, <1>2 DEF LiveInv, Notice

LEMMA LiveInit == Init => LiveInv
BY DEF Init, LiveInv, Announced, Told

-----------------------------------------------------------------------------
(* Who placed what.                                                        *)
LEMMA RecordStep ==
  TypeOK /\ LiveInv /\ RecordInv /\ [Next]_vars => RecordInv'
<1> SUFFICES ASSUME TypeOK, LiveInv, RecordInv, [Next]_vars PROVE RecordInv'
    OBVIOUS
<1> USE DEF RecordInv, WithheldOnce
<1>1. CASE UNCHANGED <<placing, owner, sessionOrders, withheld>>
  BY <1>1
<1>2. CASE \/ Connect \/ \E s \in sessions : Disconnect(s)
           \/ \E o \in Order : OnOrderChange(o)
           \/ CoForEachSession
           \/ \E task \in running : TaskEnds(task)
           \/ UNCHANGED vars
  BY <1>1, <1>2 DEF Connect, Disconnect, OnOrderChange, CoForEachSession,
                    TaskEnds, vars
<1>3. ASSUME NEW s \in SessionPK, NEW o \in Order, AddOrder(s, o)
      PROVE  RecordInv'
  <2>1. /\ placing[o] = "none" /\ o \notin Foreign
        /\ placing'[o] = "added" /\ owner'[o] = s
        /\ sessionOrders'[s] = sessionOrders[s] \cup {o}
        /\ withheld' = withheld
    BY <1>3 DEF AddOrder, TypeOK
  <2>2. /\ \A p \in Order \ {o} : placing'[p] = placing[p] /\ owner'[p] = owner[p]
        /\ \A t \in SessionPK \ {s} : sessionOrders'[t] = sessionOrders[t]
    BY <1>3 DEF AddOrder, TypeOK
  <2>3. \A t \in SessionPK : \A w \in withheld[t] : w.order \in Order \ {o}
    <3>1. ~Live(o)
      BY <2>1 DEF Live
    <3> QED
      BY <3>1, HeardOrders
  <2>4. \A t \in SessionPK : \A p \in sessionOrders[t] : p \in Order \ {o}
    <3>1. owner[o] = 0
      BY <2>1
    <3>2. \A t \in SessionPK : t # 0 /\ sessionOrders[t] \subseteq Order
      BY BoundsAssumption DEF TypeOK, SessionPK
    <3> QED
      BY <3>1, <3>2
  <2> QED
    BY <2>1, <2>2, <2>3, <2>4
<1>4. ASSUME NEW o \in Order, PlaceOrder(o) \/ Answer(o) PROVE RecordInv'
  <2>1. /\ placing[o] # "none" /\ placing'[o] # "none"
        /\ \A p \in Order \ {o} : placing'[p] = placing[p]
        /\ UNCHANGED <<owner, sessionOrders, withheld>>
    BY <1>4 DEF PlaceOrder, Answer, TypeOK
  <2> QED
    BY <2>1
<1>5. ASSUME NEW task \in running, NEW s \in SessionPK, Visit(task, s)
      PROVE  RecordInv'
  <2>1. CASE UNCHANGED <<sessionOrders, withheld>>
    BY <2>1, <1>1, <1>5, VisitEffect
  <2>2. CASE /\ task.notice.order \in sessionOrders[s]
             /\ sessionOrders' =
                  [sessionOrders EXCEPT ![s] = @ \ {task.notice.order}]
             /\ withheld' = [withheld EXCEPT ![s] = @ \cup {task.notice}]
    <3> DEFINE o == task.notice.order
    <3>1. /\ o \in Order /\ owner[o] = s
          /\ UNCHANGED <<owner, placing>>
      <4>1. o \in Order /\ UNCHANGED <<owner, placing>>
        BY <1>5, VisitEffect
      <4> QED
        BY <2>2, <4>1
    <3>2. /\ sessionOrders'[s] = sessionOrders[s] \ {o}
          /\ withheld'[s] = withheld[s] \cup {task.notice}
          /\ \A t \in SessionPK \ {s} :
               sessionOrders'[t] = sessionOrders[t] /\ withheld'[t] = withheld[t]
      BY <2>2 DEF TypeOK
    <3>3. \A t \in SessionPK : \A w \in withheld[t] : w.order # o
      BY <2>2, <3>1
    <3>4. \A t \in SessionPK : o \notin sessionOrders'[t]
      BY <3>1, <3>2
    <3>5. task.notice.order = o
      OBVIOUS
    <3> HIDE DEF o
    <3>6. \A p \in Order : placing'[p] # "none" =>
            \/ p \in sessionOrders'[owner'[p]]
            \/ \E w \in withheld'[owner'[p]] : w.order = p
      <4> SUFFICES ASSUME NEW p \in Order, placing[p] # "none"
                   PROVE  \/ p \in sessionOrders'[owner[p]]
                          \/ \E w \in withheld'[owner[p]] : w.order = p
        BY <3>1
      <4>1. CASE p = o
        BY <4>1, <3>1, <3>2, <3>5
      <4>2. CASE p # o
        BY <4>2, <3>2
      <4> QED
        BY <4>1, <4>2
    <3>7. \A t, u \in SessionPK : \A w \in withheld'[t], x \in withheld'[u] :
            owner[w.order] = t /\ (w.order = x.order => w = x)
      BY <3>1, <3>2, <3>3, <3>5
    <3>8. \A t \in SessionPK : \A p \in sessionOrders'[t] :
            owner[p] = t /\ \A w \in withheld'[t] : w.order # p
      BY <3>2, <3>4, <3>5
    <3> QED
      BY <3>1, <3>6, <3>7, <3>8
  <2> QED
    BY <2>1, <2>2, <1>5, VisitEffect
<1> QED
  BY <1>2, <1>3, <1>4, <1>5 DEF Next, RunTask

LEMMA RecordInit == Init => RecordInv
BY DEF Init, RecordInv, WithheldOnce

LEMMA Recorded == Spec => [](TypeOK /\ LiveInv /\ RecordInv)
BY TypeInit, TypeStep, LiveInit, LiveStep, RecordInit, RecordStep, PTL DEF Spec

(* WithheldOnce: the owner of an order, and nobody else, misses one change *)
(* of it at most, with any number of pool threads.                         *)
THEOREM OneRecordOneNotice == Spec => []WithheldOnce
<1>1. RecordInv => WithheldOnce
  BY DEF RecordInv
<1> QED
  BY <1>1, Recorded, PTL

-----------------------------------------------------------------------------
LEMMA FirstStep ==
  TypeOK /\ LiveInv /\ RecordInv /\ OneIsWithheldFirst /\ [Next]_vars
    => OneIsWithheldFirst'
<1> SUFFICES ASSUME TypeOK, LiveInv, RecordInv, OneIsWithheldFirst, [Next]_vars
             PROVE  OneIsWithheldFirst'
    OBVIOUS
<1>1. ASSUME UNCHANGED <<owner, told>>,
             \A t \in SessionPK : withheld[t] \subseteq withheld'[t]
      PROVE  OneIsWithheldFirst'
  BY <1>1 DEF Told, OneIsWithheldFirst
<1>2. CASE \/ Connect \/ \E s \in sessions : Disconnect(s)
           \/ \E o \in Order : PlaceOrder(o) \/ Answer(o) \/ OnOrderChange(o)
           \/ CoForEachSession
           \/ \E task \in running : TaskEnds(task)
           \/ UNCHANGED vars
  BY <1>1, <1>2 DEF Connect, Disconnect, PlaceOrder, Answer, OnOrderChange,
                    CoForEachSession, TaskEnds, vars
<1>3. ASSUME NEW s \in SessionPK, NEW o \in Order, AddOrder(s, o)
      PROVE  OneIsWithheldFirst'
  <2>1. ~Live(o) /\ UNCHANGED <<told, withheld>>
    BY <1>3 DEF AddOrder, Live
  <2>2. \A t \in SessionPK : \A n \in Told(t) : n.order \in Order \ {o}
    BY <2>1, HeardOrders
  <2>3. \A p \in Order \ {o} : owner'[p] = owner[p]
    BY <1>3 DEF AddOrder, TypeOK
  <2> QED
    BY <2>1, <2>2, <2>3 DEF OneIsWithheldFirst, Told
<1>4. ASSUME NEW task \in running, NEW s \in SessionPK, Visit(task, s)
      PROVE  OneIsWithheldFirst'
  <2>1. CASE UNCHANGED told
    <3>1. /\ \/ UNCHANGED withheld
             \/ withheld' = [withheld EXCEPT ![s] = @ \cup {task.notice}]
          /\ UNCHANGED owner
      BY <1>4, VisitEffect
    <3>2. \A t \in SessionPK : withheld[t] \subseteq withheld'[t]
      BY <3>1 DEF TypeOK
    <3> QED
      BY <2>1, <3>1, <3>2, <1>1
  <2>2. CASE /\ task.notice.order \notin sessionOrders[s]
             /\ told' = [told EXCEPT ![s] = Append(@, task.notice)]
             /\ UNCHANGED <<sessionOrders, withheld>>
    <3>1. \A t \in SessionPK : \A n \in Told(t)' :
            n \in Told(t) \/ (t = s /\ n = task.notice)
      BY <2>2, <1>4, VisitEffect, ToldAppend
    <3>2. task.notice.order \in Order /\ UNCHANGED owner
      BY <1>4, VisitEffect
    <3>3. owner[task.notice.order] = s =>
            \E w \in withheld[s] : w.order = task.notice.order
      BY <2>2, <3>2 DEF RecordInv, SessionPK
    <3> QED
      BY <2>2, <3>1, <3>2, <3>3 DEF OneIsWithheldFirst
  <2> QED
    BY <2>1, <2>2, <1>4, VisitEffect
<1> QED
  BY <1>2, <1>3, <1>4 DEF Next, RunTask

(* OneIsWithheldFirst: no interleaving of the placing of an order, the     *)
(* reports of TWS and the tasks of the pool lets the owner hear of a       *)
(* change before one was withheld.                                         *)
THEOREM OwnerSpared == Spec => []OneIsWithheldFirst
<1>1. Init => OneIsWithheldFirst
  BY DEF Init, OneIsWithheldFirst, Told
<1> QED
  BY <1>1, Recorded, FirstStep, PTL DEF Spec

-----------------------------------------------------------------------------
(* With one task at a time: the changes of an order come in order.         *)
LEMMA ReportedStep ==
  TypeOK /\ ReportedInv /\ [Next]_vars => ReportedInv'
<1> SUFFICES ASSUME TypeOK, ReportedInv, [Next]_vars PROVE ReportedInv'
    OBVIOUS
<1>1. \A o \in Order : Live(o) => Live(o)'
  BY DEF Next, Connect, Disconnect, AddOrder, PlaceOrder, Answer,
         OnOrderChange, CoForEachSession, RunTask, Visit, TaskEnds, vars,
         Live, TypeOK
<1>2. \/ changes' = changes
      \/ \E o \in Order : OnOrderChange(o)
  BY DEF Next, Connect, Disconnect, AddOrder, PlaceOrder, Answer,
         CoForEachSession, RunTask, Visit, TaskEnds, vars
<1>3. ASSUME NEW o \in Order, OnOrderChange(o)
      PROVE  /\ Live(o) /\ changes[o] \in Nat /\ changes'[o] = changes[o] + 1
             /\ \A p \in Order \ {o} : changes'[p] = changes[p]
  BY <1>3 DEF OnOrderChange, TypeOK
<1>4. \A p \in Order : /\ changes[p] \in Nat /\ changes'[p] \in Nat
                        /\ changes[p] <= changes'[p]
  <2>1. \A p \in Order : changes[p] \in Nat
    BY DEF TypeOK
  <2> QED
    BY <1>2, <1>3, <2>1
<1>5. ASSUME NEW n \in Announced' PROVE n.change <= changes'[n.order]
  <2>1. CASE n \in Announced
    <3>1. n.order \in Order /\ n.change \in Int /\ n.change <= changes[n.order]
      BY <2>1, AnnouncedStep DEF ReportedInv, Notice
    <3> QED
      BY <1>4, <3>1
  <2>2. ASSUME NEW o \in Order, OnOrderChange(o),
               n = [order |-> o, change |-> changes[o] + 1]
        PROVE  n.change <= changes'[n.order]
    <3>1. n.order = o /\ n.change = changes[o] + 1
      BY <2>2
    <3>2. changes'[o] \in Int /\ n.change = changes'[o]
      BY <1>3, <2>2, <3>1
    <3> QED
      BY <3>1, <3>2
  <2> QED
    BY <2>1, <2>2, AnnouncedStep
<1>6. \A o \in Order : changes'[o] > 0 => Live(o)'
  BY <1>1, <1>2, <1>3 DEF ReportedInv
<1> QED
  BY <1>5, <1>6 DEF ReportedInv

LEMMA SequenceStep ==
  TypeOK /\ ReportedInv /\ SequenceInv /\ OneTask /\ [Next]_vars
    => SequenceInv'
<1> SUFFICES ASSUME TypeOK, ReportedInv, SequenceInv, OneTask, [Next]_vars
             PROVE  SequenceInv'
    OBVIOUS
<1>1. ASSUME UNCHANGED <<pool, told>>, running' \subseteq running
      PROVE  SequenceInv'
  <2>1. UNCHANGED Ordered /\ \A s \in SessionPK : Told(s)' = Told(s)
    BY <1>1 DEF Ordered, Told
  <2>2. \A task \in running : task.todo \subseteq SessionPK
    BY DEF TypeOK
  <2> QED
    BY <1>1, <2>1, <2>2 DEF SequenceInv
<1>2. CASE \/ Connect \/ \E s \in sessions : Disconnect(s)
           \/ \E s \in SessionPK, o \in Order : AddOrder(s, o)
           \/ \E o \in Order : PlaceOrder(o) \/ Answer(o)
           \/ \E task \in running : TaskEnds(task)
           \/ UNCHANGED vars
  <2>1. UNCHANGED <<pool, told>> /\ running' \subseteq running
    BY <1>2 DEF Connect, Disconnect, AddOrder, PlaceOrder, Answer, TaskEnds,
                vars
  <2> QED
    BY <1>1, <2>1
<1>3. ASSUME NEW o \in Order, OnOrderChange(o) PROVE SequenceInv'
  <2> PICK new : new = [order |-> o, change |-> changes[o] + 1]
    OBVIOUS
  <2> PICK N \in Nat : N = Len(pool)
    BY DEF TypeOK
  <2>1. /\ DOMAIN pool = 1..N /\ DOMAIN pool' = 1..N + 1
        /\ \A k \in 1..N : pool'[k] = pool[k]
        /\ pool'[N + 1] = new
    BY <1>3 DEF OnOrderChange, TypeOK
  <2>2. /\ UNCHANGED <<running, Ordered>>
        /\ \A s \in SessionPK : Told(s)' = Told(s)
    BY <1>3 DEF OnOrderChange, Ordered, Told
  <2>3. \A n \in Announced : Earlier(n, new)
    <3>1. changes[o] \in Int /\ new.order = o /\ new.change = changes[o] + 1
      BY DEF TypeOK
    <3>2. \A n \in Announced : n.change \in Int /\ n.change <= changes[n.order]
      BY AnnouncedStep DEF ReportedInv, Notice
    <3> QED
      BY <3>1, <3>2 DEF Earlier
  <2>4. /\ \A k \in 1..N : Earlier(pool[k], new)
        /\ \A task \in running : Earlier(task.notice, new)
        /\ \A s \in SessionPK : \A n \in Told(s) : Earlier(n, new)
    BY <2>1, <2>3 DEF Announced
  <2>5. /\ \A k \in 1..N + 1 : k \in 1..N \/ k = N + 1
        /\ \A j, k \in 1..N + 1 : j < k => j \in 1..N
    OBVIOUS
  <2>6. \A j, k \in 1..N + 1 : j < k => Earlier(pool'[j], pool'[k])
    <3> SUFFICES ASSUME NEW j \in 1..N + 1, NEW k \in 1..N + 1, j < k
                 PROVE  Earlier(pool'[j], pool'[k])
      OBVIOUS
    <3>1. j \in 1..N /\ pool'[j] = pool[j]
      BY <2>1, <2>5
    <3>2. CASE k \in 1..N
      BY <2>1, <3>1, <3>2 DEF SequenceInv
    <3>3. CASE k = N + 1
      BY <2>1, <2>4, <3>1, <3>3
    <3> QED
      BY <2>5, <3>2, <3>3
  <2>7. \A k \in 1..N + 1 :
          /\ \A task \in running : Earlier(task.notice, pool'[k])
          /\ \A s \in SessionPK : \A n \in Told(s) : Earlier(n, pool'[k])
    <3> SUFFICES ASSUME NEW k \in 1..N + 1
                 PROVE
          /\ \A task \in running : Earlier(task.notice, pool'[k])
          /\ \A s \in SessionPK : \A n \in Told(s) : Earlier(n, pool'[k])
      OBVIOUS
    <3>1. CASE k \in 1..N
      BY <2>1, <3>1 DEF SequenceInv
    <3>2. CASE k = N + 1
      BY <2>1, <2>4, <3>2
    <3> QED
      BY <2>5, <3>1, <3>2
  <2>8. \A task \in running : task.todo \subseteq SessionPK
    BY DEF TypeOK
  <2> QED
    BY <2>1, <2>2, <2>6, <2>7, <2>8 DEF SequenceInv
<1>4. CASE CoForEachSession
  <2> PICK N \in Nat : N = Len(pool)
    BY DEF TypeOK
  <2> PICK new : new = [notice |-> Head(pool), todo |-> sessions]
    OBVIOUS
  <2>1. /\ DOMAIN pool = 1..N /\ DOMAIN pool' = 1..N - 1 /\ 1 \in 1..N
        /\ \A k \in 1..N - 1 : pool'[k] = pool[k + 1]
        /\ new.notice = pool[1] /\ new.todo = sessions
        /\ running' = running \cup {new}
    BY <1>4 DEF CoForEachSession, TypeOK
  <2>2. /\ UNCHANGED Ordered
        /\ \A s \in SessionPK : Told(s)' = Told(s)
    BY <1>4 DEF CoForEachSession, Ordered, Told
  <2>3. /\ \A k \in 1..N - 1 : k + 1 \in 1..N /\ 1 < k + 1
        /\ \A j, k \in 1..N - 1 : j < k => j + 1 < k + 1
    OBVIOUS
  <2>4. \A j, k \in 1..N - 1 : j < k => Earlier(pool'[j], pool'[k])
    BY <2>1, <2>3 DEF SequenceInv
  <2>5. \A k \in 1..N - 1 :
          /\ \A task \in running \cup {new} : Earlier(task.notice, pool'[k])
          /\ \A s \in SessionPK : \A n \in Told(s) : Earlier(n, pool'[k])
    BY <2>1, <2>3 DEF SequenceInv
  <2>6. \A task \in running \cup {new} : \A s \in task.todo :
          /\ s \in SessionPK
          /\ \A n \in Told(s) : Earlier(n, task.notice)
    BY <2>1 DEF SequenceInv, TypeOK
  <2> QED
    BY <2>1, <2>2, <2>4, <2>5, <2>6 DEF SequenceInv
<1>5. ASSUME NEW task \in running, NEW s \in SessionPK, Visit(task, s)
      PROVE  SequenceInv'
  <2> PICK rest : rest = [task EXCEPT !.todo = @ \ {s}]
    OBVIOUS
  <2>1. /\ rest.notice = task.notice /\ rest.todo = task.todo \ {s}
        /\ s \in task.todo /\ task.todo \subseteq SessionPK
        /\ task.notice \in Notice
        /\ running' = {rest} /\ pool' = pool
    <3>1. task \in [notice : Notice, todo : SUBSET SessionPK]
      BY DEF TypeOK
    <3>2. /\ running' = (running \ {task}) \cup {rest}
          /\ s \in task.todo /\ pool' = pool
      BY <1>5 DEF Visit, IsNext
    <3>3. running = {task}
      BY DEF OneTask
    <3> QED
      BY <3>1, <3>2, <3>3
  <2>2. /\ \A t \in SessionPK : \A m \in Told(t)' :
             m \in Told(t) \/ (t = s /\ m = task.notice)
        /\ Ordered'
    <3>1. CASE UNCHANGED told
      BY <3>1 DEF Told, Ordered, SequenceInv
    <3>2. CASE told' = [told EXCEPT ![s] = Append(@, task.notice)]
      <4>1. \A t \in SessionPK : \A m \in Told(t)' :
              m \in Told(t) \/ (t = s /\ m = task.notice)
        BY <2>1, <3>2, ToldAppend
      <4>0. told[s] \in Seq(Notice)
        BY DEF TypeOK
      <4> PICK N \in Nat : N = Len(told[s])
        BY <4>0
      <4>2. /\ DOMAIN told[s] = 1..N /\ DOMAIN told'[s] = 1..N + 1
            /\ \A k \in 1..N : told'[s][k] = told[s][k]
            /\ told'[s][N + 1] = task.notice
            /\ \A t \in SessionPK \ {s} : told'[t] = told[t]
        BY <3>2, <4>0 DEF TypeOK
      <4>3. \A k \in 1..N : Earlier(told[s][k], task.notice)
        BY <2>1, <4>2 DEF SequenceInv, Told
      <4>4. ASSUME NEW j \in 1..N + 1, NEW k \in 1..N + 1, j < k,
                   told'[s][j].order = told'[s][k].order
            PROVE  told'[s][j].change < told'[s][k].change
        <5>1. j \in 1..N
          BY <4>4
        <5>2. CASE k \in 1..N
          <6>1. /\ told'[s][j] = told[s][j] /\ told'[s][k] = told[s][k]
                /\ j \in DOMAIN told[s] /\ k \in DOMAIN told[s]
            BY <4>2, <5>1, <5>2
          <6> QED
            BY <4>4, <6>1 DEF SequenceInv, Ordered
        <5>3. CASE k = N + 1
          BY <4>2, <4>3, <4>4, <5>1, <5>3 DEF Earlier
        <5> QED
          BY <5>2, <5>3
      <4>5. Ordered'
        <5> SUFFICES ASSUME NEW t \in SessionPK, NEW j \in DOMAIN told'[t],
                            NEW k \in DOMAIN told'[t], j < k,
                            told'[t][j].order = told'[t][k].order
                     PROVE  told'[t][j].change < told'[t][k].change
          BY DEF Ordered
        <5>1. CASE t = s
          BY <4>2, <4>4, <5>1
        <5>2. CASE t # s
          <6>1. told'[t] = told[t]
            BY <4>2, <5>2
          <6> QED
            BY <6>1 DEF SequenceInv, Ordered
        <5> QED
          BY <5>1, <5>2
      <4> QED
        BY <4>1, <4>5
    <3> QED
      BY <1>5, <3>1, <3>2, VisitEffect
  <2>3. \A k \in DOMAIN pool :
          /\ Earlier(rest.notice, pool[k])
          /\ \A t \in SessionPK : \A n \in Told(t)' : Earlier(n, pool[k])
    BY <2>1, <2>2 DEF SequenceInv
  <2>4. \A t \in rest.todo : \A n \in Told(t)' : Earlier(n, rest.notice)
    BY <2>1, <2>2 DEF SequenceInv
  <2> QED
    BY <2>1, <2>2, <2>3, <2>4 DEF SequenceInv
<1> QED
  BY <1>2, <1>3, <1>4, <1>5 DEF Next, RunTask

LEMMA ComingStep ==
  TypeOK /\ LiveInv /\ RecordInv /\ ReportedInv /\ SequenceInv /\ FirstInv
    /\ OneTask /\ [Next]_vars => FirstInv'
<1> SUFFICES ASSUME TypeOK, LiveInv, RecordInv, ReportedInv, SequenceInv,
                    FirstInv, OneTask, [Next]_vars
             PROVE  FirstInv'
    OBVIOUS
<1>0. /\ lastSession \in Int /\ \A o \in Order : owner[o] \in Int
      /\ \A s \in SessionPK : /\ sessionOrders[s] \subseteq Order
                              /\ withheld[s] \subseteq Notice
      /\ sessions \subseteq SessionPK
  BY BoundsAssumption DEF TypeOK
<1>1. ASSUME UNCHANGED <<lastSession, owner, sessionOrders, changes, pool,
                         running, withheld>>,
             sessions' \subseteq sessions
      PROVE  FirstInv'
  BY <1>1 DEF FirstInv, FirstComing, WithheldIsFirst
<1>2. CASE \/ \E s \in sessions : Disconnect(s)
           \/ \E o \in Order : PlaceOrder(o) \/ Answer(o)
           \/ UNCHANGED vars
  BY <1>1, <1>2 DEF Disconnect, PlaceOrder, Answer, vars
<1>3. CASE Connect
  <2> PICK new \in SessionPK : new = lastSession + 1
    BY <1>0, <1>3, BoundsAssumption DEF Connect, SessionPK, TypeOK
  <2>1. /\ lastSession' = new /\ sessions' = sessions \cup {new}
        /\ UNCHANGED <<owner, sessionOrders, changes, pool, running, withheld>>
    BY <1>3 DEF Connect
  <2>2. \A o \in Order : owner[o] <= lastSession /\ owner[o] # new
    BY <1>0 DEF FirstInv
  <2>3. sessionOrders[new] = {} /\ withheld[new] = {}
    <3>1. sessionOrders[new] = {}
      BY <1>0, <2>2 DEF RecordInv
    <3>2. \A w \in withheld[new] : w.order \in Order /\ owner[w.order] = new
      BY <1>0 DEF RecordInv, WithheldOnce, Notice
    <3> QED
      BY <2>2, <3>1, <3>2
  <2>4. \A o \in Order : owner[o] <= new
    BY <1>0, <2>2
  <2> QED
    BY <2>1, <2>3, <2>4 DEF FirstInv, FirstComing, WithheldIsFirst
<1>4. ASSUME NEW s \in SessionPK, NEW o \in Order, AddOrder(s, o)
      PROVE  FirstInv'
  <2>1. /\ s <= lastSession /\ owner'[o] = s
        /\ \A p \in Order \ {o} : owner'[p] = owner[p]
        /\ sessionOrders'[s] = sessionOrders[s] \cup {o}
        /\ \A t \in SessionPK \ {s} : sessionOrders'[t] = sessionOrders[t]
        /\ UNCHANGED <<lastSession, sessions, changes, pool, running, withheld>>
    BY <1>4 DEF AddOrder, TypeOK
  <2>2. ~(changes[o] > 0)
    <3>1. ~Live(o)
      BY <1>4 DEF AddOrder, Live
    <3> QED
      BY <3>1 DEF ReportedInv
  <2>3. \A p \in Order : owner'[p] <= lastSession
    BY <2>1 DEF FirstInv
  <2>4. \A t \in sessions : \A p \in sessionOrders'[t] :
          p = o \/ p \in sessionOrders[t]
    BY <1>0, <2>1
  <2>5. \A t \in sessions : \A p \in sessionOrders'[t] :
          <<t, p>> \in CanRead /\ changes[p] > 0 => FirstComing(t, p)
    BY <2>2, <2>4 DEF FirstInv
  <2> QED
    BY <2>1, <2>3, <2>5 DEF FirstInv, FirstComing, WithheldIsFirst
<1>5. ASSUME NEW o \in Order, OnOrderChange(o) PROVE FirstInv'
  <2> PICK N \in Nat : N = Len(pool)
    BY DEF TypeOK
  <2>1. /\ DOMAIN pool = 1..N /\ DOMAIN pool' = 1..N + 1
        /\ \A k \in 1..N : pool'[k] = pool[k]
        /\ pool'[N + 1] = [order |-> o, change |-> changes[o] + 1]
        /\ \A p \in Order \ {o} : changes'[p] = changes[p]
        /\ changes[o] \in Nat
        /\ UNCHANGED <<lastSession, sessions, owner, sessionOrders, running,
                       withheld>>
    BY <1>5 DEF OnOrderChange, TypeOK
  <2>2. N + 1 \in 1..N + 1 /\ \A k \in 1..N : k \in 1..N + 1
    OBVIOUS
  <2>3. \A s, p : FirstComing(s, p) => FirstComing(s, p)'
    BY <2>1, <2>2 DEF FirstComing
  <2>4. ASSUME NEW s \in sessions, NEW p \in sessionOrders[s],
               <<s, p>> \in CanRead, changes'[p] > 0
        PROVE  FirstComing(s, p)'
    <3>0. p \in Order
      BY <1>0
    <3>1. CASE changes[p] > 0
      BY <2>3, <2>4, <3>1 DEF FirstInv
    <3>2. CASE ~(changes[p] > 0)
      <4>1. p = o
        BY <2>1, <2>4, <3>0, <3>2
      <4>2. changes[o] + 1 = 1
        BY <2>1, <3>2, <4>1
      <4> QED
        BY <2>1, <2>2, <4>1, <4>2 DEF FirstComing
    <3> QED
      BY <3>1, <3>2
  <2> QED
    BY <2>1, <2>4 DEF FirstInv, WithheldIsFirst
<1>6. CASE CoForEachSession
  <2> PICK N \in Nat : N = Len(pool)
    BY DEF TypeOK
  <2> PICK new : new = [notice |-> Head(pool), todo |-> sessions]
    OBVIOUS
  <2>1. /\ DOMAIN pool = 1..N /\ DOMAIN pool' = 1..N - 1 /\ 1 \in 1..N
        /\ \A k \in 1..N - 1 : pool'[k] = pool[k + 1]
        /\ new.notice = pool[1] /\ new.todo = sessions
        /\ running' = running \cup {new}
        /\ UNCHANGED <<lastSession, sessions, owner, sessionOrders, changes,
                       withheld>>
    BY <1>6 DEF CoForEachSession, TypeOK
  <2>2. ASSUME NEW s \in sessions, NEW o, FirstComing(s, o)
        PROVE  FirstComing(s, o)'
    <3> PICK first : first = [order |-> o, change |-> 1]
      OBVIOUS
    <3>1. CASE \E task \in running : task.notice = first /\ s \in task.todo
      BY <2>1, <3>1 DEF FirstComing
    <3>2. ASSUME NEW k \in 1..N, pool[k] = first
          PROVE  FirstComing(s, o)'
      <4>1. CASE k = 1
        BY <2>1, <3>2, <4>1 DEF FirstComing
      <4>2. CASE k # 1
        <5>1. k - 1 \in 1..N - 1 /\ k - 1 + 1 = k
          BY <4>2
        <5>2. k - 1 \in DOMAIN pool' /\ pool'[k - 1] = first
          BY <2>1, <3>2, <5>1
        <5> QED
          BY <5>2 DEF FirstComing
      <4> QED
        BY <4>1, <4>2
    <3> QED
      BY <2>1, <2>2, <3>1, <3>2 DEF FirstComing
  <2> QED
    BY <2>1, <2>2 DEF FirstInv, WithheldIsFirst
<1>7. ASSUME NEW task \in running, TaskEnds(task) PROVE FirstInv'
  <2>1. \A s, o : FirstComing(s, o) => FirstComing(s, o)'
    BY <1>7 DEF FirstComing, TaskEnds
  <2> QED
    BY <1>7, <2>1 DEF FirstInv, WithheldIsFirst, TaskEnds
<1>8. ASSUME NEW task \in running, NEW s \in SessionPK, Visit(task, s)
      PROVE  FirstInv'
  <2> PICK rest : rest = [task EXCEPT !.todo = @ \ {s}]
    OBVIOUS
  <2>1. /\ rest.notice = task.notice /\ rest.todo = task.todo \ {s}
        /\ running' = {rest} /\ running = {task}
        /\ UNCHANGED <<lastSession, sessions, owner, changes, pool>>
    <3>1. task \in [notice : Notice, todo : SUBSET SessionPK]
      BY DEF TypeOK
    <3>2. /\ running' = (running \ {task}) \cup {rest}
          /\ UNCHANGED <<lastSession, sessions, owner, changes, pool>>
      BY <1>8 DEF Visit
    <3>3. running = {task}
      BY DEF OneTask
    <3> QED
      BY <3>1, <3>2, <3>3
  <2> PICK o \in Order : o = task.notice.order
    BY <1>8, VisitEffect
  <2>2. \/ <<s, o>> \notin CanRead /\ UNCHANGED <<sessionOrders, withheld>>
        \/ /\ <<s, o>> \in CanRead /\ o \in sessionOrders[s]
           /\ sessionOrders'[s] = sessionOrders[s] \ {o}
           /\ withheld'[s] = withheld[s] \cup {task.notice}
           /\ \A t \in SessionPK \ {s} : /\ sessionOrders'[t] = sessionOrders[t]
                                         /\ withheld'[t] = withheld[t]
        \/ o \notin sessionOrders[s] /\ UNCHANGED <<sessionOrders, withheld>>
    BY <1>8 DEF Visit, TypeOK
  <2>3. ASSUME NEW t \in sessions, NEW p \in sessionOrders'[t],
               <<t, p>> \in CanRead, changes[p] > 0
        PROVE  FirstComing(t, p)'
    <3>1. p \in sessionOrders[t]
      BY <1>0, <2>2, <2>3
    <3>2. t = s => p # o
      BY <2>2, <2>3
    <3>3. FirstComing(t, p)
      BY <2>3, <3>1 DEF FirstInv
    <3> PICK first : first = [order |-> p, change |-> 1]
      OBVIOUS
    <3>0. first.order = p
      OBVIOUS
    <3>4. CASE \E k \in DOMAIN pool : pool[k] = first
      BY <2>1, <3>4 DEF FirstComing
    <3>5. CASE task.notice = first /\ t \in task.todo
      <4>1. t # s
        BY <3>0, <3>2, <3>5
      <4> QED
        BY <2>1, <3>5, <4>1 DEF FirstComing
    <3> QED
      BY <2>1, <3>3, <3>4, <3>5 DEF FirstComing
  <2>4. ASSUME s \in sessions, <<s, o>> \in CanRead, o \in sessionOrders[s]
        PROVE  task.notice.change = 1
    <3>1. task.notice \in Announced /\ task.notice \in Notice
      BY <1>8, VisitEffect DEF Announced
    <3>2. changes[o] > 0
      <4>1. changes[o] \in Int /\ task.notice.change \in 1..MaxChange
        BY <3>1 DEF TypeOK, Notice
      <4>2. task.notice.change <= changes[o]
        BY <3>1 DEF ReportedInv
      <4> QED
        BY <4>1, <4>2, BoundsAssumption
    <3>3. FirstComing(s, o)
      BY <2>4, <3>2 DEF FirstInv
    <3> PICK first : first = [order |-> o, change |-> 1]
      OBVIOUS
    <3>0. first.order = o /\ first.change = 1
      OBVIOUS
    <3>4. ASSUME NEW k \in DOMAIN pool, pool[k] = first PROVE FALSE
      <4>1. Earlier(task.notice, first)
        BY <3>4 DEF SequenceInv
      <4>2. task.notice.change < 1
        BY <3>0, <4>1 DEF Earlier
      <4> QED
        BY <3>1, <4>2, BoundsAssumption DEF Notice
    <3>5. task.notice = first
      BY <2>1, <3>3, <3>4 DEF FirstComing
    <3> QED
      BY <3>0, <3>5
  <2>5. \A t \in sessions : \A w \in withheld'[t] : w.change = 1
    BY <1>0, <2>2, <2>4 DEF FirstInv, WithheldIsFirst
  <2> QED
    BY <2>1, <2>3, <2>5 DEF FirstInv, WithheldIsFirst
<1> QED
  BY <1>2, <1>3, <1>4, <1>5, <1>6, <1>7, <1>8 DEF Next, RunTask

LEMMA OrderedInv ==
  Spec /\ []OneTask => [](TypeOK /\ LiveInv /\ RecordInv /\ ReportedInv
                            /\ SequenceInv /\ FirstInv)
<1>1. Init => ReportedInv /\ SequenceInv /\ FirstInv
  <2> SUFFICES ASSUME Init PROVE ReportedInv /\ SequenceInv /\ FirstInv
    OBVIOUS
  <2>1. DOMAIN pool = {} /\ \A s \in SessionPK : DOMAIN told[s] = {}
    BY DEF Init
  <2>2. Announced = {} /\ \A s \in SessionPK : Told(s) = {}
    BY <2>1 DEF Init, Announced, Told
  <2> QED
    BY <2>1, <2>2
    DEF Init, ReportedInv, SequenceInv, FirstInv, Ordered, WithheldIsFirst
<1> QED
  BY <1>1, Recorded, ReportedStep, SequenceStep, ComingStep, PTL DEF Spec

(* FirstIsWithheld: as long as no two tasks run at once, what the owner of *)
(* an order misses is the change that the answer to its request stands for.*)
THEOREM FirstOnly == Spec => FirstIsWithheld
<1>1. FirstInv => WithheldIsFirst
  BY DEF FirstInv
<1> QED
  BY <1>1, OrderedInv, PTL DEF FirstIsWithheld, OneAtATime

(* NoticesInOrder: under the same condition no session hears of a change   *)
(* of an order after a later one.                                          *)
THEOREM InOrder == Spec => NoticesInOrder
<1>1. SequenceInv => Ordered
  BY DEF SequenceInv
<1> QED
  BY <1>1, OrderedInv, PTL DEF NoticesInOrder, OneAtATime
-----------------------------------------------------------------------------
(* With any number of pool threads: what becomes of a notice. The lemma    *)
(* sums up a visit for both theorems.                                      *)
LEMMA VisitHeard ==
  ASSUME TypeOK, NEW task \in running, NEW s \in SessionPK, Visit(task, s)
  PROVE  /\ \A t \in SessionPK : Heard(t) \subseteq Heard(t)'
         /\ \A t \in SessionPK : \A m \in Heard(t)' :
              m \in Heard(t) \/ (t = s /\ m = task.notice)
         /\ <<s, task.notice.order>> \in CanRead => task.notice \in Heard(s)'
<1>1. withheld \in [SessionPK -> SUBSET Notice] /\ told[s] \in Seq(Notice)
  BY DEF TypeOK
<1>2. task.notice \in Notice
  BY VisitEffect
<1>3. CASE /\ <<s, task.notice.order>> \notin CanRead
           /\ UNCHANGED <<told, withheld>>
  BY <1>3 DEF Heard, Told
<1>4. CASE /\ withheld' = [withheld EXCEPT ![s] = @ \cup {task.notice}]
           /\ UNCHANGED told
  BY <1>1, <1>4 DEF Heard, Told
<1>5. CASE /\ told' = [told EXCEPT ![s] = Append(@, task.notice)]
           /\ UNCHANGED withheld
  <2>1. \A t \in SessionPK : \A m \in Told(t)' :
          m \in Told(t) \/ (t = s /\ m = task.notice)
    BY <1>2, <1>5, ToldAppend
  <2>2. \A t \in SessionPK \ {s} : told'[t] = told[t]
    BY <1>5 DEF TypeOK
  <2>3. Told(s) \subseteq Told(s)' /\ task.notice \in Told(s)'
    <3>1. told'[s] = Append(told[s], task.notice)
      BY <1>5 DEF TypeOK
    <3> PICK N \in Nat : N = Len(told[s])
      BY <1>1
    <3>2. /\ DOMAIN told[s] = 1..N /\ DOMAIN told'[s] = 1..N + 1
          /\ \A k \in 1..N : k \in 1..N + 1 /\ told'[s][k] = told[s][k]
          /\ N + 1 \in 1..N + 1 /\ told'[s][N + 1] = task.notice
      BY <1>1, <3>1
    <3> QED
      BY <3>2 DEF Told
  <2>4. \A t \in SessionPK : Told(t) \subseteq Told(t)'
    BY <2>2, <2>3 DEF Told
  <2> QED
    BY <1>5, <2>1, <2>3, <2>4 DEF Heard
<1> QED
  BY <1>3, <1>4, <1>5 DEF Visit

(* What starting a task does to the queue.                                 *)
LEMMA StartEffect ==
  ASSUME TypeOK, CoForEachSession
  PROVE  /\ 1 \in DOMAIN pool
         /\ \A k \in DOMAIN pool' :
              k + 1 \in DOMAIN pool /\ k \in Int /\ pool'[k] = pool[k + 1]
         /\ \A k \in DOMAIN pool \ {1} :
              k - 1 \in DOMAIN pool' /\ pool'[k - 1] = pool[k]
         /\ \E new : /\ new.notice = pool[1] /\ new.todo = sessions
                     /\ running' = running \cup {new}
<1> PICK N \in Nat : N = Len(pool)
  BY DEF TypeOK
<1>1. /\ DOMAIN pool = 1..N /\ DOMAIN pool' = 1..N - 1 /\ 1 \in 1..N
      /\ Head(pool) = pool[1]
      /\ \A k \in 1..N - 1 : pool'[k] = pool[k + 1]
  BY DEF CoForEachSession, TypeOK
<1>2. \A k \in 1..N : k # 1 => k - 1 \in 1..N - 1 /\ k - 1 + 1 = k
  OBVIOUS
<1>3. \A k \in 1..N - 1 : k + 1 \in 1..N /\ k \in Int
  OBVIOUS
<1>4. \E new : /\ new.notice = pool[1] /\ new.todo = sessions
               /\ running' = running \cup {new}
  <2>1. running' = running \cup {[notice |-> pool[1], todo |-> sessions]}
    BY <1>1 DEF CoForEachSession
  <2>2. /\ [notice |-> pool[1], todo |-> sessions].notice = pool[1]
        /\ [notice |-> pool[1], todo |-> sessions].todo = sessions
    OBVIOUS
  <2> QED
    BY <2>1, <2>2
<1> QED
  BY <1>1, <1>2, <1>3, <1>4

LEMMA TaskStep == TypeOK /\ ReportedInv /\ TaskInv /\ [Next]_vars => TaskInv'
<1> SUFFICES ASSUME TypeOK, ReportedInv, TaskInv, [Next]_vars PROVE TaskInv'
    OBVIOUS
<1>1. ASSUME UNCHANGED <<told, withheld>>
      PROVE  AnnouncedOnce' /\ \A s \in SessionPK : Heard(s)' = Heard(s)
  BY <1>1 DEF TaskInv, AnnouncedOnce, Heard, Told
<1>0. \A task \in running : task.todo \subseteq SessionPK
  BY DEF TypeOK
<1>2. CASE \/ Connect \/ \E s \in sessions : Disconnect(s)
           \/ \E s \in SessionPK, o \in Order : AddOrder(s, o)
           \/ \E o \in Order : PlaceOrder(o) \/ Answer(o)
           \/ \E task \in running : TaskEnds(task)
           \/ UNCHANGED vars
  <2>1. UNCHANGED <<pool, told, withheld>> /\ running' \subseteq running
    BY <1>2 DEF Connect, Disconnect, AddOrder, PlaceOrder, Answer, TaskEnds,
                vars
  <2> QED
    BY <1>0, <1>1, <2>1 DEF TaskInv
<1>3. ASSUME NEW o \in Order, OnOrderChange(o) PROVE TaskInv'
  <2> PICK new : new = [order |-> o, change |-> changes[o] + 1]
    OBVIOUS
  <2> PICK N \in Nat : N = Len(pool)
    BY DEF TypeOK
  <2>1. /\ DOMAIN pool = 1..N /\ DOMAIN pool' = 1..N + 1
        /\ \A k \in 1..N : pool'[k] = pool[k]
        /\ pool'[N + 1] = new
        /\ UNCHANGED <<running, told, withheld>>
    BY <1>3 DEF OnOrderChange, TypeOK
  <2>2. new \notin Announced
    <3>1. changes[o] \in Int /\ new.order = o /\ new.change = changes[o] + 1
      BY DEF TypeOK
    <3> QED
      BY <3>1 DEF ReportedInv
  <2>3. /\ \A k \in 1..N : pool[k] # new
        /\ \A task \in running : task.notice # new
        /\ \A s \in SessionPK : new \notin Heard(s)
    BY <2>1, <2>2 DEF Announced, Heard
  <2>4. \A k \in 1..N + 1 : k \in 1..N \/ k = N + 1
    OBVIOUS
  <2>5. \A j, k \in 1..N + 1 : pool'[j] = pool'[k] => j = k
    <3> SUFFICES ASSUME NEW j \in 1..N + 1, NEW k \in 1..N + 1,
                        pool'[j] = pool'[k]
                 PROVE  j = k
      OBVIOUS
    <3>1. CASE j \in 1..N /\ k \in 1..N
      BY <2>1, <3>1 DEF TaskInv
    <3>2. CASE j = N + 1 \/ k = N + 1
      BY <2>1, <2>3, <2>4, <3>2
    <3> QED
      BY <2>4, <3>1, <3>2
  <2>6. \A k \in 1..N + 1 :
          /\ \A task \in running : task.notice # pool'[k]
          /\ \A s \in SessionPK : pool'[k] \notin Heard(s)
    BY <2>1, <2>3, <2>4 DEF TaskInv
  <2> QED
    BY <1>0, <1>1, <2>1, <2>5, <2>6 DEF TaskInv
<1>4. CASE CoForEachSession
  <2> PICK new : /\ new.notice = pool[1] /\ new.todo = sessions
                 /\ running' = running \cup {new}
    BY <1>4, StartEffect
  <2>1. /\ 1 \in DOMAIN pool
        /\ \A k \in DOMAIN pool' :
             k + 1 \in DOMAIN pool /\ k \in Int /\ pool'[k] = pool[k + 1]
        /\ UNCHANGED <<told, withheld>>
    BY <1>4, StartEffect DEF CoForEachSession
  <2>2. \A j, k \in DOMAIN pool' : pool'[j] = pool'[k] => j = k
    <3> SUFFICES ASSUME NEW j \in DOMAIN pool', NEW k \in DOMAIN pool',
                        pool'[j] = pool'[k]
                 PROVE  j = k
      OBVIOUS
    <3>1. j + 1 = k + 1
      BY <2>1 DEF TaskInv
    <3> QED
      BY <2>1, <3>1
  <2>3. \A k \in DOMAIN pool' : pool'[k] # pool[1]
    <3> SUFFICES ASSUME NEW k \in DOMAIN pool', pool'[k] = pool[1] PROVE FALSE
      OBVIOUS
    <3>1. k + 1 = 1
      BY <2>1 DEF TaskInv
    <3>2. k \in 1..Len(pool')
      BY <1>4 DEF CoForEachSession, TypeOK
    <3> QED
      BY <3>1, <3>2
  <2>4. \A k \in DOMAIN pool' :
          /\ \A task \in running' : task.notice # pool'[k]
          /\ \A s \in SessionPK : pool'[k] \notin Heard(s)
    BY <2>1, <2>3 DEF TaskInv
  <2>5. \A x, y \in running' : x.notice = y.notice => x = y
    BY <2>1 DEF TaskInv
  <2>6. \A task \in running' : \A s \in task.todo :
          s \in SessionPK /\ task.notice \notin Heard(s)
    <3>1. sessions \subseteq SessionPK
      BY DEF TypeOK
    <3> QED
      BY <1>0, <2>1, <3>1 DEF TaskInv
  <2> QED
    BY <1>1, <2>1, <2>2, <2>4, <2>5, <2>6 DEF TaskInv
<1>5. ASSUME NEW task \in running, NEW s \in SessionPK, Visit(task, s)
      PROVE  TaskInv'
  <2> PICK rest : rest = [task EXCEPT !.todo = @ \ {s}]
    OBVIOUS
  <2>1. /\ rest.notice = task.notice /\ rest.todo = task.todo \ {s}
        /\ running' = (running \ {task}) \cup {rest} /\ pool' = pool
        /\ s \in task.todo
    <3>1. task \in [notice : Notice, todo : SUBSET SessionPK]
      BY DEF TypeOK
    <3> QED
      BY <1>5, <3>1 DEF Visit, IsNext
  <2>2. \A t \in SessionPK : \A m \in Heard(t)' :
          m \in Heard(t) \/ (t = s /\ m = task.notice)
    BY <1>5, VisitHeard
  <2>3. task.notice \notin Heard(s)
    BY <2>1 DEF TaskInv
  <2>4. \A k \in DOMAIN pool :
          /\ \A t \in running' : t.notice # pool[k]
          /\ \A t \in SessionPK : pool[k] \notin Heard(t)'
    BY <2>1, <2>2 DEF TaskInv
  <2>5. \A x, y \in running' : x.notice = y.notice => x = y
    <3>1. \A x \in running \ {task} : x.notice # rest.notice
      BY <2>1 DEF TaskInv
    <3>2. \A x, y \in running \ {task} : x.notice = y.notice => x = y
      BY DEF TaskInv
    <3> QED
      BY <2>1, <3>1, <3>2
  <2>6. \A x \in running' : \A t \in x.todo : x.notice \notin Heard(t)'
    <3> SUFFICES ASSUME NEW x \in running', NEW t \in x.todo,
                        x.notice \in Heard(t)'
                 PROVE  FALSE
      OBVIOUS
    <3>1. CASE x = rest
      BY <1>0, <2>1, <2>2, <3>1 DEF TaskInv
    <3>2. CASE x \in running \ {task}
      BY <1>0, <2>1, <2>2, <3>2 DEF TaskInv
    <3> QED
      BY <2>1, <3>1, <3>2
  <2>7. AnnouncedOnce'
    <3>1. CASE UNCHANGED <<told, withheld>>
      BY <1>1, <3>1
    <3>2. CASE /\ withheld' = [withheld EXCEPT ![s] = @ \cup {task.notice}]
               /\ UNCHANGED told
      <4>1. \A t \in SessionPK : Told(t)' = Told(t)
        BY <3>2 DEF Told
      <4>2. \A t \in SessionPK : \A w \in withheld'[t] :
              w \in withheld[t] \/ (t = s /\ w = task.notice)
        BY <3>2 DEF TypeOK
      <4>3. \A t \in SessionPK : Told(t) \cap withheld'[t] = {}
        BY <2>3, <4>2 DEF TaskInv, AnnouncedOnce, Heard
      <4> QED
        BY <3>2, <4>1, <4>3 DEF TaskInv, AnnouncedOnce
    <3>3. CASE /\ told' = [told EXCEPT ![s] = Append(@, task.notice)]
               /\ UNCHANGED withheld
      <4>1. \A t \in SessionPK : Told(t)' \cap withheld[t] = {}
        <5>1. \A t \in SessionPK : \A m \in Told(t)' :
                m \in Told(t) \/ (t = s /\ m = task.notice)
          BY <1>5, <3>3, VisitEffect, ToldAppend
        <5> QED
          BY <2>3, <5>1 DEF TaskInv, AnnouncedOnce, Heard
      <4>2. told[s] \in Seq(Notice)
        BY DEF TypeOK
      <4> PICK N \in Nat : N = Len(told[s])
        BY <4>2
      <4>3. /\ DOMAIN told[s] = 1..N /\ DOMAIN told'[s] = 1..N + 1
            /\ \A k \in 1..N : told'[s][k] = told[s][k]
            /\ told'[s][N + 1] = task.notice
            /\ \A t \in SessionPK \ {s} : told'[t] = told[t]
        BY <3>3, <4>2 DEF TypeOK
      <4>4. \A k \in 1..N : told[s][k] # task.notice
        BY <2>3, <4>3 DEF Heard, Told
      <4>5. \A j, k \in 1..N + 1 : told'[s][j] = told'[s][k] => j = k
        <5>1. \A k \in 1..N + 1 : k \in 1..N \/ k = N + 1
          OBVIOUS
        <5> SUFFICES ASSUME NEW j \in 1..N + 1, NEW k \in 1..N + 1,
                            told'[s][j] = told'[s][k]
                     PROVE  j = k
          OBVIOUS
        <5>2. CASE j \in 1..N /\ k \in 1..N
          BY <4>3, <5>2 DEF TaskInv, AnnouncedOnce
        <5>3. CASE j = N + 1 \/ k = N + 1
          BY <4>3, <4>4, <5>1, <5>3
        <5> QED
          BY <5>1, <5>2, <5>3
      <4>6. \A t \in SessionPK : \A j, k \in DOMAIN told'[t] :
              told'[t][j] = told'[t][k] => j = k
        BY <4>3, <4>5 DEF TaskInv, AnnouncedOnce
      <4> QED
        BY <3>3, <4>1, <4>6 DEF AnnouncedOnce
    <3> QED
      BY <1>5, <3>1, <3>2, <3>3 DEF Visit
  <2> QED
    BY <2>1, <2>4, <2>5, <2>6, <2>7 DEF TaskInv
<1> QED
  BY <1>2, <1>3, <1>4, <1>5 DEF Next, RunTask

(* AnnouncedOnce: with any number of pool threads no session hears twice   *)
(* of a change, nor of one that was withheld from it.                      *)
THEOREM ToldOnce == Spec => []AnnouncedOnce
<1>1. Init => ReportedInv /\ TaskInv
  <2> SUFFICES ASSUME Init PROVE ReportedInv /\ TaskInv
    OBVIOUS
  <2>1. DOMAIN pool = {} /\ \A s \in SessionPK : DOMAIN told[s] = {}
    BY DEF Init
  <2>2. Announced = {} /\ \A s \in SessionPK : Told(s) = {}
    BY <2>1 DEF Init, Announced, Told
  <2> QED
    BY <2>1, <2>2 DEF Init, ReportedInv, TaskInv, AnnouncedOnce
<1>2. TaskInv => AnnouncedOnce
  BY DEF TaskInv
<1> QED
  BY <1>1, <1>2, TypeInit, TypeStep, ReportedStep, TaskStep, PTL DEF Spec

(* NoNoticeLost: with any number of pool threads a change is not lost on   *)
(* its way to a reader that stays, whatever else happens meanwhile.        *)
THEOREM NoneLost == Spec => NoNoticeLost
<1>1. TypeOK /\ [Next]_vars => NothingLost
  <2> SUFFICES ASSUME TypeOK, [Next]_vars, NEW s \in sessions \cap sessions',
                      NEW n \in Notice
               PROVE  /\ OnItsWay(n, s) /\ <<s, n.order>> \in CanRead
                           => OnItsWay(n, s)' \/ n \in Heard(s)'
                      /\ n \in Heard(s) => n \in Heard(s)'
    BY DEF NothingLost
  <2>0. s \in SessionPK
    BY DEF TypeOK
  <2> DEFINE Goal == /\ OnItsWay(n, s) /\ <<s, n.order>> \in CanRead
                          => OnItsWay(n, s)' \/ n \in Heard(s)'
                     /\ n \in Heard(s) => n \in Heard(s)'
  <2>1. ASSUME UNCHANGED <<pool, running, told, withheld>> PROVE Goal
    BY <2>1 DEF OnItsWay, Heard, Told
  <2>2. CASE \/ Connect \/ \E t \in sessions : Disconnect(t)
             \/ \E t \in SessionPK, o \in Order : AddOrder(t, o)
             \/ \E o \in Order : PlaceOrder(o) \/ Answer(o)
             \/ UNCHANGED vars
    <3>1. UNCHANGED <<pool, running, told, withheld>>
      BY <2>2 DEF Connect, Disconnect, AddOrder, PlaceOrder, Answer, vars
    <3> QED
      BY <2>1, <3>1
  <2>3. ASSUME NEW o \in Order, OnOrderChange(o) PROVE Goal
    <3>1. \A k \in DOMAIN pool : k \in DOMAIN pool' /\ pool'[k] = pool[k]
      BY <2>3 DEF OnOrderChange, TypeOK
    <3>2. UNCHANGED <<running, told, withheld>>
      BY <2>3 DEF OnOrderChange
    <3> QED
      BY <3>1, <3>2 DEF OnItsWay, Heard, Told
  <2>4. CASE CoForEachSession
    <3> PICK new : /\ new.notice = pool[1] /\ new.todo = sessions
                   /\ running' = running \cup {new}
      BY <2>4, StartEffect
    <3>1. /\ \A k \in DOMAIN pool \ {1} :
               k - 1 \in DOMAIN pool' /\ pool'[k - 1] = pool[k]
          /\ UNCHANGED <<told, withheld>>
      BY <2>4, StartEffect DEF CoForEachSession
    <3>2. OnItsWay(n, s) => OnItsWay(n, s)'
      <4>1. ASSUME NEW k \in DOMAIN pool, pool[k] = n PROVE OnItsWay(n, s)'
        <5>1. CASE k = 1
          BY <4>1, <5>1 DEF OnItsWay
        <5>2. CASE k # 1
          <6>1. k - 1 \in DOMAIN pool' /\ pool'[k - 1] = n
            BY <3>1, <4>1, <5>2
          <6> QED
            BY <6>1 DEF OnItsWay
        <5> QED
          BY <5>1, <5>2
      <4> QED
        BY <4>1 DEF OnItsWay
    <3> QED
      BY <3>1, <3>2 DEF Heard, Told
  <2>5. ASSUME NEW task \in running, NEW t \in SessionPK, Visit(task, t)
        PROVE  Goal
    <3> PICK rest : rest = [task EXCEPT !.todo = @ \ {t}]
      OBVIOUS
    <3>1. /\ rest.notice = task.notice /\ rest.todo = task.todo \ {t}
          /\ running' = (running \ {task}) \cup {rest} /\ pool' = pool
      <4>1. task \in [notice : Notice, todo : SUBSET SessionPK]
        BY DEF TypeOK
      <4> QED
        BY <2>5, <4>1 DEF Visit
    <3>2. /\ Heard(s) \subseteq Heard(s)'
          /\ <<t, task.notice.order>> \in CanRead => task.notice \in Heard(t)'
      BY <2>0, <2>5, VisitHeard
    <3>3. ASSUME NEW u \in running, u.notice = n, s \in u.todo,
                 <<s, n.order>> \in CanRead
          PROVE  OnItsWay(n, s)' \/ n \in Heard(s)'
      <4>1. CASE u = task /\ t = s
        BY <3>2, <3>3, <4>1
      <4>2. CASE u = task /\ t # s
        BY <3>1, <3>3, <4>2 DEF OnItsWay
      <4>3. CASE u # task
        BY <3>1, <3>3, <4>3 DEF OnItsWay
      <4> QED
        BY <4>1, <4>2, <4>3
    <3> QED
      BY <3>1, <3>2, <3>3 DEF OnItsWay
  <2>6. ASSUME NEW task \in running, TaskEnds(task) PROVE Goal
    BY <2>6 DEF TaskEnds, OnItsWay, Heard, Told
  <2> QED
    BY <2>2, <2>3, <2>4, <2>5, <2>6 DEF Next, RunTask
<1> QED
  BY <1>1, Typing, PTL DEF NoNoticeLost, Spec
=============================================================================
