---------------------------- MODULE OrderNotices ----------------------------
(***************************************************************************)
(* Orders and who is told about them: Order of TwsSendWorker.cpp, AddOrder,*)
(* CheckPlaceOrderResult, OnOrderChange and OnOrderException of            *)
(* WebSendGateway.cpp, CoForEachSession of WebCoSocket.cpp.                *)
(*                                                                         *)
(* A session that places an order gets the outcome as the answer to its    *)
(* request. Every change and every error of an order, whoever placed it,   *)
(* is also announced to the sessions whose users may read its account, by  *)
(* a task of the coroutine pool that takes a snapshot of the sessions. So  *)
(* that the one who placed the order does not hear of its first change     *)
(* twice, _sessionOrders remembers who placed it, and one announcement is  *)
(* withheld from that session.                                             *)
(*                                                                         *)
(* External: TWS and the OrderManager, which report changes of an order    *)
(* from the moment it is sent to TWS, and the coroutine pool, which starts *)
(* its tasks in order on up to PoolThreads threads.                        *)
(***************************************************************************)
EXTENDS Integers, Sequences, FiniteSets

CONSTANTS
  MaxSession,   (* bound: sessions that connect                            *)
  Order,        (* order numbers                                           *)
  Foreign,      (* those placed elsewhere, in the TWS window for example   *)
  CanRead,      (* session and order: the user may read the account        *)
  PoolThreads,  (* threads of the coroutine pool                           *)
  MaxChange     (* bound: changes and errors reported of an order          *)

SessionPK == 1..MaxSession
Notice    == [order : Order, change : 1..MaxChange]

ASSUME BoundsAssumption == MaxSession \in Nat /\ MaxChange \in Nat
ASSUME ForeignAssumption == Foreign \subseteq Order
ASSUME CanReadAssumption == CanRead \subseteq SessionPK \X Order
ASSUME PoolAssumption == PoolThreads \in Nat \ {0}

VARIABLES
  lastSession,   (* numbers handed out                                     *)
  sessions,      (* the numbers in WebCoSocket::_sessions                  *)
  placing,       (* where the Order coroutine of an order stands           *)
  owner,         (* its SessionKey, 0 if there is none                     *)
  sessionOrders, (* _sessionOrders: session -> orders it placed            *)
  changes,       (* external: changes reported of an order                 *)
  pool,          (* tasks the pool has not started                         *)
  running,       (* tasks it has, with the sessions left to visit          *)
  told,          (* history: the notices sent to a session                 *)
  withheld       (* history: the notices withheld from a session           *)

vars == <<lastSession, sessions, placing, owner, sessionOrders, changes,
          pool, running, told, withheld>>

Init ==
  /\ lastSession = 0
  /\ sessions = {}
  /\ placing = [o \in Order |-> "none"]
  /\ owner = [o \in Order |-> 0]
  /\ sessionOrders = [s \in SessionPK |-> {}]
  /\ changes = [o \in Order |-> 0]
  /\ pool = <<>>
  /\ running = {}
  /\ told = [s \in SessionPK |-> <<>>]
  /\ withheld = [s \in SessionPK |-> {}]

-----------------------------------------------------------------------------
Connect ==
  /\ lastSession < MaxSession
  /\ lastSession' = lastSession + 1
  /\ sessions' = sessions \cup {lastSession + 1}
  /\ UNCHANGED <<placing, owner, sessionOrders, changes, pool, running, told,
                 withheld>>

(* A failed write removes the session. Its orders stay in _sessionOrders.  *)
Disconnect(s) ==
  /\ sessions' = sessions \ {s}
  /\ UNCHANGED <<lastSession, placing, owner, sessionOrders, changes, pool,
                 running, told, withheld>>

-----------------------------------------------------------------------------
(* The Order coroutine. Its first part runs on the TwsSendWorker thread;   *)
(* the session may be gone by then.                                        *)

(* Fault: the order is not recorded.                                       *)
AddOrderUnrecorded(s, o) ==
  /\ placing[o] = "none"
  /\ o \notin Foreign
  /\ s <= lastSession
  /\ placing' = [placing EXCEPT ![o] = "added"]
  /\ owner' = [owner EXCEPT ![o] = s]
  /\ UNCHANGED <<lastSession, sessions, sessionOrders, changes, pool,
                 running, told, withheld>>

(* A new order number is drawn and added for the session.                  *)
AddOrder(s, o) ==
  /\ placing[o] = "none"
  /\ o \notin Foreign
  /\ s <= lastSession
  /\ placing' = [placing EXCEPT ![o] = "added"]
  /\ owner' = [owner EXCEPT ![o] = s]
  /\ sessionOrders' = [sessionOrders EXCEPT ![s] = @ \cup {o}]
  /\ UNCHANGED <<lastSession, sessions, changes, pool, running, told,
                 withheld>>

(* co_await Tws::PlaceOrder: the order goes out.                           *)
PlaceOrder(o) ==
  /\ placing[o] = "added"
  /\ placing' = [placing EXCEPT ![o] = "placed"]
  /\ UNCHANGED <<lastSession, sessions, owner, sessionOrders, changes, pool,
                 running, told, withheld>>

(* The coroutine is resumed with the order or an error and answers.        *)
Answer(o) ==
  /\ placing[o] = "placed"
  /\ placing' = [placing EXCEPT ![o] = "answered"]
  /\ UNCHANGED <<lastSession, sessions, owner, sessionOrders, changes, pool,
                 running, told, withheld>>

-----------------------------------------------------------------------------
(* The order reached TWS.                                                  *)
Live(o) == o \in Foreign \/ placing[o] \in {"placed", "answered"}

(* Fault: a change is skipped.                                             *)
OnOrderChangeSkips(o) ==
  /\ Live(o)
  /\ changes[o] < MaxChange
  /\ changes' = [changes EXCEPT ![o] = @ + 1]
  /\ pool' = Append(pool, [order |-> o, change |-> changes[o] + 2])
  /\ UNCHANGED <<lastSession, sessions, placing, owner, sessionOrders,
                 running, told, withheld>>

(* OnOrderChange and OnOrderException: the coroutine gives the pool a task.*)
OnOrderChange(o) ==
  /\ Live(o)
  /\ changes[o] < MaxChange
  /\ changes' = [changes EXCEPT ![o] = @ + 1]
  /\ pool' = Append(pool, [order |-> o, change |-> changes[o] + 1])
  /\ UNCHANGED <<lastSession, sessions, placing, owner, sessionOrders,
                 running, told, withheld>>

(* Fault: the tasks are taken from the wrong end.                          *)
CoForEachSessionLast ==
  /\ pool # <<>>
  /\ Cardinality(running) < PoolThreads
  /\ running' = running \cup {[notice |-> pool[Len(pool)], todo |-> sessions]}
  /\ pool' = SubSeq(pool, 1, Len(pool) - 1)
  /\ UNCHANGED <<lastSession, sessions, placing, owner, sessionOrders,
                 changes, told, withheld>>

(* The task copies the sessions under the shared lock and lets it go.      *)
CoForEachSession ==
  /\ pool # <<>>
  /\ Cardinality(running) < PoolThreads
  /\ running' = running \cup {[notice |-> Head(pool), todo |-> sessions]}
  /\ pool' = Tail(pool)
  /\ UNCHANGED <<lastSession, sessions, placing, owner, sessionOrders,
                 changes, told, withheld>>

(* The session a task visits next: a flat_map is ordered by its key.       *)
IsNext(s, todo) == s \in todo /\ \A t \in todo : s <= t

(* Fault: the record is found and not erased.                              *)
VisitKeeps(task, s) ==
  LET o == task.notice.order IN
  /\ IsNext(s, task.todo)
  /\ running' = (running \ {task}) \cup {[task EXCEPT !.todo = @ \ {s}]}
  /\ \/ /\ <<s, o>> \notin CanRead
        /\ UNCHANGED <<told, withheld>>
     \/ /\ <<s, o>> \in CanRead
        /\ o \in sessionOrders[s]
        /\ withheld' = [withheld EXCEPT ![s] = @ \cup {task.notice}]
        /\ UNCHANGED told
     \/ /\ <<s, o>> \in CanRead
        /\ o \notin sessionOrders[s]
        /\ told' = [told EXCEPT ![s] = Append(@, task.notice)]
        /\ UNCHANGED withheld
  /\ UNCHANGED <<lastSession, sessions, placing, owner, sessionOrders,
                 changes, pool>>

(* Fault: the loop ends at a session that may not hear of the order.       *)
VisitReturns(task, s) ==
  LET o == task.notice.order
      skip == <<s, o>> \notin CanRead \/ o \in sessionOrders[s] IN
  /\ IsNext(s, task.todo)
  /\ running' = (running \ {task})
       \cup {[task EXCEPT !.todo = IF skip THEN {} ELSE @ \ {s}]}
  /\ told' = IF skip THEN told
             ELSE [told EXCEPT ![s] = Append(@, task.notice)]
  /\ UNCHANGED <<lastSession, sessions, placing, owner, sessionOrders,
                 changes, pool, withheld>>

(* One round of the loop. A session that may read the order hears of the   *)
(* change, but once CheckPlaceOrderResult finds the order among its own,   *)
(* and takes it out of them.                                               *)
Visit(task, s) ==
  LET o == task.notice.order IN
  /\ IsNext(s, task.todo)
  /\ running' = (running \ {task}) \cup {[task EXCEPT !.todo = @ \ {s}]}
  /\ \/ /\ <<s, o>> \notin CanRead
        /\ UNCHANGED <<sessionOrders, told, withheld>>
     \/ /\ <<s, o>> \in CanRead
        /\ o \in sessionOrders[s]
        /\ sessionOrders' = [sessionOrders EXCEPT ![s] = @ \ {o}]
        /\ withheld' = [withheld EXCEPT ![s] = @ \cup {task.notice}]
        /\ UNCHANGED told
     \/ /\ <<s, o>> \in CanRead
        /\ o \notin sessionOrders[s]
        /\ told' = [told EXCEPT ![s] = Append(@, task.notice)]
        /\ UNCHANGED <<sessionOrders, withheld>>
  /\ UNCHANGED <<lastSession, sessions, placing, owner, changes, pool>>

TaskEnds(task) ==
  /\ task.todo = {}
  /\ running' = running \ {task}
  /\ UNCHANGED <<lastSession, sessions, placing, owner, sessionOrders,
                 changes, pool, told, withheld>>

-----------------------------------------------------------------------------
RunTask(task) == (\E s \in SessionPK : Visit(task, s)) \/ TaskEnds(task)

Next ==
  \/ Connect
  \/ \E s \in sessions : Disconnect(s)
  \/ \E s \in SessionPK, o \in Order : AddOrder(s, o)
  \/ \E o \in Order : PlaceOrder(o) \/ Answer(o) \/ OnOrderChange(o)
  \/ CoForEachSession
  \/ \E task \in running : RunTask(task)

Spec == Init /\ [][Next]_vars

(* The pool starts its tasks and its threads run: a send may wait for a    *)
(* slow client, and ends (LockReleased of OutgoingWrites). TWS need not    *)
(* report or answer anything.                                              *)
Fairness ==
  /\ WF_vars(CoForEachSession)
  /\ \A n \in Notice : WF_vars(\E task \in running :
                                  task.notice = n /\ RunTask(task))

FairSpec == Spec /\ Fairness

-----------------------------------------------------------------------------
TypeOK ==
  /\ lastSession \in 0..MaxSession
  /\ sessions \subseteq SessionPK
  /\ placing \in [Order -> {"none", "added", "placed", "answered"}]
  /\ owner \in [Order -> 0..MaxSession]
  /\ sessionOrders \in [SessionPK -> SUBSET Order]
  /\ changes \in [Order -> 0..MaxChange]
  /\ pool \in Seq(Notice)
  /\ running \subseteq [notice : Notice, todo : SUBSET SessionPK]
  /\ told \in [SessionPK -> Seq(Notice)]
  /\ withheld \in [SessionPK -> SUBSET Notice]

Told(s) == {told[s][k] : k \in DOMAIN told[s]}

Heard(s) == Told(s) \cup withheld[s]

(* The session that placed an order hears of no change of it before one    *)
(* was withheld: the order is on record before TWS can report on it, and   *)
(* the tasks of two changes cannot both miss it.                           *)
OneIsWithheldFirst ==
  \A s \in SessionPK : \A n \in Told(s) :
    owner[n.order] = s => \E w \in withheld[s] : w.order = n.order

(* It misses one change at most, and nobody else misses any: two tasks     *)
(* never take the same record for theirs.                                  *)
WithheldOnce ==
  \A s, t \in SessionPK : \A w \in withheld[s], x \in withheld[t] :
    /\ owner[w.order] = s
    /\ w.order = x.order => w = x

(* A session hears of a change once, or it is withheld from the session,   *)
(* and never both: no two tasks announce one change, and none visits a     *)
(* session again, however many run at once.                                *)
AnnouncedOnce ==
  \A s \in SessionPK :
    /\ \A j, k \in DOMAIN told[s] : told[s][j] = told[s][k] => j = k
    /\ Told(s) \cap withheld[s] = {}

(* A notice that is going to reach a session: its task has not started, or *)
(* has the session before it.                                              *)
OnItsWay(n, s) ==
  \/ \E k \in DOMAIN pool : pool[k] = n
  \/ \E task \in running : task.notice = n /\ s \in task.todo

(* No step loses a change that is on its way to a reader, as long as the   *)
(* reader is connected: the task that picks it up takes its sessions from  *)
(* a snapshot that has the reader, and the loop goes past no reader        *)
(* without a decision. What a session heard of is settled for good.        *)
NothingLost ==
  \A s \in sessions \cap sessions', n \in Notice :
    /\ OnItsWay(n, s) /\ <<s, n.order>> \in CanRead
         => OnItsWay(n, s)' \/ n \in Heard(s)'
    /\ n \in Heard(s) => n \in Heard(s)'

NoNoticeLost == [][NothingLost]_vars

(* With one pool thread, or as long as no two of its tasks run at once.    *)
OneTask == \A x, y \in running : x = y
OneAtATime == []OneTask

(* "if order created by client, just send notification on placeOrder       *)
(* result": the change that is withheld is the first one, the one the      *)
(* answer stands for, if the session was there to hear it. When two tasks  *)
(* run at once, that of the second change may come first.                  *)
WithheldIsFirst == \A s \in sessions : \A w \in withheld[s] : w.change = 1

FirstIsWithheld == OneAtATime => []WithheldIsFirst

(* Under the same condition a session hears of the changes of an order in  *)
(* the order they happened: the last one it heard of is the latest.        *)
Ordered ==
  \A s \in SessionPK : \A j, k \in DOMAIN told[s] :
    j < k /\ told[s][j].order = told[s][k].order
      => told[s][j].change < told[s][k].change

NoticesInOrder == OneAtATime => []Ordered

(* Every reader that is connected when a change is reported, and stays, is *)
(* told in the end, also while other sessions come and go and whoever      *)
(* placed the order: only the change withheld from its owner is not sent.  *)
EveryReaderTold ==
  \A s \in SessionPK, n \in Notice :
    (/\ s \in sessions
     /\ <<s, n.order>> \in CanRead
     /\ \E k \in DOMAIN pool : pool[k] = n)
      ~> (n \in Heard(s) \/ s \notin sessions)
-----------------------------------------------------------------------------
(* The invariants behind OneIsWithheldFirst and WithheldOnce.              *)

(* The notices that are on their way or arrived.                           *)
Announced == {pool[k] : k \in DOMAIN pool}
               \cup {task.notice : task \in running}
               \cup UNION {Told(s) \cup withheld[s] : s \in SessionPK}

(* Only orders that reached TWS are announced; an order placed here is on  *)
(* record until one of its notices was withheld.                           *)
LiveInv == \A n \in Announced : Live(n.order)

RecordInv ==
  /\ \A o \in Order : placing[o] = "none" => owner[o] = 0
  /\ \A o \in Order : placing[o] # "none" =>
       /\ owner[o] \in SessionPK
       /\ o \notin Foreign
       /\ \/ o \in sessionOrders[owner[o]]
          \/ \E w \in withheld[owner[o]] : w.order = o
  /\ \A s \in SessionPK : \A o \in sessionOrders[s] :
       /\ owner[o] = s
       /\ \A w \in withheld[s] : w.order # o
  /\ WithheldOnce

-----------------------------------------------------------------------------
(* The invariants behind FirstIsWithheld and NoticesInOrder: they hold as  *)
(* long as no two tasks run at once.                                       *)
Earlier(n, m) == n.order = m.order => n.change < m.change

ReportedInv ==
  /\ \A n \in Announced : n.change <= changes[n.order]
  /\ \A o \in Order : changes[o] > 0 => Live(o)

(* What a session was told comes before the task that is going to visit    *)
(* it, and that before the tasks that were not started.                    *)
SequenceInv ==
  /\ \A j, k \in DOMAIN pool : j < k => Earlier(pool[j], pool[k])
  /\ \A k \in DOMAIN pool :
       /\ \A task \in running : Earlier(task.notice, pool[k])
       /\ \A s \in SessionPK : \A n \in Told(s) : Earlier(n, pool[k])
  /\ \A task \in running : \A s \in task.todo : \A n \in Told(s) :
       Earlier(n, task.notice)
  /\ Ordered

(* As long as the record of an order is there, its first change is on its  *)
(* way to the session that placed it.                                      *)
FirstComing(s, o) ==
  LET first == [order |-> o, change |-> 1] IN
  \/ \E k \in DOMAIN pool : pool[k] = first
  \/ \E task \in running : task.notice = first /\ s \in task.todo

FirstInv ==
  /\ \A o \in Order : owner[o] <= lastSession
  /\ \A s \in sessions : \A o \in sessionOrders[s] :
       <<s, o>> \in CanRead /\ changes[o] > 0 => FirstComing(s, o)
  /\ WithheldIsFirst

-----------------------------------------------------------------------------
(* The invariant behind AnnouncedOnce: a notice has one task, and was not  *)
(* heard of where its task has yet to go.                                  *)
TaskInv ==
  /\ \A j, k \in DOMAIN pool : pool[j] = pool[k] => j = k
  /\ \A k \in DOMAIN pool :
       /\ \A task \in running : task.notice # pool[k]
       /\ \A s \in SessionPK : pool[k] \notin Heard(s)
  /\ \A x, y \in running : x.notice = y.notice => x = y
  /\ \A task \in running : \A s \in task.todo : task.notice \notin Heard(s)
  /\ AnnouncedOnce

Inv == TypeOK /\ LiveInv /\ RecordInv /\ ReportedInv /\ SequenceInv /\ FirstInv
=============================================================================
