------------------------ MODULE AccountSubscriptions ------------------------
(***************************************************************************)
(* The sessions that follow the values of a brokerage account:             *)
(* _accountSubscriptions of WebSendGateway.cpp.                            *)
(*                                                                         *)
(* The TwsSendWorker thread subscribes and unsubscribes sessions. The TWS  *)
(* client library keeps a handler per handle it gave out, and calls the    *)
(* gateway's handler back on the TWS reader thread for every update, and   *)
(* on the worker's own thread when a request can be answered from what it  *)
(* already knows. Both meet at _accountSubscriptionMutex, which a callback *)
(* holds while it pushes to one session after the other.                   *)
(*                                                                         *)
(* External: the library. It is modelled by how the gateway uses it: a     *)
(* request returns a new handle, and the handler may be called, even       *)
(* before the request returns, until the handle is cancelled.              *)
(***************************************************************************)
EXTENDS Integers, FiniteSets

CONSTANTS
  Account,
  Session,
  MayRead,      (* Accounts::CanRead of the sessions' users                *)
  MaxRequest    (* bound: account requests made to the library             *)

ASSUME MayReadAssumption == MayRead \subseteq (Account \X Session)
ASSUME MaxRequestAssumption == MaxRequest \in Nat

Thread == {"worker", "reader"}
Handle == 1..MaxRequest
NoSub  == -1      (* the session is not in the account's map               *)
Unsaved == 0      (* it is, and its handle is not known yet                *)

VARIABLES
  handle,   (* _accountSubscriptions: account -> session -> Handle         *)
  worker,   (* where the worker stands in AddAccountSubscription           *)
  call,     (* the handler a thread is running                             *)
  active,   (* the library: account -> handles not cancelled               *)
  requests, (* the library: handles given out                              *)
  doubled   (* history: accounts a session subscribed to twice in a row    *)

vars == <<handle, worker, call, active, requests, doubled>>

Subscribers(a) == {s \in Session : handle[a][s] # NoSub}

NoCall == [mode |-> "none", todo |-> {}]

(* std::shared_mutex                                                       *)
SharedFree == \A t \in Thread : call[t].mode # "unique"
UniqueFree == \A t \in Thread : call[t].mode \notin {"shared", "unique"}

-----------------------------------------------------------------------------
Init ==
  /\ handle = [a \in Account |-> [s \in Session |-> NoSub]]
  /\ worker = [pc |-> "idle"]
  /\ call = [t \in Thread |-> NoCall]
  /\ active = [a \in Account |-> {}]
  /\ requests = 0
  /\ doubled = {}

-----------------------------------------------------------------------------
(* AddAccountSubscription. A session whose user may not read the account   *)
(* gets an error and nothing changes.                                      *)

(* Fault: the right to read the account is not tested.                     *)
SubscribeAnybody(a, s) ==
  /\ worker.pc = "idle"
  /\ requests < MaxRequest
  /\ UniqueFree
  /\ handle' = [handle EXCEPT ![a][s] = IF @ = NoSub THEN Unsaved ELSE @]
  /\ worker' = [pc |-> "added", account |-> a, session |-> s]
  /\ doubled' = IF handle[a][s] = NoSub THEN doubled ELSE doubled \cup {a}
  /\ UNCHANGED <<call, active, requests>>

(* Fault: the session is added when its handle is known.                   *)
SubscribeLate(a, s) ==
  /\ worker.pc = "idle"
  /\ <<a, s>> \in MayRead
  /\ requests < MaxRequest
  /\ worker' = [pc |-> "added", account |-> a, session |-> s]
  /\ doubled' = IF handle[a][s] = NoSub THEN doubled ELSE doubled \cup {a}
  /\ UNCHANGED <<handle, call, active, requests>>

(* The session is added before the request: "RequestAccountUpdates needs   *)
(* it added". emplace keeps the handle of a session that is already there. *)
Subscribe(a, s) ==
  /\ worker.pc = "idle"
  /\ <<a, s>> \in MayRead
  /\ requests < MaxRequest
  /\ UniqueFree
  /\ handle' = [handle EXCEPT
       ![a][s] = IF @ = NoSub THEN Unsaved ELSE @]
  /\ worker' = [pc |-> "added", account |-> a, session |-> s]
  /\ doubled' = IF handle[a][s] = NoSub THEN doubled ELSE doubled \cup {a}
  /\ UNCHANGED <<call, active, requests>>

(* External: the library registers the handler.                            *)
RequestAccountUpdates ==
  /\ worker.pc = "added"
  /\ requests' = requests + 1
  /\ active' = [active EXCEPT ![worker.account] = @ \cup {requests'}]
  /\ worker' = [worker EXCEPT !.pc = "requesting"]
  /\ UNCHANGED <<handle, call, doubled>>

(* External: it returns, after the callbacks it made itself.               *)
RequestReturns ==
  /\ worker.pc = "requesting"
  /\ call["worker"] = NoCall
  /\ worker' = [pc |-> "save", account |-> worker.account,
                session |-> worker.session, handle |-> requests]
  /\ UNCHANGED <<handle, call, active, requests, doubled>>

(* "save handle"                                                           *)
SaveHandle ==
  /\ worker.pc = "save"
  /\ UniqueFree
  /\ handle' = [handle EXCEPT ![worker.account][worker.session]
                                = worker.handle]
  /\ worker' = [pc |-> "idle"]
  /\ UNCHANGED <<call, active, requests, doubled>>

(* Fault: the handle is not cancelled.                                     *)
UnsubscribeOnly(a, s) ==
  /\ worker.pc = "idle"
  /\ UniqueFree
  /\ handle[a][s] # NoSub
  /\ handle' = [handle EXCEPT ![a][s] = NoSub]
  /\ UNCHANGED <<worker, call, active, requests, doubled>>

(* Fault: the lock is not taken.                                           *)
UnsubscribeUnlocked(a, s) ==
  /\ worker.pc = "idle"
  /\ handle[a][s] # NoSub
  /\ active' = [active EXCEPT ![a] = @ \ {handle[a][s]}]
  /\ handle' = [handle EXCEPT ![a][s] = NoSub]
  /\ UNCHANGED <<worker, call, requests, doubled>>

(* CancelAccountSubscription and EraseAccountSubscription: the handle is   *)
(* cancelled in the library under the same lock. A session that does not   *)
(* follow the account changes nothing. The entry of an account nobody      *)
(* follows any more stays, as the loop breaks before it is erased: it      *)
(* reaches no session, only the result of AccountRequest tells it apart.   *)
Unsubscribe(a, s) ==
  /\ worker.pc = "idle"
  /\ UniqueFree
  /\ handle[a][s] # NoSub
  /\ active' = [active EXCEPT ![a] = @ \ {handle[a][s]}]
  /\ handle' = [handle EXCEPT ![a][s] = NoSub]
  /\ UNCHANGED <<worker, call, requests, doubled>>

-----------------------------------------------------------------------------
(* The handler: UpdateAccountValue, and PortfolioUpdate and                *)
(* AccountDownloadEnd through AccountRequest.                              *)

(* External: the library calls the handler of an account. A cancel may     *)
(* come between this and the handler's lock.                               *)
Dispatch(t, a, mode) ==
  /\ call[t] = NoCall
  /\ active[a] # {}
  /\ t = "worker" =>
       worker.pc = "requesting" /\ worker.account = a /\ mode = "shared"
  /\ call' = [call EXCEPT
       ![t] = [mode |-> "waiting", todo |-> {}, account |-> a, lock |-> mode]]
  /\ UNCHANGED <<handle, worker, active, requests, doubled>>

(* The handler looks the account up under a shared lock (values) or a      *)
(* unique lock (portfolio, download end).                                  *)
EnterHandler(t) ==
  /\ call[t].mode = "waiting"
  /\ IF call[t].lock = "shared" THEN SharedFree ELSE UniqueFree
  /\ call' = [call EXCEPT
       ![t] = [mode |-> call[t].lock, todo |-> Subscribers(call[t].account),
               account |-> call[t].account, lock |-> call[t].lock]]
  /\ UNCHANGED <<handle, worker, active, requests, doubled>>

(* Push, with the lock held. It never fails, so no session is ever found   *)
(* to be an orphan here.                                                   *)
PushUpdate(t, s) ==
  /\ s \in call[t].todo
  /\ call' = [call EXCEPT ![t].todo = @ \ {s}]
  /\ UNCHANGED <<handle, worker, active, requests, doubled>>

(* Fault: the unique lock is not given back.                               *)
LeaveHandlerLocked(t) ==
  /\ call[t].mode = "shared"
  /\ call[t].todo = {}
  /\ call' = [call EXCEPT ![t] = NoCall]
  /\ UNCHANGED <<handle, worker, active, requests, doubled>>

LeaveHandler(t) ==
  /\ call[t].mode \in {"shared", "unique"}
  /\ call[t].todo = {}
  /\ call' = [call EXCEPT ![t] = NoCall]
  /\ UNCHANGED <<handle, worker, active, requests, doubled>>

-----------------------------------------------------------------------------
AddAccountSubscription == \/ \E a \in Account, s \in Session : Subscribe(a, s)
                          \/ RequestAccountUpdates
                          \/ RequestReturns
                          \/ SaveHandle

UpdateAccountValue(t) == \/ EnterHandler(t)
                         \/ \E s \in Session : PushUpdate(t, s)
                         \/ LeaveHandler(t)

Next == \/ AddAccountSubscription
        \/ \E a \in Account, s \in Session : Unsubscribe(a, s)
        \/ \E t \in Thread : UpdateAccountValue(t)
        \/ \E t \in Thread, a \in Account, mode \in {"shared", "unique"} :
             Dispatch(t, a, mode)

Spec == Init /\ [][Next]_vars

(* Threads that can go on do, a push returns (OutgoingWrites), the library *)
(* makes its own callbacks and returns, and a thread that waits for a      *)
(* mutex that is free again and again gets it. Nobody has to subscribe,    *)
(* and TWS has to send nothing.                                            *)
Fairness ==
  /\ WF_vars(RequestAccountUpdates)
  /\ SF_vars(RequestReturns) /\ SF_vars(SaveHandle)
  /\ \A t \in Thread : SF_vars(UpdateAccountValue(t))

FairSpec == Spec /\ Fairness

-----------------------------------------------------------------------------
WorkerType ==
  [pc : {"idle"}]
    \cup [pc : {"added", "requesting"}, account : Account, session : Session]
    \cup [pc : {"save"}, account : Account, session : Session, handle : Handle]

CallType ==
  [mode : {"none"}, todo : {{}}]
    \cup [mode : {"waiting", "shared", "unique"}, todo : SUBSET Session,
          account : Account, lock : {"shared", "unique"}]

(* The shapes; and only sessions whose user may read an account are in its *)
(* map, the worker serving one of them at a time.                          *)
TypeOK ==
  /\ handle \in [Account -> [Session -> Handle \cup {NoSub, Unsaved}]]
  /\ \A a \in Account, s \in Session :
       handle[a][s] # NoSub => <<a, s>> \in MayRead
  /\ worker \in WorkerType
  /\ call \in [Thread -> CallType]
  /\ active \in [Account -> SUBSET Handle]
  /\ requests \in 0..MaxRequest
  /\ doubled \subseteq Account

(* While the library may call the handler for an account, some session     *)
(* follows it, so that no update is answered with "nobody is subscribed":  *)
(* also for the updates that come before the request has returned and its  *)
(* handle is saved. A session that subscribes again to what it follows     *)
(* overwrites its handle, and the promise ends for that account.           *)
CallbackHasSubscriber ==
  \A a \in Account \ doubled : active[a] # {} => Subscribers(a) # {}

(* Every handle the library has given out and not cancelled is one the     *)
(* gateway will be able to cancel: it is saved for a session, or on its    *)
(* way to be. Again, until a session subscribes twice.                     *)
Returning(a) ==
  IF worker.pc \in {"requesting", "save"} /\ worker.account = a
  THEN {requests} ELSE {}

NoHandleLost ==
  \A a \in Account \ doubled :
    active[a] = ({handle[a][s] : s \in Session} \ {NoSub, Unsaved})
                  \cup Returning(a)

(* An update is pushed only to a session that is subscribed at that very   *)
(* moment: none arrives after the worker has handled the unsubscribe.      *)
NoUpdateAfterCancel ==
  [][\A t \in Thread : \A s \in call[t].todo \ call'[t].todo :
       handle[call[t].account][s] # NoSub]_vars

(* A subscription and every callback come to their end: neither the lock   *)
(* nor a callback on the worker's own thread, in the middle of its         *)
(* request, stops a thread for good.                                       *)
ThreadsReturn ==
  /\ worker.pc # "idle" ~> worker.pc = "idle"
  /\ \A t \in Thread : call[t] # NoCall ~> call[t] = NoCall

-----------------------------------------------------------------------------
(* Why these hold: the parts of the inductive invariant.                   *)

(* Two sessions of an account never share a handle, so that one of them    *)
(* leaving does not silence the other; and all of them are handles that    *)
(* were given out, the one the worker brings not yet saved.                *)
HandlesDistinct ==
  /\ \A a, b \in Account : \A s, t \in Session :
       handle[a][s] = handle[b][t] /\ handle[a][s] \in Handle
         => a = b /\ s = t
  /\ \A a \in Account, s \in Session : handle[a][s] <= requests
  /\ worker.pc \in {"requesting", "save"} =>
       \A a \in Account, s \in Session : handle[a][s] < requests

(* The session the worker serves is in the map, without a handle unless it *)
(* was there before; no other session is without one.                      *)
ServedInv ==
  /\ worker.pc = "added" => requests < MaxRequest
  /\ worker.pc \in {"requesting", "save"} => requests \in Handle
  /\ worker.pc = "save" => worker.handle = requests
  /\ worker.pc # "idle" =>
       /\ handle[worker.account][worker.session] # NoSub
       /\ worker.account \notin doubled =>
            handle[worker.account][worker.session] = Unsaved
  /\ \A a \in Account, s \in Session : handle[a][s] = Unsaved =>
       worker.pc # "idle" /\ worker.account = a /\ worker.session = s

(* Inside the handler, the sessions still to be told follow the account;   *)
(* and the mutex is what keeps it so.                                      *)
ToldInv ==
  \A t \in Thread :
    /\ call[t].mode \in {"none", "waiting"} => call[t].todo = {}
    /\ call[t].mode \in {"shared", "unique"} =>
         call[t].todo \subseteq Subscribers(call[t].account)

Inv == TypeOK /\ HandlesDistinct /\ ServedInv /\ NoHandleLost /\ ToldInv
=============================================================================
