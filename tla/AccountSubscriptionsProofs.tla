---------------------- MODULE AccountSubscriptionsProofs ----------------------
(***************************************************************************)
(* Proofs about AccountSubscriptions, for any accounts, sessions and       *)
(* rights, and any number of requests.                                     *)
(*                                                                         *)
(* Inv is inductive. Its heart is NoHandleLost: what the library may call  *)
(* is what the map holds and what the worker is bringing. Unsubscribing    *)
(* keeps it because no other session has the handle that goes              *)
(* (HandlesDistinct), saving because the entry it overwrites had none      *)
(* (ServedInv).                                                            *)
(***************************************************************************)
EXTENDS AccountSubscriptions, TLAPS

LEMMA InitInv == Init => Inv
BY MaxRequestAssumption
   DEF Init, Inv, TypeOK, HandlesDistinct, ServedInv, NoHandleLost, ToldInv,
       WorkerType, CallType, NoCall, Handle, NoSub, Unsaved, Returning, Thread

(* Adding a session keeps its handle, if it has one.                       *)
LEMMA SubscribeStep ==
  ASSUME Inv, NEW a \in Account, NEW s \in Session, Subscribe(a, s)
  PROVE  Inv'
<1> USE DEF NoSub, Unsaved, Handle
<1>1. TypeOK'
  BY DEF Subscribe, Inv, TypeOK, WorkerType
<1>2. HandlesDistinct'
  BY MaxRequestAssumption DEF Subscribe, Inv, TypeOK, HandlesDistinct
<1>3. ServedInv'
  BY MaxRequestAssumption DEF Subscribe, Inv, TypeOK, ServedInv
<1>4. NoHandleLost'
  <2> SUFFICES ASSUME NEW b \in Account \ doubled'
               PROVE  active'[b] = ({handle'[b][t] : t \in Session}
                                      \ {NoSub, Unsaved}) \cup Returning(b)'
    BY DEF NoHandleLost
  <2>1. b \notin doubled /\ Returning(b) = {} /\ Returning(b)' = {}
    BY DEF Subscribe, Returning
  <2>2. ({handle'[b][t] : t \in Session} \ {NoSub, Unsaved})
          = ({handle[b][t] : t \in Session} \ {NoSub, Unsaved})
    BY DEF Subscribe, Inv, TypeOK
  <2> QED
    BY <2>1, <2>2 DEF Subscribe, Inv, NoHandleLost
<1>5. ToldInv'
  BY DEF Subscribe, Inv, TypeOK, ToldInv, Subscribers, UniqueFree, Thread
<1> QED
  BY <1>1, <1>2, <1>3, <1>4, <1>5 DEF Inv

LEMMA RequestStep ==
  ASSUME Inv, RequestAccountUpdates
  PROVE  Inv'
<1> USE DEF NoSub, Unsaved, Handle
<1>0. /\ worker.account \in Account /\ worker.session \in Session
      /\ worker.pc = "added" /\ requests < MaxRequest
      /\ worker = [pc |-> "added", account |-> worker.account,
                   session |-> worker.session]
  BY DEF RequestAccountUpdates, Inv, TypeOK, WorkerType, ServedInv
<1>w. /\ worker' = [pc |-> "requesting", account |-> worker.account,
                    session |-> worker.session]
      /\ requests' = requests + 1
      /\ active' = [active EXCEPT ![worker.account] = @ \cup {requests'}]
      /\ UNCHANGED <<handle, call, doubled>>
  BY <1>0 DEF RequestAccountUpdates
<1>1. TypeOK'
  BY <1>0, <1>w, MaxRequestAssumption
     DEF Inv, TypeOK, WorkerType
<1>2. HandlesDistinct'
  <2>1. /\ requests \in Int /\ worker'.pc = "requesting"
        /\ \A a \in Account, s \in Session : handle[a][s] \in Int
    BY <1>w, MaxRequestAssumption DEF Inv, TypeOK
  <2> QED
    BY <1>w, <2>1 DEF Inv, HandlesDistinct
<1>3. ServedInv'
  BY <1>0, <1>w, MaxRequestAssumption
     DEF Inv, TypeOK, ServedInv
<1>4. NoHandleLost'
  BY <1>0, <1>w DEF Inv, TypeOK, NoHandleLost, Returning
<1>5. ToldInv'
  BY <1>w DEF Inv, ToldInv, Subscribers
<1> QED
  BY <1>1, <1>2, <1>3, <1>4, <1>5 DEF Inv

LEMMA ReturnStep ==
  ASSUME Inv, RequestReturns
  PROVE  Inv'
<1> USE DEF NoSub, Unsaved, Handle
<1>0. /\ worker.account \in Account /\ worker.session \in Session
      /\ worker.pc = "requesting" /\ requests \in Handle
  BY DEF RequestReturns, Inv, TypeOK, WorkerType, ServedInv
<1>1. TypeOK'
  BY <1>0 DEF RequestReturns, Inv, TypeOK, WorkerType
<1>2. HandlesDistinct'
  BY <1>0 DEF RequestReturns, Inv, HandlesDistinct
<1>3. ServedInv'
  BY <1>0 DEF RequestReturns, Inv, ServedInv
<1>4. NoHandleLost'
  BY <1>0 DEF RequestReturns, Inv, NoHandleLost, Returning
<1>5. ToldInv'
  BY DEF RequestReturns, Inv, ToldInv, Subscribers
<1> QED
  BY <1>1, <1>2, <1>3, <1>4, <1>5 DEF Inv

LEMMA SaveStep ==
  ASSUME Inv, SaveHandle
  PROVE  Inv'
<1> USE DEF NoSub, Unsaved, Handle
<1> DEFINE a == worker.account
           s == worker.session
<1>0. /\ a \in Account /\ s \in Session
      /\ worker.pc = "save" /\ worker.handle = requests /\ requests \in Handle
      /\ handle[a][s] # NoSub
      /\ a \notin doubled => handle[a][s] = Unsaved
  BY DEF SaveHandle, Inv, TypeOK, WorkerType, ServedInv
<1>h. /\ handle' = [handle EXCEPT ![a][s] = requests]
      /\ worker' = [pc |-> "idle"]
      /\ UNCHANGED <<call, active, requests, doubled>>
  BY <1>0 DEF SaveHandle
<1> HIDE DEF a, s
<1>1. TypeOK'
  BY <1>0, <1>h DEF Inv, TypeOK, WorkerType
<1>2. HandlesDistinct'
  BY <1>0, <1>h, MaxRequestAssumption DEF Inv, TypeOK, HandlesDistinct
<1>3. ServedInv'
  BY <1>0, <1>h DEF Inv, TypeOK, ServedInv, a, s
<1>4. NoHandleLost'
  <2> SUFFICES ASSUME NEW b \in Account \ doubled
               PROVE  active[b] = ({handle'[b][t] : t \in Session}
                                     \ {NoSub, Unsaved})
    BY <1>h DEF NoHandleLost, Returning
  <2>1. CASE b = a
    <3>1. ({handle'[b][t] : t \in Session} \ {NoSub, Unsaved})
            = ({handle[b][t] : t \in Session} \ {NoSub, Unsaved})
                \cup {requests}
      BY <1>0, <1>h, <2>1 DEF Inv, TypeOK
    <3>2. Returning(b) = {requests}
      BY <1>0, <2>1 DEF Returning, a
    <3> QED
      BY <3>1, <3>2 DEF Inv, NoHandleLost
  <2>2. CASE b # a
    BY <1>0, <1>h, <2>2 DEF Inv, TypeOK, NoHandleLost, Returning, a
  <2> QED
    BY <2>1, <2>2
<1>5. ToldInv'
  BY <1>0, <1>h DEF Inv, TypeOK, ToldInv, Subscribers
<1> QED
  BY <1>1, <1>2, <1>3, <1>4, <1>5 DEF Inv

(* Only the handle of the session that leaves is cancelled.                *)
LEMMA UnsubscribeStep ==
  ASSUME Inv, NEW a \in Account, NEW s \in Session, Unsubscribe(a, s)
  PROVE  Inv'
<1> USE DEF NoSub, Unsaved, Handle
<1>0. worker.pc = "idle" /\ handle[a][s] \in Handle
  BY DEF Unsubscribe, Inv, TypeOK, ServedInv
<1>1. TypeOK'
  BY DEF Unsubscribe, Inv, TypeOK
<1>2. HandlesDistinct'
  BY <1>0, MaxRequestAssumption DEF Unsubscribe, Inv, TypeOK, HandlesDistinct
<1>3. ServedInv'
  BY <1>0 DEF Unsubscribe, Inv, TypeOK, ServedInv
<1>4. NoHandleLost'
  <2> SUFFICES ASSUME NEW b \in Account \ doubled
               PROVE  active'[b] = ({handle'[b][t] : t \in Session}
                                      \ {NoSub, Unsaved})
    BY <1>0 DEF NoHandleLost, Returning, Unsubscribe
  <2>1. active[b] = ({handle[b][t] : t \in Session} \ {NoSub, Unsaved})
    BY <1>0 DEF Inv, NoHandleLost, Returning
  <2>2. CASE b = a
    <3>1. \A t \in Session \ {s} : handle[a][t] # handle[a][s]
      BY <1>0 DEF Inv, HandlesDistinct
    <3>2. ({handle'[b][t] : t \in Session} \ {NoSub, Unsaved})
            = ({handle[b][t] : t \in Session} \ {NoSub, Unsaved})
                \ {handle[a][s]}
      BY <2>2, <3>1 DEF Unsubscribe, Inv, TypeOK
    <3> QED
      BY <2>1, <2>2, <3>2 DEF Unsubscribe, Inv, TypeOK
  <2>3. CASE b # a
    BY <2>1, <2>3 DEF Unsubscribe, Inv, TypeOK
  <2> QED
    BY <2>2, <2>3
<1>5. ToldInv'
  BY DEF Unsubscribe, Inv, TypeOK, ToldInv, Subscribers, UniqueFree, Thread
<1> QED
  BY <1>1, <1>2, <1>3, <1>4, <1>5 DEF Inv

(* Callbacks read the map and change none of it.                           *)
LEMMA CallStep ==
  ASSUME Inv, NEW t \in Thread,
         \/ UpdateAccountValue(t)
         \/ \E a \in Account, mode \in {"shared", "unique"} :
              Dispatch(t, a, mode)
  PROVE  Inv'
<1>1. UNCHANGED <<handle, worker, active, requests, doubled>>
  BY DEF UpdateAccountValue, EnterHandler, PushUpdate, LeaveHandler, Dispatch
<1>2. call' \in [Thread -> CallType] /\ ToldInv'
  <2>1. CASE EnterHandler(t)
    BY <1>1, <2>1
       DEF EnterHandler, Inv, TypeOK, CallType, ToldInv, Subscribers
  <2>2. CASE \E s \in Session : PushUpdate(t, s)
    <3>1. call[t].mode \in {"shared", "unique"}
      BY <2>2 DEF PushUpdate, Inv, TypeOK, CallType, ToldInv
    <3>2. /\ call[t].todo \subseteq Session /\ call[t].account \in Account
          /\ call[t].lock \in {"shared", "unique"}
          /\ call[t] = [mode |-> call[t].mode, todo |-> call[t].todo,
                        account |-> call[t].account, lock |-> call[t].lock]
      BY <3>1 DEF Inv, TypeOK, CallType
    <3> QED
      BY <1>1, <2>2, <3>1, <3>2
         DEF PushUpdate, Inv, TypeOK, CallType, ToldInv, Subscribers
  <2>3. CASE LeaveHandler(t)
    BY <1>1, <2>3
       DEF LeaveHandler, Inv, TypeOK, CallType, ToldInv, Subscribers, NoCall
  <2>4. CASE \E a \in Account, mode \in {"shared", "unique"} :
               Dispatch(t, a, mode)
    BY <1>1, <2>4 DEF Dispatch, Inv, TypeOK, CallType, ToldInv, Subscribers
  <2> QED
    BY <2>1, <2>2, <2>3, <2>4 DEF UpdateAccountValue
<1> QED
  BY <1>1, <1>2
     DEF Inv, TypeOK, HandlesDistinct, ServedInv, NoHandleLost, Returning

LEMMA InvStep == Inv /\ [Next]_vars => Inv'
<1> SUFFICES ASSUME Inv, [Next]_vars PROVE Inv'
  OBVIOUS
<1>1. CASE UNCHANGED vars
  BY <1>1
     DEF vars, Inv, TypeOK, HandlesDistinct, ServedInv, NoHandleLost, ToldInv,
         Returning, Subscribers
<1>2. CASE Next
  BY <1>2, SubscribeStep, RequestStep, ReturnStep, SaveStep, UnsubscribeStep,
     CallStep
     DEF Next, AddAccountSubscription
<1> QED
  BY <1>1, <1>2

THEOREM Invariance == Spec => []Inv
BY InitInv, InvStep, PTL DEF Spec

(* TypeOK: also, only sessions that may read an account are ever in its    *)
(* map (AddAccountSubscription tests CanRead, and nothing else adds).      *)
THEOREM Typing == Spec => []TypeOK
<1>1. Inv => TypeOK
  BY DEF Inv
<1> QED
  BY <1>1, Invariance, PTL

(* NoHandleLost: the library's live handles are the ones the gateway can   *)
(* still cancel, until a session subscribes twice.                         *)
THEOREM HandlesKept == Spec => []NoHandleLost
<1>1. Inv => NoHandleLost
  BY DEF Inv
<1> QED
  BY <1>1, Invariance, PTL

(* CallbackHasSubscriber follows: a live handle is saved for a session, or *)
(* on its way to one that is in the map already.                           *)
THEOREM SubscriberFirst == Spec => []CallbackHasSubscriber
<1>1. Inv => CallbackHasSubscriber
  <2> SUFFICES ASSUME Inv, NEW a \in Account \ doubled, active[a] # {}
               PROVE  Subscribers(a) # {}
    BY DEF CallbackHasSubscriber
  <2>1. CASE Returning(a) # {}
    <3>1. /\ worker.account = a /\ worker.session \in Session
          /\ worker.pc # "idle"
      BY <2>1 DEF Returning, Inv, TypeOK, WorkerType
    <3> QED
      BY <3>1 DEF Inv, ServedInv, Subscribers
  <2>2. CASE Returning(a) = {}
    BY <2>2 DEF Inv, NoHandleLost, Subscribers
  <2> QED
    BY <2>1, <2>2
<1> QED
  BY <1>1, Invariance, PTL

(* NoUpdateAfterCancel: a push happens under the lock, to a session that   *)
(* the map still holds.                                                    *)
LEMMA PushStep ==
  Inv /\ [Next]_vars =>
    \A t \in Thread : \A s \in call[t].todo \ call'[t].todo :
      handle[call[t].account][s] # NoSub
<1> SUFFICES ASSUME Inv, [Next]_vars, NEW t \in Thread,
                    NEW s \in call[t].todo \ call'[t].todo
             PROVE  handle[call[t].account][s] # NoSub
  OBVIOUS
<1> QED
  BY DEF Inv, TypeOK, CallType, ToldInv, Subscribers

THEOREM PushedToSubscribers == Spec => NoUpdateAfterCancel
BY Invariance, PushStep, PTL DEF Spec, NoUpdateAfterCancel
=============================================================================
