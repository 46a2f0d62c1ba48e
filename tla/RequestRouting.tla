--------------------------- MODULE RequestRouting ---------------------------
(***************************************************************************)
(* Which request an answer of TWS belongs to: _requestSession of           *)
(* WebSendGateway, the handlers of TwsSendWorker.cpp that enter, look up   *)
(* and erase its entries, and the callbacks of WrapperWeb.cpp that use it. *)
(*                                                                         *)
(* TWS knows a request by a number, a client by the number of its session  *)
(* and an id of its own. The TwsSendWorker draws a request number, enters  *)
(* the client's key under it and sends the request; the TWS reader thread  *)
(* looks the key up for every answer and then pushes the answer. Orders    *)
(* and the requests of the client library draw their numbers from the same *)
(* counter and are not entered.                                            *)
(*                                                                         *)
(* External: TWS and the client library, by how they are used here: what a *)
(* request is answered with, the counter, and that TWS calls back on one   *)
(* thread. A client starts a request under an id it has not used before.   *)
(***************************************************************************)
EXTENDS Integers

CONSTANTS
  Session,
  ClientId,     (* ids that clients give their requests                    *)
  NoKey,        (* ClientKey{}                                             *)
  OtherOrder,   (* order numbers of other clients of the same TWS          *)
  MaxNumber     (* bound: numbers drawn                                    *)

Number == 1..MaxNumber
Key    == Session \X ClientId

ASSUME NoKeyAssumption == NoKey \notin Key
ASSUME NumberAssumption == MaxNumber \in Nat /\ OtherOrder \subseteq Number

Subscription == {"positions", "account"}   (* TWS goes on after the end    *)
Routed == Subscription \cup {"executions"} (* kinds that are entered       *)

VARIABLES
  nextId,            (* the counter of TwsClientSync                       *)
  requestSession,    (* _requestSession: number -> key                     *)
  executionRequests, (* _executionRequests: sessions                       *)
  pc,                (* where the TwsSendWorker stands                     *)
  job,               (* what it works on: kind, key and number             *)
  atTws,             (* external: the state of a number in TWS             *)
  reader,            (* the callback between lookup and push, if any       *)
  request,           (* history: what a number was drawn for               *)
  asked,             (* history: keys that a client has cancelled          *)
  cancelled,         (* history: numbers whose cancel was handled          *)
  lost,              (* history: numbers an answer of which found nobody   *)
  pushed,            (* history: the answers pushed                        *)
  late               (* history: how many after the cancel, up to two      *)

workVars    == <<nextId, requestSession, executionRequests, pc, job>>
historyVars == <<cancelled, lost, pushed, late>>
vars == <<workVars, atTws, reader, request, asked, historyVars>>

NoJob     == [kind |-> "none", key |-> NoKey, number |-> 0]
NoRequest == [kind |-> "none", key |-> NoKey]

Init ==
  /\ nextId = 1
  /\ requestSession = [n \in Number |-> NoKey]
  /\ executionRequests = {}
  /\ pc = "idle"
  /\ job = NoJob
  /\ atTws = [n \in Number |-> "none"]
  /\ reader = {}
  /\ request = [n \in Number |-> NoRequest]
  /\ asked = {}
  /\ cancelled = {}
  /\ lost = {}
  /\ pushed = {}
  /\ late = [n \in Number |-> 0]

-----------------------------------------------------------------------------
(* TwsSendWorker: requests.                                                *)

Fresh(key) == \A n \in Number : request[n].key # key

(* Fault: the session is recorded with the first commission report.        *)
ExecutionsUnrecorded(key) ==
  /\ pc = "idle"
  /\ Fresh(key)
  /\ pc' = "start"
  /\ job' = [kind |-> "executions", key |-> key, number |-> 0]
  /\ UNCHANGED <<nextId, requestSession, executionRequests, atTws, reader,
                 request, asked, historyVars>>

(* Executions records the session for commission reports first.            *)
Executions(key) ==
  /\ pc = "idle"
  /\ Fresh(key)
  /\ pc' = "start"
  /\ job' = [kind |-> "executions", key |-> key, number |-> 0]
  /\ executionRequests' = executionRequests \cup {key[1]}
  /\ UNCHANGED <<nextId, requestSession, atTws, reader, request, asked,
                 historyVars>>

(* Positions and AccountUpdatesMulti.                                      *)
Subscribe(kind, key) ==
  /\ pc = "idle"
  /\ Fresh(key)
  /\ pc' = "start"
  /\ job' = [kind |-> kind, key |-> key, number |-> 0]
  /\ UNCHANGED <<nextId, requestSession, executionRequests, atTws, reader,
                 request, asked, historyVars>>

(* External: TwsClientSync::RequestId.                                     *)
DrawNumber(r) ==
  /\ nextId \in Number
  /\ nextId' = nextId + 1
  /\ request' = [request EXCEPT ![nextId] = r]

(* AddRequestSession: emplace keeps an entry that is there.                *)
AddRequestSession ==
  /\ pc = "start"
  /\ DrawNumber([kind |-> job.kind, key |-> job.key])
  /\ requestSession' = [requestSession EXCEPT
       ![nextId] = IF @ = NoKey THEN job.key ELSE @]
  /\ pc' = "added"
  /\ job' = [job EXCEPT !.number = nextId]
  /\ UNCHANGED <<executionRequests, atTws, reader, asked, historyVars>>

(* reqExecutions, reqPositionsMulti, reqAccountUpdatesMulti.               *)
SendRequest ==
  /\ pc = "added"
  /\ atTws' = [atTws EXCEPT ![job.number] = "open"]
  /\ pc' = "idle"
  /\ job' = NoJob
  /\ UNCHANGED <<nextId, requestSession, executionRequests, reader, request,
                 asked, historyVars>>

(* Fault: order numbers are counted apart from request numbers.            *)
DrawOtherApart ==
  \E n \in Number :
    /\ request[n].kind = "none"
    /\ request' = [request EXCEPT ![n] = [kind |-> "other", key |-> NoKey]]
    /\ atTws' = [atTws EXCEPT ![n] = "open"]
    /\ UNCHANGED <<workVars, reader, asked, historyVars>>

(* External: an order, or a request of the client library, draws a number  *)
(* and goes to TWS; none of them is entered.                               *)
DrawOther ==
  /\ DrawNumber([kind |-> "other", key |-> NoKey])
  /\ atTws' = [atTws EXCEPT ![nextId] = "open"]
  /\ UNCHANGED <<requestSession, executionRequests, pc, job, reader, asked,
                 historyVars>>

-----------------------------------------------------------------------------
(* TwsSendWorker: CancelPositionsMulti, for any id the client names.       *)

Entries(key) == {n \in Number : requestSession[n] = key}

(* Fault: "if( ibId )" is left out.                                        *)
RequestFindUntested(key) ==
  /\ pc = "idle"
  /\ ~Fresh(key)
  /\ asked' = asked \cup {key}
  /\ pc' = "found"
  /\ \E n \in Entries(key) \cup {0} :
       /\ n = 0 => Entries(key) = {}
       /\ job' = [kind |-> "cancel", key |-> key, number |-> n]
  /\ UNCHANGED <<nextId, requestSession, executionRequests, atTws, reader,
                 request, historyVars>>

(* Fault: only the client's id is compared.                                *)
RequestFindAnySession(key) ==
  /\ pc = "idle"
  /\ ~Fresh(key)
  /\ asked' = asked \cup {key}
  /\ \E n \in Number :
       /\ requestSession[n] # NoKey
       /\ requestSession[n][2] = key[2]
       /\ pc' = "found"
       /\ job' = [kind |-> "cancel", key |-> key, number |-> n]
  /\ UNCHANGED <<nextId, requestSession, executionRequests, atTws, reader,
                 request, historyVars>>

(* RequestFind. Without an entry, there is only a warning.                 *)
RequestFind(key) ==
  /\ pc = "idle"
  /\ ~Fresh(key)
  /\ asked' = asked \cup {key}
  /\ \/ /\ Entries(key) = {}
        /\ UNCHANGED <<pc, job>>
     \/ \E n \in Entries(key) :
          /\ pc' = "found"
          /\ job' = [kind |-> "cancel", key |-> key, number |-> n]
  /\ UNCHANGED <<nextId, requestSession, executionRequests, atTws, reader,
                 request, historyVars>>

(* cancelPositionsMulti: TWS stops a subscription to positions, and only   *)
(* that; answers may be on their way.                                      *)
CancelPositionsMulti ==
  /\ pc = "found"
  /\ atTws' = IF request[job.number].kind = "positions"
              THEN [atTws EXCEPT ![job.number] = "closing"] ELSE atTws
  /\ pc' = "cancelled"
  /\ UNCHANGED <<nextId, requestSession, executionRequests, job, reader,
                 request, asked, historyVars>>

(* Fault: the entry is left.                                               *)
RequestEraseNot ==
  /\ pc = "cancelled"
  /\ cancelled' = cancelled \cup {job.number}
  /\ pc' = "idle"
  /\ job' = NoJob
  /\ UNCHANGED <<nextId, requestSession, executionRequests, atTws, reader,
                 request, asked, lost, pushed, late>>

RequestErase ==
  /\ pc = "cancelled"
  /\ requestSession' = [requestSession EXCEPT ![job.number] = NoKey]
  /\ cancelled' = cancelled \cup {job.number}
  /\ pc' = "idle"
  /\ job' = NoJob
  /\ UNCHANGED <<nextId, executionRequests, atTws, reader, request, asked,
                 lost, pushed, late>>

-----------------------------------------------------------------------------
(* WrapperWeb: the callbacks, on the TWS reader thread.                    *)

(* GetClientRequest: a callback finds the key of its number, and will push *)
(* the answer, or it finds none and the answer is dropped.                 *)
Lookup(n, what) ==
  /\ reader = {}
  /\ IF requestSession[n] = NoKey
     THEN /\ lost' = IF request[n].kind \in Routed THEN lost \cup {n} ELSE lost
          /\ UNCHANGED reader
     ELSE /\ reader' = {[number |-> n, what |-> what,
                        key |-> requestSession[n]]}
          /\ UNCHANGED lost
  /\ UNCHANGED <<workVars, request, asked, cancelled, pushed, late>>

(* execDetails, positionMulti, accountUpdateMulti.                         *)
Answer(n) ==
  /\ request[n].kind \in Routed
  /\ atTws[n] \in {"open", "ended", "closing"}
  /\ Lookup(n, "answer")
  /\ UNCHANGED atTws

(* execDetailsEnd, positionMultiEnd, accountUpdateMultiEnd.                *)
AnswersEnd(n) ==
  /\ request[n].kind \in Routed
  /\ atTws[n] = "open"
  /\ atTws' = [atTws EXCEPT
       ![n] = IF request[n].kind \in Subscription THEN "ended" ELSE "closed"]
  /\ Lookup(n, "end")

(* error: TWS refuses a request, or ends a subscription. The client hears  *)
(* nothing ("Obsolete?").                                                  *)
Error(n) ==
  /\ reader = {}
  /\ atTws[n] \in {"open", "ended", "closing"}
  /\ atTws' = [atTws EXCEPT ![n] = IF @ = "open" THEN "refused" ELSE "closed"]
  /\ UNCHANGED <<workVars, reader, request, asked, historyVars>>

(* orderStatus, tickSnapshotEnd, contractDetailsEnd for a number that was  *)
(* drawn for an order or by the client library, and orderStatus for an     *)
(* order of another client, which may have any number.                     *)
OtherCallback(n) ==
  /\ \/ n \in OtherOrder
     \/ request[n].kind = "other" /\ atTws[n] = "open"
  /\ Lookup(n, "other")
  /\ UNCHANGED atTws

(* The lookup is over, its key is pushed to.                               *)
PushAnswer ==
  \E r \in reader :
    /\ reader' = {}
    /\ pushed' = pushed \cup {r}
    /\ late' = IF r.number \in cancelled /\ late[r.number] < 2
               THEN [late EXCEPT ![r.number] = @ + 1] ELSE late
    /\ UNCHANGED <<workVars, atTws, request, asked, cancelled, lost>>

(* commissionReport of an execution a request was answered with: to every  *)
(* session that has asked for executions. TWS names no number.             *)
CommissionReport(n) ==
  /\ reader = {}
  /\ request[n].kind = "executions"
  /\ atTws[n] = "open"
  /\ lost' = IF request[n].key[1] \in executionRequests THEN lost
             ELSE lost \cup {n}
  /\ UNCHANGED <<workVars, atTws, reader, request, asked, cancelled, pushed,
                 late>>

(* Fault: the counter is set back.                                         *)
NextValidIdAgain(k) ==
  /\ reader = {}
  /\ nextId' = k
  /\ UNCHANGED <<requestSession, executionRequests, pc, job, atTws, reader,
                 request, asked, historyVars>>

(* nextValidId, when a connection to TWS is made: SetRequestId never sets  *)
(* the counter back (external).                                            *)
NextValidId(k) ==
  /\ reader = {}
  /\ nextId' = IF k > nextId THEN k ELSE nextId
  /\ UNCHANGED <<requestSession, executionRequests, pc, job, atTws, reader,
                 request, asked, historyVars>>

-----------------------------------------------------------------------------
SendWorker ==
  \/ \E key \in Key : Executions(key) \/ RequestFind(key)
  \/ \E key \in Key, kind \in Subscription : Subscribe(kind, key)
  \/ AddRequestSession \/ SendRequest
  \/ CancelPositionsMulti \/ RequestErase

Callback(n) == \/ Answer(n) \/ AnswersEnd(n) \/ Error(n)
               \/ OtherCallback(n) \/ CommissionReport(n) \/ NextValidId(n)

Next == \/ SendWorker
        \/ DrawOther
        \/ \E n \in Number : Callback(n)
        \/ PushAnswer

Spec == Init /\ [][Next]_vars

(* The worker finishes the request it works on, the reader thread pushes   *)
(* what it has looked up, and TWS ends what it has begun to answer         *)
(* (external), however many answers come before.                           *)
Fairness ==
  /\ WF_vars(SendRequest)
  /\ WF_vars(PushAnswer)
  /\ \A n \in Number : SF_vars(AnswersEnd(n))

FairSpec == Spec /\ Fairness

-----------------------------------------------------------------------------
RequestType == [kind : Routed, key : Key]
                 \cup [kind : {"other"}, key : {NoKey}] \cup {NoRequest}

TypeOK ==
  /\ nextId \in 1..MaxNumber + 1
  /\ requestSession \in [Number -> Key \cup {NoKey}]
  /\ executionRequests \subseteq Session
  /\ pc \in {"idle", "start", "added", "found", "cancelled"}
  /\ pc = "start" => job \in [kind : Routed, key : Key, number : {0}]
  /\ pc = "added" => job \in [kind : Routed, key : Key, number : Number]
  /\ pc \in {"found", "cancelled"} =>
       job \in [kind : {"cancel"}, key : Key, number : Number]
  /\ atTws \in [Number -> {"none", "open", "ended", "closing", "closed",
                            "refused"}]
  /\ reader \subseteq [number : Number, what : {"answer", "end", "other"},
                        key : Key]
  /\ request \in [Number -> RequestType]
  /\ asked \subseteq Key
  /\ cancelled \subseteq Number
  /\ lost \subseteq Number
  /\ pushed \subseteq [number : Number, what : {"answer", "end", "other"},
                        key : Key]
  /\ late \in [Number -> 0..2]

(* An answer is pushed to the session and under the id of the very request *)
(* TWS was asked with its number: also when numbers are drawn by orders in *)
(* between, when entries are left behind, and when TWS connects again and  *)
(* names a number of its own. What TWS says of an order placed here, or of *)
(* a request of the client library, is never taken for an answer.          *)
RoutedHome ==
  \A p \in pushed :
    \/ p.what # "other" /\ p.key = request[p.number].key
    \/ p.what = "other" /\ p.number \in OtherOrder

(* No answer finds nobody, and no commission report of an execution misses *)
(* the session that asked for it, unless the client has cancelled: TWS may *)
(* answer at once, so the key must be in place before the request goes     *)
(* out, and a cancel of one session must not hit another's request.        *)
NothingLost == \A n \in lost : request[n].key \in asked

(* After a cancel is handled, one answer at most is pushed: the one that   *)
(* was between its lookup and its push, whatever TWS still sends.          *)
OneLate == \A n \in Number : late[n] <= 1

(* A client that asks, and does not cancel, gets the end mark of the list, *)
(* unless TWS refuses the request.                                         *)
EndDelivered ==
  \A n \in Number :
    request[n].kind \in Routed
      ~> \/ \E p \in pushed : p.number = n /\ p.what = "end"
         \/ atTws[n] = "refused"
         \/ request[n].key \in asked

-----------------------------------------------------------------------------
(* The invariants behind RoutedHome, NothingLost and OneLate.              *)

(* What is entered under a number is the key it was drawn for, and numbers *)
(* still to be drawn are untouched.                                        *)
EntryInv ==
  /\ \A n \in Number : requestSession[n] # NoKey =>
       request[n].kind \in Routed /\ requestSession[n] = request[n].key
  /\ \A n \in Number : n >= nextId =>
       request[n] = NoRequest /\ requestSession[n] = NoKey /\ atTws[n] = "none"
  /\ pc = "added" => job.number < nextId
  /\ pc \in {"found", "cancelled"} => request[job.number].key = job.key
  /\ \A r \in reader :
       \/ r.what # "other" /\ r.key = request[r.number].key
       \/ r.what = "other" /\ r.number \in OtherOrder

(* The number of a request TWS knows is entered, or the client cancelled.  *)
PlacedInv ==
  /\ \A n \in Number : request[n].kind \in Routed =>
       \/ requestSession[n] = request[n].key
       \/ request[n].key \in asked
  /\ pc \in {"found", "cancelled"} => job.key \in asked
  /\ \A n \in Number : request[n].kind = "executions" =>
       request[n].key[1] \in executionRequests
  /\ pc \in {"start", "added"} /\ job.kind = "executions" =>
       job.key[1] \in executionRequests
  /\ \A n \in lost : request[n].kind \in Routed

(* A late answer was looked up before: none is on its way once it came.    *)
LateInv ==
  \A n \in Number :
    /\ late[n] = 1 => \A r \in reader : r.number # n
    /\ late[n] # 0 => n \in cancelled
    /\ n \in cancelled => requestSession[n] = NoKey /\ n < nextId
=============================================================================
