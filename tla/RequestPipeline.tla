--------------------------- MODULE RequestPipeline ---------------------------
(***************************************************************************)
(* The way of a request through the server: WebRequestWorker.cpp,          *)
(* TwsSendWorker.cpp and BlocklyWorker.cpp.                                *)
(*                                                                         *)
(* A client sends transmissions, each a list of requests. One thread, the  *)
(* WebRequestWorker, takes the transmissions from a queue and works off    *)
(* the requests of each from the last to the first: it answers some at     *)
(* once, starts a coroutine or a thread for some, and passes the others on *)
(* to the queue of the TwsSendWorker or of the BlocklyWorker, which have a *)
(* thread each. The TwsSendWorker starts a coroutine for most requests,    *)
(* and blocks its thread for those that calculate an implied value, until  *)
(* TWS has sent the details of their contracts.                            *)
(***************************************************************************)
EXTENDS Integers, Sequences, FiniteSets

CONSTANTS
  Session,
  Content,      (* the lists of requests a client may send                 *)
  MaxSent,      (* bound: transmissions sent                               *)
  MaxContract   (* bound: contracts in a request for implied values        *)

(* What becomes of a request, by its type:                                 *)
WebKind ==
  {"query",      (* answered before the worker takes the next one          *)
   "task",       (* a coroutine or a detached thread answers it            *)
   "quiet"}      (* done or ignored without an answer: an edit of a watch  *)
                 (* list, an empty request, a name of an unknown type      *)
TwsKind ==
  {"async",      (* a coroutine or a callback answers when TWS does        *)
   "silent",     (* cancels, types the worker does not know, and requests  *)
                 (* for implied values that name no contract               *)
   "volatility", (* implied volatility: waits for contracts                *)
   "price"}      (* implied price: the same, in a noexcept function        *)
Kind == WebKind \cup TwsKind \cup {"blockly"}
Answering == Kind \ {"quiet", "silent"}

ASSUME ContentAssumption == Content \subseteq Seq(Kind)
ASSUME BoundsAssumption == MaxSent \in Nat /\ MaxContract \in Nat \ {0}

Worker  == {"web", "tws", "blockly"}
Request == [session : Session, tx : 1..MaxSent, pos : Nat \ {0}, kind : Kind]

VARIABLES
  sent,      (* history: what each session sent                            *)
  incoming,  (* WebRequestWorker::_queue                                   *)
  current,   (* what is left of the transmission it works on               *)
  queue,     (* the queues of the other two workers                        *)
  waiting,   (* the request the TwsSendWorker waits with, and how many     *)
             (* contracts it needs: at most one element                    *)
  tasks,     (* coroutines and threads that have not answered              *)
  handled,   (* history: what each worker has begun, in order              *)
  answered,  (* requests that got a result or an error                     *)
  failed,    (* history: requests whose contract TWS does not know         *)
  alive      (* the process runs                                           *)

workVars == <<queue, waiting, tasks, handled, answered, failed, alive>>
vars == <<sent, incoming, current, workVars>>

Init ==
  /\ sent = [s \in Session |-> <<>>]
  /\ incoming = <<>>
  /\ current = <<>>
  /\ queue = [w \in {"tws", "blockly"} |-> <<>>]
  /\ waiting = {}
  /\ tasks = {}
  /\ handled = [w \in Worker |-> <<>>]
  /\ answered = {}
  /\ failed = {}
  /\ alive = TRUE

-----------------------------------------------------------------------------
(* The requests of a transmission.                                         *)
Requests(s, tx, kinds) ==
  [i \in DOMAIN kinds |->
     [session |-> s, tx |-> tx, pos |-> i, kind |-> kinds[i]]]

CanSend(s) == Len(sent[s]) < MaxSent

(* DoSession has read a transmission and queues it.                        *)
HandleIncoming(s, kinds) ==
  /\ CanSend(s)
  /\ sent' = [sent EXCEPT ![s] = Append(@, kinds)]
  /\ incoming' = Append(incoming, [readable |-> TRUE,
                   messages |-> Requests(s, Len(sent[s]) + 1, kinds)])
  /\ UNCHANGED <<current, workVars>>

(* It is no RequestTransmission.                                           *)
HandleGarbage(s) ==
  /\ CanSend(s)
  /\ sent' = [sent EXCEPT ![s] = Append(@, <<>>)]
  /\ incoming' = Append(incoming, [readable |-> FALSE, messages |-> <<>>])
  /\ UNCHANGED <<current, workVars>>

-----------------------------------------------------------------------------
(* The WebRequestWorker.                                                   *)

Begin(w, m) == handled' = [handled EXCEPT ![w] = Append(@, m)]

Enqueue(w, m) ==
  /\ queue' = [queue EXCEPT ![w] = Append(@, m)]
  /\ UNCHANGED <<waiting, tasks, answered, failed, alive>>

(* Fault: what is left of the last transmission is overwritten.            *)
TakeTransmissionEarly ==
  /\ incoming # <<>>
  /\ incoming' = Tail(incoming)
  /\ current' = IF Head(incoming).readable
                THEN Head(incoming).messages ELSE <<>>
  /\ UNCHANGED <<sent, workVars>>

(* Run takes the next transmission. An unreadable one is answered with an  *)
(* error that belongs to no request.                                       *)
TakeTransmission ==
  /\ current = <<>>
  /\ incoming # <<>>
  /\ incoming' = Tail(incoming)
  /\ current' = IF Head(incoming).readable
                THEN Head(incoming).messages ELSE <<>>
  /\ UNCHANGED <<sent, workVars>>

(* Receive answers a query, and sends an error if it fails.                *)
Receive(m) ==
  /\ m.kind = "query"
  /\ answered' = answered \cup {m}
  /\ UNCHANGED <<queue, waiting, tasks, failed, alive>>

(* ReceiveOptions, ReceiveStdDev, ReceiveFlex, and the like.               *)
StartTask(m) ==
  /\ m.kind \in {"task", "async"}
  /\ tasks' = tasks \cup {m}
  /\ UNCHANGED <<waiting, answered, failed, alive>>

Quiet(m) ==
  /\ m.kind = "quiet"
  /\ UNCHANGED <<queue, waiting, tasks, answered, failed, alive>>

(* What becomes of a message, by its type.                                *)
Dispatch(m) == \/ Receive(m)
               \/ m.kind = "task" /\ StartTask(m) /\ UNCHANGED queue
               \/ Quiet(m)
               \/ m.kind = "blockly" /\ Enqueue("blockly", m)
               \/ m.kind \in TwsKind /\ Enqueue("tws", m)

(* Fault: the first message is released.                                   *)
HandleMessageFirst ==
  LET m == Head(current) IN
  /\ current # <<>>
  /\ current' = Tail(current)
  /\ Begin("web", m)
  /\ Dispatch(m)
  /\ UNCHANGED <<sent, incoming>>

(* Fault: the worker waits until the TwsSendWorker is free.                *)
HandleMessageWaits ==
  LET m == current[Len(current)] IN
  /\ current # <<>>
  /\ waiting = {}
  /\ current' = SubSeq(current, 1, Len(current) - 1)
  /\ Begin("web", m)
  /\ Dispatch(m)
  /\ UNCHANGED <<sent, incoming>>

(* One round of the loop: "ReleaseLast".                                   *)
HandleMessage ==
  LET m == current[Len(current)] IN
  /\ current # <<>>
  /\ current' = SubSeq(current, 1, Len(current) - 1)
  /\ Begin("web", m)
  /\ Dispatch(m)
  /\ UNCHANGED <<sent, incoming>>

-----------------------------------------------------------------------------
(* The BlocklyWorker answers every request itself.                         *)
HandleBlockly ==
  LET m == Head(queue["blockly"]) IN
  /\ queue["blockly"] # <<>>
  /\ queue' = [queue EXCEPT !["blockly"] = Tail(@)]
  /\ Begin("blockly", m)
  /\ answered' = answered \cup {m}
  /\ UNCHANGED <<sent, incoming, current, waiting, tasks, failed, alive>>

-----------------------------------------------------------------------------
(* The TwsSendWorker.                                                      *)

(* GetContract: the thread waits for a future.                             *)
WaitForContracts(m) ==
  /\ m.kind \in {"volatility", "price"}
  /\ \E n \in 1..MaxContract : waiting' = {[request |-> m, contracts |-> n]}
  /\ UNCHANGED <<tasks, answered, failed, alive>>

HandleSilent(m) ==
  /\ m.kind = "silent"
  /\ UNCHANGED <<waiting, tasks, answered, failed, alive>>

HandleRequest ==
  LET m == Head(queue["tws"]) IN
  /\ waiting = {}
  /\ queue["tws"] # <<>>
  /\ queue' = [queue EXCEPT !["tws"] = Tail(@)]
  /\ Begin("tws", m)
  /\ StartTask(m) \/ HandleSilent(m) \/ WaitForContracts(m)
  /\ UNCHANGED <<sent, incoming, current>>

(* Fault: the wait does not end.                                           *)
ContractArrivesOnly ==
  \E w \in waiting :
    /\ tasks' = tasks \cup {w.request}
    /\ waiting' = {[w EXCEPT !.contracts = @ - 1]}
    /\ UNCHANGED <<sent, incoming, current, queue, handled, answered, failed,
                   alive>>

(* TWS sends the details of a contract. The calculation is started, and    *)
(* its callback will answer.                                               *)
ContractArrives ==
  \E w \in waiting :
    /\ tasks' = tasks \cup {w.request}
    /\ waiting' = IF w.contracts = 1 THEN {}
                  ELSE {[w EXCEPT !.contracts = @ - 1]}
    /\ UNCHANGED <<sent, incoming, current, queue, handled, answered, failed,
                   alive>>

(* Fault: the exception is only logged.                                    *)
ContractFailsLogged ==
  \E w \in waiting :
    /\ waiting' = {}
    /\ failed' = failed \cup {w.request}
    /\ UNCHANGED <<sent, incoming, current, queue, tasks, handled, answered,
                   alive>>

(* TWS knows no such contract and the future throws. HandleRequest answers *)
(* with the error; out of a noexcept function the exception ends the       *)
(* process.                                                                *)
ContractFails ==
  \E w \in waiting :
    /\ waiting' = {}
    /\ failed' = failed \cup {w.request}
    /\ \/ /\ w.request.kind = "volatility"
          /\ answered' = answered \cup {w.request}
          /\ UNCHANGED alive
       \/ /\ w.request.kind = "price"
          /\ alive' = FALSE
          /\ UNCHANGED answered
    /\ UNCHANGED <<sent, incoming, current, queue, tasks, handled>>

(* A coroutine or a thread comes to its end.                               *)
Answer(m) ==
  /\ m \in tasks
  /\ tasks' = tasks \ {m}
  /\ answered' = answered \cup {m}
  /\ UNCHANGED <<sent, incoming, current, queue, waiting, handled, failed,
                 alive>>

-----------------------------------------------------------------------------
Run == TakeTransmission \/ HandleMessage

Next ==
  /\ alive
  /\ \/ \E s \in Session : HandleGarbage(s)
     \/ \E s \in Session, kinds \in Content : HandleIncoming(s, kinds)
     \/ Run
     \/ HandleBlockly
     \/ HandleRequest
     \/ ContractArrives \/ ContractFails
     \/ \E m \in tasks : Answer(m)

Spec == Init /\ [][Next]_vars

(* Each worker is a thread that goes on as long as its queue is not empty; *)
(* nothing but GetContract stops one (LockReleased of OutgoingWrites for   *)
(* what they send).                                                        *)
ServerFairness ==
  /\ WF_vars(alive /\ Run)
  /\ WF_vars(alive /\ HandleBlockly)
  /\ WF_vars(alive /\ HandleRequest)

(* External: TWS answers a request for a contract, with an error if need   *)
(* be, and whatever a coroutine waits for.                                 *)
TwsFairness ==
  /\ WF_vars(alive /\ (ContractArrives \/ ContractFails))
  /\ WF_vars(alive /\ \E m \in tasks : Answer(m))

ServerSpec == Spec /\ ServerFairness

-----------------------------------------------------------------------------
TypeOK ==
  /\ sent \in [Session -> Seq(Content \cup {<<>>})]
  /\ \A s \in Session : Len(sent[s]) <= MaxSent
  /\ incoming \in Seq([readable : BOOLEAN, messages : Seq(Request)])
  /\ current \in Seq(Request)
  /\ queue \in [{"tws", "blockly"} -> Seq(Request)]
  /\ waiting \subseteq [request : Request, contracts : 1..MaxContract]
  /\ \A w, x \in waiting : w = x
  /\ tasks \subseteq Request
  /\ handled \in [Worker -> Seq(Request)]
  /\ answered \subseteq Request
  /\ failed \subseteq Request
  /\ alive \in BOOLEAN

(* Each worker handles a session's requests once, those of an earlier      *)
(* transmission first, and those of one transmission in reverse: also      *)
(* after the way through two queues, and whatever was answered meanwhile.  *)
Before(a, b) ==
  a.session = b.session => a.tx < b.tx \/ (a.tx = b.tx /\ a.pos > b.pos)

Ordered(seq) == \A j, k \in DOMAIN seq : j < k => Before(seq[j], seq[k])

HandledInOrder == \A w \in Worker : Ordered(handled[w])

Destination(m) ==
  IF m.kind \in WebKind THEN "web"
  ELSE IF m.kind \in TwsKind THEN "tws" ELSE "blockly"

(* The i-th request of a session's transmission tx, once it is sent: a set *)
(* of one element, or empty.                                               *)
MaxPos == 2  (* bound: the place in a transmission the properties speak of *)

Message(s, tx, i) ==
  {m \in UNION {{Requests(s, tx, sent[s][tx])[j] : j \in DOMAIN sent[s][tx]}
                  : t \in {tx} \cap DOMAIN sent[s]} : m.pos = i}

(* Where a request is on its way, or that its worker has begun it.         *)
Found(seq, m) == {k \in DOMAIN seq : seq[k] = m}

Places(m) ==
  (UNION {{<<"incoming", k, i>> : i \in Found(incoming[k].messages, m)}
            : k \in DOMAIN incoming})
    \cup {<<"current", k>> : k \in Found(current, m)}
    \cup {<<"queue", k, "tws">> : k \in Found(queue["tws"], m)}
    \cup {<<"queue", k, "blockly">> : k \in Found(queue["blockly"], m)}
    \cup {<<"begun", k>> : k \in Found(handled[Destination(m)], m)}

(* No request is lost or doubled between the three threads: at every       *)
(* moment it is in exactly one of the queues, in the transmission being    *)
(* worked off, or begun once, by the worker that it is meant for.          *)
OnePlace ==
  \A s \in Session, tx \in 1..MaxSent, i \in 1..MaxPos :
    \A m \in Message(s, tx, i) : Cardinality(Places(m)) = 1

Handled(m) == Found(handled[Destination(m)], m) # {}

(* If TWS answers what it is asked, every request is handled, and answered *)
(* if it is of a kind that has an answer: no request waits for ever behind *)
(* one that blocks the TwsSendWorker.                                      *)
EveryRequestSettled ==
  TwsFairness =>
    \A s \in Session, tx \in 1..MaxSent, i \in 1..MaxPos :
      Message(s, tx, i) # {}
        ~> (~alive \/ \E m \in Message(s, tx, i) :
                         /\ Handled(m)
                         /\ m.kind \in Answering => m \in answered)

(* A TWS that is silent holds up nothing but what is meant for TWS: all    *)
(* other requests are handled though the TwsSendWorker may block for ever. *)
IndependentOfTws ==
  \A s \in Session, tx \in 1..MaxSent, i \in 1..MaxPos :
    (\E m \in Message(s, tx, i) : m.kind \notin TwsKind)
      ~> (~alive \/ \E m \in Message(s, tx, i) : Handled(m))

(* "catch( const IException& e ) ... Push( "Request failed", ... )": what   *)
(* fails in the TwsSendWorker is answered with an error.                   *)
FailuresAnswered == failed \subseteq answered

-----------------------------------------------------------------------------
(* Why HandledInOrder and OnePlace hold: the parts of the inductive        *)
(* invariant.                                                              *)
Elems(seq) == {seq[k] : k \in DOMAIN seq}
Reversed(seq) == \A j, k \in DOMAIN seq : j < k => Before(seq[k], seq[j])
AllBefore(A, B) == \A a \in A, b \in B : Before(a, b)

Transmission(n) == Elems(incoming[n].messages)
Begun == Elems(handled["web"])
Coming == UNION {Transmission(n) : n \in DOMAIN incoming}

(* The WebRequestWorker's way: what it has begun comes before what is left *)
(* of the transmission, and that before the transmissions to come, each    *)
(* from its last request to its first; and all of it was sent.             *)
WebOrderInv ==
  /\ Ordered(handled["web"])
  /\ Reversed(current)
  /\ AllBefore(Begun, Elems(current))
  /\ \A n \in DOMAIN incoming :
       /\ Reversed(incoming[n].messages)
       /\ AllBefore(Begun, Transmission(n))
       /\ AllBefore(Elems(current), Transmission(n))
       /\ \A l \in DOMAIN incoming :
            n < l => AllBefore(Transmission(n), Transmission(l))

SentInv ==
  /\ \A m \in Begun \cup Elems(current) : m.tx <= Len(sent[m.session])
  /\ \A n \in DOMAIN incoming : \A m \in Transmission(n) :
       m.tx <= Len(sent[m.session])

(* The other two take over in the order in which it begins, what is meant  *)
(* for them and nothing else.                                              *)
QueueInv ==
  \A w \in {"tws", "blockly"} :
    /\ Ordered(queue[w]) /\ Ordered(handled[w])
    /\ AllBefore(Elems(handled[w]), Elems(queue[w]))
    /\ Elems(queue[w]) \cup Elems(handled[w])
         = {m \in Begun : Destination(m) = w}

(* Every request of a transmission is somewhere on the web worker's way.   *)
ArrivedInv ==
  /\ \A s \in Session : \A tx \in DOMAIN sent[s] :
       Elems(Requests(s, tx, sent[s][tx]))
         \subseteq Begun \cup Elems(current) \cup Coming
  /\ \A n \in DOMAIN incoming :
       ~incoming[n].readable => incoming[n].messages = <<>>

Inv == TypeOK /\ WebOrderInv /\ SentInv /\ QueueInv /\ ArrivedInv
=============================================================================
