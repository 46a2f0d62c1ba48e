------------------------ MODULE RequestPipelineProofs ------------------------
(***************************************************************************)
(* Proofs about RequestPipeline, for any sessions, lists of requests and   *)
(* number of transmissions.                                                *)
(*                                                                         *)
(* Before orders the requests of a session strictly. WebOrderInv says that *)
(* what the WebRequestWorker has begun, what is left of the transmission   *)
(* and what waits in its queue follow each other in this order, QueueInv   *)
(* that each of the other workers takes a part of what was begun, in the   *)
(* same order. A request that were in two places would come before itself. *)
(***************************************************************************)
EXTENDS RequestPipeline, FiniteSetTheorems, SequenceTheorems, TLAPS

-----------------------------------------------------------------------------
(* Sequences.                                                              *)

LEMMA Irreflexive == ASSUME NEW m \in Request PROVE ~Before(m, m)
BY DEF Before, Request

LEMMA AppendElems ==
  ASSUME NEW S, NEW seq \in Seq(S), NEW m \in S
  PROVE  /\ Append(seq, m) \in Seq(S)
         /\ Elems(Append(seq, m)) = Elems(seq) \cup {m}
<1>1. /\ Append(seq, m) \in Seq(S)
      /\ DOMAIN Append(seq, m) = 1..Len(seq) + 1
      /\ DOMAIN seq = 1..Len(seq) /\ Len(seq) \in Nat
      /\ \A k \in 1..Len(seq) : Append(seq, m)[k] = seq[k]
      /\ Append(seq, m)[Len(seq) + 1] = m
  OBVIOUS
<1>2. \A k \in 1..Len(seq) : k \in 1..Len(seq) + 1
  BY <1>1
<1>3. \A k \in 1..Len(seq) + 1 : k \in 1..Len(seq) \/ k = Len(seq) + 1
  BY <1>1
<1>4. Len(seq) + 1 \in 1..Len(seq) + 1
  BY <1>1
<1> QED
  BY <1>1, <1>2, <1>3, <1>4 DEF Elems

LEMMA AppendOrdered ==
  ASSUME NEW S, NEW seq \in Seq(S), NEW m \in S,
         Ordered(seq), AllBefore(Elems(seq), {m})
  PROVE  Ordered(Append(seq, m))
<1>1. /\ DOMAIN Append(seq, m) = 1..Len(seq) + 1
      /\ DOMAIN seq = 1..Len(seq) /\ Len(seq) \in Nat
      /\ \A k \in 1..Len(seq) : Append(seq, m)[k] = seq[k]
      /\ Append(seq, m)[Len(seq) + 1] = m
  OBVIOUS
<1> SUFFICES ASSUME NEW j \in 1..Len(seq) + 1, NEW k \in 1..Len(seq) + 1, j < k
             PROVE  Before(Append(seq, m)[j], Append(seq, m)[k])
  BY <1>1 DEF Ordered
<1>2. j \in 1..Len(seq)
  BY <1>1
<1>3. CASE k \in 1..Len(seq)
  BY <1>1, <1>2, <1>3 DEF Ordered
<1>4. CASE k = Len(seq) + 1
  BY <1>1, <1>2, <1>4 DEF AllBefore, Elems
<1> QED
  BY <1>1, <1>3, <1>4

(* The first element, and the rest.                                        *)
LEMMA TailElems ==
  ASSUME NEW S, NEW seq \in Seq(S), seq # <<>>
  PROVE  /\ Tail(seq) \in Seq(S) /\ Head(seq) \in S
         /\ DOMAIN seq = 1..Len(seq) /\ Len(seq) \in Nat \ {0}
         /\ DOMAIN Tail(seq) = 1..Len(seq) - 1
         /\ Head(seq) = seq[1]
         /\ \A k \in 1..Len(seq) - 1 : Tail(seq)[k] = seq[k + 1]
         /\ Elems(seq) = {Head(seq)} \cup Elems(Tail(seq))
<1>1. /\ Tail(seq) \in Seq(S) /\ Head(seq) \in S
      /\ DOMAIN seq = 1..Len(seq) /\ Len(seq) \in Nat \ {0}
      /\ DOMAIN Tail(seq) = 1..Len(seq) - 1
      /\ Head(seq) = seq[1]
      /\ \A k \in 1..Len(seq) - 1 : Tail(seq)[k] = seq[k + 1]
  OBVIOUS
<1>2. \A k \in 1..Len(seq) : k = 1 \/ (k - 1 \in 1..Len(seq) - 1
                                         /\ Tail(seq)[k - 1] = seq[k])
  BY <1>1
<1>3. \A k \in 1..Len(seq) - 1 : k + 1 \in 1..Len(seq)
  BY <1>1
<1>4. 1 \in 1..Len(seq)
  BY <1>1
<1>5. ASSUME NEW x \in Elems(seq)
      PROVE  x \in {Head(seq)} \cup Elems(Tail(seq))
  <2> PICK k \in 1..Len(seq) : x = seq[k]
    BY <1>1 DEF Elems
  <2>1. CASE k = 1
    BY <1>1, <2>1
  <2>2. CASE k # 1
    <3>1. /\ k - 1 \in DOMAIN Tail(seq)
          /\ x = Tail(seq)[k - 1]
      BY <1>1, <1>2, <2>2
    <3> QED
      BY <3>1 DEF Elems
  <2> QED
    BY <2>1, <2>2
<1>6. ASSUME NEW x \in {Head(seq)} \cup Elems(Tail(seq))
      PROVE  x \in Elems(seq)
  BY <1>1, <1>3, <1>4 DEF Elems
<1>7. Elems(seq) = {Head(seq)} \cup Elems(Tail(seq))
  BY <1>5, <1>6
<1> QED
  BY <1>1, <1>7

LEMMA TailOrdered ==
  ASSUME NEW S, NEW seq \in Seq(S), seq # <<>>, Ordered(seq)
  PROVE  Ordered(Tail(seq)) /\ AllBefore({Head(seq)}, Elems(Tail(seq)))
<1>1. \A j, k \in 1..Len(seq) : j < k => Before(seq[j], seq[k])
  BY TailElems DEF Ordered
<1>2. ASSUME NEW j \in 1..Len(seq) - 1, NEW k \in 1..Len(seq) - 1, j < k
      PROVE  Before(Tail(seq)[j], Tail(seq)[k])
  <2>1. /\ j + 1 \in 1..Len(seq) /\ k + 1 \in 1..Len(seq) /\ j + 1 < k + 1
        /\ Tail(seq)[j] = seq[j + 1] /\ Tail(seq)[k] = seq[k + 1]
    BY <1>2, TailElems
  <2> QED
    BY <1>1, <2>1
<1>3. ASSUME NEW k \in 1..Len(seq) - 1
      PROVE  Before(Head(seq), Tail(seq)[k])
  <2>1. /\ k + 1 \in 1..Len(seq) /\ 1 \in 1..Len(seq) /\ 1 < k + 1
        /\ Tail(seq)[k] = seq[k + 1] /\ Head(seq) = seq[1]
    BY TailElems
  <2> QED
    BY <1>1, <2>1
<1>4. DOMAIN Tail(seq) = 1..Len(seq) - 1
  BY TailElems
<1> QED
  BY <1>2, <1>3, <1>4 DEF Ordered, AllBefore, Elems

(* The last element, and the front.                                        *)
Front(seq) == SubSeq(seq, 1, Len(seq) - 1)

LEMMA FrontElems ==
  ASSUME NEW S, NEW seq \in Seq(S), seq # <<>>
  PROVE  /\ Front(seq) \in Seq(S) /\ seq[Len(seq)] \in S
         /\ DOMAIN seq = 1..Len(seq) /\ Len(seq) \in Nat \ {0}
         /\ DOMAIN Front(seq) = 1..Len(seq) - 1
         /\ \A k \in 1..Len(seq) - 1 : Front(seq)[k] = seq[k]
         /\ Elems(seq) = {seq[Len(seq)]} \cup Elems(Front(seq))
<1>0. Len(seq) \in Nat \ {0}
  OBVIOUS
<1>1. /\ Front(seq) \in Seq(S) /\ seq[Len(seq)] \in S
      /\ DOMAIN seq = 1..Len(seq) /\ Len(seq) \in Nat \ {0}
      /\ DOMAIN Front(seq) = 1..Len(seq) - 1
      /\ \A k \in 1..Len(seq) - 1 : Front(seq)[k] = seq[k]
  <2>1. /\ DOMAIN seq = 1..Len(seq) /\ Len(seq) \in Nat \ {0}
        /\ \A k \in 1..Len(seq) : seq[k] \in S
    OBVIOUS
  <2>2. /\ Front(seq) \in Seq(S)
        /\ Len(Front(seq)) = Len(seq) - 1
        /\ \A k \in 1..Len(seq) - 1 : Front(seq)[k] = seq[k]
    <3>1. /\ \A k \in 1..Len(seq) - 1 : seq[k] \in S
          /\ 1 \in Int /\ Len(seq) - 1 \in Int
          /\ Len(seq) - 1 - 1 + 1 = Len(seq) - 1
          /\ ~(1 <= Len(seq) - 1) => Len(seq) - 1 = 0
          /\ \A k \in 1..Len(seq) - 1 : 1 + k - 1 = k
      BY <2>1
    <3> QED
      BY <3>1, SubSeqProperties DEF Front
  <2>3. seq[Len(seq)] \in S
    BY <2>1
  <2>4. DOMAIN Front(seq) = 1..Len(seq) - 1
    BY <2>2, LenProperties
  <2> QED
    BY <2>1, <2>2, <2>3, <2>4
<1>2. \A k \in 1..Len(seq) : k = Len(seq) \/ k \in 1..Len(seq) - 1
  BY <1>0
<1>3. \A k \in 1..Len(seq) - 1 : k \in 1..Len(seq)
  BY <1>0
<1>4. Len(seq) \in 1..Len(seq)
  BY <1>0
<1>5. ASSUME NEW x \in Elems(seq)
      PROVE  x \in {seq[Len(seq)]} \cup Elems(Front(seq))
  BY <1>1, <1>2 DEF Elems
<1>6. ASSUME NEW x \in {seq[Len(seq)]} \cup Elems(Front(seq))
      PROVE  x \in Elems(seq)
  BY <1>1, <1>3, <1>4 DEF Elems
<1>7. Elems(seq) = {seq[Len(seq)]} \cup Elems(Front(seq))
  BY <1>5, <1>6
<1> QED
  BY <1>1, <1>7

LEMMA FrontReversed ==
  ASSUME NEW S, NEW seq \in Seq(S), seq # <<>>, Reversed(seq)
  PROVE  /\ Reversed(Front(seq))
         /\ AllBefore({seq[Len(seq)]}, Elems(Front(seq)))
<1>1. \A j, k \in 1..Len(seq) : j < k => Before(seq[k], seq[j])
  BY FrontElems DEF Reversed
<1>0. Len(seq) \in Nat \ {0}
  OBVIOUS
<1>2. /\ \A k \in 1..Len(seq) - 1 : k \in 1..Len(seq) /\ k < Len(seq)
      /\ Len(seq) \in 1..Len(seq)
  BY <1>0
<1>3. /\ \A k \in 1..Len(seq) - 1 : Front(seq)[k] = seq[k]
      /\ DOMAIN Front(seq) = 1..Len(seq) - 1
  BY FrontElems
<1>4. Reversed(Front(seq))
  BY <1>1, <1>2, <1>3 DEF Reversed
<1>5. ASSUME NEW x \in Elems(Front(seq))
      PROVE  Before(seq[Len(seq)], x)
  <2> PICK k \in 1..Len(seq) - 1 : x = Front(seq)[k]
    BY <1>3 DEF Elems
  <2> QED
    BY <1>1, <1>2, <1>3
<1> QED
  BY <1>4, <1>5 DEF AllBefore

(* The requests of a transmission.                                         *)
LEMMA RequestsSeq ==
  ASSUME NEW s \in Session, NEW tx \in 1..MaxSent,
         NEW kinds \in Content \cup {<<>>}
  PROVE  /\ Requests(s, tx, kinds) \in Seq(Request)
         /\ DOMAIN Requests(s, tx, kinds) = DOMAIN kinds
         /\ \A i \in DOMAIN kinds : /\ Requests(s, tx, kinds)[i].session = s
                                    /\ Requests(s, tx, kinds)[i].tx = tx
                                    /\ Requests(s, tx, kinds)[i].pos = i
         /\ Reversed(Requests(s, tx, kinds))
<1>1. kinds \in Seq(Kind)
  BY ContentAssumption, EmptySeq
<1>2. /\ DOMAIN kinds = 1..Len(kinds) /\ Len(kinds) \in Nat
      /\ \A i \in 1..Len(kinds) : kinds[i] \in Kind /\ i \in Nat \ {0}
  BY <1>1
<1> DEFINE r(i) == [session |-> s, tx |-> tx, pos |-> i, kind |-> kinds[i]]
<1>3. \A i \in 1..Len(kinds) : r(i) \in Request
  BY <1>2 DEF Request
<1>4. Requests(s, tx, kinds) = [i \in 1..Len(kinds) |-> r(i)]
  BY <1>2 DEF Requests
<1> HIDE DEF r
<1>5. Requests(s, tx, kinds) \in Seq(Request)
  <2>1. [i \in 1..Len(kinds) |-> r(i)] \in [1..Len(kinds) -> Request]
    BY <1>3
  <2> QED
    BY <1>2, <1>4, <2>1, SeqDef
<1>6. /\ DOMAIN Requests(s, tx, kinds) = DOMAIN kinds
      /\ \A i \in DOMAIN kinds : Requests(s, tx, kinds)[i] = r(i)
  BY <1>2, <1>4
<1>7. Reversed(Requests(s, tx, kinds))
  BY <1>2, <1>6 DEF Reversed, Before, r
<1> QED
  BY <1>5, <1>6, <1>7 DEF r

-----------------------------------------------------------------------------
(* The invariant.                                                          *)

LEMMA EmptyElems == Elems(<<>>) = {} /\ Ordered(<<>>) /\ Reversed(<<>>)
BY DEF Elems, Ordered, Reversed

LEMMA InitInv == Init => Inv
<1> SUFFICES ASSUME Init PROVE Inv
  OBVIOUS
<1>0. DOMAIN <<>> = {} /\ Len(<<>>) = 0
  OBVIOUS
<1>1. TypeOK
  <2>1. /\ incoming \in Seq([readable : BOOLEAN, messages : Seq(Request)])
        /\ current \in Seq(Request)
        /\ <<>> \in Seq(Request) /\ <<>> \in Seq(Content \cup {<<>>})
    BY EmptySeq DEF Init
  <2> QED
    BY <1>0, <2>1, BoundsAssumption DEF Init, TypeOK
<1>2. Begun = {} /\ Elems(current) = {} /\ DOMAIN incoming = {}
  BY <1>0, EmptyElems DEF Init, Begun, Worker
<1>3. WebOrderInv /\ SentInv
  BY <1>2, EmptyElems DEF Init, WebOrderInv, SentInv, AllBefore, Worker
<1>4. QueueInv
  <2>1. \A w \in {"tws", "blockly"} : queue[w] = <<>> /\ handled[w] = <<>>
    BY DEF Init, Worker
  <2> QED
    BY <1>2, <2>1, EmptyElems DEF QueueInv, AllBefore
<1>5. ArrivedInv
  BY <1>0, <1>2 DEF Init, ArrivedInv
<1> QED
  BY <1>1, <1>3, <1>4, <1>5 DEF Inv

(* Whatever is anywhere is a request.                                      *)
LEMMA ElemsTyped ==
  ASSUME NEW seq \in Seq(Request) PROVE Elems(seq) \subseteq Request
BY ElementOfSeq, LenProperties DEF Elems

LEMMA PlacesTyped ==
  ASSUME TypeOK
  PROVE  /\ Begun \subseteq Request /\ Elems(current) \subseteq Request
         /\ \A n \in DOMAIN incoming :
              /\ incoming[n].messages \in Seq(Request)
              /\ incoming[n].readable \in BOOLEAN
              /\ Transmission(n) \subseteq Request
         /\ \A w \in {"tws", "blockly"} :
              Elems(queue[w]) \cup Elems(handled[w]) \subseteq Request
<1>1. \A n \in DOMAIN incoming :
        /\ incoming[n].messages \in Seq(Request)
        /\ incoming[n].readable \in BOOLEAN
  <2> DEFINE T == [readable : BOOLEAN, messages : Seq(Request)]
  <2>1. incoming \in Seq(T)
    BY DEF TypeOK
  <2> HIDE DEF T
  <2>2. \A n \in DOMAIN incoming : incoming[n] \in T
    BY <2>1
  <2> QED
    BY <2>2 DEF T
<1> QED
  BY <1>1, ElemsTyped DEF TypeOK, Begun, Transmission, Worker

LEMMA RequestTyped ==
  ASSUME NEW m \in Request
  PROVE  /\ m.session \in Session /\ m.tx \in Int /\ m.pos \in Int
         /\ m.kind \in Kind
BY BoundsAssumption DEF Request

(* A transmission arrives: its requests come after all that its session    *)
(* has sent before.                                                        *)
LEMMA ArriveStep ==
  ASSUME Inv, NEW s \in Session, NEW kinds \in Content \cup {<<>>},
         NEW M \in Seq(Request), NEW r \in BOOLEAN,
         CanSend(s),
         sent' = [sent EXCEPT ![s] = Append(@, kinds)],
         incoming' = Append(incoming, [readable |-> r, messages |-> M]),
         Elems(M) = Elems(Requests(s, Len(sent[s]) + 1, kinds)),
         Reversed(M), ~r => M = <<>>,
         UNCHANGED <<current, workVars>>
  PROVE  Inv'
<1> PICK tx \in Nat : tx = Len(sent[s]) + 1
  BY DEF Inv, TypeOK
<1> PICK N \in Nat : N = Len(incoming)
  BY DEF Inv, TypeOK
<1>1. /\ sent[s] \in Seq(Content \cup {<<>>}) /\ Len(sent[s]) \in Nat
      /\ tx \in 1..MaxSent
  BY BoundsAssumption DEF Inv, TypeOK, CanSend
<1>2. /\ sent'[s] = Append(sent[s], kinds) /\ Len(sent'[s]) = tx
      /\ \A t \in Session \ {s} : sent'[t] = sent[t]
      /\ DOMAIN sent'[s] = 1..tx /\ DOMAIN sent[s] = 1..Len(sent[s])
      /\ \A k \in 1..Len(sent[s]) : sent'[s][k] = sent[s][k]
      /\ sent'[s][tx] = kinds
  BY <1>1 DEF Inv, TypeOK
<1>3. /\ N \in Nat /\ DOMAIN incoming = 1..N /\ DOMAIN incoming' = 1..N + 1
      /\ \A n \in 1..N : incoming'[n] = incoming[n]
      /\ incoming'[N + 1] = [readable |-> r, messages |-> M]
      /\ incoming' \in Seq([readable : BOOLEAN, messages : Seq(Request)])
  BY DEF Inv, TypeOK
<1>4. UNCHANGED <<current, queue, handled, Begun, Elems(current)>>
  BY DEF workVars, Begun, Elems
<1>5. /\ \A n \in 1..N : Transmission(n)' = Transmission(n)
      /\ Transmission(N + 1)' = Elems(M)
  BY <1>3 DEF Transmission
<1>6. \A m \in Elems(M) : m \in Request /\ m.session = s /\ m.tx = tx
  <2>1. \A m \in Elems(Requests(s, tx, kinds)) : m.session = s /\ m.tx = tx
    BY <1>1, RequestsSeq DEF Elems
  <2> QED
    BY <1>1, <2>1, ElemsTyped
<1>7. TypeOK'
  <2>1. sent' \in [Session -> Seq(Content \cup {<<>>})]
    BY <1>1 DEF Inv, TypeOK
  <2>2. \A t \in Session : Len(sent'[t]) <= MaxSent
    BY <1>1, <1>2 DEF Inv, TypeOK
  <2> QED
    BY <1>3, <2>1, <2>2 DEF Inv, TypeOK, workVars
<1>8. \A m \in Request : m.tx <= Len(sent[m.session]) =>
        /\ m.tx <= Len(sent'[m.session])
        /\ \A x \in Elems(M) : Before(m, x)
  <2> SUFFICES ASSUME NEW m \in Request, m.tx <= Len(sent[m.session])
               PROVE  /\ m.tx <= Len(sent'[m.session])
                      /\ \A x \in Elems(M) : Before(m, x)
    OBVIOUS
  <2>1. CASE m.session = s
    <3>1. m.tx < tx
      BY <1>1, <2>1, RequestTyped
    <3> QED
      BY <1>1, <1>2, <1>6, <2>1, <3>1, RequestTyped DEF Before
  <2>2. CASE m.session # s
    BY <1>2, <1>6, <2>2, RequestTyped DEF Before
  <2> QED
    BY <2>1, <2>2
<1>9. SentInv'
  <2>1. \A m \in Begun' \cup Elems(current)' : m.tx <= Len(sent'[m.session])
    BY <1>4, <1>8, PlacesTyped DEF Inv, SentInv
  <2>2. \A n \in 1..N : \A m \in Transmission(n) :
          m.tx <= Len(sent'[m.session])
    BY <1>3, <1>8, PlacesTyped DEF Inv, SentInv
  <2>3. \A m \in Elems(M) : m.tx <= Len(sent'[m.session])
    BY <1>1, <1>2, <1>6
  <2>4. \A n \in 1..N + 1 : n \in 1..N \/ n = N + 1
    BY <1>3
  <2> QED
    BY <1>3, <1>5, <2>1, <2>2, <2>3, <2>4 DEF SentInv
<1>10. WebOrderInv'
  <2>1. /\ AllBefore(Begun, Elems(M)) /\ AllBefore(Elems(current), Elems(M))
        /\ \A n \in 1..N : AllBefore(Transmission(n), Elems(M))
    BY <1>3, <1>8, PlacesTyped DEF Inv, SentInv, AllBefore
  <2>2. \A n \in 1..N + 1 : n \in 1..N \/ n = N + 1
    BY <1>3
  <2>3. \A n, l \in 1..N + 1 : n < l => n \in 1..N
    BY <1>3
  <2>4. /\ Ordered(handled'["web"]) /\ Reversed(current')
        /\ AllBefore(Begun', Elems(current)')
    BY <1>4 DEF Inv, WebOrderInv
  <2>5. ASSUME NEW n \in 1..N + 1
        PROVE  /\ Reversed(incoming'[n].messages)
               /\ AllBefore(Begun', Transmission(n)')
               /\ AllBefore(Elems(current)', Transmission(n)')
               /\ \A l \in 1..N + 1 :
                    n < l => AllBefore(Transmission(n)', Transmission(l)')
    <3>1. CASE n \in 1..N
      BY <1>3, <1>4, <1>5, <2>1, <2>2, <3>1 DEF Inv, WebOrderInv
    <3>2. CASE n = N + 1
      BY <1>3, <1>4, <1>5, <2>1, <2>3, <3>2
    <3> QED
      BY <2>2, <3>1, <3>2
  <2> QED
    BY <1>3, <2>4, <2>5 DEF WebOrderInv
<1>11. QueueInv'
  BY <1>4 DEF Inv, QueueInv
<1>12. ArrivedInv'
  <2>1. N + 1 \in 1..N + 1 /\ \A n \in 1..N : n \in 1..N + 1
    BY <1>3
  <2>2. Coming \cup Elems(M) \subseteq Coming'
    BY <1>3, <1>5, <2>1 DEF Coming
  <2>3. ASSUME NEW t \in Session, NEW k \in DOMAIN sent'[t]
        PROVE  Elems(Requests(t, k, sent'[t][k]))
                 \subseteq Begun' \cup Elems(current)' \cup Coming'
    <3>1. CASE t = s /\ k = tx
      BY <1>2, <2>2, <3>1
    <3>2. CASE ~(t = s /\ k = tx)
      <4>1. k \in DOMAIN sent[t] /\ sent'[t][k] = sent[t][k]
        BY <1>1, <1>2, <3>2
      <4> QED
        BY <1>4, <2>2, <4>1 DEF Inv, ArrivedInv
    <3> QED
      BY <3>1, <3>2
  <2>4. \A n \in 1..N + 1 : n \in 1..N \/ n = N + 1
    BY <1>3
  <2>5. \A n \in 1..N + 1 : ~incoming'[n].readable =>
          incoming'[n].messages = <<>>
    <3>1. incoming'[N + 1].readable = r /\ incoming'[N + 1].messages = M
      BY <1>3
    <3>2. \A n \in 1..N : ~incoming'[n].readable =>
            incoming'[n].messages = <<>>
      BY <1>3 DEF Inv, ArrivedInv
    <3> QED
      BY <2>4, <3>1, <3>2
  <2> QED
    BY <1>3, <2>3, <2>5 DEF ArrivedInv
<1> QED
  BY <1>7, <1>9, <1>10, <1>11, <1>12 DEF Inv

(* The first transmission becomes the current one.                         *)
LEMMA TakeStep ==
  ASSUME Inv, TakeTransmission
  PROVE  Inv'
<1> PICK N \in Nat : N = Len(incoming)
  BY DEF Inv, TypeOK
<1> DEFINE T == [readable : BOOLEAN, messages : Seq(Request)]
<1>1. incoming \in Seq(T) /\ incoming # <<>> /\ incoming' = Tail(incoming)
  BY DEF TakeTransmission, Inv, TypeOK
<1> HIDE DEF T
<1>2. /\ incoming' \in Seq(T)
      /\ DOMAIN incoming = 1..N /\ DOMAIN incoming' = 1..N - 1
      /\ N \in Nat \ {0} /\ 1 \in 1..N /\ Head(incoming) = incoming[1]
      /\ \A n \in 1..N - 1 : incoming'[n] = incoming[n + 1]
  BY <1>1, TailElems
<1>3. \A n \in 1..N - 1 : n + 1 \in 1..N /\ 1 < n + 1
  BY <1>2
<1>4. /\ current = <<>> /\ current' = incoming[1].messages
      /\ UNCHANGED <<sent, queue, handled, Begun>>
      /\ current' \in Seq(Request)
  <2>1. current' = incoming[1].messages
    BY <1>2 DEF TakeTransmission, Inv, ArrivedInv
  <2> QED
    BY <1>2, <2>1, PlacesTyped DEF TakeTransmission, workVars, Begun, Inv
<1>5. /\ \A n \in 1..N - 1 : Transmission(n)' = Transmission(n + 1)
      /\ Elems(current)' = Transmission(1)
  BY <1>2, <1>4 DEF Transmission
<1>6. TypeOK'
  BY <1>2, <1>4 DEF TakeTransmission, Inv, TypeOK, workVars, T
<1>7. WebOrderInv'
  <2>1. /\ Ordered(handled'["web"]) /\ Reversed(current')
        /\ AllBefore(Begun', Elems(current)')
    BY <1>2, <1>4, <1>5 DEF Inv, WebOrderInv
  <2>2. ASSUME NEW n \in 1..N - 1
        PROVE  /\ Reversed(incoming'[n].messages)
               /\ AllBefore(Begun', Transmission(n)')
               /\ AllBefore(Elems(current)', Transmission(n)')
               /\ \A l \in 1..N - 1 :
                    n < l => AllBefore(Transmission(n)', Transmission(l)')
    <3>1. \A l \in 1..N - 1 : n < l => n + 1 < l + 1
      BY <1>2
    <3>2. n + 1 \in DOMAIN incoming /\ 1 \in DOMAIN incoming /\ 1 < n + 1
      BY <1>2, <1>3
    <3>3. /\ Reversed(incoming[n + 1].messages)
          /\ AllBefore(Begun, Transmission(n + 1))
          /\ AllBefore(Transmission(1), Transmission(n + 1))
          /\ \A l \in 1..N - 1 :
               n < l => AllBefore(Transmission(n + 1), Transmission(l + 1))
      BY <1>2, <1>3, <3>1, <3>2 DEF Inv, WebOrderInv
    <3>4. /\ incoming'[n] = incoming[n + 1] /\ Begun' = Begun
          /\ Transmission(n)' = Transmission(n + 1)
          /\ Elems(current)' = Transmission(1)
          /\ \A l \in 1..N - 1 : Transmission(l)' = Transmission(l + 1)
      BY <1>2, <1>4, <1>5
    <3> QED
      BY <3>3, <3>4
  <2> QED
    BY <1>2, <2>1, <2>2 DEF WebOrderInv
<1>8. SentInv'
  <2>1. \A n \in 1..N : \A m \in Transmission(n) : m.tx <= Len(sent[m.session])
    BY <1>2 DEF Inv, SentInv
  <2>2. \A m \in Begun : m.tx <= Len(sent[m.session])
    BY DEF Inv, SentInv
  <2>3. \A m \in Transmission(1) : m.tx <= Len(sent[m.session])
    BY <1>2, <2>1
  <2>4. \A n \in 1..N - 1 : \A m \in Transmission(n + 1) :
           m.tx <= Len(sent[m.session])
    BY <1>3, <2>1
  <2>5. \A m \in Begun' \cup Elems(current)' : m.tx <= Len(sent'[m.session])
    BY <1>4, <1>5, <2>2, <2>3
  <2>6. \A n \in 1..N - 1 : \A m \in Transmission(n)' :
           m.tx <= Len(sent'[m.session])
    BY <1>4, <1>5, <2>4
  <2> QED
    BY <1>2, <2>5, <2>6 DEF SentInv
<1>9. QueueInv'
  BY <1>4 DEF Inv, QueueInv
<1>10. ArrivedInv'
  <2>1. \A n \in 1..N : n = 1 \/ (n - 1 \in 1..N - 1 /\ n - 1 + 1 = n)
    BY <1>2
  <2>2. Coming \subseteq Elems(current)' \cup Coming'
    <3> SUFFICES ASSUME NEW n \in 1..N
                 PROVE  Transmission(n) \subseteq Elems(current)' \cup Coming'
      BY <1>2 DEF Coming
    <3>1. CASE n = 1
      BY <1>5, <3>1
    <3>2. CASE n # 1
      <4>1. n - 1 \in 1..N - 1 /\ n - 1 + 1 = n
        BY <2>1, <3>2
      <4>2. Transmission(n - 1)' = Transmission(n)
        BY <1>5, <4>1
      <4> QED
        BY <1>2, <4>1, <4>2 DEF Coming
    <3> QED
      BY <3>1, <3>2
  <2>3. Elems(current) = {}
    BY <1>4, EmptyElems
  <2>4. Begun \cup Elems(current) \cup Coming
           \subseteq Begun' \cup Elems(current)' \cup Coming'
    BY <1>4, <2>2, <2>3
  <2>5. \A s \in Session : \A tx \in DOMAIN sent'[s] :
           Elems(Requests(s, tx, sent'[s][tx]))
             \subseteq Begun' \cup Elems(current)' \cup Coming'
    BY <1>4, <2>4 DEF Inv, ArrivedInv
  <2>6. \A n \in 1..N :
           ~incoming[n].readable => incoming[n].messages = <<>>
    BY <1>2 DEF Inv, ArrivedInv
  <2>7. \A n \in DOMAIN incoming' :
           ~incoming'[n].readable => incoming'[n].messages = <<>>
    BY <1>2, <1>3, <2>6
  <2> QED
    BY <2>5, <2>7 DEF ArrivedInv
<1> QED
  BY <1>6, <1>7, <1>8, <1>9, <1>10 DEF Inv

(* What a worker does with a message changes the rest of the state within  *)
(* its types.                                                              *)
RestTyped ==
  /\ waiting \subseteq [request : Request, contracts : 1..MaxContract]
  /\ \A w, x \in waiting : w = x
  /\ tasks \subseteq Request
  /\ answered \subseteq Request
  /\ failed \subseteq Request
  /\ alive \in BOOLEAN

(* The last request is begun, and goes on to the worker it is meant for.   *)
LEMMA HandleStep ==
  ASSUME Inv, HandleMessage
  PROVE  Inv'
<1> PICK m \in Request : m = current[Len(current)]
  BY FrontElems DEF HandleMessage, Inv, TypeOK
<1>1. /\ current \in Seq(Request) /\ current # <<>>
      /\ current' = Front(current)
      /\ handled' = [handled EXCEPT !["web"] = Append(@, m)]
      /\ Dispatch(m)
      /\ UNCHANGED <<sent, incoming>>
  BY DEF HandleMessage, Begin, Front, Inv, TypeOK
<1>2. /\ current' \in Seq(Request)
      /\ Elems(current) = {m} \cup Elems(current)'
      /\ Reversed(current') /\ AllBefore({m}, Elems(current)')
  BY <1>1, FrontElems, FrontReversed DEF Inv, WebOrderInv
<1>3. /\ handled["web"] \in Seq(Request)
      /\ handled'["web"] = Append(handled["web"], m)
      /\ \A w \in {"tws", "blockly"} : handled'[w] = handled[w]
  BY <1>1 DEF Inv, TypeOK, Worker
<1>4. /\ handled'["web"] \in Seq(Request)
      /\ Begun' = Begun \cup {m} /\ Ordered(handled'["web"])
  <2>1. AllBefore(Elems(handled["web"]), {m})
    BY <1>2 DEF Inv, WebOrderInv, AllBefore, Begun
  <2> QED
    BY <1>3, <2>1, AppendElems, AppendOrdered DEF Inv, WebOrderInv, Begun
<1>5. IF Destination(m) = "web" THEN queue' = queue
      ELSE /\ Destination(m) \in {"tws", "blockly"}
           /\ queue' = [queue EXCEPT ![Destination(m)] = Append(@, m)]
  <2>1. CASE Receive(m) \/ (m.kind = "task" /\ StartTask(m) /\ UNCHANGED queue)
               \/ Quiet(m)
    <3>1. m.kind \in WebKind
      BY <2>1 DEF Receive, Quiet, WebKind
    <3>2. Destination(m) = "web"
      BY <3>1 DEF Destination
    <3>3. queue' = queue
      BY <2>1 DEF Receive, Quiet
    <3> QED
      BY <3>2, <3>3
  <2>2. CASE m.kind = "blockly" /\ Enqueue("blockly", m)
    BY <2>2 DEF Enqueue, Destination, WebKind, TwsKind
  <2>3. CASE m.kind \in TwsKind /\ Enqueue("tws", m)
    BY <2>3 DEF Enqueue, Destination, WebKind, TwsKind
  <2> QED
    BY <1>1, <2>1, <2>2, <2>3 DEF Dispatch
<1>6. RestTyped'
  BY <1>1
     DEF Dispatch, Receive, StartTask, Quiet, Enqueue, RestTyped, Inv, TypeOK
<1>7. TypeOK'
  <2>1. queue' \in [{"tws", "blockly"} -> Seq(Request)]
    <3>1. \A w \in {"tws", "blockly"} : Append(queue[w], m) \in Seq(Request)
      BY AppendElems DEF Inv, TypeOK
    <3> QED
      BY <1>5, <3>1 DEF Inv, TypeOK
  <2>2. handled' \in [Worker -> Seq(Request)]
    BY <1>1, <1>3, <1>4 DEF Inv, TypeOK, Worker
  <2> QED
    BY <1>1, <1>2, <1>6, <2>1, <2>2 DEF Inv, TypeOK, RestTyped
<1>t. \A n \in DOMAIN incoming : Transmission(n)' = Transmission(n)
  BY <1>1 DEF Transmission
<1>8. WebOrderInv'
  <2>1. AllBefore(Begun', Elems(current)')
    BY <1>2, <1>4 DEF Inv, WebOrderInv, AllBefore
  <2>2. \A n \in DOMAIN incoming : /\ AllBefore(Begun', Transmission(n))
                                   /\ AllBefore(Elems(current)', Transmission(n))
    BY <1>2, <1>4 DEF Inv, WebOrderInv, AllBefore
  <2>3. \A n \in DOMAIN incoming :
           /\ Reversed(incoming[n].messages)
           /\ \A l \in DOMAIN incoming :
                n < l => AllBefore(Transmission(n), Transmission(l))
    BY DEF Inv, WebOrderInv
  <2>4. \A n \in DOMAIN incoming' :
           /\ Reversed(incoming'[n].messages)
           /\ AllBefore(Begun', Transmission(n)')
           /\ AllBefore(Elems(current)', Transmission(n)')
           /\ \A l \in DOMAIN incoming' :
                n < l => AllBefore(Transmission(n)', Transmission(l)')
    <3>1. incoming' = incoming
      BY <1>1
    <3> QED
      BY <3>1, <1>t, <2>2, <2>3
  <2> QED
    BY <1>2, <1>4, <2>1, <2>4 DEF WebOrderInv
<1>9. SentInv'
  BY <1>1, <1>2, <1>4, <1>t DEF Inv, SentInv
<1>10. QueueInv'
  <2> SUFFICES ASSUME NEW w \in {"tws", "blockly"}
               PROVE  /\ Ordered(queue'[w]) /\ Ordered(handled[w])
                      /\ AllBefore(Elems(handled[w]), Elems(queue'[w]))
                      /\ Elems(queue'[w]) \cup Elems(handled[w])
                           = {x \in Begun \cup {m} : Destination(x) = w}
    BY <1>3, <1>4 DEF QueueInv
  <2>1. CASE Destination(m) # w
    <3>1. queue'[w] = queue[w]
      BY <1>5, <2>1 DEF Inv, TypeOK
    <3>2. {x \in Begun \cup {m} : Destination(x) = w}
            = {x \in Begun : Destination(x) = w}
      BY <2>1
    <3> QED
      BY <3>1, <3>2 DEF Inv, QueueInv
  <2>2. CASE Destination(m) = w
    <3>1. /\ queue'[w] = Append(queue[w], m) /\ queue[w] \in Seq(Request)
      BY <1>5, <2>2 DEF Inv, TypeOK
    <3>2. /\ Elems(queue[w]) \cup Elems(handled[w]) \subseteq Begun
          /\ AllBefore(Begun, {m})
      BY <1>2 DEF Inv, QueueInv, WebOrderInv, AllBefore
    <3>3. /\ AllBefore(Elems(queue[w]), {m})
          /\ AllBefore(Elems(handled[w]), {m})
      BY <3>2 DEF AllBefore
    <3>4. Elems(queue'[w]) = Elems(queue[w]) \cup {m} /\ Ordered(queue'[w])
      BY <3>1, <3>3, AppendElems, AppendOrdered DEF Inv, QueueInv
    <3>5. AllBefore(Elems(handled[w]), Elems(queue'[w]))
      BY <3>3, <3>4 DEF Inv, QueueInv, AllBefore
    <3>6. {x \in Begun \cup {m} : Destination(x) = w}
            = {x \in Begun : Destination(x) = w} \cup {m}
      BY <2>2
    <3> QED
      BY <3>4, <3>5, <3>6 DEF Inv, QueueInv
  <2> QED
    BY <2>1, <2>2
<1>11. ArrivedInv'
  <2>1. Coming' = Coming
    BY <1>1, <1>t DEF Coming
  <2> QED
    BY <1>1, <1>2, <1>4, <2>1 DEF Inv, ArrivedInv
<1> QED
  BY <1>7, <1>8, <1>9, <1>10, <1>11 DEF Inv

(* Another worker begins the first request of its queue.                   *)
LEMMA BeginStep ==
  ASSUME Inv, NEW w \in {"tws", "blockly"}, queue[w] # <<>>,
         queue' = [queue EXCEPT ![w] = Tail(@)],
         handled' = [handled EXCEPT ![w] = Append(@, Head(queue[w]))],
         UNCHANGED <<sent, incoming, current>>, RestTyped'
  PROVE  Inv'
<1>1. queue[w] \in Seq(Request) /\ handled[w] \in Seq(Request)
  BY DEF Inv, TypeOK, Worker
<1> PICK m \in Request : m = Head(queue[w])
  BY <1>1, TailElems
<1>2. /\ queue'[w] = Tail(queue[w]) /\ handled'[w] = Append(handled[w], m)
      /\ handled'["web"] = handled["web"] /\ Begun' = Begun
      /\ \A v \in {"tws", "blockly"} \ {w} :
           queue'[v] = queue[v] /\ handled'[v] = handled[v]
  BY DEF Inv, TypeOK, Worker, Begun
<1>3. /\ queue'[w] \in Seq(Request)
      /\ Elems(queue[w]) = {m} \cup Elems(queue'[w])
      /\ Ordered(queue'[w]) /\ AllBefore({m}, Elems(queue'[w]))
  <2>1. Ordered(queue[w])
    BY DEF Inv, QueueInv
  <2>2. queue'[w] = Tail(queue[w])
    BY <1>2
  <2>3. /\ Tail(queue[w]) \in Seq(Request)
        /\ Elems(queue[w]) = {m} \cup Elems(Tail(queue[w]))
    BY <1>1, TailElems
  <2>4. /\ Ordered(Tail(queue[w]))
        /\ AllBefore({m}, Elems(Tail(queue[w])))
    BY <1>1, <2>1, TailOrdered
  <2> QED
    BY <2>2, <2>3, <2>4
<1>4. AllBefore(Elems(handled[w]), {m})
  BY <1>3 DEF Inv, QueueInv, AllBefore
<1>5. /\ handled'[w] \in Seq(Request)
      /\ Elems(handled'[w]) = Elems(handled[w]) \cup {m}
      /\ Ordered(handled'[w])
  <2>1. Ordered(handled[w])
    BY DEF Inv, QueueInv
  <2>2. handled'[w] = Append(handled[w], m)
    BY <1>2
  <2> QED
    BY <1>1, <1>4, <2>1, <2>2, AppendElems, AppendOrdered
<1>6. TypeOK'
  <2>1. /\ queue' \in [{"tws", "blockly"} -> Seq(Request)]
        /\ handled' \in [Worker -> Seq(Request)]
    BY <1>2, <1>3, <1>5 DEF Inv, TypeOK
  <2> QED
    BY <2>1 DEF Inv, TypeOK, RestTyped
<1>7. WebOrderInv' /\ SentInv' /\ ArrivedInv'
  BY <1>2
     DEF Inv, WebOrderInv, SentInv, ArrivedInv, Transmission, Coming
<1>8. QueueInv'
  <2>1. AllBefore(Elems(handled'[w]), Elems(queue'[w]))
    BY <1>3, <1>5 DEF Inv, QueueInv, AllBefore
  <2>2. Elems(queue'[w]) \cup Elems(handled'[w])
          = {x \in Begun : Destination(x) = w}
    BY <1>3, <1>5 DEF Inv, QueueInv
  <2> QED
    BY <1>2, <1>3, <1>5, <2>1, <2>2 DEF Inv, QueueInv
<1> QED
  BY <1>6, <1>7, <1>8 DEF Inv

(* The steps that move no request.                                         *)
LEMMA StayStep ==
  ASSUME Inv, UNCHANGED <<sent, incoming, current, queue, handled>>, RestTyped'
  PROVE  Inv'
BY DEF Inv, TypeOK, RestTyped, WebOrderInv, SentInv, QueueInv, ArrivedInv,
       Begun, Transmission, Coming

LEMMA InvStep == Inv /\ [Next]_vars => Inv'
<1> SUFFICES ASSUME Inv, [Next]_vars PROVE Inv'
  OBVIOUS
<1>0. RestTyped
  BY DEF Inv, TypeOK, RestTyped
<1>1. CASE UNCHANGED vars
  BY <1>0, <1>1, StayStep DEF vars, workVars, RestTyped
<1>2. ASSUME NEW s \in Session, HandleGarbage(s) PROVE Inv'
  <2>1. /\ <<>> \in Seq(Request) /\ Reversed(<<>>)
        /\ <<>> \in Content \cup {<<>>}
    BY EmptySeq, EmptyElems
  <2>2. Elems(Requests(s, Len(sent[s]) + 1, <<>>)) = Elems(<<>>)
    BY DEF Requests, Elems
  <2> QED
    BY <1>2, <2>1, <2>2, ArriveStep DEF HandleGarbage
<1>3. ASSUME NEW s \in Session, NEW kinds \in Content, HandleIncoming(s, kinds)
      PROVE  Inv'
  <2>1. Len(sent[s]) + 1 \in 1..MaxSent
    BY <1>3, BoundsAssumption DEF HandleIncoming, CanSend, Inv, TypeOK
  <2>2. /\ Requests(s, Len(sent[s]) + 1, kinds) \in Seq(Request)
        /\ Reversed(Requests(s, Len(sent[s]) + 1, kinds))
    BY <2>1, RequestsSeq
  <2> QED
    BY <1>3, <2>2, ArriveStep DEF HandleIncoming
<1>4. CASE Run
  BY <1>4, TakeStep, HandleStep DEF Run
<1>5. CASE HandleBlockly
  <2>1. Head(queue["blockly"]) \in Request
    BY <1>5, TailElems DEF HandleBlockly, Inv, TypeOK
  <2>2. RestTyped'
    BY <1>0, <1>5, <2>1 DEF HandleBlockly, RestTyped
  <2> QED
    BY <1>5, <2>2, BeginStep DEF HandleBlockly, Begin
<1>6. CASE HandleRequest
  <2> PICK m \in Request : m = Head(queue["tws"])
    BY <1>6, TailElems DEF HandleRequest, Inv, TypeOK
  <2>1. StartTask(m) \/ HandleSilent(m) \/ WaitForContracts(m)
    BY <1>6 DEF HandleRequest
  <2>2. RestTyped'
    BY <1>0, <2>1 DEF StartTask, HandleSilent, WaitForContracts, RestTyped
  <2> QED
    BY <1>6, <2>2, BeginStep DEF HandleRequest, Begin
<1>7. CASE ContractArrives
  <2> PICK w \in waiting :
        /\ tasks' = tasks \cup {w.request}
        /\ waiting' = IF w.contracts = 1 THEN {}
                      ELSE {[w EXCEPT !.contracts = @ - 1]}
        /\ UNCHANGED <<sent, incoming, current, queue, handled, answered,
                       failed, alive>>
    BY <1>7 DEF ContractArrives
  <2>1. w \in [request : Request, contracts : 1..MaxContract]
    BY <1>0 DEF RestTyped
  <2>2. w.contracts # 1 =>
          [w EXCEPT !.contracts = @ - 1]
            \in [request : Request, contracts : 1..MaxContract]
    BY <2>1, BoundsAssumption
  <2>3. RestTyped'
    BY <1>0, <2>1, <2>2 DEF RestTyped
  <2> QED
    BY <2>3, StayStep
<1>8. CASE ContractFails
  BY <1>0, <1>8, StayStep DEF ContractFails, RestTyped
<1>9. CASE \E m \in tasks : Answer(m)
  BY <1>0, <1>9, StayStep DEF Answer, RestTyped
<1> QED
  BY <1>1, <1>2, <1>3, <1>4, <1>5, <1>6, <1>7, <1>8, <1>9 DEF Next

THEOREM Invariance == Spec => []Inv
BY InitInv, InvStep, PTL DEF Spec

(* TypeOK: every queue holds requests that some session can have sent, and *)
(* the TwsSendWorker waits with at most one.                               *)
THEOREM Typing == Spec => []TypeOK
<1>1. Inv => TypeOK
  BY DEF Inv
<1> QED
  BY <1>1, Invariance, PTL

(* HandledInOrder: no request of a session is overtaken by another one     *)
(* that goes to the same worker, or handled twice.                         *)
THEOREM InOrder == Spec => []HandledInOrder
<1>1. Inv => HandledInOrder
  BY DEF Inv, WebOrderInv, QueueInv, HandledInOrder, Worker
<1> QED
  BY <1>1, Invariance, PTL

-----------------------------------------------------------------------------
(* A request that were in two places would come before itself.             *)
LEMMA Apart ==
  ASSUME NEW A, NEW B, NEW m \in Request, AllBefore(A, B), m \in A
  PROVE  m \notin B
BY Irreflexive DEF AllBefore

LEMMA Once ==
  ASSUME NEW seq \in Seq(Request), NEW m \in Elems(seq),
         Ordered(seq) \/ Reversed(seq)
  PROVE  \E k \in DOMAIN seq : Found(seq, m) = {k}
<1> PICK k \in DOMAIN seq : seq[k] = m
  BY DEF Elems
<1>1. m \in Request /\ DOMAIN seq \subseteq Int
  BY ElemsTyped
<1>2. ASSUME NEW j \in DOMAIN seq, seq[j] = m PROVE j = k
  <2>1. ~(j < k) /\ ~(k < j)
    BY <1>1, <1>2, Irreflexive DEF Ordered, Reversed
  <2> QED
    BY <1>1, <2>1
<1> QED
  BY <1>2 DEF Found

LEMMA Nowhere ==
  ASSUME NEW seq, NEW m, m \notin Elems(seq) PROVE Found(seq, m) = {}
BY DEF Elems, Found

LEMMA OneOfPlaces ==
  ASSUME Inv, NEW m \in Begun \cup Elems(current) \cup Coming
  PROVE  \E p : Places(m) = {p}
<1> DEFINE In == UNION {{<<"incoming", k, i>> :
                           i \in Found(incoming[k].messages, m)}
                          : k \in DOMAIN incoming}
           Cu == {<<"current", k>> : k \in Found(current, m)}
           Tw == {<<"queue", k, "tws">> : k \in Found(queue["tws"], m)}
           Bl == {<<"queue", k, "blockly">> : k \in Found(queue["blockly"], m)}
           Ha == {<<"begun", k>> : k \in Found(handled[Destination(m)], m)}
<1>1. /\ m \in Request
      /\ \A n \in DOMAIN incoming : incoming[n].messages \in Seq(Request)
  BY PlacesTyped DEF Inv, Coming
<1>2. /\ current \in Seq(Request) /\ handled["web"] \in Seq(Request)
      /\ \A w \in {"tws", "blockly"} : /\ queue[w] \in Seq(Request)
                                       /\ handled[w] \in Seq(Request)
      /\ DOMAIN incoming \subseteq Int
  BY DEF Inv, TypeOK, Worker
<1>3. Places(m) = In \cup Cu \cup Tw \cup Bl \cup Ha
  BY DEF Places
<1>4. Destination(m) \in Worker
  BY DEF Destination, Worker
<1>5. (\A n \in DOMAIN incoming : m \notin Transmission(n)) => In = {}
  BY Nowhere DEF Transmission
<1>6. m \notin Elems(current) => Cu = {}
  BY Nowhere
<1>7. m \notin Begun => Tw = {} /\ Bl = {} /\ Ha = {}
  <2> SUFFICES ASSUME m \notin Begun PROVE Tw = {} /\ Bl = {} /\ Ha = {}
    OBVIOUS
  <2>1. \A w \in {"tws", "blockly"} :
          m \notin Elems(queue[w]) /\ m \notin Elems(handled[w])
    BY DEF Inv, QueueInv
  <2>2. m \notin Elems(handled[Destination(m)])
    BY <1>4, <2>1 DEF Begun, Worker
  <2> QED
    BY <2>1, <2>2, Nowhere
<1> HIDE DEF In, Cu, Tw, Bl, Ha
<1>8. CASE m \in Begun
  <2>1. In = {} /\ Cu = {}
    BY <1>1, <1>5, <1>6, <1>8, Apart DEF Inv, WebOrderInv
  <2>2. CASE Destination(m) = "web"
    <3>1. m \notin Elems(queue["tws"]) /\ m \notin Elems(queue["blockly"])
      BY <2>2 DEF Inv, QueueInv
    <3>2. Tw = {} /\ Bl = {}
      BY <3>1, Nowhere DEF Tw, Bl
    <3>3. \E k : Found(handled["web"], m) = {k}
      BY <1>2, <1>8, Once DEF Inv, WebOrderInv, Begun
    <3>4. \E p : Ha = {p}
      <4> PICK k : Found(handled["web"], m) = {k}
        BY <3>3
      <4>1. Ha = {<<"begun", k>>}
        BY <2>2 DEF Ha
      <4> QED
        BY <4>1
    <3> QED
      BY <1>3, <2>1, <3>2, <3>4
  <2>3. ASSUME NEW w \in {"tws", "blockly"}, Destination(m) = w
        PROVE  \E p : Tw \cup Bl \cup Ha = {p}
    <3>1. /\ Ordered(queue[w]) /\ Ordered(handled[w])
          /\ AllBefore(Elems(handled[w]), Elems(queue[w]))
          /\ m \in Elems(queue[w]) \cup Elems(handled[w])
          /\ \A v \in {"tws", "blockly"} \ {w} : m \notin Elems(queue[v])
      BY <1>8, <2>3 DEF Inv, QueueInv
    <3>2. \A v \in {"tws", "blockly"} \ {w} : Found(queue[v], m) = {}
      BY <3>1, Nowhere
    <3>3. CASE m \in Elems(handled[w])
      <4>1. Found(queue[w], m) = {}
        BY <1>1, <3>1, <3>3, Apart, Nowhere
      <4>2. \A v \in {"tws", "blockly"} : Found(queue[v], m) = {}
        BY <3>2, <4>1
      <4>3. \E k : Found(handled[w], m) = {k}
        BY <1>2, <3>1, <3>3, Once
      <4>4. Tw = {} /\ Bl = {}
        BY <4>2 DEF Tw, Bl
      <4> PICK k : Found(handled[w], m) = {k}
        BY <4>3
      <4>5. Ha = {<<"begun", k>>}
        BY <2>3 DEF Ha
      <4> QED
        BY <4>4, <4>5
    <3>4. CASE m \notin Elems(handled[w])
      <4>1. Ha = {}
        BY <2>3, <3>4, Nowhere DEF Ha
      <4>2. \E k : Found(queue[w], m) = {k}
        BY <1>2, <3>1, <3>4, Once
      <4> PICK k : Found(queue[w], m) = {k}
        BY <4>2
      <4>3. CASE w = "tws"
        <5>1. Bl = {}
          BY <3>2, <4>3 DEF Bl
        <5>2. Tw = {<<"queue", k, "tws">>}
          BY <4>3 DEF Tw
        <5> QED
          BY <4>1, <5>1, <5>2
      <4>4. CASE w = "blockly"
        <5>1. Tw = {}
          BY <3>2, <4>4 DEF Tw
        <5>2. Bl = {<<"queue", k, "blockly">>}
          BY <4>4 DEF Bl
        <5> QED
          BY <4>1, <5>1, <5>2
      <4> QED
        BY <4>3, <4>4
    <3> QED
      BY <3>3, <3>4
  <2> QED
    BY <1>3, <1>4, <2>1, <2>2, <2>3 DEF Worker
<1>9. CASE m \in Elems(current)
  <2>1. m \notin Begun /\ In = {}
    BY <1>1, <1>5, <1>9, Apart DEF Inv, WebOrderInv
  <2>2. \E k : Found(current, m) = {k}
    BY <1>2, <1>9, Once DEF Inv, WebOrderInv
  <2> PICK k : Found(current, m) = {k}
    BY <2>2
  <2>3. Cu = {<<"current", k>>}
    BY DEF Cu
  <2> QED
    BY <1>3, <1>7, <2>1, <2>3
<1>10. CASE m \in Coming
  <2> PICK n \in DOMAIN incoming : m \in Transmission(n)
    BY <1>10 DEF Coming
  <2>1. m \notin Begun /\ m \notin Elems(current)
    BY <1>1, Apart DEF Inv, WebOrderInv
  <2>2. ASSUME NEW l \in DOMAIN incoming, l # n
        PROVE  m \notin Transmission(l)
    <3>1. l < n \/ n < l
      BY <1>2, <2>2
    <3>2. AllBefore(Transmission(l), Transmission(n))
            \/ AllBefore(Transmission(n), Transmission(l))
      BY <3>1 DEF Inv, WebOrderInv
    <3> QED
      BY <1>1, <3>2, Apart
  <2>3. \A l \in DOMAIN incoming \ {n} : Found(incoming[l].messages, m) = {}
    BY <2>2, Nowhere DEF Transmission
  <2>4. \E i : Found(incoming[n].messages, m) = {i}
    BY <1>1, Once DEF Inv, WebOrderInv, Transmission
  <2> PICK i : Found(incoming[n].messages, m) = {i}
    BY <2>4
  <2>5. In = {<<"incoming", n, i>>}
    BY <2>3 DEF In
  <2> QED
    BY <1>3, <1>6, <1>7, <2>1, <2>5
<1> QED
  BY <1>8, <1>9, <1>10

(* OnePlace: between the three threads no request of any transmission is   *)
(* lost, and none is doubled.                                              *)
THEOREM NoneLost == Spec => []OnePlace
<1>1. Inv => OnePlace
  <2> SUFFICES ASSUME Inv, NEW s \in Session, NEW tx \in 1..MaxSent,
                      NEW i \in 1..MaxPos, NEW m \in Message(s, tx, i)
               PROVE  Cardinality(Places(m)) = 1
    BY DEF OnePlace
  <2>1. /\ tx \in DOMAIN sent[s]
        /\ \E j \in DOMAIN sent[s][tx] : m = Requests(s, tx, sent[s][tx])[j]
    BY DEF Message
  <2>2. m \in Elems(Requests(s, tx, sent[s][tx]))
    BY <2>1 DEF Requests, Elems
  <2>3. m \in Begun \cup Elems(current) \cup Coming
    BY <2>1, <2>2 DEF Inv, ArrivedInv
  <2> QED
    BY <2>3, OneOfPlaces, FS_Singleton
<1> QED
  BY <1>1, Invariance, PTL
=============================================================================
