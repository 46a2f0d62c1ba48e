------------------------ MODULE OutgoingWritesProofs ------------------------
(***************************************************************************)
(* Proofs about OutgoingWrites for any clients, senders and bounds. The    *)
(* lock and the order of messages are proved for any number of io threads, *)
(* the numbering of sessions and the refinement for one.                   *)
(***************************************************************************)
EXTENDS OutgoingWrites, FiniteSetTheorems, TLAPS

(* Every step keeps the types, and a sender in the call holds a message.   *)
LEMMA TypeStep == TypeOK /\ [Next]_vars => TypeOK'
<1> SUFFICES ASSUME TypeOK, [Next]_vars PROVE TypeOK'
    OBVIOUS
<1> USE ConnAssumption, BoundsAssumption DEF TypeOK
<1>1. ASSUME NEW c \in Conn, LoadId(c) PROVE TypeOK'
  BY <1>1 DEF LoadId, senderVars, SessionPK
<1>2. ASSUME NEW c \in Conn, StoreId(c) PROVE TypeOK'
  BY <1>2 DEF StoreId, senderVars
<1>3. ASSUME NEW c \in Conn, Emplace(c) PROVE TypeOK'
  BY <1>3 DEF Emplace, senderVars
<1>4. ASSUME NEW c \in Conn, AcceptFails(c) PROVE TypeOK'
  BY <1>4 DEF AcceptFails, senderVars
<1>5. ASSUME NEW c \in Conn, ReadFails(c) PROVE TypeOK'
  BY <1>5 DEF ReadFails, senderVars
<1>6. ASSUME NEW c \in Conn, StreamFails(c) PROVE TypeOK'
  BY <1>6 DEF StreamFails, senderVars, sessionVars
<1>7. ASSUME NEW s \in Sender, NEW i \in SessionPK, Push(s, i) PROVE TypeOK'
  <2>1. pushed[s] + 1 \in 1..MaxPush
    BY <1>7 DEF Push
  <2>2. [from |-> s, seq |-> pushed[s] + 1, to |-> i] \in Message
    BY <2>1 DEF Message
  <2>3. CASE sessions[i] = NoConn
    BY <1>7, <2>1, <2>3 DEF Push, sessionVars
  <2>4. CASE sessions[i] # NoConn
    <3> DEFINE msg == [from |-> s, seq |-> pushed[s] + 1, to |-> i]
    <3>1. /\ msg \in Message
          /\ msg.from = s
          /\ sessions[i] \in Conn
      BY <2>2, <2>4
    <3>2. /\ pc' = [pc EXCEPT ![s] = "spin"]
          /\ held' = [held EXCEPT ![s] = msg]
          /\ target' = [target EXCEPT ![s] = sessions[i]]
          /\ pushed' = [pushed EXCEPT ![s] = pushed[s] + 1]
          /\ UNCHANGED <<coro, sessionId, lastSession, sessions, stream,
                         writeLock, inflight, killing, wire>>
      BY <1>7, <2>4 DEF Push, sessionVars
    <3> HIDE DEF msg
    <3> QED
      BY <2>1, <3>1, <3>2
  <2> QED
    BY <2>3, <2>4
<1>8. ASSUME NEW s \in Sender, Acquire(s) PROVE TypeOK'
  BY <1>8 DEF Acquire, sessionVars
<1>9. ASSUME NEW s \in Sender, StartWrite(s) PROVE TypeOK'
  BY <1>9 DEF StartWrite, sessionVars
<1>10. ASSUME NEW c \in Conn, NEW m \in inflight[c], WriteSucceeds(c, m)
       PROVE TypeOK'
  BY <1>10 DEF WriteSucceeds, sessionVars, senderVars
<1>11. ASSUME NEW c \in Conn, NEW m \in inflight[c], WriteFails(c, m)
       PROVE TypeOK'
  <2>1. m \in Message /\ IsFiniteSet(killing \cup {m})
    BY FS_AddElement
  <2> QED
    BY <1>11, <2>1 DEF WriteFails, sessionVars, senderVars
<1>12. ASSUME NEW m \in killing, KillSession(m) PROVE TypeOK'
  BY <1>12, FS_RemoveElement DEF KillSession, sessionVars, senderVars
<1>13. CASE UNCHANGED vars
  BY <1>13 DEF vars, sessionVars, senderVars
<1> QED
  BY <1>1, <1>2, <1>3, <1>4, <1>5, <1>6, <1>7, <1>8, <1>9, <1>10, <1>11,
     <1>12, <1>13 DEF Next, DoSession, AddOutgoing, WriteDone

LEMMA TypeInit == Init => TypeOK
BY ConnAssumption, BoundsAssumption, FS_EmptySet DEF Init, TypeOK, SessionPK

(* TypeOK, of every number of io threads.                                  *)
THEOREM Typing == Spec => []TypeOK
BY TypeInit, TypeStep, PTL DEF Spec

-----------------------------------------------------------------------------
(* The lock.                                                               *)

(* The steps the lock and the order of messages do not depend on.          *)
LEMMA LockUntouched ==
  ASSUME \/ \E c \in Conn : DoSession(c) \/ StreamFails(c)
         \/ \E m \in killing : KillSession(m)
         \/ UNCHANGED vars
  PROVE  UNCHANGED <<pc, held, target, pushed, writeLock, inflight, wire>>
BY DEF DoSession, LoadId, StoreId, Emplace, AcceptFails, ReadFails,
       StreamFails, KillSession, vars, senderVars

(* What a call of AddOutgoing does to the sender that makes it.            *)
LEMMA PushEffect ==
  ASSUME TypeOK, NEW s \in Sender, NEW i \in SessionPK, Push(s, i)
  PROVE  /\ UNCHANGED <<writeLock, inflight, wire>>
         /\ \A t \in Sender \ {s} :
              /\ pc'[t] = pc[t] /\ held'[t] = held[t]
              /\ target'[t] = target[t] /\ pushed'[t] = pushed[t]
         /\ pc[s] = "idle" /\ pushed'[s] = pushed[s] + 1
         /\ \/ pc'[s] = "idle"
            \/ /\ pc'[s] = "spin"
               /\ sessions[i] \in Conn /\ target'[s] = sessions[i]
               /\ held'[s] = [from |-> s, seq |-> pushed[s] + 1, to |-> i]
BY DEF Push, TypeOK

LEMMA LockStep == TypeOK /\ LockInv /\ [Next]_vars => LockInv'
<1> SUFFICES ASSUME TypeOK, LockInv, [Next]_vars PROVE LockInv'
    OBVIOUS
<1>p. ASSUME NEW s \in Sender, NEW i \in SessionPK, Push(s, i)
      PROVE  /\ UNCHANGED <<writeLock, inflight>>
             /\ \A t \in Sender \ {s} :
                  pc'[t] = pc[t] /\ target'[t] = target[t]
             /\ pc'[s] = "idle" \/ pc'[s] = "spin"
  BY <1>p, PushEffect
<1> USE DEF LockInv, OneWritePerStream
<1>1. CASE \/ \E c \in Conn : DoSession(c) \/ StreamFails(c)
           \/ \E m \in killing : KillSession(m)
           \/ UNCHANGED vars
  BY <1>1, LockUntouched
<1>2. ASSUME NEW s \in Sender, NEW i \in SessionPK, Push(s, i) PROVE LockInv'
  BY <1>2, <1>p
<1>3. ASSUME NEW s \in Sender, Acquire(s) PROVE LockInv'
  BY <1>3 DEF Acquire, TypeOK
<1>4. ASSUME NEW s \in Sender, StartWrite(s) PROVE LockInv'
  BY <1>4 DEF StartWrite, TypeOK
<1>5. ASSUME NEW c \in Conn, WriteDone(c) PROVE LockInv'
  <2>1. PICK m \in inflight[c] :
          /\ inflight' = [inflight EXCEPT ![c] = @ \ {m}]
          /\ writeLock' = [writeLock EXCEPT ![c] = FALSE]
          /\ UNCHANGED <<pc, target>>
    BY <1>5 DEF WriteDone, WriteSucceeds, WriteFails, senderVars, TypeOK
  <2>2. inflight'[c] = {}
    BY <2>1 DEF TypeOK
  <2>3. \A d \in Conn \ {c} :
          inflight'[d] = inflight[d] /\ writeLock'[d] = writeLock[d]
    BY <2>1 DEF TypeOK
  <2>4. \A s \in Sender : pc[s] = "locked" => target[s] \in Conn \ {c}
    BY DEF TypeOK
  <2> QED
    BY <2>1, <2>2, <2>3, <2>4
<1> QED
  BY <1>1, <1>2, <1>3, <1>4, <1>5 DEF Next, AddOutgoing

(* OneWritePerStream, for any number of io threads: the spin lock is a     *)
(* mutual exclusion over the whole of a write, from async_write to its     *)
(* handler.                                                                *)
THEOREM WritesExclude == Spec => []OneWritePerStream
<1>1. Init => LockInv
  BY DEF Init, LockInv, OneWritePerStream
<1>2. LockInv => OneWritePerStream
  BY DEF LockInv
<1> QED
  BY <1>1, <1>2, LockStep, Typing, PTL DEF Spec

-----------------------------------------------------------------------------
(* The order of what one thread sends to one client.                       *)

LEMMA OrderStep == TypeOK /\ LockInv /\ OrderInv /\ [Next]_vars => OrderInv'
<1> SUFFICES ASSUME TypeOK, LockInv, OrderInv, [Next]_vars PROVE OrderInv'
    OBVIOUS
<1> USE BoundsAssumption DEF OrderInv, PerSenderOrder
<1>1. CASE \/ \E c \in Conn : DoSession(c) \/ StreamFails(c)
           \/ \E m \in killing : KillSession(m)
           \/ UNCHANGED vars
  BY <1>1, LockUntouched DEF Left
<1>2. ASSUME NEW s \in Sender, NEW i \in SessionPK, Push(s, i)
      PROVE  OrderInv'
  <2>1. /\ UNCHANGED <<inflight, wire>>
        /\ \A t \in Sender \ {s} :
             pc'[t] = pc[t] /\ held'[t] = held[t] /\ pushed'[t] = pushed[t]
        /\ pc[s] = "idle" /\ pushed'[s] = pushed[s] + 1
        /\ pc'[s] # "idle" =>
             held'[s] = [from |-> s, seq |-> pushed[s] + 1, to |-> i]
    BY <1>2, PushEffect
  <2>2. \A t \in Sender : \A n \in 1..MaxPush : Left(t, n) => Left(t, n)'
    BY <2>1 DEF TypeOK, Left
  <2>3. \A c \in Conn : \A m \in inflight[c] :
          m.from \in Sender /\ m.seq \in 1..MaxPush
    BY DEF TypeOK, Message
  <2>4. \A c \in Conn : \A k \in DOMAIN wire[c] :
          wire[c][k].from \in Sender /\ wire[c][k].seq \in 1..MaxPush
    <3>1. \A c \in Conn : \A k \in DOMAIN wire[c] : wire[c][k] \in Message
      BY DEF TypeOK
    <3> QED
      BY <3>1 DEF Message
  <2>5. \A t \in Sender : pc'[t] # "idle" => held'[t].seq = pushed'[t]
    BY <2>1
  <2> QED
    BY <2>1, <2>2, <2>3, <2>4, <2>5
<1>3. ASSUME NEW s \in Sender, Acquire(s) PROVE OrderInv'
  BY <1>3 DEF Acquire, TypeOK, Left
<1>4. ASSUME NEW s \in Sender, StartWrite(s) PROVE OrderInv'
  BY <1>4 DEF StartWrite, LockInv, TypeOK, Left, Message
<1>5. ASSUME NEW c \in Conn, NEW m \in inflight[c], WriteSucceeds(c, m)
      PROVE  OrderInv'
  <2>1. /\ UNCHANGED <<pc, held, target, pushed>>
        /\ wire' = [wire EXCEPT ![c] = Append(wire[c], m)]
        /\ inflight' = [inflight EXCEPT ![c] = inflight[c] \ {m}]
    BY <1>5 DEF WriteSucceeds, senderVars, TypeOK
  <2>2. inflight'[c] = {}
    BY <2>1 DEF LockInv, OneWritePerStream, TypeOK
  <2>3. /\ DOMAIN wire'[c] = 1..Len(wire[c]) + 1
        /\ \A k \in DOMAIN wire'[c] :
             wire'[c][k] = IF k = Len(wire[c]) + 1 THEN m ELSE wire[c][k]
        /\ DOMAIN wire[c] = 1..Len(wire[c])
        /\ Len(wire[c]) \in Nat
    BY <2>1 DEF TypeOK
  <2>4. \A d \in Conn \ {c} : wire'[d] = wire[d] /\ inflight'[d] = inflight[d]
    BY <2>1 DEF TypeOK
  <2>5. /\ m.from \in Sender /\ m.seq \in 1..MaxPush
        /\ \A d \in Conn : \A k \in DOMAIN wire[d] :
             wire[d][k].from \in Sender /\ wire[d][k].seq \in 1..MaxPush
    <3>1. \A d \in Conn : \A k \in DOMAIN wire[d] : wire[d][k] \in Message
      BY DEF TypeOK
    <3> QED
      BY <3>1 DEF TypeOK, Message
  <2>6. \A j, k \in DOMAIN wire'[c] :
          j < k /\ wire'[c][j].from = wire'[c][k].from
            => wire'[c][j].seq < wire'[c][k].seq
    <3> SUFFICES ASSUME NEW j \in DOMAIN wire'[c], NEW k \in DOMAIN wire'[c],
                        j < k, wire'[c][j].from = wire'[c][k].from
                 PROVE  wire'[c][j].seq < wire'[c][k].seq
      OBVIOUS
    <3>1. j \in DOMAIN wire[c] /\ wire'[c][j] = wire[c][j]
      BY <2>3
    <3>2. CASE k = Len(wire[c]) + 1
      BY <2>3, <3>1, <3>2
    <3>3. CASE k # Len(wire[c]) + 1
      <4>1. k \in DOMAIN wire[c] /\ wire'[c][k] = wire[c][k]
        BY <2>3, <3>3
      <4> QED
        BY <3>1, <4>1
    <3> QED
      BY <3>2, <3>3
  <2>7. \A d \in Conn : \A k \in DOMAIN wire'[d] :
          Left(wire'[d][k].from, wire'[d][k].seq)
    BY <2>3, <2>4
  <2>8. \A d \in Conn : \A n \in inflight'[d] : d # c /\ n \in inflight[d]
    BY <2>2, <2>4
  <2>9. \A d \in Conn : \A n \in inflight[d] :
           n.from \in Sender /\ n.seq \in 1..MaxPush
    BY DEF TypeOK, Message
  <2> QED
    BY <2>1, <2>4, <2>6, <2>7, <2>8, <2>9 DEF Left
<1>6. ASSUME NEW c \in Conn, NEW m \in inflight[c], WriteFails(c, m)
      PROVE  OrderInv'
  BY <1>6 DEF WriteFails, senderVars, TypeOK, Left
<1> QED
  BY <1>1, <1>2, <1>3, <1>4, <1>5, <1>6 DEF Next, AddOutgoing, WriteDone

(* PerSenderOrder, for any number of io threads.                           *)
THEOREM MessagesInOrder == Spec => []PerSenderOrder
<1>1. Init => LockInv /\ OrderInv
  BY DEF Init, LockInv, OneWritePerStream, OrderInv, PerSenderOrder
<1>2. OrderInv => PerSenderOrder
  BY DEF OrderInv
<1> QED
  BY <1>1, <1>2, LockStep, OrderStep, Typing, PTL DEF Spec

-----------------------------------------------------------------------------
(* The numbers of sessions, with one io thread.                            *)

(* The one thread is either inside AddConnection, or between the two       *)
(* halves of a completion handler, or free.                                *)
LEMMA OneThread ==
  ASSUME IoThreads = 1, TypeOK, IoFree
  PROVE  Adding = {} /\ killing = {}
<1>1. IsFiniteSet(Adding) /\ IsFiniteSet(killing)
  BY ConnAssumption, FS_Subset DEF Adding, TypeOK
<1>2. Cardinality(Adding) \in Nat /\ Cardinality(killing) \in Nat
  BY <1>1, FS_CardinalityType
<1>3. Cardinality(Adding) = 0 /\ Cardinality(killing) = 0
  BY <1>2 DEF IoFree
<1> QED
  BY <1>1, <1>3, FS_EmptySet

(* The steps that leave the numbering alone.                               *)
LEMMA NumbersUntouched ==
  ASSUME \/ \E c \in Conn : StreamFails(c) \/ WriteDone(c)
         \/ \E s \in Sender : AddOutgoing(s)
         \/ \E m \in killing : KillSession(m)
         \/ UNCHANGED vars
  PROVE  UNCHANGED <<coro, sessionId, lastSession>>
BY DEF StreamFails, WriteDone, WriteSucceeds, WriteFails, AddOutgoing, Push,
       Acquire, StartWrite, KillSession, vars, sessionVars

LEMMA NumberStep ==
  IoThreads = 1 /\ TypeOK /\ NumberInv /\ [Next]_vars => NumberInv'
<1> SUFFICES ASSUME IoThreads = 1, TypeOK, NumberInv, [Next]_vars
             PROVE  NumberInv'
    OBVIOUS
<1> USE BoundsAssumption DEF NumberInv, Adding
<1>1. CASE \/ \E c \in Conn : StreamFails(c) \/ WriteDone(c)
           \/ \E s \in Sender : AddOutgoing(s)
           \/ \E m \in killing : KillSession(m)
           \/ UNCHANGED vars
  BY <1>1, NumbersUntouched
<1>2. ASSUME NEW c \in Conn, LoadId(c) PROVE NumberInv'
  <2>1. Adding = {}
    BY <1>2, OneThread DEF LoadId
  <2>2. \A d \in Conn : coro[d] \notin {"loaded", "numbered"}
    BY <2>1
  <2> QED
    BY <1>2, <2>2 DEF LoadId, TypeOK
<1>3. ASSUME NEW c \in Conn, StoreId(c) PROVE NumberInv'
  BY <1>3 DEF StoreId, TypeOK
<1>4. ASSUME NEW c \in Conn, Emplace(c) PROVE NumberInv'
  BY <1>4 DEF Emplace, TypeOK
<1>5. ASSUME NEW c \in Conn, AcceptFails(c) \/ ReadFails(c) PROVE NumberInv'
  BY <1>5 DEF AcceptFails, ReadFails, TypeOK
<1> QED
  BY <1>1, <1>2, <1>3, <1>4, <1>5 DEF Next, DoSession

LEMMA AddressStep ==
  IoThreads = 1 /\ TypeOK /\ NumberInv /\ AddressInv /\ [Next]_vars
    => AddressInv'
<1> SUFFICES ASSUME IoThreads = 1, TypeOK, NumberInv, AddressInv, [Next]_vars
             PROVE  AddressInv'
    OBVIOUS
<1> USE ConnAssumption, BoundsAssumption DEF AddressInv, Registered
<1>1. CASE UNCHANGED vars
  BY <1>1 DEF vars, sessionVars, senderVars
<1>2. ASSUME NEW c \in Conn, LoadId(c) PROVE AddressInv'
  <2>1. killing = {}
    BY <1>2, OneThread DEF LoadId
  <2> QED
    BY <1>2, <2>1 DEF LoadId, senderVars, TypeOK
<1>3. ASSUME NEW c \in Conn, StoreId(c) PROVE AddressInv'
  BY <1>3 DEF StoreId, senderVars, TypeOK
<1>4. ASSUME NEW c \in Conn, Emplace(c) PROVE AddressInv'
  BY <1>4 DEF Emplace, senderVars, TypeOK
<1>5. ASSUME NEW c \in Conn, AcceptFails(c) \/ ReadFails(c) PROVE AddressInv'
  <2>1. /\ \A d \in Conn : coro[d] \in {"reading", "ended"}
                           => coro'[d] \in {"reading", "ended"}
        /\ UNCHANGED <<sessionId, sessions, stream, pc, held, target, inflight,
                       killing, wire>>
    BY <1>5 DEF AcceptFails, ReadFails, senderVars, TypeOK
  <2> QED
    BY <2>1 DEF TypeOK
<1>6. ASSUME NEW c \in Conn, StreamFails(c) PROVE AddressInv'
  BY <1>6 DEF StreamFails, sessionVars, senderVars, TypeOK
<1>7. ASSUME NEW s \in Sender, NEW i \in SessionPK, Push(s, i)
      PROVE  AddressInv'
  BY <1>7 DEF Push, sessionVars, TypeOK
<1>8. ASSUME NEW s \in Sender, Acquire(s) PROVE AddressInv'
  BY <1>8 DEF Acquire, sessionVars, TypeOK
<1>9. ASSUME NEW s \in Sender, StartWrite(s) PROVE AddressInv'
  BY <1>9 DEF StartWrite, sessionVars, TypeOK
<1>10. ASSUME NEW c \in Conn, NEW m \in inflight[c], WriteSucceeds(c, m)
       PROVE  AddressInv'
  BY <1>10 DEF WriteSucceeds, sessionVars, senderVars, TypeOK
<1>11. ASSUME NEW c \in Conn, NEW m \in inflight[c], WriteFails(c, m)
       PROVE  AddressInv'
  <2>1. /\ UNCHANGED <<coro, sessionId, sessions, stream, pc, held, target,
                       wire>>
        /\ stream[c] = "failed"
        /\ \A d \in Conn : inflight'[d] \subseteq inflight[d]
        /\ killing' = killing \cup {m}
    BY <1>11 DEF WriteFails, sessionVars, senderVars, TypeOK
  <2>2. m.to # 0 /\ sessionId[c] = m.to /\ Registered(c)
    BY DEF TypeOK, Message, SessionPK
  <2>3. \A d \in Conn : sessionId[d] = m.to => d = c
    BY <2>2 DEF NumberInv
  <2> QED
    BY <2>1, <2>2, <2>3
<1>12. ASSUME NEW m \in killing, KillSession(m) PROVE AddressInv'
  BY <1>12 DEF KillSession, sessionVars, senderVars, TypeOK
<1> QED
  BY <1>1, <1>2, <1>3, <1>4, <1>5, <1>6, <1>7, <1>8, <1>9, <1>10, <1>11,
     <1>12 DEF Next, DoSession, AddOutgoing, WriteDone

LEMMA Addressing ==
  ASSUME IoThreads = 1
  PROVE  Spec => [](TypeOK /\ LockInv /\ NumberInv /\ AddressInv)
<1>1. Init => LockInv /\ NumberInv /\ AddressInv
  BY ConnAssumption DEF Init, LockInv, OneWritePerStream, NumberInv, Adding,
     AddressInv, SessionPK
<1> QED
  BY <1>1, TypeInit, TypeStep, LockStep, NumberStep, AddressStep, PTL DEF Spec

(* ReachesItsClient: with one io thread no two clients have one number and *)
(* what is sent to a number is written to the stream of its client.        *)
THEOREM Addressed == ASSUME IoThreads = 1 PROVE Spec => []ReachesItsClient
<1>1. TypeOK /\ NumberInv /\ AddressInv => ReachesItsClient
  <2>1. TypeOK => \A c \in Conn : \A k \in DOMAIN wire[c] : wire[c][k].to # 0
    <3>1. TypeOK => \A c \in Conn : \A k \in DOMAIN wire[c] :
                      wire[c][k] \in Message
      BY DEF TypeOK
    <3> QED
      BY <3>1, BoundsAssumption DEF Message, SessionPK
  <2> QED
    BY <2>1 DEF NumberInv, AddressInv, ReachesItsClient
<1> QED
  BY <1>1, Addressing, PTL

(* OnlyFailedErased, with one io thread.                                   *)
THEOREM HealthyKept == ASSUME IoThreads = 1 PROVE Spec => OnlyFailedErased
<1>1. TypeOK /\ AddressInv /\ [Next]_vars =>
        [\A i \in SessionPK : sessions[i] # NoConn /\ sessions'[i] = NoConn
           => stream[sessions[i]] = "failed"]_vars
  <2> SUFFICES ASSUME TypeOK, AddressInv, [Next]_vars, NEW i \in SessionPK,
                      sessions[i] # NoConn, sessions'[i] = NoConn
               PROVE  stream[sessions[i]] = "failed"
    OBVIOUS
  <2>1. CASE \E m \in killing : KillSession(m)
    BY <2>1 DEF KillSession, AddressInv, TypeOK
  <2>2. CASE \E c \in Conn : DoSession(c)
    BY <2>2, ConnAssumption DEF DoSession, LoadId, StoreId, Emplace,
       AcceptFails, ReadFails, TypeOK
  <2>3. CASE \E c \in Conn : StreamFails(c) \/ WriteDone(c)
    BY <2>3 DEF StreamFails, WriteDone, WriteSucceeds, WriteFails
  <2>4. CASE \E s \in Sender : AddOutgoing(s)
    BY <2>4 DEF AddOutgoing, Push, Acquire, StartWrite
  <2> QED
    BY <2>1, <2>2, <2>3, <2>4 DEF Next, vars
<1> QED
  BY <1>1, Addressing, PTL DEF Spec, OnlyFailedErased

-----------------------------------------------------------------------------
(* The refinement. A channel opens when its session is registered, and     *)
(* closes when its entry is erased.                                        *)

LEMMA ChannelStutters ==
  ASSUME UNCHANGED <<pc, held, target, inflight, stream, wire>>,
         \A c \in Conn : StatusOf(c)' = StatusOf(c)
  PROVE  UNCHANGED Channel!chanVars
BY DEF Channel!chanVars, OfferOf

LEMMA ChannelStep ==
  ASSUME IoThreads = 1, TypeOK, LockInv, NumberInv, AddressInv, [Next]_vars
  PROVE  [Channel!Next]_(Channel!chanVars)
<1> USE ConnAssumption, BoundsAssumption
<1>1. CASE UNCHANGED vars
  <2>1. \A c \in Conn : StatusOf(c)' = StatusOf(c)
    BY <1>1 DEF vars, sessionVars, StatusOf
  <2> QED
    BY <1>1, <2>1, ChannelStutters DEF vars, senderVars
<1>2. ASSUME NEW c \in Conn,
             LoadId(c) \/ StoreId(c) \/ AcceptFails(c) \/ ReadFails(c)
      PROVE  UNCHANGED Channel!chanVars
  <2>1. \A d \in Conn : StatusOf(d)' = StatusOf(d)
    BY <1>2 DEF LoadId, StoreId, AcceptFails, ReadFails, StatusOf, NumberInv,
       TypeOK
  <2> QED
    BY <1>2, <2>1, ChannelStutters
       DEF LoadId, StoreId, AcceptFails, ReadFails, senderVars
<1>3. ASSUME NEW c \in Conn, Emplace(c) PROVE Channel!Open(c)
  <2>1. /\ sessionId[c] \in SessionPK /\ sessions[sessionId[c]] = NoConn
        /\ \A i \in SessionPK : sessions[i] # c
    <3>1. sessionId[c] \in SessionPK /\ ~Registered(c)
      BY <1>3 DEF Emplace, TypeOK, Registered
    <3>2. \A i \in SessionPK : sessions[i] # c
      BY <3>1 DEF AddressInv
    <3>3. ASSUME NEW d \in Conn, sessions[sessionId[c]] = d PROVE FALSE
      <4>1. sessionId[d] = sessionId[c] /\ Registered(d)
        BY <3>1, <3>3 DEF AddressInv
      <4> QED
        BY <3>1, <4>1 DEF NumberInv, SessionPK
    <3> QED
      BY <3>1, <3>2, <3>3 DEF TypeOK
  <2>2. StatusOf(c) = "new" /\ StatusOf(c)' = "open"
    BY <1>3, <2>1 DEF Emplace, StatusOf, TypeOK
  <2>3. \A d \in Conn \ {c} : StatusOf(d)' = StatusOf(d)
    BY <1>3, <2>1 DEF Emplace, StatusOf, TypeOK
  <2>4. UNCHANGED <<pc, held, target, inflight, stream, wire>>
    BY <1>3 DEF Emplace, senderVars
  <2>5. \A t \in Sender : OfferOf(t)' = OfferOf(t)
    BY <2>4 DEF OfferOf
  <2> QED
    BY <2>2, <2>3, <2>4, <2>5 DEF Channel!Open
<1>4. ASSUME NEW c \in Conn, StreamFails(c) PROVE Channel!Break(c)
  <2>1. \A d \in Conn : StatusOf(d)' = StatusOf(d)
    BY <1>4 DEF StreamFails, sessionVars, StatusOf
  <2> QED
    BY <1>4, <2>1 DEF StreamFails, senderVars, Channel!Break, OfferOf,
       TypeOK
<1>5. ASSUME NEW s \in Sender, NEW i \in SessionPK, Push(s, i)
      PROVE  \/ UNCHANGED Channel!chanVars
             \/ \E c \in Conn, m \in Message : Channel!Offer(s, c, m)
  <2>1. \A c \in Conn : StatusOf(c)' = StatusOf(c)
    BY <1>5 DEF Push, sessionVars, StatusOf
  <2>2. CASE sessions[i] = NoConn
    BY <1>5, <2>1, <2>2, ChannelStutters DEF Push, sessionVars
  <2>3. CASE sessions[i] # NoConn
    <3> DEFINE m == [from |-> s, seq |-> pushed[s] + 1, to |-> i]
    <3>1. m \in Message /\ sessions[i] \in Conn
      BY <1>5, <2>3 DEF Push, TypeOK, Message
    <3>2. /\ OfferOf(s) = NoMessage
          /\ OfferOf(s)' = [conn |-> sessions[i], msg |-> m]
          /\ \A t \in Sender \ {s} : OfferOf(t)' = OfferOf(t)
      BY <1>5, <2>3 DEF Push, OfferOf, TypeOK
    <3>3. StatusOf(sessions[i]) = "open"
      BY <3>1 DEF StatusOf
    <3>4. UNCHANGED <<stream, inflight, wire>>
      BY <1>5 DEF Push
    <3>5. Channel!Offer(s, sessions[i], m)
      BY <2>1, <3>1, <3>2, <3>3, <3>4 DEF Channel!Offer
    <3> QED
      BY <3>1, <3>5
  <2> QED
    BY <2>2, <2>3
<1>6. ASSUME NEW s \in Sender, Acquire(s) PROVE UNCHANGED Channel!chanVars
  <2>1. /\ \A t \in Sender : OfferOf(t)' = OfferOf(t)
        /\ \A c \in Conn : StatusOf(c)' = StatusOf(c)
    BY <1>6 DEF Acquire, sessionVars, OfferOf, StatusOf, TypeOK
  <2> QED
    BY <1>6, <2>1 DEF Acquire, Channel!chanVars
<1>7. ASSUME NEW s \in Sender, StartWrite(s) PROVE Channel!Start(s)
  <2>1. /\ target[s] \in Conn /\ held[s] \in Message
        /\ inflight[target[s]] = {}
    BY <1>7 DEF StartWrite, TypeOK, LockInv
  <2>2. /\ OfferOf(s) = [conn |-> target[s], msg |-> held[s]]
        /\ OfferOf(s)' = NoMessage
        /\ \A t \in Sender \ {s} : OfferOf(t)' = OfferOf(t)
    BY <1>7 DEF StartWrite, OfferOf, TypeOK
  <2>3. inflight' = [inflight EXCEPT ![target[s]] = {held[s]}]
    BY <1>7, <2>1 DEF StartWrite, TypeOK
  <2>4. \A c \in Conn : StatusOf(c)' = StatusOf(c)
    BY <1>7 DEF StartWrite, sessionVars, StatusOf
  <2>5. OfferOf(s) # NoMessage
    BY <2>2 DEF NoMessage
  <2>6. UNCHANGED <<stream, wire>>
    BY <1>7 DEF StartWrite
  <2>7. /\ OfferOf(s).conn = target[s]
        /\ OfferOf(s).msg = held[s]
    BY <2>2
  <2>8. [t \in Sender |-> OfferOf(t)]'
          = [[t \in Sender |-> OfferOf(t)] EXCEPT ![s] = NoMessage]
    BY <2>2
  <2> QED
    BY <2>1, <2>3, <2>4, <2>5, <2>6, <2>7, <2>8 DEF Channel!Start
<1>8. ASSUME NEW c \in Conn, NEW m \in inflight[c],
             WriteSucceeds(c, m) \/ WriteFails(c, m)
      PROVE  Channel!Deliver(c, m) \/ Channel!Lose(c, m)
  <2>1. inflight[c] = {m}
    BY DEF LockInv, OneWritePerStream
  <2>2. inflight' = [inflight EXCEPT ![c] = {}]
    BY <1>8, <2>1 DEF WriteSucceeds, WriteFails, TypeOK
  <2>3. /\ \A d \in Conn : StatusOf(d)' = StatusOf(d)
        /\ \A t \in Sender : OfferOf(t)' = OfferOf(t)
    BY <1>8 DEF WriteSucceeds, WriteFails, sessionVars, senderVars, StatusOf,
       OfferOf
  <2>4. CASE WriteSucceeds(c, m)
    BY <2>1, <2>2, <2>3, <2>4 DEF WriteSucceeds, Channel!Deliver
  <2>5. CASE WriteFails(c, m)
    BY <2>1, <2>2, <2>3, <2>5 DEF WriteFails, Channel!Lose
  <2> QED
    BY <1>8, <2>4, <2>5
<1>9. ASSUME NEW m \in killing, KillSession(m)
      PROVE  \/ UNCHANGED Channel!chanVars
             \/ \E c \in Conn : Channel!Close(c)
  <2>1. m.to \in SessionPK
    BY DEF TypeOK, Message
  <2>2. UNCHANGED <<coro, sessionId, stream, pc, held, target, inflight, wire>>
    BY <1>9 DEF KillSession, sessionVars, senderVars
  <2>3. CASE sessions[m.to] = NoConn
    <3>1. \A c \in Conn : StatusOf(c)' = StatusOf(c)
      BY <1>9, <2>1, <2>2, <2>3 DEF KillSession, StatusOf, TypeOK
    <3> QED
      BY <2>2, <3>1, ChannelStutters
  <2>4. ASSUME NEW c \in Conn, sessions[m.to] = c
        PROVE  Channel!Close(c)
    <3>1. sessionId[c] = m.to /\ Registered(c) /\ stream[c] = "failed"
      BY <2>1, <2>4 DEF AddressInv
    <3>2. \A i \in SessionPK : sessions'[i] # c
      BY <1>9, <2>1, <2>4, <3>1 DEF KillSession, AddressInv, TypeOK
    <3>3. StatusOf(c) = "open" /\ StatusOf(c)' = "closed"
      BY <2>1, <2>2, <2>4, <3>1, <3>2 DEF StatusOf, Registered, SessionPK
    <3>4. \A d \in Conn \ {c} : StatusOf(d)' = StatusOf(d)
      BY <1>9, <2>1, <2>2, <2>4 DEF KillSession, StatusOf, TypeOK
    <3>5. \A t \in Sender : OfferOf(t)' = OfferOf(t)
      BY <2>2 DEF OfferOf
    <3> QED
      BY <2>2, <3>1, <3>3, <3>4, <3>5 DEF Channel!Close
  <2> QED
    BY <2>1, <2>3, <2>4 DEF TypeOK
<1> QED
  BY <1>1, <1>2, <1>3, <1>4, <1>5, <1>6, <1>7, <1>8, <1>9
     DEF Next, DoSession, AddOutgoing, WriteDone, Channel!Next

LEMMA ChannelInit == Init => Channel!Init
BY ConnAssumption DEF Init, Channel!Init, StatusOf, OfferOf, SessionPK

(* ImplementsChannel, with one io thread: for the code that pushes, the    *)
(* sessions, their locks and the handlers are the channels of              *)
(* SessionChannel.                                                         *)
THEOREM ChannelRefinement ==
  ASSUME IoThreads = 1 PROVE Spec => ImplementsChannel
<1>1. Spec => [][Channel!Next]_(Channel!chanVars)
  BY Addressing, ChannelStep, PTL DEF Spec
<1> QED
  BY <1>1, ChannelInit, PTL DEF Spec, ImplementsChannel, Channel!Spec
=============================================================================
