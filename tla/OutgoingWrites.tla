--------------------------- MODULE OutgoingWrites ---------------------------
(***************************************************************************)
(* The web-socket sessions of the server and the messages written to them: *)
(* WebCoSocket.cpp.                                                        *)
(*                                                                         *)
(*   - one DoSession coroutine per client connection, run by the IoThreads *)
(*     threads of the io_context; it numbers its connection, registers it  *)
(*     in _sessions, and reads until the stream fails;                     *)
(*   - any number of other threads (the request worker, the TWS worker,    *)
(*     the TWS reader, pool threads), here Sender, that call AddOutgoing   *)
(*     with a session number;                                              *)
(*   - a completion handler per write, run by an io thread.                *)
(*                                                                         *)
(* A session owns a stream and a spin lock that is taken by the thread     *)
(* that starts a write and given back by the write's completion handler.   *)
(* A SessionInfo is created with its stream and its own lock, so the lock  *)
(* of a session is named here by the connection of its stream.             *)
(***************************************************************************)
EXTENDS Integers, Sequences, FiniteSets

CONSTANTS
  Conn,        (* client connections, one SocketStream and DoSession each  *)
  NoConn,      (* "find( id )==_sessions.end()"                            *)
  Sender,      (* threads that call AddOutgoing                            *)
  IoThreads,   (* twsWebSocket/threadCount                                 *)
  MaxSession,  (* bound: session numbers handed out                        *)
  MaxPush      (* bound: AddOutgoing calls per sender                      *)

ASSUME ConnAssumption == IsFiniteSet(Conn) /\ NoConn \notin Conn
ASSUME IoThreadsAssumption == IoThreads \in Nat \ {0}
ASSUME BoundsAssumption == MaxSession \in Nat /\ MaxPush \in Nat

VARIABLES
  coro,        (* where the DoSession coroutine of a connection stands     *)
  sessionId,   (* the coroutine's local sessionId, 0 before it is numbered *)
  lastSession, (* WebCoSocket::_sessionId                                  *)
  sessions,    (* WebCoSocket::_sessions: number -> stream                 *)
  stream,      (* the transport as the server sees it                      *)
  writeLock,   (* SessionInfo::WriteLockPtr                                *)
  pc,          (* where a sender stands in AddOutgoing                     *)
  held,        (* the message of a sender's current call                   *)
  target,      (* pStream and pMutex of a sender's current call            *)
  pushed,      (* calls a sender has made                                  *)
  inflight,    (* async_writes started on a stream and not yet completed   *)
  killing,     (* failed writes whose handler has yet to erase the session *)
  wire         (* history: what the transport accepted, in order           *)

sessionVars == <<coro, sessionId, lastSession>>
senderVars  == <<pc, held, target, pushed>>
vars == <<sessionVars, sessions, stream, writeLock, senderVars, inflight,
          killing, wire>>

SessionPK == 1..MaxSession
Message   == [from: Sender, seq: 1..MaxPush, to: SessionPK]

NoMessage == [from |-> NoConn, seq |-> 0, to |-> 0]

(* The connections inside AddConnection: their coroutine holds a thread.   *)
Adding == {c \in Conn : coro[c] \in {"loaded", "numbered"}}

(* A thread of the io_context is free to run a coroutine or a handler: the *)
(* others are inside AddConnection or between lines 141 and 147.           *)
IoFree == Cardinality(Adding) + Cardinality(killing) < IoThreads

-----------------------------------------------------------------------------
Init ==
  /\ coro = [c \in Conn |-> "accepting"]
  /\ sessionId = [c \in Conn |-> 0]
  /\ lastSession = 0
  /\ sessions = [i \in SessionPK |-> NoConn]
  /\ stream = [c \in Conn |-> "open"]
  /\ writeLock = [c \in Conn |-> FALSE]
  /\ pc = [s \in Sender |-> "idle"]
  /\ held = [s \in Sender |-> NoMessage]
  /\ target = [s \in Sender |-> NoConn]
  /\ pushed = [s \in Sender |-> 0]
  /\ inflight = [c \in Conn |-> {}]
  /\ killing = {}
  /\ wire = [c \in Conn |-> <<>>]

-----------------------------------------------------------------------------
(* DoSession. "++_sessionId" is a load and a store outside the lock; with  *)
(* one io thread nothing comes between them, since AddConnection does not  *)
(* suspend the coroutine.                                                  *)

(* async_accept succeeded; AddConnection loads _sessionId.                 *)
LoadId(c) ==
  /\ coro[c] = "accepting"
  /\ stream[c] = "open"
  /\ IoFree
  /\ lastSession < MaxSession
  /\ coro' = [coro EXCEPT ![c] = "loaded"]
  /\ sessionId' = [sessionId EXCEPT ![c] = lastSession + 1]
  /\ UNCHANGED <<lastSession, sessions, stream, writeLock, senderVars,
                 inflight, killing, wire>>

(* Fault: the store is lost.                                               *)
StoreIdLost(c) ==
  /\ coro[c] = "loaded"
  /\ coro' = [coro EXCEPT ![c] = "numbered"]
  /\ UNCHANGED <<sessionId, lastSession, sessions, stream, writeLock,
                 senderVars, inflight, killing, wire>>

StoreId(c) ==
  /\ coro[c] = "loaded"
  /\ coro' = [coro EXCEPT ![c] = "numbered"]
  /\ lastSession' = sessionId[c]
  /\ UNCHANGED <<sessionId, sessions, stream, writeLock, senderVars,
                 inflight, killing, wire>>

(* flat_map::emplace leaves an entry that is already there alone.          *)
Emplace(c) ==
  /\ coro[c] = "numbered"
  /\ coro' = [coro EXCEPT ![c] = "reading"]
  /\ sessions' = IF sessions[sessionId[c]] = NoConn
                 THEN [sessions EXCEPT ![sessionId[c]] = c]
                 ELSE sessions
  /\ UNCHANGED <<sessionId, lastSession, stream, writeLock, senderVars,
                 inflight, killing, wire>>

(* async_accept failed: the coroutine throws before it has a number, and   *)
(* its handler has nothing to remove.                                      *)
AcceptFails(c) ==
  /\ coro[c] = "accepting"
  /\ stream[c] = "failed"
  /\ IoFree
  /\ coro' = [coro EXCEPT ![c] = "ended"]
  /\ UNCHANGED <<sessionId, lastSession, sessions, stream, writeLock,
                 senderVars, inflight, killing, wire>>

(* async_read failed: the loop breaks and the session stays registered.    *)
ReadFails(c) ==
  /\ coro[c] = "reading"
  /\ stream[c] = "failed"
  /\ IoFree
  /\ coro' = [coro EXCEPT ![c] = "ended"]
  /\ UNCHANGED <<sessionId, lastSession, sessions, stream, writeLock,
                 senderVars, inflight, killing, wire>>

(* The client leaves, the network breaks or the web-socket timeout expires *)
(* and the server's end of the stream notices.                             *)
StreamFails(c) ==
  /\ stream[c] = "open"
  /\ stream' = [stream EXCEPT ![c] = "failed"]
  /\ UNCHANGED <<sessionVars, sessions, writeLock, senderVars, inflight,
                 killing, wire>>

-----------------------------------------------------------------------------
(* AddOutgoing.                                                            *)

(* A session number a thread may know: it came with a request the session  *)
(* sent, or from the session map; the session may be gone meanwhile.       *)
Known(i) == \E c \in Conn : coro[c] \in {"reading", "ended"} /\ sessionId[c] = i

(* Fault: the buffer of the last call is written again.                    *)
PushStale(s, i) ==
  /\ pc[s] = "idle"
  /\ pushed[s] < MaxPush
  /\ Known(i)
  /\ sessions[i] # NoConn
  /\ pushed' = [pushed EXCEPT ![s] = @ + 1]
  /\ pc' = [pc EXCEPT ![s] = "spin"]
  /\ target' = [target EXCEPT ![s] = sessions[i]]
  /\ UNCHANGED <<sessionVars, sessions, stream, writeLock, held, inflight,
                 killing, wire>>

(* The call and its lookup under the shared lock: the stream and the lock  *)
(* are copied out; a session that is not found drops the message silently. *)
Push(s, i) ==
  /\ pc[s] = "idle"
  /\ pushed[s] < MaxPush
  /\ Known(i)
  /\ pushed' = [pushed EXCEPT ![s] = @ + 1]
  /\ \/ /\ sessions[i] = NoConn
        /\ UNCHANGED <<pc, held, target>>
     \/ /\ sessions[i] # NoConn
        /\ pc' = [pc EXCEPT ![s] = "spin"]
        /\ held' = [held EXCEPT
             ![s] = [from |-> s, seq |-> pushed[s] + 1, to |-> i]]
        /\ target' = [target EXCEPT ![s] = sessions[i]]
  /\ UNCHANGED <<sessionVars, sessions, stream, writeLock, inflight, killing,
                 wire>>

(* Fault: the flag is set and not tested.                                  *)
AcquireUntested(s) ==
  /\ pc[s] = "spin"
  /\ writeLock' = [writeLock EXCEPT ![target[s]] = TRUE]
  /\ pc' = [pc EXCEPT ![s] = "locked"]
  /\ UNCHANGED <<sessionVars, sessions, stream, held, target, pushed,
                 inflight, killing, wire>>

(* test_and_set returns false.                                             *)
Acquire(s) ==
  /\ pc[s] = "spin"
  /\ ~writeLock[target[s]]
  /\ writeLock' = [writeLock EXCEPT ![target[s]] = TRUE]
  /\ pc' = [pc EXCEPT ![s] = "locked"]
  /\ UNCHANGED <<sessionVars, sessions, stream, held, target, pushed,
                 inflight, killing, wire>>

(* Fault: the lock guards the call of async_write only.                    *)
StartWriteUnlocks(s) ==
  /\ pc[s] = "locked"
  /\ inflight' = [inflight EXCEPT ![target[s]] = @ \cup {held[s]}]
  /\ writeLock' = [writeLock EXCEPT ![target[s]] = FALSE]
  /\ pc' = [pc EXCEPT ![s] = "idle"]
  /\ UNCHANGED <<sessionVars, sessions, stream, held, target, pushed,
                 killing, wire>>

(* Fault: with the lock taken, the session is looked up again, and the     *)
(* call returns if it is gone.                                             *)
StartWriteIfKnown(s) ==
  /\ pc[s] = "locked"
  /\ inflight' = IF sessions[held[s].to] = NoConn THEN inflight
                 ELSE [inflight EXCEPT ![target[s]] = @ \cup {held[s]}]
  /\ pc' = [pc EXCEPT ![s] = "idle"]
  /\ UNCHANGED <<sessionVars, sessions, stream, writeLock, held, target,
                 pushed, killing, wire>>

(* async_write takes the buffer and returns, and so does AddOutgoing.      *)
StartWrite(s) ==
  /\ pc[s] = "locked"
  /\ inflight' = [inflight EXCEPT ![target[s]] = @ \cup {held[s]}]
  /\ pc' = [pc EXCEPT ![s] = "idle"]
  /\ UNCHANGED <<sessionVars, sessions, stream, writeLock, held, target,
                 pushed, killing, wire>>

-----------------------------------------------------------------------------
(* The completion handler of a write.                                      *)

(* Fault: the handler erases the session whatever the outcome.             *)
WriteSucceedsErases(c, m) ==
  /\ m \in inflight[c]
  /\ stream[c] = "open"
  /\ IoFree
  /\ inflight' = [inflight EXCEPT ![c] = @ \ {m}]
  /\ wire' = [wire EXCEPT ![c] = Append(@, m)]
  /\ writeLock' = [writeLock EXCEPT ![c] = FALSE]
  /\ killing' = killing \cup {m}
  /\ UNCHANGED <<sessionVars, sessions, stream, senderVars>>

WriteSucceeds(c, m) ==
  /\ m \in inflight[c]
  /\ stream[c] = "open"
  /\ IoFree
  /\ inflight' = [inflight EXCEPT ![c] = @ \ {m}]
  /\ wire' = [wire EXCEPT ![c] = Append(@, m)]
  /\ writeLock' = [writeLock EXCEPT ![c] = FALSE]
  /\ UNCHANGED <<sessionVars, sessions, stream, senderVars, killing>>

(* Fault: the lock is given back only after a success.                     *)
WriteFailsLocked(c, m) ==
  /\ m \in inflight[c]
  /\ stream[c] = "failed"
  /\ IoFree
  /\ inflight' = [inflight EXCEPT ![c] = @ \ {m}]
  /\ killing' = killing \cup {m}
  /\ UNCHANGED <<sessionVars, sessions, stream, writeLock, senderVars, wire>>

(* Fault: the error is logged and the session stays.                       *)
WriteFailsLogged(c, m) ==
  /\ m \in inflight[c]
  /\ stream[c] = "failed"
  /\ IoFree
  /\ inflight' = [inflight EXCEPT ![c] = @ \ {m}]
  /\ writeLock' = [writeLock EXCEPT ![c] = FALSE]
  /\ UNCHANGED <<sessionVars, sessions, stream, senderVars, killing, wire>>

(* The lock is given back first, and the session is erased afterwards: a   *)
(* sender may look the session up, or start a write, in between.           *)
WriteFails(c, m) ==
  /\ m \in inflight[c]
  /\ stream[c] = "failed"
  /\ IoFree
  /\ inflight' = [inflight EXCEPT ![c] = @ \ {m}]
  /\ writeLock' = [writeLock EXCEPT ![c] = FALSE]
  /\ killing' = killing \cup {m}
  /\ UNCHANGED <<sessionVars, sessions, stream, senderVars, wire>>

(* _sessions.erase( id ), by the number the message was sent to.           *)
KillSession(m) ==
  /\ m \in killing
  /\ sessions' = [sessions EXCEPT ![m.to] = NoConn]
  /\ killing' = killing \ {m}
  /\ UNCHANGED <<sessionVars, stream, writeLock, senderVars, inflight, wire>>

-----------------------------------------------------------------------------
DoSession(c) == \/ LoadId(c) \/ StoreId(c) \/ Emplace(c)
                \/ AcceptFails(c) \/ ReadFails(c)

AddOutgoing(s) == \/ \E i \in SessionPK : Push(s, i)
                  \/ Acquire(s)
                  \/ StartWrite(s)

WriteDone(c) == \E m \in inflight[c] : WriteSucceeds(c, m) \/ WriteFails(c, m)

Next == \/ \E c \in Conn : DoSession(c) \/ StreamFails(c) \/ WriteDone(c)
        \/ \E s \in Sender : AddOutgoing(s)
        \/ \E m \in killing : KillSession(m)

Spec == Init /\ [][Next]_vars

(* The operating system runs a sender that can go on and the io_context    *)
(* runs every handler that is ready. A write that is started completes: if *)
(* the client stops reading, the web-socket timeout that DoSession sets    *)
(* fails the stream. Nobody has to connect, push or disconnect.            *)
Fairness ==
  /\ \A c \in Conn : WF_vars(StoreId(c)) /\ WF_vars(Emplace(c))
  /\ \A c \in Conn : WF_vars(WriteDone(c))
  /\ WF_vars(\E m \in killing : KillSession(m))
  /\ \A s \in Sender : WF_vars(Acquire(s)) /\ WF_vars(StartWrite(s))

FairSpec == Spec /\ Fairness

-----------------------------------------------------------------------------
(* Every variable keeps its type; a sender inside the call holds a message *)
(* of its own and a stream.                                                *)
TypeOK ==
  /\ coro \in [Conn -> {"accepting", "loaded", "numbered", "reading", "ended"}]
  /\ sessionId \in [Conn -> 0..MaxSession]
  /\ lastSession \in 0..MaxSession
  /\ sessions \in [SessionPK -> Conn \cup {NoConn}]
  /\ stream \in [Conn -> {"open", "failed"}]
  /\ writeLock \in [Conn -> BOOLEAN]
  /\ pc \in [Sender -> {"idle", "spin", "locked"}]
  /\ held \in [Sender -> Message \cup {NoMessage}]
  /\ target \in [Sender -> Conn \cup {NoConn}]
  /\ pushed \in [Sender -> 0..MaxPush]
  /\ inflight \in [Conn -> SUBSET Message]
  /\ killing \subseteq Message /\ IsFiniteSet(killing)
  /\ wire \in [Conn -> Seq(Message)]
  /\ \A c \in Conn : coro[c] \in {"loaded", "numbered", "reading"}
                       => sessionId[c] \in SessionPK
  /\ \A s \in Sender : pc[s] # "idle" =>
       held[s] \in Message /\ held[s].from = s /\ target[s] \in Conn

(* A stream never has two writes outstanding: Beast forbids a second       *)
(* async_write before the first one's handler runs, and nothing but the    *)
(* spin lock of AddOutgoing, taken on one thread and cleared on another,   *)
(* prevents it.                                                            *)
OneWritePerStream ==
  \A c \in Conn : \A m, n \in inflight[c] : m = n

(* What one thread sends to one client arrives in the order sent, with no  *)
(* message twice, although each write is completed on another thread and   *)
(* the senders compete for the lock.                                       *)
PerSenderOrder ==
  \A c \in Conn : \A j, k \in DOMAIN wire[c] :
    j < k /\ wire[c][j].from = wire[c][k].from
      => wire[c][j].seq < wire[c][k].seq

(* A message addressed to a session number is only ever sent on the stream *)
(* of the one client that has been given this number. It needs numbers     *)
(* that are handed out once, so it is a property of the default of one io  *)
(* thread: AddConnection increments _sessionId outside the lock.           *)
ReachesItsClient ==
  \A c, d \in Conn : \A k \in DOMAIN wire[c] :
    coro[d] \notin {"accepting", "loaded"} /\ sessionId[d] = wire[c][k].to
      => d = c

(* A session disappears from the map only when its own stream has failed:  *)
(* the late handler of some other write never takes a healthy session away.*)
OnlyFailedErased ==
  [][\A i \in SessionPK :
       sessions[i] # NoConn /\ sessions'[i] = NoConn
         => stream[sessions[i]] = "failed"]_vars

(* The lock of a stream that was taken is always given back, so no sender  *)
(* spins for ever behind a write that ended, failed or was overtaken by    *)
(* the removal of its session.                                             *)
LockReleased == \A c \in Conn : writeLock[c] ~> ~writeLock[c]

(* A session whose write meets a failed stream is eventually forgotten.    *)
FailedWriteForgotten ==
  \A c \in Conn : stream[c] = "failed" /\ inflight[c] # {}
    ~> \A i \in SessionPK : sessions[i] # c
-----------------------------------------------------------------------------
(* The invariants behind these properties.                                 *)

(* A lock is held either by the one sender between test_and_set and        *)
(* async_write or by the one write outstanding, never by both.             *)
LockInv ==
  /\ OneWritePerStream
  /\ \A c \in Conn : inflight[c] # {} => writeLock[c]
  /\ \A s \in Sender : pc[s] = "locked"
       => writeLock[target[s]] /\ inflight[target[s]] = {}
  /\ \A s, t \in Sender :
       pc[s] = "locked" /\ pc[t] = "locked" /\ target[s] = target[t] => s = t

(* A message that left the call of its sender was pushed before the one in *)
(* the call, and one still being written was pushed after the written ones.*)
Left(s, seq) == seq <= pushed[s] /\ (pc[s] # "idle" => seq < pushed[s])

OrderInv ==
  /\ \A s \in Sender : pc[s] # "idle" => held[s].seq = pushed[s]
  /\ \A c \in Conn : \A m \in inflight[c] :
       /\ Left(m.from, m.seq)
       /\ \A k \in DOMAIN wire[c] :
            wire[c][k].from = m.from => wire[c][k].seq < m.seq
  /\ \A c \in Conn : \A k \in DOMAIN wire[c] :
       Left(wire[c][k].from, wire[c][k].seq)
  /\ PerSenderOrder

(* With one io thread: numbers are distinct, a session's entry is its own  *)
(* stream, a message goes to the stream of the client it is addressed to,  *)
(* and a handler about to erase a session erases one whose stream failed.  *)
Registered(c) == coro[c] \in {"reading", "ended"}

NumberInv ==
  /\ \A c, d \in Adding : c = d
  /\ \A c \in Conn :
       /\ coro[c] = "accepting" => sessionId[c] = 0
       /\ coro[c] = "loaded" => sessionId[c] = lastSession + 1
       /\ coro[c] # "loaded" => sessionId[c] <= lastSession
  /\ \A c, d \in Conn : sessionId[c] = sessionId[d] /\ sessionId[c] # 0
                          => c = d

AddressInv ==
  /\ \A i \in SessionPK : \A c \in Conn :
       sessions[i] = c => sessionId[c] = i /\ Registered(c)
  /\ \A s \in Sender : pc[s] # "idle" =>
       sessionId[target[s]] = held[s].to /\ Registered(target[s])
  /\ \A c \in Conn : \A m \in inflight[c] :
       sessionId[c] = m.to /\ Registered(c)
  /\ \A c \in Conn : \A k \in DOMAIN wire[c] :
       sessionId[c] = wire[c][k].to /\ Registered(c)
  /\ \A m \in killing : \A c \in Conn :
       sessionId[c] = m.to => stream[c] = "failed" /\ Registered(c)

-----------------------------------------------------------------------------
(* The abstract channel this module implements.                            *)

StatusOf(c) ==
  IF \E i \in SessionPK : sessions[i] = c THEN "open"
  ELSE IF coro[c] \in {"reading", "ended"} /\ sessionId[c] # 0 THEN "closed"
  ELSE "new"

OfferOf(s) ==
  IF pc[s] = "idle" THEN NoMessage ELSE [conn |-> target[s], msg |-> held[s]]

Channel == INSTANCE SessionChannel WITH
  None    <- NoMessage,
  status  <- [c \in Conn |-> StatusOf(c)],
  broken  <- {c \in Conn : stream[c] = "failed"},
  offered <- [s \in Sender |-> OfferOf(s)],
  sending <- inflight,
  log     <- wire

(* With one io thread, the sessions, the lock and the handlers implement   *)
(* the channel: in particular a message waiting on a stream is not lost    *)
(* while the stream is healthy, nothing overtakes it, and a session is     *)
(* neither dropped early nor registered again.                             *)
ImplementsChannel == Channel!Spec
=============================================================================
