--------------------------- MODULE SessionChannel ---------------------------
(***************************************************************************)
(* What the sending side of the server promises to the code that pushes    *)
(* messages: every client connection is a channel that sends one message   *)
(* at a time. A thread that pushes is held until its message is being      *)
(* sent, so its messages cannot overtake each other. A client receives a   *)
(* sequence without holes: a message is only lost once the channel is      *)
(* broken, and nothing is delivered from then on. A channel opens once,    *)
(* stays open as long as it is not broken and never opens again.           *)
(***************************************************************************)
EXTENDS Sequences

CONSTANTS Conn, Sender, Message, None

VARIABLES
  status,   (* per channel: does it take messages                          *)
  broken,   (* the channels whose transport failed                         *)
  offered,  (* per thread: the channel and message of its pending push     *)
  sending,  (* per channel: the message being sent, at most one            *)
  log       (* per channel: what was delivered                             *)

chanVars == <<status, broken, offered, sending, log>>

Init ==
  /\ status = [c \in Conn |-> "new"]
  /\ broken = {}
  /\ offered = [s \in Sender |-> None]
  /\ sending = [c \in Conn |-> {}]
  /\ log = [c \in Conn |-> <<>>]

Open(c) ==
  /\ status[c] = "new"
  /\ status' = [status EXCEPT ![c] = "open"]
  /\ UNCHANGED <<broken, offered, sending, log>>

Break(c) ==
  /\ broken' = broken \cup {c}
  /\ UNCHANGED <<status, offered, sending, log>>

Offer(s, c, m) ==
  /\ offered[s] = None
  /\ status[c] = "open"
  /\ offered' = [offered EXCEPT ![s] = [conn |-> c, msg |-> m]]
  /\ UNCHANGED <<status, broken, sending, log>>

Start(s) ==
  /\ offered[s] # None
  /\ sending[offered[s].conn] = {}
  /\ sending' = [sending EXCEPT ![offered[s].conn] = {offered[s].msg}]
  /\ offered' = [offered EXCEPT ![s] = None]
  /\ UNCHANGED <<status, broken, log>>

Deliver(c, m) ==
  /\ sending[c] = {m}
  /\ c \notin broken
  /\ log' = [log EXCEPT ![c] = Append(@, m)]
  /\ sending' = [sending EXCEPT ![c] = {}]
  /\ UNCHANGED <<status, broken, offered>>

Lose(c, m) ==
  /\ sending[c] = {m}
  /\ c \in broken
  /\ sending' = [sending EXCEPT ![c] = {}]
  /\ UNCHANGED <<status, broken, offered, log>>

Close(c) ==
  /\ status[c] = "open"
  /\ c \in broken
  /\ status' = [status EXCEPT ![c] = "closed"]
  /\ UNCHANGED <<broken, offered, sending, log>>

Next == \/ \E c \in Conn : Open(c) \/ Break(c) \/ Close(c)
        \/ \E c \in Conn : \E m \in sending[c] : Deliver(c, m) \/ Lose(c, m)
        \/ \E s \in Sender : Start(s)
        \/ \E s \in Sender, c \in Conn, m \in Message : Offer(s, c, m)

Spec == Init /\ [][Next]_chanVars
=============================================================================
