---------------------------- MODULE WakeupServer ----------------------------
(***************************************************************************)
(* The wake-up server, Linux/src/wakeup.cpp: one thread that accepts a     *)
(* client, waits for anything it says, tries to send a magic packet and    *)
(* closes.  The recv has no timeout.  What the client says is not looked   *)
(* at, and what becomes of the packet changes nothing here: its socket     *)
(* lacks SO_BROADCAST, without which the kernel refuses the sendto.        *)
(***************************************************************************)
EXTENDS Integers, Sequences

CONSTANTS
  Clients,      \* clients, each of which may come again
  NoClient,     \* clientSock is closed: no member of Clients
  Room          \* the argument of listen, positive

VARIABLES
  waiting,      \* connections the kernel holds for accept
  state,        \* state of each client's connection
  spoke,        \* the clients of whom something has arrived
  left,         \* the clients who have closed
  held,         \* clientSock
  at            \* where the loop is

vars == <<waiting, state, spoke, left, held, at>>

Init ==
  /\ waiting = <<>>
  /\ state = [c \in Clients |-> "closed"]
  /\ spoke = {}
  /\ left = {}
  /\ held = NoClient
  /\ at = "accept"

-----------------------------------------------------------------------------
\* Clients.

Come(c) ==
  /\ state[c] = "closed"
  /\ Len(waiting) < Room
  /\ waiting' = Append(waiting, c)
  /\ state' = [state EXCEPT ![c] = "waiting"]
  /\ spoke' = spoke \ {c}
  /\ left' = left \ {c}
  /\ UNCHANGED <<held, at>>

Speak(c) ==
  /\ state[c] # "closed"
  /\ c \notin spoke \cup left
  /\ spoke' = spoke \cup {c}
  /\ UNCHANGED <<waiting, state, left, held, at>>

Leave(c) ==
  /\ state[c] # "closed"
  /\ c \notin left
  /\ left' = left \cup {c}
  /\ UNCHANGED <<waiting, state, spoke, held, at>>

-----------------------------------------------------------------------------
\* The loop.

Accept ==
  /\ at = "accept"
  /\ waiting # <<>>
  /\ held' = Head(waiting)
  /\ waiting' = Tail(waiting)
  /\ state' = [state EXCEPT ![Head(waiting)] = "held"]
  /\ at' = "recv"
  /\ UNCHANGED <<spoke, left>>

\* A client that has reset its connection may be lost in the accept.
AcceptFails ==
  /\ at = "accept"
  /\ waiting # <<>>
  /\ Head(waiting) \in left
  /\ waiting' = Tail(waiting)
  /\ state' = [state EXCEPT ![Head(waiting)] = "closed"]
  /\ UNCHANGED <<spoke, left, held, at>>

CloseHeld ==
  /\ state' = [state EXCEPT ![held] = "closed"]
  /\ held' = NoClient
  /\ at' = "accept"
  /\ UNCHANGED <<waiting, spoke, left>>

\* Defective variant, not part of the specification: the continue after a
\* failed recv comes before the close.
RecvNothingLeaks ==
  /\ at = "recv"
  /\ held \in left
  /\ held' = NoClient
  /\ at' = "accept"
  /\ UNCHANGED <<waiting, state, spoke, left>>

\* bytesRead > 0
Recv ==
  /\ at = "recv"
  /\ held \in spoke
  /\ at' = "packet"
  /\ UNCHANGED <<waiting, state, spoke, left, held>>

\* bytesRead <= 0: the client has closed or reset its connection.
RecvNothing ==
  /\ at = "recv"
  /\ held \in left
  /\ CloseHeld

\* sendMagicPacket returns, and the client is closed.
SendPacket ==
  /\ at = "packet"
  /\ CloseHeld

Loop == Accept \/ AcceptFails \/ Recv \/ RecvNothing \/ SendPacket

Next ==
  \/ \E c \in Clients : Come(c) \/ Speak(c) \/ Leave(c)
  \/ Loop

\* The process runs; its waits are accept and recv.
Spec == Init /\ [][Next]_vars /\ WF_vars(Loop)

-----------------------------------------------------------------------------
\* The types; the one connection that is held is the one the loop works on.
TypeOK ==
  /\ waiting \in Seq(Clients) /\ Len(waiting) <= Room
  /\ state \in [Clients -> {"closed", "waiting", "held"}]
  /\ spoke \subseteq Clients
  /\ left \subseteq Clients
  /\ held \in Clients \cup {NoClient}
  /\ at \in {"accept", "recv", "packet"}
  /\ held = NoClient <=> at = "accept"
  /\ \A c \in Clients : state[c] = "held" <=> held = c

\* The client that holds the server: it says nothing and does not leave.
Silent(c) == held = c /\ c \notin spoke \cup left

\* A silent client stops the service for everybody, and nothing else does: if
\* none is silent for ever, every client that comes is ended (lines 79-101).
EveryoneServedUnlessSilent ==
  (\A c \in Clients : []<>~Silent(c))
    => \A c \in Clients : state[c] = "waiting" ~> state[c] = "closed"
=============================================================================
