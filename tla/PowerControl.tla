---------------------------- MODULE PowerControl ----------------------------
(***************************************************************************)
(* A turn-off from the server to the PC and back: send_shutdown_command of *)
(* the server (SmartHomePCControl-CPP/src/main.cpp:184-229; the Rust one,  *)
(* main.rs:196-242, does the same), a network that delays and loses, the   *)
(* listener of the PC (module ShutdownListener), systemd, which runs it as *)
(* its unit says, and the machine.  The wake-up server (WakeupServer) runs *)
(* on another machine of the same network.                                 *)
(***************************************************************************)
EXTENDS Integers, Sequences, FiniteSets

CONSTANTS
  Requests,     \* turn-off requests in progress; a client may ask again
  NoConn,       \* the listener has no client
  Backlog,      \* its backlog
  MaxDgrams,    \* datagrams its socket holds
  StartLimit,   \* starts after which systemd gives a unit up
  Clients, NoClient, Room,  \* the wake-up server's
  Scenarios     \* who takes part: sets of requests and clients

ASSUME PowerAssumption ==
  /\ NoConn \notin Requests
  /\ Backlog \in Nat \ {0}
  /\ MaxDgrams \in Nat \ {0}
  /\ StartLimit \in Nat \ {0}
  /\ NoClient \notin Clients
  /\ Room \in Nat \ {0}
  /\ Scenarios \subseteq SUBSET (Requests \cup Clients)

VARIABLES
  signalled, backlog, conn, sent, dgrams,   \* the listener, see there
  ready, running, pc, cfd, asked,
  waiting, state, spoke, left, held, at,    \* the wake-up server, see there
  who,        \* who takes part
  place,      \* where in send_shutdown_command each request is
  ok,         \* whether one of its two commands has been sent so far
  answer,     \* the status its client is given, 0 for none yet
  air,        \* requests whose datagram is under way
  wire,       \* requests whose bytes on the connection are under way
  touched,    \* history: requests of which something reached the PC
  power,      \* the machine
  starts      \* starts of the listener that count for the limit

listenerVars ==
  <<signalled, backlog, conn, sent, dgrams, ready, running, pc, cfd, asked>>
wakeVars == <<waiting, state, spoke, left, held, at>>
serverVars == <<place, ok, answer>>
netVars == <<air, wire, touched>>
pcVars == <<power, starts>>
vars == <<listenerVars, wakeVars, who, serverVars, netVars, pcVars>>

L == INSTANCE ShutdownListener WITH Conns <- Requests
W == INSTANCE WakeupServer

Init ==
  /\ L!Init
  /\ W!Init
  /\ who \in Scenarios
  /\ place = [r \in Requests |-> "idle"]
  /\ ok = [r \in Requests |-> FALSE]
  /\ answer = [r \in Requests |-> 0]
  /\ air = {}
  /\ wire = {}
  /\ touched = {}
  /\ power = "on"
  /\ starts = 1

-----------------------------------------------------------------------------
\* The server.

\* A client asks for the PC to be turned off, when nothing of what it asked
\* before is under way.
Ask(r) ==
  /\ r \in who
  /\ place[r] = "idle"
  /\ r \notin air \cup wire
  /\ conn[r] \notin {"backlog", "open"}
  /\ place' = [place EXCEPT ![r] = "udp"]
  /\ ok' = [ok EXCEPT ![r] = FALSE]
  /\ answer' = [answer EXCEPT ![r] = 0]
  /\ touched' = touched \ {r}
  /\ UNCHANGED <<listenerVars, wakeVars, who, air, wire, pcVars>>

\* send_shutdown_command_udp: sendto puts the datagram on its way, or fails.
SendUdp(r) ==
  /\ place[r] = "udp"
  /\ place' = [place EXCEPT ![r] = "tcp"]
  /\ \E done \in BOOLEAN :
       /\ ok' = [ok EXCEPT ![r] = done]
       /\ air' = IF done THEN air \cup {r} ELSE air
  /\ UNCHANGED <<listenerVars, wakeVars, who, answer, wire, touched, pcVars>>

\* Defective variants, not part of the specification: here, TCP alone counts;
\* below, the listener is only started at boot.
FinishTcpOnly(r, tcp) ==
  /\ place' = [place EXCEPT ![r] = "idle"]
  /\ ok' = [ok EXCEPT ![r] = tcp]
  /\ answer' = [answer EXCEPT ![r] = IF tcp THEN 200 ELSE 500]

\* udp || tcp, and what the handler makes of it.
Finish(r, tcp) ==
  /\ place' = [place EXCEPT ![r] = "idle"]
  /\ ok' = [ok EXCEPT ![r] = @ \/ tcp]
  /\ answer' = [answer EXCEPT ![r] = IF ok[r] \/ tcp THEN 200 ELSE 500]

\* send_shutdown_command_tcp: connect, to a PC that is on and listens.
Connect(r) ==
  /\ place[r] = "tcp"
  /\ power # "off"
  /\ L!Connect(r)
  /\ place' = [place EXCEPT ![r] = "send"]
  /\ UNCHANGED <<wakeVars, who, ok, answer, netVars, pcVars>>

\* connect is refused, or five seconds pass.
ConnectFails(r) ==
  /\ place[r] = "tcp"
  /\ Finish(r, FALSE)
  /\ UNCHANGED <<listenerVars, wakeVars, who, netVars, pcVars>>

\* send takes the bytes, whether or not anybody will read them, or fails.
SendTcp(r) ==
  /\ place[r] = "send"
  /\ \E done \in BOOLEAN :
       /\ Finish(r, done)
       /\ wire' = IF done THEN wire \cup {r} ELSE wire
  /\ UNCHANGED <<listenerVars, wakeVars, who, air, touched, pcVars>>

-----------------------------------------------------------------------------
\* The network.

DeliverDatagram(r) ==
  /\ r \in air
  /\ L!Datagram("cmd")
  /\ air' = air \ {r}
  /\ touched' = touched \cup {r}
  /\ UNCHANGED <<wakeVars, who, serverVars, wire, pcVars>>

LoseDatagram(r) ==
  /\ r \in air
  /\ air' = air \ {r}
  /\ UNCHANGED <<listenerVars, wakeVars, who, serverVars, wire, touched, pcVars>>

\* The bytes of the command arrive, in one piece or two.
DeliverBytes(r) ==
  /\ r \in wire
  /\ L!Arrive(r)
  /\ sent'[r] \in {"part", "all"}
  /\ wire' = IF sent'[r] = "all" THEN wire \ {r} ELSE wire
  /\ touched' = touched \cup {r}
  /\ UNCHANGED <<wakeVars, who, serverVars, air, pcVars>>

\* The listener has closed the connection: the bytes are for nobody.
LoseBytes(r) ==
  /\ r \in wire
  /\ conn[r] \notin {"backlog", "open"}
  /\ wire' = wire \ {r}
  /\ UNCHANGED <<listenerVars, wakeVars, who, serverVars, air, touched, pcVars>>

-----------------------------------------------------------------------------
\* The PC.

\* The steps of the listener but do_poweroff.
Listen ==
  /\ pc # "poweroff"
  /\ L!Loop
  /\ UNCHANGED <<wakeVars, who, serverVars, netVars, pcVars>>

ListenFails ==
  /\ L!PollFails
  /\ UNCHANGED <<wakeVars, who, serverVars, netVars, pcVars>>

\* do_poweroff: one of its commands is accepted, or all four fail.
PowerOff ==
  /\ L!PowerOff
  /\ power' \in {power, IF power = "on" THEN "halting" ELSE power}
  /\ UNCHANGED <<wakeVars, who, serverVars, netVars, starts>>

\* The user shuts it down at the keyboard.
UserShutsDown ==
  /\ power = "on"
  /\ power' = "halting"
  /\ UNCHANGED <<listenerVars, wakeVars, who, serverVars, netVars, starts>>

\* systemd stops the services, the listener by SIGTERM ...
StopListener ==
  /\ power = "halting"
  /\ L!Signal
  /\ UNCHANGED <<wakeVars, who, serverVars, netVars, pcVars>>

\* ... and the machine goes off when they have ended.
Halt ==
  /\ power = "halting"
  /\ pc = "exited"
  /\ power' = "off"
  /\ starts' = 0
  /\ UNCHANGED <<listenerVars, wakeVars, who, serverVars, netVars>>

\* A magic packet of a server, or the button.
Boot ==
  /\ power = "off"
  /\ power' = "on"
  /\ UNCHANGED <<listenerVars, wakeVars, who, serverVars, netVars, starts>>

GivenUp == pc = "exited" /\ starts = StartLimit

StartListenerOnce ==
  /\ power = "on"
  /\ starts = 0
  /\ L!Restart
  /\ starts' = starts + 1
  /\ UNCHANGED <<wakeVars, who, serverVars, netVars, power>>

\* The unit is started at boot and, with Restart=always, whenever its process
\* has ended.
StartListener ==
  /\ power = "on"
  /\ starts < StartLimit
  /\ L!Restart
  /\ starts' = starts + 1
  /\ UNCHANGED <<wakeVars, who, serverVars, netVars, power>>

\* The listener has run for longer than the interval of the limit.
Settle ==
  /\ power = "on"
  /\ pc # "exited"
  /\ starts > 1
  /\ starts' = 1
  /\ UNCHANGED <<listenerVars, wakeVars, who, serverVars, netVars, power>>

-----------------------------------------------------------------------------
\* The wake-up server, with clients that take part.
WakeLoop ==
  /\ W!Loop
  /\ UNCHANGED <<listenerVars, who, serverVars, netVars, pcVars>>

WakeClient(c) ==
  /\ c \in who
  /\ W!Come(c) \/ W!Speak(c) \/ W!Leave(c)
  /\ UNCHANGED <<listenerVars, who, serverVars, netVars, pcVars>>

Next ==
  \/ \E r \in Requests :
       \/ Ask(r) \/ SendUdp(r) \/ Connect(r) \/ ConnectFails(r) \/ SendTcp(r)
       \/ DeliverDatagram(r) \/ LoseDatagram(r) \/ DeliverBytes(r) \/ LoseBytes(r)
  \/ Listen \/ ListenFails \/ PowerOff \/ UserShutsDown \/ StopListener \/ Halt \/ Boot
  \/ StartListener \/ Settle
  \/ WakeLoop
  \/ \E c \in Clients : WakeClient(c)

SafeSpec == Init /\ [][Next]_vars

\* The processes of both machines run, and systemd does what it has begun.
\* Clients, the network, the user, the button and the server's calls, which
\* may take their time, owe nothing.
Spec ==
  /\ SafeSpec
  /\ WF_vars(Listen) /\ WF_vars(PowerOff)
  /\ WF_vars(StopListener) /\ WF_vars(Halt) /\ WF_vars(StartListener)
  /\ WF_vars(WakeLoop)

-----------------------------------------------------------------------------
\* The types; a machine that is off runs no listener.
TypeOK ==
  /\ L!TypeOK
  /\ W!TypeOK
  /\ who \subseteq Requests \cup Clients
  /\ place \in [Requests -> {"idle", "udp", "tcp", "send"}]
  /\ ok \in [Requests -> BOOLEAN]
  /\ answer \in [Requests -> {0, 200, 500}]
  /\ air \subseteq Requests
  /\ wire \subseteq Requests
  /\ touched \subseteq Requests
  /\ power \in {"on", "halting", "off"}
  /\ power = "off" => pc = "exited"
  /\ starts \in 0..StartLimit

\* A client that is told of a failure may ask again without a second thought:
\* nothing of its command has reached the PC or still will, whatever was lost
\* or is late (main.cpp:225-229, 278-285).  The converse does not hold: 200
\* says that the command was sent.
FailureMeansUntouched ==
  \A r \in Requests :
    answer[r] = 500 => r \notin touched \cup air \cup wire

\* The PC settles.  A shutdown completes, with clients that connect and send
\* nothing and commands that keep coming; and a listener whose power-off was
\* refused, or whose poll failed, is back unless the limit of starts is hit
\* (shutdown-listener.cpp:206-259, shutdown-listener@.service:8).
PcSettles ==
  /\ power = "halting" ~> power = "off"
  /\ power = "on" /\ pc = "exited" ~> pc # "exited" \/ power # "on" \/ GivenUp

\* The client of r insists: it asks whenever it can, the server's calls and what
\* they sent by TCP come to an end, and of the datagrams that might be sent, or
\* received, again and again, one some time is.
Insists(r) ==
  /\ WF_vars(Ask(r) \/ SendUdp(r) \/ Connect(r) \/ ConnectFails(r) \/ SendTcp(r))
  /\ WF_vars(DeliverBytes(r) \/ LoseBytes(r))
  /\ SF_vars(SendUdp(r) /\ ok'[r])
  /\ SF_vars(DeliverDatagram(r))


\* The wake-up server's part, see module WakeupServer.
WakeupServes == W!EveryoneServedUnlessSilent
=============================================================================
