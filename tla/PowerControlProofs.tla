------------------------- MODULE PowerControlProofs -------------------------
(***************************************************************************)
(* Proofs about PowerControl, for any requests, clients, limits and        *)
(* scenarios: a failure that is reported was one, and what                 *)
(* ShutdownListenerProofs shows of a listener holds of the one here, whose *)
(* every step is an action of ShutdownListener by the way it is composed.  *)
(***************************************************************************)
EXTENDS PowerControl, TLAPS

LP == INSTANCE ShutdownListenerProofs WITH Conns <- Requests

-----------------------------------------------------------------------------
\* The listener.

\* Every step is one of the listener or does not touch it.
LEMMA ListenerStep == [Next]_vars => [LP!Next]_(LP!vars)
<1> SUFFICES ASSUME [Next]_vars PROVE LP!Next \/ UNCHANGED LP!vars
  OBVIOUS
<1> USE DEF LP!Next, LP!vars, LP!netVars, LP!loopVars, listenerVars,
            L!netVars, L!loopVars, L!Listening, LP!Listening
<1>1. CASE UNCHANGED vars
  BY <1>1 DEF vars
<1>2. ASSUME NEW r \in Requests, Connect(r) PROVE LP!Next
  BY <1>2 DEF Connect, L!Connect, LP!Connect
<1>3. ASSUME NEW r \in Requests, DeliverDatagram(r) PROVE LP!Next
  BY <1>3 DEF DeliverDatagram, L!Datagram, LP!Datagram
<1>4. ASSUME NEW r \in Requests, DeliverBytes(r) PROVE LP!Next
  <2>1. LP!Arrive(r)
    BY <1>4 DEF DeliverBytes, L!Arrive, LP!Arrive, L!More, LP!More
  <2> QED BY <2>1
<1>5. CASE Listen \/ PowerOff
  <2>1. LP!Loop
    BY <1>5 DEF Listen, PowerOff, L!Loop, LP!Loop, L!Poll, LP!Poll, L!Skip, LP!Skip,
         L!Drain, LP!Drain, L!Accept, LP!Accept, L!AcceptFails, LP!AcceptFails,
         L!RecvMessage, LP!RecvMessage, L!RecvOther, LP!RecvOther, L!RecvFrom,
         LP!RecvFrom, L!PowerOff, LP!PowerOff, L!Exit, LP!Exit, L!Closed, LP!Closed,
         L!Following, LP!Following, L!ReadyNow, LP!ReadyNow, L!Sources, LP!Sources,
         L!Matches, LP!Matches
  <2> QED BY <2>1
<1>6. CASE ListenFails
  BY <1>6 DEF ListenFails, L!PollFails, LP!PollFails
<1>7. CASE StopListener
  BY <1>7 DEF StopListener, L!Signal, LP!Signal
<1>8. CASE StartListener
  BY <1>8 DEF StartListener, L!Restart, LP!Restart
<1>9. CASE UNCHANGED listenerVars
  BY <1>9
<1> QED
  BY <1>1, <1>2, <1>3, <1>4, <1>5, <1>6, <1>7, <1>8, <1>9
     DEF Next, Ask, SendUdp, ConnectFails, SendTcp, LoseDatagram, LoseBytes,
         UserShutsDown, Halt, Boot, Settle, WakeLoop, WakeClient

\* The invariant of ShutdownListenerProofs holds here.
LEMMA ListenerInvariant == SafeSpec => []LP!LoopInv
<1>1. Init => LP!Init
  BY DEF Init, L!Init, LP!Init
<1>2. LP!Init /\ [][LP!Next]_(LP!vars) => []LP!LoopInv
  BY LP!LoopInvariant, PowerAssumption
<1> QED BY <1>1, <1>2, ListenerStep, PTL DEF SafeSpec

-----------------------------------------------------------------------------
\* The wake-up server.

\* Every step is one of the wake-up server or does not touch it.
LEMMA WakeupApart == [Next]_vars => [W!Next]_(W!vars)
BY DEF Next, Ask, SendUdp, Connect, ConnectFails, SendTcp, DeliverDatagram,
     LoseDatagram, DeliverBytes, LoseBytes, Listen, ListenFails, PowerOff,
     UserShutsDown, StopListener, Halt, Boot, StartListener, Settle, WakeLoop,
     WakeClient, W!Next, W!vars, wakeVars, vars

\* Every step of the wake-up server keeps its types.
LEMMA WakeStep == W!TypeOK /\ [W!Next]_(W!vars) => W!TypeOK'
<1> USE PowerAssumption DEF W!TypeOK
<1> SUFFICES ASSUME W!TypeOK, [W!Next]_(W!vars) PROVE W!TypeOK'
  OBVIOUS
<1>1. ASSUME NEW c \in Clients, W!Come(c) PROVE W!TypeOK'
  <2>1. Append(waiting, c) \in Seq(Clients) /\ Len(Append(waiting, c)) = Len(waiting) + 1
    OBVIOUS
  <2>2. held # c
    BY <1>1 DEF W!Come
  <2> QED BY <1>1, <2>1, <2>2 DEF W!Come
<1>2. ASSUME NEW c \in Clients, W!Speak(c) \/ W!Leave(c) PROVE W!TypeOK'
  BY <1>2 DEF W!Speak, W!Leave
<1>3. CASE W!Accept \/ W!AcceptFails
  <2>1. /\ Head(waiting) \in Clients /\ Tail(waiting) \in Seq(Clients)
        /\ Len(Tail(waiting)) = Len(waiting) - 1
    BY <1>3 DEF W!Accept, W!AcceptFails
  <2> QED BY <1>3, <2>1 DEF W!Accept, W!AcceptFails
<1>4. CASE W!Recv
  BY <1>4 DEF W!Recv
<1>5. CASE W!RecvNothing \/ W!SendPacket
  BY <1>5 DEF W!RecvNothing, W!SendPacket, W!CloseHeld
<1>6. CASE UNCHANGED W!vars
  BY <1>6 DEF W!vars
<1> QED BY <1>1, <1>2, <1>3, <1>4, <1>5, <1>6 DEF W!Next, W!Loop

-----------------------------------------------------------------------------
\* The requests and the machine.

\* The types of the server's, the network's and the machine's variables.
Types ==
  /\ who \subseteq Requests \cup Clients
  /\ place \in [Requests -> {"idle", "udp", "tcp", "send"}]
  /\ ok \in [Requests -> BOOLEAN]
  /\ answer \in [Requests -> {0, 200, 500}]
  /\ air \subseteq Requests
  /\ wire \subseteq Requests
  /\ touched \subseteq Requests
  /\ power \in {"on", "halting", "off"}
  /\ power = "off" => pc = "exited"
  /\ starts \in 0..StartLimit

\* What the place of a request says of its command: nothing of it is out before
\* a call has succeeded, and nothing on the connection before the last call.
Untouched(r) == r \notin touched \cup air \cup wire

Sending ==
  \A r \in Requests :
    /\ place[r] # "idle" => answer[r] = 0 /\ r \notin wire
    /\ place[r] = "udp" => Untouched(r)
    /\ place[r] \in {"tcp", "send"} /\ ~ok[r] => Untouched(r)

ServerInv == Types /\ Sending /\ FailureMeansUntouched

\* Every step keeps what the server knows of the command's two ways.
LEMMA ServerStep == ServerInv /\ [Next]_vars => ServerInv'
<1> USE PowerAssumption
      DEF ServerInv, Types, Sending, FailureMeansUntouched, Untouched,
          serverVars, netVars, pcVars
<1> SUFFICES ASSUME ServerInv, [Next]_vars PROVE ServerInv'
  OBVIOUS
<1>1. ASSUME NEW r \in Requests, Ask(r) PROVE ServerInv'
  BY <1>1 DEF Ask, listenerVars
<1>2. ASSUME NEW r \in Requests, SendUdp(r) PROVE ServerInv'
  BY <1>2 DEF SendUdp, listenerVars
<1>3. ASSUME NEW r \in Requests, Connect(r) PROVE ServerInv'
  BY <1>3 DEF Connect, L!Connect, L!loopVars
<1>4. ASSUME NEW r \in Requests, ConnectFails(r) PROVE ServerInv'
  BY <1>4 DEF ConnectFails, Finish, listenerVars
<1>5. ASSUME NEW r \in Requests, SendTcp(r) PROVE ServerInv'
  BY <1>5 DEF SendTcp, Finish, listenerVars
<1>6. ASSUME NEW r \in Requests, DeliverDatagram(r) PROVE ServerInv'
  BY <1>6 DEF DeliverDatagram, L!Datagram, L!loopVars
<1>7. ASSUME NEW r \in Requests, LoseDatagram(r) \/ LoseBytes(r) PROVE ServerInv'
  BY <1>7 DEF LoseDatagram, LoseBytes, listenerVars
<1>8. ASSUME NEW r \in Requests, DeliverBytes(r) PROVE ServerInv'
  BY <1>8 DEF DeliverBytes, L!Arrive, L!loopVars
<1>9. CASE Listen \/ ListenFails
  <2>1. pc = "exited" => UNCHANGED pc
    BY <1>9 DEF Listen, ListenFails, L!Loop, L!Poll, L!PollFails, L!Skip, L!Drain,
         L!Accept, L!AcceptFails, L!RecvMessage, L!RecvOther, L!RecvFrom, L!PowerOff,
         L!Exit, L!Sources
  <2> QED BY <1>9, <2>1 DEF Listen, ListenFails
<1>10. CASE PowerOff
  BY <1>10 DEF PowerOff, L!PowerOff
<1>11. CASE UserShutsDown \/ Halt \/ Boot \/ Settle
  BY <1>11 DEF UserShutsDown, Halt, Boot, Settle, listenerVars
<1>12. CASE StopListener
  BY <1>12 DEF StopListener, L!Signal, L!loopVars
<1>13. CASE StartListener
  BY <1>13 DEF StartListener
<1>14. CASE WakeLoop
  BY <1>14 DEF WakeLoop, listenerVars
<1>15. ASSUME NEW c \in Clients, WakeClient(c) PROVE ServerInv'
  BY <1>15 DEF WakeClient, listenerVars
<1>16. CASE UNCHANGED vars
  BY <1>16 DEF vars, listenerVars
<1> QED
  BY <1>1, <1>2, <1>3, <1>4, <1>5, <1>6, <1>7, <1>8, <1>9, <1>10, <1>11, <1>12,
     <1>13, <1>14, <1>15, <1>16 DEF Next

\* The invariant of the server holds, whatever the scheduling.
LEMMA ServerInvariant == SafeSpec => []ServerInv
<1>1. Init => ServerInv
  BY PowerAssumption
     DEF Init, ServerInv, Types, Sending, FailureMeansUntouched, Untouched
<1> QED BY <1>1, ServerStep, PTL DEF SafeSpec

\* A client that is told of a failure may ask again without a second thought:
\* nothing of its command has reached the PC or still will (main.cpp:225-229,
\* 278-285).
THEOREM FailuresAreReal == Spec => []FailureMeansUntouched
<1>1. ServerInv => FailureMeansUntouched
  BY DEF ServerInv
<1> QED BY <1>1, ServerInvariant, PTL DEF Spec
-----------------------------------------------------------------------------
\* The types of listener, servers, network and machine hold: what poll reported
\* is still there when it is served, the wake-up server holds one connection at
\* most, and a machine that is off runs no listener
\* (shutdown-listener.cpp:195-250, wakeup.cpp:79-102).
THEOREM TypeCorrect == Spec => []TypeOK
<1>1. LP!LoopInv => L!TypeOK
  BY DEF LP!LoopInv, LP!TypeOK, L!TypeOK, LP!Bytes, L!Bytes, LP!Sources, L!Sources
<1>2. Init => W!TypeOK
  <2>1. Init => at = "accept" /\ held = NoClient /\ state = [c \in Clients |-> "closed"]
    BY DEF Init, W!Init
  <2>2. Init => waiting \in Seq(Clients) /\ Len(waiting) <= Room
    BY PowerAssumption, SMT DEF Init, W!Init
  <2> QED BY <2>1, <2>2, PowerAssumption DEF Init, W!Init, W!TypeOK
<1>3. SafeSpec => []W!TypeOK
  BY <1>2, WakeupApart, WakeStep, PTL DEF SafeSpec
<1>4. LP!LoopInv /\ W!TypeOK /\ ServerInv => TypeOK
  BY <1>1 DEF TypeOK, ServerInv, Types
<1> QED BY <1>3, <1>4, ListenerInvariant, ServerInvariant, PTL DEF Spec

\* One life of the listener asks for one power-off at most, and leaves no client
\* behind, whatever the server, the network, systemd and the user do to it
\* (shutdown-listener.cpp:206-259).
THEOREM ListenerKeepsItsWord == Spec => [](L!PowersOffOnce /\ L!NoClientLeft)
<1>1. LP!LoopInv => L!PowersOffOnce /\ L!NoClientLeft
  BY DEF LP!LoopInv, LP!AskedAtEnd, LP!NoClientLeft, L!PowersOffOnce, L!NoClientLeft
<1> QED BY <1>1, ListenerInvariant, PTL DEF Spec

\* And none of them makes it obey a command past a stop request that the same
\* poll has reported (shutdown-listener.cpp:185-212).
THEOREM SignalsStillComeFirst == Spec => L!SignalFirst
<1>1. Init => LP!Init
  BY DEF Init, L!Init, LP!Init
<1>2. LP!Init /\ [][LP!Next]_(LP!vars) => LP!SignalFirst
  BY LP!SignalOrder, PowerAssumption
<1>3. LP!SignalFirst => L!SignalFirst
  BY DEF LP!SignalFirst, L!SignalFirst, LP!vars, L!vars, LP!netVars, L!netVars,
         LP!loopVars, L!loopVars
<1> QED BY <1>1, <1>2, <1>3, ListenerStep, PTL DEF Spec, SafeSpec
=============================================================================
