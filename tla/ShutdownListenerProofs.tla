----------------------- MODULE ShutdownListenerProofs -----------------------
(***************************************************************************)
(* Proofs about ShutdownListener, for any clients, any backlog and any     *)
(* number of datagrams.  One invariant, LoopInv, carries all of them: it   *)
(* says which parts of the last poll result are still to be served, and    *)
(* that these are still true.                                              *)
(***************************************************************************)
EXTENDS ShutdownListener, TLAPS

\* What of the snapshot is still to be served is there; and past its place in
\* pfds the signal pipe was not ready.
Snapshot ==
  /\ pc \in {"signal", "tcp"} /\ "tcp" \in ready => backlog # <<>>
  /\ pc \in {"signal", "tcp", "recv", "udp"} /\ "udp" \in ready => dgrams # <<>>
  /\ pc \in {"tcp", "recv", "udp", "poweroff"} => "signal" \notin ready

\* do_poweroff ends the loop.
AskedAtEnd == asked = 0 \/ (asked = 1 /\ pc \in {"exit", "exited"})

\* There is a client at the recv, and none but there and in do_poweroff.
ReadsClient ==
  /\ pc = "recv" => cfd \in Conns
  /\ cfd # NoConn => pc \in {"recv", "poweroff"}

LoopInv == TypeOK /\ NoClientLeft /\ Snapshot /\ AskedAtEnd /\ ReadsClient

\* The invariant holds at the start and every step keeps it.
LEMMA LoopInvariant == Init /\ [][Next]_vars => []LoopInv
<1> USE ListenerAssumption
<1>1. Init => LoopInv
  <2>1. Init => TypeOK
    <3>1. /\ <<>> \in Seq(Conns) /\ Len(<<>>) = 0
          /\ <<>> \in Seq({"cmd", "noise"})
      BY SMT
    <3>2. Len(<<>>) <= Backlog /\ Len(<<>>) <= MaxDgrams
      BY <3>1, SMT
    <3>3. Init => /\ backlog \in Seq(Conns) /\ Len(backlog) <= Backlog
                  /\ dgrams \in Seq({"cmd", "noise"}) /\ Len(dgrams) <= MaxDgrams
      BY <3>1, <3>2 DEF Init
    <3>4. Init => /\ conn \in [Conns -> {"new", "backlog", "open", "closed", "gone"}]
                  /\ sent \in [Conns -> Bytes]
      BY DEF Init, Bytes
    <3>5. Init => /\ signalled \in BOOLEAN /\ running \in BOOLEAN
                  /\ ready \subseteq Sources
                  /\ pc \in Sources \cup {"poll", "recv", "poweroff", "exit", "exited"}
                  /\ pc \in Sources \cup {"poll", "recv", "poweroff"} => running
      BY DEF Init, Sources
    <3>6. Init => /\ (pc = "tcp" /\ pc \in ready) => backlog # <<>>
                  /\ (pc = "udp" /\ pc \in ready) => dgrams # <<>>
                  /\ cfd \in Conns \cup {NoConn}
                  /\ asked \in Nat
      BY DEF Init
    <3> QED BY <3>3, <3>4, <3>5, <3>6 DEF TypeOK
  <2>2. Init => NoClientLeft /\ Snapshot /\ AskedAtEnd /\ ReadsClient
    BY DEF Init, NoClientLeft, Snapshot, AskedAtEnd, ReadsClient
  <2> QED BY <2>1, <2>2 DEF LoopInv
<1>2. LoopInv /\ [Next]_vars => LoopInv'
  <2> SUFFICES ASSUME LoopInv, [Next]_vars PROVE LoopInv'
    OBVIOUS
  <2> USE DEF LoopInv, TypeOK, NoClientLeft, Snapshot, AskedAtEnd, ReadsClient,
              Bytes, Sources, netVars, loopVars, Listening
  <2>1. ASSUME NEW c \in Conns, Connect(c) PROVE LoopInv'
    <3>1. Append(backlog, c) \in Seq(Conns) /\ Append(backlog, c) # <<>>
          /\ Len(Append(backlog, c)) = Len(backlog) + 1
      OBVIOUS
    <3> QED BY <2>1, <3>1 DEF Connect
  <2>2. ASSUME NEW c \in Conns, Arrive(c) PROVE LoopInv'
    BY <2>2 DEF Arrive, More
  <2>3. ASSUME NEW m \in {"cmd", "noise"}, Datagram(m) PROVE LoopInv'
    <3>1. Append(dgrams, m) \in Seq({"cmd", "noise"}) /\ Append(dgrams, m) # <<>>
          /\ Len(Append(dgrams, m)) = Len(dgrams) + 1
      OBVIOUS
    <3> QED BY <2>3, <3>1 DEF Datagram
  <2>4. CASE Signal
    BY <2>4 DEF Signal
  <2>5. CASE Poll
    BY <2>5 DEF Poll, ReadyNow
  <2>6. CASE PollFails
    BY <2>6 DEF PollFails
  <2>7. CASE Skip
    BY <2>7 DEF Skip, Following
  <2>8. CASE Drain
    BY <2>8 DEF Drain
  <2>9. CASE Accept
    <3>1. Head(backlog) \in Conns /\ Tail(backlog) \in Seq(Conns)
          /\ Len(Tail(backlog)) = Len(backlog) - 1
      BY <2>9 DEF Accept
    <3> QED BY <2>9, <3>1 DEF Accept
  <2>10. CASE AcceptFails
    <3>1. Head(backlog) \in Conns /\ Tail(backlog) \in Seq(Conns)
          /\ Len(Tail(backlog)) = Len(backlog) - 1
      BY <2>10 DEF AcceptFails
    <3> QED BY <2>10, <3>1 DEF AcceptFails, Following
  <2>11. CASE RecvMessage
    BY <2>11 DEF RecvMessage
  <2>12. CASE RecvOther
    BY <2>12 DEF RecvOther, Closed, Following
  <2>13. CASE RecvFrom
    <3>1. Tail(dgrams) \in Seq({"cmd", "noise"})
          /\ Len(Tail(dgrams)) = Len(dgrams) - 1
      BY <2>13 DEF RecvFrom
    <3> QED BY <2>13, <3>1 DEF RecvFrom, Following
  <2>14. CASE PowerOff
    <3>1. conn' \in [Conns -> {"new", "backlog", "open", "closed", "gone"}]
          /\ \A c \in Conns : conn'[c] # "open"
      BY <2>14 DEF PowerOff, Closed
    <3>2. asked' = 1
      BY <2>14 DEF PowerOff
    <3>3. /\ pc' = "exit" /\ running' = FALSE /\ cfd' = NoConn
          /\ UNCHANGED <<signalled, backlog, sent, dgrams, ready>>
      BY <2>14 DEF PowerOff
    <3>4. TypeOK'
      BY <3>1, <3>2, <3>3
    <3>5. (NoClientLeft /\ Snapshot /\ AskedAtEnd /\ ReadsClient)'
      BY <3>1, <3>2, <3>3
    <3> QED BY <3>4, <3>5
  <2>15. CASE Exit
    <3>1. /\ <<>> \in Seq(Conns) /\ Len(<<>>) = 0
          /\ <<>> \in Seq({"cmd", "noise"})
      BY SMT
    <3>2. Len(<<>>) <= Backlog /\ Len(<<>>) <= MaxDgrams
      BY <3>1, SMT
    <3>3. backlog' = <<>> /\ dgrams' = <<>>
      BY <2>15 DEF Exit
    <3>4. conn' \in [Conns -> {"new", "backlog", "open", "closed", "gone"}]
          /\ \A c \in Conns : conn'[c] # "open"
      BY <2>15 DEF Exit
    <3>5. TypeOK'
      BY <2>15, <3>1, <3>2, <3>3, <3>4 DEF Exit
    <3>6. (NoClientLeft /\ Snapshot /\ AskedAtEnd /\ ReadsClient)'
      BY <2>15, <3>4 DEF Exit
    <3> QED BY <3>5, <3>6
  <2>16. CASE Restart
    BY <2>16 DEF Restart
  <2>17. CASE UNCHANGED vars
    BY <2>17 DEF vars
  <2> QED
    BY <2>1, <2>2, <2>3, <2>4, <2>5, <2>6, <2>7, <2>8, <2>9, <2>10, <2>11,
       <2>12, <2>13, <2>14, <2>15, <2>16, <2>17 DEF Next, Loop
<1> QED BY <1>1, <1>2, PTL

\* The types hold, and what poll has reported and the loop has not yet served
\* is still there (shutdown-listener.cpp:195-250).
THEOREM TypeCorrect == Spec => []TypeOK
<1>1. LoopInv => TypeOK
  BY DEF LoopInv
<1> QED BY <1>1, LoopInvariant, PTL DEF Spec

\* One life of the process calls do_poweroff once at most (lines 226-247).
THEOREM OnePowerOff == Spec => []PowersOffOnce
<1>1. LoopInv => PowersOffOnce
  BY DEF LoopInv, AskedAtEnd, PowersOffOnce
<1> QED BY <1>1, LoopInvariant, PTL DEF Spec

\* Every accepted client is closed before the loop goes on (lines 218-232).
THEOREM ClientsClosed == Spec => []NoClientLeft
<1>1. LoopInv => NoClientLeft
  BY DEF LoopInv
<1> QED BY <1>1, LoopInvariant, PTL DEF Spec

\* Without fairness: only do_poweroff counts, past the place of the signal.
LEMMA SignalOrder == Init /\ [][Next]_vars => SignalFirst
<1>1. LoopInv /\ [Next]_vars => [asked' > asked => "signal" \notin ready]_vars
  <2> SUFFICES ASSUME LoopInv, Next, asked' > asked
               PROVE  "signal" \notin ready
    BY DEF vars
  <2>1. CASE PowerOff
    BY <2>1 DEF PowerOff, LoopInv, Snapshot
  <2>2. CASE Restart
    BY <2>2 DEF Restart, LoopInv, AskedAtEnd
  <2>3. CASE ~PowerOff /\ ~Restart
    <3>1. asked' = asked
      BY <2>3 DEF Next, Loop, Connect, Arrive, Datagram, Signal, Poll, PollFails,
         Skip, Drain, Accept, AcceptFails, RecvMessage, RecvOther, RecvFrom, Exit,
         loopVars
    <3> QED BY <3>1 DEF LoopInv, AskedAtEnd
  <2> QED BY <2>1, <2>2, <2>3
<1> QED BY <1>1, LoopInvariant, PTL DEF SignalFirst

\* No message is obeyed from a poll result that reports a signal
\* (lines 185-212).
THEOREM SignalsComeFirst == Spec => SignalFirst
  BY SignalOrder, PTL DEF Spec
=============================================================================
