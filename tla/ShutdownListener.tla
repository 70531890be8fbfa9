-------------------------- MODULE ShutdownListener --------------------------
(***************************************************************************)
(* The listener that powers a Linux PC off,                                *)
(* Linux/src/shutdown-listener.cpp: one thread in poll over the read end   *)
(* of a signal pipe, a TCP and a UDP socket.  A poll result is a snapshot, *)
(* which the loop works off in that order while clients go on connecting   *)
(* and sending; a TCP client is accepted, read once and closed.            *)
(*                                                                         *)
(* What a client has sent is "none", "part" of the activation message, the *)
(* message, "all", or "other"; more bytes after the message make it other. *)
(* White space around it is trimmed and left out here.                     *)
(***************************************************************************)
EXTENDS Integers, Sequences, FiniteSets

CONSTANTS
  Conns,        \* TCP clients, each of which may come again
  NoConn,       \* cfd = -1
  Backlog,      \* the argument of listen
  MaxDgrams     \* bound on the datagrams that wait, further ones are lost

ASSUME ListenerAssumption ==
  /\ NoConn \notin Conns
  /\ Backlog \in Nat \ {0}
  /\ MaxDgrams \in Nat

Bytes == {"none", "part", "all", "other"}
Sources == {"signal", "tcp", "udp"}

VARIABLES
  signalled,    \* the signal pipe is not empty
  backlog,      \* connections that wait for accept
  conn,         \* state of each client
  sent,         \* what has arrived from it
  dgrams,       \* datagrams that wait: "cmd" or "noise"
  ready,        \* the descriptors with POLLIN in the last poll result
  running,      \* running
  pc,           \* where the loop is
  cfd,          \* the accepted client
  asked         \* how often do_poweroff was called since the start

netVars == <<backlog, conn, sent, dgrams>>
loopVars == <<ready, running, pc, cfd, asked>>
vars == <<signalled, netVars, loopVars>>

Init ==
  /\ signalled = FALSE
  /\ backlog = <<>>
  /\ conn = [c \in Conns |-> "new"]
  /\ sent = [c \in Conns |-> "none"]
  /\ dgrams = <<>>
  /\ ready = {}
  /\ running = TRUE
  /\ pc = "poll"
  /\ cfd = NoConn
  /\ asked = 0

Listening == pc # "exited"

Closed(c) == [conn EXCEPT ![c] = "closed"]

-----------------------------------------------------------------------------
\* Clients, the network and signals.

Connect(c) ==
  /\ Listening
  /\ conn[c] \in {"new", "closed", "gone"}
  /\ Len(backlog) < Backlog
  /\ backlog' = Append(backlog, c)
  /\ conn' = [conn EXCEPT ![c] = "backlog"]
  /\ sent' = [sent EXCEPT ![c] = "none"]
  /\ UNCHANGED <<signalled, dgrams, loopVars>>

\* What may have arrived next after b.
More(b) == CASE b = "none" -> {"part", "all", "other"}
             [] b = "part" -> {"all", "other"}
             [] b = "all"  -> {"other"}
             [] b = "other" -> {}

Arrive(c) ==
  /\ conn[c] \in {"backlog", "open"}
  /\ \E b \in More(sent[c]) : sent' = [sent EXCEPT ![c] = b]
  /\ UNCHANGED <<signalled, backlog, conn, dgrams, loopVars>>

Datagram(m) ==
  /\ Listening
  /\ Len(dgrams) < MaxDgrams
  /\ dgrams' = Append(dgrams, m)
  /\ UNCHANGED <<signalled, backlog, conn, sent, loopVars>>

\* handle_signal writes to the pipe; a full pipe stays as it is.
Signal ==
  /\ Listening
  /\ ~signalled
  /\ signalled' = TRUE
  /\ UNCHANGED <<netVars, loopVars>>

-----------------------------------------------------------------------------
\* The loop.

ReadyNow ==
  {s \in Sources : \/ s = "signal" /\ signalled
                   \/ s = "tcp" /\ backlog # <<>>
                   \/ s = "udp" /\ dgrams # <<>>}

\* The order of pfds; after the last, while (running).
Following(s) ==
  CASE s = "signal" -> "tcp"
    [] s = "tcp" -> "udp"
    [] s = "udp" -> IF running THEN "poll" ELSE "exit"

\* trim(s) == message
Matches(b) == b = "all"

\* Defective variants: each is the definition its name starts with, with one
\* mistake, and no part of the specification.

\* The revents of the poll before are not cleared.
PollKeepsReady ==
  /\ pc = "poll"
  /\ ReadyNow # {}
  /\ ready' = ready \cup ReadyNow
  /\ pc' = "signal"
  /\ UNCHANGED <<signalled, netVars, running, cfd, asked>>

\* The signal pipe is not the first of pfds, and is never reached.
PollTcpFirst ==
  /\ pc = "poll"
  /\ ReadyNow # {}
  /\ ready' = ReadyNow
  /\ pc' = "tcp"
  /\ UNCHANGED <<signalled, netVars, running, cfd, asked>>

\* The signal is noticed and the scan goes on.
DrainGoesOn ==
  /\ pc = "signal" /\ pc \in ready
  /\ signalled' = FALSE
  /\ pc' = Following("signal")
  /\ UNCHANGED <<netVars, ready, running, cfd, asked>>

\* The rest of the snapshot is dropped after a TCP client.
RecvOtherBreaks ==
  /\ pc = "recv"
  /\ ~Matches(sent[cfd])
  /\ conn' = Closed(cfd)
  /\ cfd' = NoConn
  /\ pc' = "poll"
  /\ UNCHANGED <<signalled, backlog, sent, dgrams, ready, running, asked>>

\* No receive timeout: a client that says nothing is waited for.
RecvOtherWaits ==
  /\ pc = "recv"
  /\ sent[cfd] \in {"part", "other"}
  /\ conn' = Closed(cfd)
  /\ cfd' = NoConn
  /\ pc' = Following("tcp")
  /\ UNCHANGED <<signalled, backlog, sent, dgrams, ready, running, asked>>

\* Only a command closes its client.
RecvOtherLeaks ==
  /\ pc = "recv"
  /\ ~Matches(sent[cfd])
  /\ cfd' = NoConn
  /\ pc' = Following("tcp")
  /\ UNCHANGED <<signalled, netVars, ready, running, asked>>

\* if (!running) break is missing after the TCP client.
PowerOffGoesOn ==
  /\ pc = "poweroff"
  /\ asked' = asked + 1
  /\ running' = FALSE
  /\ conn' = IF cfd = NoConn THEN conn ELSE Closed(cfd)
  /\ pc' = IF cfd = NoConn THEN "exit" ELSE "udp"
  /\ cfd' = NoConn
  /\ UNCHANGED <<signalled, backlog, sent, dgrams, ready>>

-----------------------------------------------------------------------------
\* poll returns, at once or when something becomes ready.
Poll ==
  /\ pc = "poll"
  /\ ReadyNow # {}
  /\ ready' = ReadyNow
  /\ pc' = "signal"
  /\ UNCHANGED <<signalled, netVars, running, cfd, asked>>

\* poll fails, with something else than EINTR.
PollFails ==
  /\ pc = "poll"
  /\ pc' = "exit"
  /\ UNCHANGED <<signalled, netVars, ready, running, cfd, asked>>

\* No POLLIN.
Skip ==
  /\ pc \in Sources \ ready
  /\ pc' = Following(pc)
  /\ UNCHANGED <<signalled, netVars, ready, running, cfd, asked>>

\* The pipe is drained and the loop left.
Drain ==
  /\ pc = "signal" /\ pc \in ready
  /\ signalled' = FALSE
  /\ running' = FALSE
  /\ pc' = "exit"
  /\ UNCHANGED <<netVars, ready, cfd, asked>>

Accept ==
  /\ pc = "tcp" /\ pc \in ready
  /\ cfd' = Head(backlog)
  /\ conn' = [conn EXCEPT ![Head(backlog)] = "open"]
  /\ backlog' = Tail(backlog)
  /\ pc' = "recv"
  /\ UNCHANGED <<signalled, sent, dgrams, ready, running, asked>>

\* The client has gone already.
AcceptFails ==
  /\ pc = "tcp" /\ pc \in ready
  /\ conn' = [conn EXCEPT ![Head(backlog)] = "gone"]
  /\ backlog' = Tail(backlog)
  /\ pc' = Following("tcp")
  /\ UNCHANGED <<signalled, sent, dgrams, ready, running, cfd, asked>>

\* The one recv returns what has arrived, the message ...
RecvMessage ==
  /\ pc = "recv"
  /\ Matches(sent[cfd])
  /\ pc' = "poweroff"
  /\ UNCHANGED <<signalled, netVars, ready, running, cfd, asked>>

\* ... or something else, or nothing: after 2 seconds, when a signal
\* interrupts it, or because the client has closed.
RecvOther ==
  /\ pc = "recv"
  /\ ~Matches(sent[cfd])
  /\ conn' = Closed(cfd)
  /\ cfd' = NoConn
  /\ pc' = Following("tcp")
  /\ UNCHANGED <<signalled, backlog, sent, dgrams, ready, running, asked>>

RecvFrom ==
  /\ pc = "udp" /\ pc \in ready
  /\ dgrams' = Tail(dgrams)
  /\ pc' = IF Head(dgrams) = "cmd" THEN "poweroff" ELSE Following("udp")
  /\ UNCHANGED <<signalled, backlog, conn, sent, ready, running, cfd, asked>>

\* do_poweroff returns, whether or not one of its commands worked; running
\* is reset, a TCP client closed, and both loops are left.
PowerOff ==
  /\ pc = "poweroff"
  /\ asked' = asked + 1
  /\ running' = FALSE
  /\ conn' = IF cfd = NoConn THEN conn ELSE Closed(cfd)
  /\ cfd' = NoConn
  /\ pc' = "exit"
  /\ UNCHANGED <<signalled, backlog, sent, dgrams, ready>>

\* The sockets are closed, with everything that waits on them.
Exit ==
  /\ pc = "exit"
  /\ conn' = [c \in Conns |-> IF conn[c] = "backlog" THEN "closed" ELSE conn[c]]
  /\ backlog' = <<>>
  /\ dgrams' = <<>>
  /\ signalled' = FALSE
  /\ pc' = "exited"
  /\ UNCHANGED <<sent, ready, running, cfd, asked>>

\* The service manager starts it again.
Restart ==
  /\ pc = "exited"
  /\ pc' = "poll"
  /\ ready' = {}
  /\ running' = TRUE
  /\ asked' = 0
  /\ UNCHANGED <<signalled, netVars, cfd>>

-----------------------------------------------------------------------------
Loop ==
  \/ Poll \/ Skip \/ Drain
  \/ Accept \/ AcceptFails \/ RecvMessage \/ RecvOther
  \/ RecvFrom \/ PowerOff \/ Exit

Next ==
  \/ \E c \in Conns : Connect(c) \/ Arrive(c)
  \/ \E m \in {"cmd", "noise"} : Datagram(m)
  \/ Signal
  \/ Loop \/ PollFails
  \/ Restart

\* The process runs: its only unbounded wait is poll, recv ends after two
\* seconds.  Clients, signals and the service manager owe nothing.
Spec == Init /\ [][Next]_vars /\ WF_vars(Loop)

-----------------------------------------------------------------------------
\* The types, with what the place in the loop says of the rest: the snapshot
\* is still true of what it has not yet served, because nobody else reads
\* these sockets (lines 203-249).
TypeOK ==
  /\ signalled \in BOOLEAN
  /\ backlog \in Seq(Conns) /\ Len(backlog) <= Backlog
  /\ conn \in [Conns -> {"new", "backlog", "open", "closed", "gone"}]
  /\ sent \in [Conns -> Bytes]
  /\ dgrams \in Seq({"cmd", "noise"}) /\ Len(dgrams) <= MaxDgrams
  /\ ready \subseteq Sources
  /\ running \in BOOLEAN
  /\ pc \in Sources \cup {"poll", "recv", "poweroff", "exit", "exited"}
  /\ pc \in Sources \cup {"poll", "recv", "poweroff"} => running
  /\ pc = "tcp" /\ pc \in ready => backlog # <<>>
  /\ pc = "udp" /\ pc \in ready => dgrams # <<>>
  /\ cfd \in Conns \cup {NoConn}
  /\ asked \in Nat

\* One life of the process asks for one power-off at most, although a message
\* by TCP and one by UDP may be in the same poll result (lines 226-247).
PowersOffOnce == asked <= 1

\* A client is open only while it is being read or obeyed: none is left
\* behind by any outcome of the recv (lines 218-232).
NoClientLeft ==
  \A c \in Conns : conn[c] = "open" <=> c = cfd /\ pc \in {"recv", "poweroff"}

\* A stop request that poll has reported comes before every message of the
\* same result (lines 185-212).
SignalFirst == [][asked' > asked => "signal" \notin ready]_vars

\* A signal ends the process, whatever the clients do (lines 207-211).
SignalEnds == signalled ~> ~Listening

\* A command by UDP is obeyed, unless the process ends first: TCP clients
\* that keep coming, silent ones included, take turns with the datagrams.
DatagramObeyed ==
  (\E i \in 1..Len(dgrams) : dgrams[i] = "cmd") ~> (asked > 0 \/ pc = "exit")

\* A client whose whole message has arrived is obeyed, unless it goes on
\* sending or away, or the process ends first; the clients before it in the
\* backlog delay it only.
ClientObeyed ==
  \A c \in Conns :
    conn[c] = "backlog" /\ sent[c] = "all"
      ~> asked > 0 \/ pc = "exit" \/ sent[c] = "other" \/ conn[c] = "gone"
=============================================================================
