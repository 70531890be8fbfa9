--------------------------- MODULE WinController ----------------------------
(***************************************************************************)
(* The tray program of the PC,                                             *)
(* SmartHomePCControl-Windows/smart_home_pc_controller.cpp: a UI thread    *)
(* that owns the sockets, and one listener thread per protocol that uses   *)
(* them through the globals g_udpSocket and g_tcpSocket.  The settings     *)
(* window changes the port by closing and reopening the sockets under the  *)
(* listeners; Exit closes them and joins the listeners.                    *)
(*                                                                         *)
(* The globals are plain variables, read by the listeners before every     *)
(* call while the UI thread writes them: each read and each write is a     *)
(* step of its own, so that setsockopt and the call after it may see       *)
(* different sockets.  A handle is the number of its socket, counted per   *)
(* protocol; 0 is INVALID_SOCKET.  A call blocked on a socket returns with *)
(* an error when the socket is closed, and an accepted socket inherits the *)
(* receive timeout of the one that listens.                                *)
(***************************************************************************)
EXTENDS Integers, FiniteSets

CONSTANTS
  Ports,        \* ports the user may enter
  DefaultPort,  \* DEFAULT_PORT
  MaxChanges    \* bound on the number of port changes

ASSUME WinAssumption ==
  /\ DefaultPort \in Ports
  /\ MaxChanges \in Nat

Kinds == {"udp", "tcp"}
Invalid == 0

VARIABLES
  running,    \* g_running
  port,       \* g_port
  handle,     \* g_udpSocket and g_tcpSocket
  opened,     \* how many sockets of each kind were created, the last is live
  ksock,      \* that last socket: "closed", "unbound" or "bound"
  timed,      \* whether SO_RCVTIMEO was set on it
  bport,      \* the port it was last bound to
  mail,       \* what waits on it: a datagram or a connection
  ui,         \* where the UI thread is
  changes,    \* port changes so far
  pc,         \* where each listener is
  on,         \* the handle the listener has passed to its blocking call, if it waits
  asked       \* the listeners that called ExitWindowsEx

uiVars == <<running, port, ui, changes>>
sockVars == <<handle, opened, ksock, timed, bport, mail>>
threadVars == <<pc, on, asked>>
vars == <<uiVars, sockVars, threadVars>>

Each(x) == [k \in Kinds |-> x]

\* WinMain is about to call InitializeSockets; no listener runs yet.
Init ==
  /\ running = TRUE
  /\ port = DefaultPort
  /\ handle = Each(Invalid)
  /\ opened = Each(0)
  /\ ksock = Each("closed")
  /\ timed = Each(FALSE)
  /\ bport = Each(DefaultPort)
  /\ mail = Each("none")
  /\ ui = <<"socket", "udp">>
  /\ changes = 0
  /\ pc = Each("new")
  /\ on = Each(Invalid)
  /\ asked = {}

-----------------------------------------------------------------------------
\* The UI thread: message loop, settings window, CleanupSockets and
\* InitializeSockets.

\* OK with another valid port.
ChangePort(p) ==
  /\ ui = <<"idle", "">> /\ pc # Each("new")
  /\ p # port
  /\ changes < MaxChanges
  /\ port' = p
  /\ changes' = changes + 1
  /\ ui' = <<"close", "udp">>
  /\ UNCHANGED <<running, sockVars, threadVars>>

\* Defective variant: Exit joins the listeners without closing their sockets.
QuitWithoutCleanup ==
  /\ ui = <<"idle", "">> /\ pc # Each("new")
  /\ running' = FALSE
  /\ ui' = <<"join", "udp">>
  /\ UNCHANGED <<port, changes, sockVars, threadVars>>

\* Exit: the message loop ends, g_running = false.
Quit ==
  /\ ui = <<"idle", "">> /\ pc # Each("new")
  /\ running' = FALSE
  /\ ui' = <<"close", "udp">>
  /\ UNCHANGED <<port, changes, sockVars, threadVars>>

\* closesocket, if the handle is valid; what waits on the socket is lost.
CloseSocket(k) ==
  /\ ui = <<"close", k>>
  /\ IF handle[k] # Invalid
       THEN /\ ksock' = [ksock EXCEPT ![k] = "closed"]
            /\ timed' = [timed EXCEPT ![k] = FALSE]
            /\ mail' = [mail EXCEPT ![k] = "none"]
       ELSE UNCHANGED <<ksock, timed, mail>>
  /\ ui' = <<"clear", k>>
  /\ UNCHANGED <<running, port, changes, handle, opened, bport, threadVars>>

\* Where CleanupSockets goes after one socket, and InitializeSockets.
AfterCleanup(k) ==
  IF k = "udp" THEN <<"close", "tcp">>
  ELSE IF running THEN <<"socket", "udp">> ELSE <<"join", "udp">>

AfterInitialize(k) == IF k = "udp" THEN <<"socket", "tcp">> ELSE <<"idle", "">>

\* Defective variants, not part of the specification: the handle is not
\* reset; the sockets are bound to the port that was there before.
ClearNothing(k) ==
  /\ ui = <<"clear", k>>
  /\ ui' = AfterCleanup(k)
  /\ UNCHANGED <<running, port, changes, sockVars, threadVars>>

BindOldPort(k, ok) ==
  /\ ui = <<"bind", k>>
  /\ ksock' = [ksock EXCEPT ![k] = IF ok THEN "bound" ELSE "closed"]
  /\ ui' = IF ok THEN AfterInitialize(k) ELSE <<"undo", k>>
  /\ UNCHANGED <<running, port, changes, handle, opened, timed, bport, mail, threadVars>>

ClearHandle(k) ==
  /\ ui = <<"clear", k>>
  /\ handle' = [handle EXCEPT ![k] = Invalid]
  /\ ui' = AfterCleanup(k)
  /\ UNCHANGED <<running, port, changes, opened, ksock, timed, bport, mail, threadVars>>

\* socket() stores its result in the global before anything else is done.
\* After the last one the listeners are started, the first time.
CreateSocket(k, ok) ==
  /\ ui = <<"socket", k>>
  /\ IF ok
       THEN /\ opened' = [opened EXCEPT ![k] = @ + 1]
            /\ handle' = [handle EXCEPT ![k] = opened[k] + 1]
            /\ ksock' = [ksock EXCEPT ![k] = "unbound"]
            /\ timed' = [timed EXCEPT ![k] = FALSE]
            /\ ui' = <<"bind", k>>
       ELSE /\ handle' = [handle EXCEPT ![k] = Invalid]
            /\ ui' = AfterInitialize(k)
            /\ UNCHANGED <<opened, ksock, timed>>
  /\ UNCHANGED <<running, port, changes, bport, mail, threadVars>>

\* bind (and listen); on failure closesocket, and then the reset.
BindSocket(k, ok) ==
  /\ ui = <<"bind", k>>
  /\ ksock' = [ksock EXCEPT ![k] = IF ok THEN "bound" ELSE "closed"]
  /\ bport' = IF ok THEN [bport EXCEPT ![k] = port] ELSE bport
  /\ ui' = IF ok THEN AfterInitialize(k) ELSE <<"undo", k>>
  /\ UNCHANGED <<running, port, changes, handle, opened, timed, mail, threadVars>>

UndoBind(k) ==
  /\ ui = <<"undo", k>>
  /\ handle' = [handle EXCEPT ![k] = Invalid]
  /\ ui' = AfterInitialize(k)
  /\ UNCHANGED <<running, port, changes, opened, ksock, timed, bport, mail, threadVars>>

\* WinMain creates the listeners when InitializeSockets has returned.
StartListeners ==
  /\ ui = <<"idle", "">>
  /\ pc = Each("new")
  /\ pc' = Each("check")
  /\ UNCHANGED <<uiVars, sockVars, on, asked>>

JoinListener(k) ==
  /\ ui = <<"join", k>>
  /\ pc[k] = "exited"
  /\ ui' = IF k = "udp" THEN <<"join", "tcp">> ELSE <<"done", "">>
  /\ UNCHANGED <<running, port, changes, sockVars, threadVars>>

\* The steps of the UI thread that do not wait for the user.
UiStep ==
  \E k \in Kinds :
    \/ CloseSocket(k) \/ ClearHandle(k) \/ UndoBind(k) \/ JoinListener(k)
    \/ \E ok \in BOOLEAN : CreateSocket(k, ok) \/ BindSocket(k, ok)

-----------------------------------------------------------------------------
\* The network: a datagram, or a connection with its first bytes ("silent":
\* it sends none), reaches a socket that is bound.  One waits at a time.
Send(k, m) ==
  /\ ksock[k] = "bound"
  /\ mail[k] = "none"
  /\ k = "udp" => m # "silent"
  /\ mail' = [mail EXCEPT ![k] = m]
  /\ UNCHANGED <<uiVars, handle, opened, ksock, timed, bport, threadVars>>

-----------------------------------------------------------------------------
\* The listeners, UdpListenerThread and TcpListenerThread.

Goto(k, l) == pc' = [pc EXCEPT ![k] = l]

\* while (g_running && socket != INVALID_SOCKET)
CheckLoop(k) ==
  /\ pc[k] = "check"
  /\ Goto(k, IF running /\ handle[k] # Invalid THEN "arm" ELSE "exited")
  /\ UNCHANGED <<uiVars, sockVars, on, asked>>

\* setsockopt reads the global again; on a closed socket it does nothing.
SetTimeout(k) ==
  /\ pc[k] = "arm"
  /\ IF handle[k] # Invalid /\ ksock[k] # "closed"
       THEN timed' = [timed EXCEPT ![k] = TRUE]
       ELSE UNCHANGED timed
  /\ Goto(k, "call")
  /\ UNCHANGED <<uiVars, handle, opened, ksock, bport, mail, on, asked>>

\* And so does recvfrom or accept.
EnterCall(k) ==
  /\ pc[k] = "call"
  /\ on' = [on EXCEPT ![k] = handle[k]]
  /\ Goto(k, "blocked")
  /\ UNCHANGED <<uiVars, sockVars, asked>>

\* The handle the listener is blocked on is that of a live, usable socket.
Usable(k) == on[k] = opened[k] /\ on[k] # Invalid /\ ksock[k] = "bound"

\* The call returns an error: closed or invalid handle, socket not bound, or,
\* for recvfrom, the timeout of one second if this socket has one.
CallFails(k) ==
  /\ pc[k] = "blocked"
  /\ ~Usable(k) \/ (k = "udp" /\ mail[k] = "none" /\ timed[k])
  /\ Goto(k, "check")
  /\ on' = [on EXCEPT ![k] = Invalid]
  /\ UNCHANGED <<uiVars, sockVars, asked>>

\* ProcessReceivedData: "cmd" stands for data with the command anywhere in it.
IsCommand(m) == m = "cmd"

\* Defective variants: ProcessReceivedData stops its search one position
\* early and misses a bare command; any data ends the listener, the break
\* has slipped out of the if.
ReceiveMissesCommand(k) ==
  /\ pc[k] = "blocked"
  /\ Usable(k) /\ mail[k] # "none"
  /\ mail' = [mail EXCEPT ![k] = "none"]
  /\ Goto(k, "check")
  /\ on' = [on EXCEPT ![k] = Invalid]
  /\ UNCHANGED <<uiVars, handle, opened, ksock, timed, bport, asked>>

ReceiveAndStop(k) ==
  /\ pc[k] = "blocked"
  /\ Usable(k) /\ mail[k] # "none"
  /\ mail' = [mail EXCEPT ![k] = "none"]
  /\ Goto(k, IF IsCommand(mail[k]) THEN "shutdown" ELSE "exited")
  /\ on' = [on EXCEPT ![k] = Invalid]
  /\ UNCHANGED <<uiVars, handle, opened, ksock, timed, bport, asked>>

\* Where the listener goes with what it was sent: the command, other data, or
\* nothing from a client that keeps silent, for whom recv waits until its
\* timeout, for ever without one.
Handled(k) ==
  CASE IsCommand(mail[k]) -> "shutdown"
    [] mail[k] = "noise" -> "check"
    [] mail[k] = "silent" -> IF timed[k] THEN "check" ELSE "stuck"

\* recvfrom, or accept and then recv.
Receive(k) ==
  /\ pc[k] = "blocked"
  /\ Usable(k) /\ mail[k] # "none"
  /\ mail' = [mail EXCEPT ![k] = "none"]
  /\ Goto(k, Handled(k))
  /\ on' = [on EXCEPT ![k] = Invalid]
  /\ UNCHANGED <<uiVars, handle, opened, ksock, timed, bport, asked>>

\* The silent client closes, or sends data or the command after all.
ClientSpeaks(k) ==
  /\ pc[k] = "stuck"
  /\ \E l \in {"check", "shutdown"} : Goto(k, l)
  /\ UNCHANGED <<uiVars, sockVars, on, asked>>

\* HandleShutdownCommand, whatever ExitWindowsEx returns, and break.
HandleShutdown(k) ==
  /\ pc[k] = "shutdown"
  /\ asked' = asked \cup {k}
  /\ Goto(k, "exited")
  /\ UNCHANGED <<uiVars, sockVars, on>>

ListenerStep(k) ==
  \/ CheckLoop(k) \/ SetTimeout(k) \/ EnterCall(k)
  \/ CallFails(k) \/ Receive(k) \/ HandleShutdown(k)

-----------------------------------------------------------------------------
\* The end of the program.
Done == ui = <<"done", "">> /\ UNCHANGED vars

Next ==
  \/ \E p \in Ports : ChangePort(p)
  \/ Quit
  \/ UiStep
  \/ StartListeners
  \/ \E k \in Kinds, m \in {"cmd", "noise", "silent"} : Send(k, m)
  \/ \E k \in Kinds : ListenerStep(k) \/ ClientSpeaks(k)
  \/ Done

\* The threads run; recvfrom and the recv of an accepted client end by their
\* timeout.  The user and the network owe nothing.
Spec ==
  /\ Init /\ [][Next]_vars
  /\ WF_vars(UiStep)
  /\ WF_vars(StartListeners)
  /\ \A k \in Kinds : WF_vars(ListenerStep(k))

-----------------------------------------------------------------------------
\* The types; a handle is invalid or that of the live socket, and the UI
\* thread never overwrites a valid one, which would leak a socket
\* (smart_home_pc_controller.cpp:413-458).
TypeOK ==
  /\ running \in BOOLEAN
  /\ port \in Ports
  /\ opened \in [Kinds -> 0..(MaxChanges + 1)]
  /\ \A k \in Kinds : handle[k] \in {Invalid, opened[k]}
  /\ \A k \in Kinds : ui = <<"socket", k>> => handle[k] = Invalid
  /\ ksock \in [Kinds -> {"closed", "unbound", "bound"}]
  /\ timed \in [Kinds -> BOOLEAN]
  /\ bport \in [Kinds -> Ports]
  /\ mail \in [Kinds -> {"none", "cmd", "noise", "silent"}]
  /\ ui \in ({"close", "clear", "socket", "bind", "undo", "join"} \X Kinds)
              \cup {<<"idle", "">>, <<"done", "">>}
  /\ pc \in [Kinds -> {"new", "check", "arm", "call", "blocked", "stuck", "shutdown", "exited"}]
  /\ \A k \in Kinds : on[k] \in 0..opened[k]
  /\ asked \subseteq Kinds
  /\ changes \in 0..MaxChanges

\* Whenever the user can act, each socket is either gone or bound to the port
\* the program shows: an interrupted or half failed change leaves nothing on
\* the old port; what waits, waits on a live socket; and Exit joins listeners
\* that have no socket to sleep on any more
\* (smart_home_pc_controller.cpp:111-116, 213-218, 413-458).
SocketsOnShownPort ==
  /\ ui = <<"idle", "">> =>
       \A k \in Kinds : IF handle[k] = Invalid THEN ksock[k] = "closed"
                        ELSE ksock[k] = "bound" /\ bport[k] = port
  /\ \A k \in Kinds : mail[k] # "none" => ksock[k] = "bound" /\ handle[k] # Invalid
  /\ ui[1] \in {"join", "done"} =>
       \A k \in Kinds : handle[k] = Invalid /\ ksock[k] = "closed"

\* Until the port is changed for the first time, a listener does what its loop
\* says: nothing the network sends ends it but the command, every wait of it
\* is timed, and no silent client holds it (lines 467-482, 488-509).  What a
\* change can do to it is what the runs that expect a violation show.
ListenersUndisturbed ==
  changes = 0 =>
    \A k \in Kinds :
      /\ pc[k] = "exited" /\ running /\ k \notin asked => ksock[k] = "closed"
      /\ pc[k] = "blocked" /\ Usable(k) => timed[k]
      /\ pc[k] # "stuck"

\* Exit gets through both joins: closing its socket wakes the listener that
\* sleeps in accept or recvfrom, and no interleaving lets one sleep on another
\* socket (lines 113-116).  One wait can hold it up: for a silent client that
\* was accepted on a socket without a timeout.
ExitCompletes == ~running ~> ui = <<"done", "">> \/ pc["tcp"] = "stuck"

\* A command that waits on the socket of a running listener makes it call
\* ExitWindowsEx, unless the socket is closed first (lines 472-480, 493-504).
CommandObeyed ==
  \A k \in Kinds :
    mail[k] = "cmd" /\ pc[k] \in {"check", "arm", "call", "blocked"}
      ~> k \in asked \/ ksock[k] # "bound"

\* "Set socket timeout ... 1 second" (lines 468-470 and 489-491): a listener
\* waits only on a socket that has the timeout, so every wait of it ends.
WaitsAreTimed ==
  \A k \in Kinds : pc[k] = "blocked" /\ Usable(k) => timed[k]

\* "Restart sockets with new port" (line 276, and the same code at 214-218):
\* after a change whose sockets could be opened the program still listens.
ListeningAfterPortChange ==
  ui = <<"idle", "">> /\ running /\ asked = {} /\ opened = Each(changes + 1) =>
    \A k \in Kinds : handle[k] # Invalid => pc[k] # "exited"
=============================================================================
