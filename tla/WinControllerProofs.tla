------------------------ MODULE WinControllerProofs -------------------------
(***************************************************************************)
(* Proofs about WinController, for any ports and any number of changes: at *)
(* every place of the UI thread the invariant says what has become of each *)
(* socket, whatever the listeners read of the globals meanwhile.           *)
(***************************************************************************)
EXTENDS WinController, TLAPS

-----------------------------------------------------------------------------
\* The invariant, in parts.

\* The types of the variables, one by one.
Types ==
  /\ running \in BOOLEAN
  /\ port \in Ports
  /\ opened \in [Kinds -> Nat]
  /\ handle \in [Kinds -> Nat]
  /\ ksock \in [Kinds -> {"closed", "unbound", "bound"}]
  /\ timed \in [Kinds -> BOOLEAN]
  /\ bport \in [Kinds -> Ports]
  /\ mail \in [Kinds -> {"none", "cmd", "noise", "silent"}]
  /\ ui \in ({"close", "clear", "socket", "bind", "undo", "join"} \X Kinds)
              \cup {<<"idle", "">>, <<"done", "">>}
  /\ pc \in [Kinds -> {"new", "check", "arm", "call", "blocked", "stuck", "shutdown", "exited"}]
  /\ on \in [Kinds -> Nat]
  /\ asked \subseteq Kinds
  /\ changes \in 0..MaxChanges

\* Exit has been chosen from its cleanup on, and not before.
Leaving ==
  /\ ui[1] \in {"idle", "socket", "bind", "undo"} => running
  /\ ui[1] \in {"join", "done"} => ~running

\* InitializeSockets of the last change has not come to socket k yet.
Pending(k) ==
  /\ running
  /\ \/ ui[1] \in {"close", "clear"}
     \/ ui = <<"socket", k>>
     \/ k = "tcp" /\ ui \in {"socket", "bind", "undo"} \X {"udp"}

\* Every change opens each socket once at most, and a handle is never one of a
\* socket that is not there yet.
Counted ==
  \A k \in Kinds :
    /\ handle[k] \in {Invalid, opened[k]}
    /\ on[k] <= opened[k]
    /\ opened[k] <= changes + 1
    /\ Pending(k) => opened[k] <= changes

\* No socket; or one that was opened and bound, on whatever port.
Gone(k) == handle[k] = Invalid /\ ksock[k] = "closed"

Whole(k) == Gone(k) \/ (handle[k] # Invalid /\ ksock[k] = "bound")

\* No socket, or one on the port that is shown.
Shown(k) == Gone(k) \/ (handle[k] # Invalid /\ ksock[k] = "bound" /\ bport[k] = port)

\* What CleanupSockets and InitializeSockets have made of the sockets so far.
Staged ==
  /\ ui = <<"idle", "">> => Shown("udp") /\ Shown("tcp")
  /\ ui = <<"close", "udp">> => Whole("udp") /\ Whole("tcp")
  /\ ui = <<"clear", "udp">> => ksock["udp"] = "closed" /\ Whole("tcp")
  /\ ui = <<"close", "tcp">> => Gone("udp") /\ Whole("tcp")
  /\ ui = <<"clear", "tcp">> => Gone("udp") /\ ksock["tcp"] = "closed"
  /\ ui = <<"socket", "udp">> => Gone("udp") /\ Gone("tcp")
  /\ ui = <<"bind", "udp">> =>
       handle["udp"] # Invalid /\ ksock["udp"] = "unbound" /\ Gone("tcp")
  /\ ui = <<"undo", "udp">> => ksock["udp"] = "closed" /\ Gone("tcp")
  /\ ui = <<"socket", "tcp">> => Shown("udp") /\ Gone("tcp")
  /\ ui = <<"bind", "tcp">> =>
       Shown("udp") /\ handle["tcp"] # Invalid /\ ksock["tcp"] = "unbound"
  /\ ui = <<"undo", "tcp">> => Shown("udp") /\ ksock["tcp"] = "closed"
  /\ ui[1] \in {"join", "done"} => Gone("udp") /\ Gone("tcp")

\* What waits, waits on a live socket.
Delivered == \A k \in Kinds : mail[k] # "none" => ksock[k] = "bound" /\ handle[k] # Invalid

\* The listeners are started together, when the sockets are there; until the
\* first change or Exit the UI thread stays in its message loop.
Started ==
  /\ pc["udp"] = "new" <=> pc["tcp"] = "new"
  /\ (changes = 0 /\ running /\ pc["udp"] # "new") => ui = <<"idle", "">>
  /\ (changes # 0 \/ ~running) => pc["udp"] # "new"

\* Until then, a listener that is about to wait has set the timeout of the
\* socket it is going to wait on.
Armed ==
  changes = 0 =>
    \A k \in Kinds :
      /\ pc[k] \in {"call", "blocked"} /\ ksock[k] # "closed" => timed[k]
      /\ pc[k] # "stuck"
      /\ pc[k] = "exited" /\ running /\ k \notin asked => ksock[k] = "closed"

WinInv == Types /\ Leaving /\ Counted /\ Staged /\ Delivered /\ Started /\ Armed

-----------------------------------------------------------------------------
\* What a step does not touch stays true.

\* The stage of the cleanup.
LEMMA PlaceStays ==
  ASSUME Leaving, Staged, UNCHANGED <<running, port, ui, handle, ksock, bport>>
  PROVE  Leaving' /\ Staged'
BY DEF Leaving, Staged, Gone, Whole, Shown

\* The counts.
LEMMA CountStays ==
  ASSUME Counted, UNCHANGED <<running, ui, changes, handle, opened, on>>
  PROVE  Counted'
BY DEF Counted, Pending, Kinds

\* The counts, when the UI thread goes on without opening a socket.
LEMMA CountMovesOn ==
  ASSUME Counted, UNCHANGED <<changes, opened, on>>,
         \A k \in Kinds : handle'[k] \in {Invalid, handle[k]},
         \A k \in Kinds : Pending(k)' => Pending(k)
  PROVE  Counted'
BY DEF Counted, Kinds

\* The counts, when a listener takes a handle or gives one up.
LEMMA CountFollows ==
  ASSUME Types, Counted, UNCHANGED <<running, ui, changes, handle, opened>>,
         NEW k \in Kinds, NEW h \in {Invalid, handle[k]},
         on' = [on EXCEPT ![k] = h]
  PROVE  Counted'
<1>1. h <= opened[k]
  <2>1. opened[k] \in Nat
    BY DEF Types
  <2>2. h \in {0, opened[k]}
    BY DEF Counted, Invalid
  <2> QED BY <2>1, <2>2
<1>2. \A j \in Kinds : on'[j] <= opened[j]
  BY <1>1 DEF Types, Counted
<1> QED BY <1>2 DEF Counted, Pending, Kinds

\* The mail.
LEMMA MailStays ==
  ASSUME Delivered, UNCHANGED <<handle, ksock, mail>>
  PROVE  Delivered'
BY DEF Delivered

\* The listeners.
LEMMA ListenersStay ==
  ASSUME Started, Armed, UNCHANGED <<running, ui, changes, pc, ksock, timed, asked>>
  PROVE  Started' /\ Armed'
BY DEF Started, Armed

\* The listeners, while the UI thread works on the sockets: before they are
\* started, after a change, or after Exit, which only closes.
LEMMA ListenersWait ==
  ASSUME Started, Armed, ui # <<"idle", "">>, UNCHANGED <<running, changes, pc, asked>>,
         \A k \in Kinds : \/ ksock'[k] = "closed"
                          \/ ksock'[k] = ksock[k] /\ timed'[k] = timed[k]
                          \/ running
  PROVE  Started' /\ Armed'
<1>1. Started'
  BY DEF Started
<1>2. Armed'
  <2>1. CASE running
    BY <2>1 DEF Started, Armed, Kinds
  <2>2. CASE ~running
    BY <2>2 DEF Armed
  <2> QED BY <2>1, <2>2
<1> QED BY <1>1, <1>2

-----------------------------------------------------------------------------
\* The steps.

\* A socket is never left open without its handle.
LEMMA NoHandleNoSocket ==
  ASSUME Types, Staged, NEW k \in Kinds, handle[k] = Invalid
  PROVE  ksock[k] = "closed"
<1>1. CASE ui = <<"idle", "">>
  BY <1>1 DEF Staged, Gone, Shown, Kinds
<1>2. ASSUME NEW j \in Kinds, ui = <<"close", j>> \/ ui = <<"clear", j>>
      PROVE  ksock[k] = "closed"
  BY <1>2 DEF Staged, Gone, Whole, Kinds
<1>3. ASSUME NEW j \in Kinds, ui = <<"socket", j>> \/ ui = <<"bind", j>>
      PROVE  ksock[k] = "closed"
  BY <1>3 DEF Staged, Gone, Shown, Kinds
<1>4. ASSUME NEW j \in Kinds, ui = <<"undo", j>>
      PROVE  ksock[k] = "closed"
  BY <1>4 DEF Staged, Gone, Shown, Kinds
<1>5. ASSUME NEW s \in {"join", "done"}, NEW j \in {"udp", "tcp", ""}, ui = <<s, j>>
      PROVE  ksock[k] = "closed"
  <2>1. ui[1] \in {"join", "done"}
    BY <1>5
  <2> QED BY <2>1 DEF Staged, Gone, Kinds
<1>6. \/ ui \in {"close", "clear", "socket", "bind", "undo", "join"} \X Kinds
      \/ ui = <<"idle", "">> \/ ui = <<"done", "">>
  BY DEF Types
<1>7. CASE ui \in {"close", "clear", "socket", "bind", "undo", "join"} \X Kinds
  <2> PICK s \in {"close", "clear", "socket", "bind", "undo", "join"}, j \in Kinds : ui = <<s, j>>
    BY <1>7
  <2> QED BY <1>2, <1>3, <1>4, <1>5 DEF Kinds
<1> QED BY <1>1, <1>5, <1>6, <1>7

\* The user can act when both listeners have been started.
LEMMA UserComesLater ==
  ASSUME Types, Started, pc # Each("new")
  PROVE  pc["udp"] # "new" /\ pc["tcp"] # "new"
BY DEF Types, Started, Each, Kinds

\* A user who changes the port starts a cleanup of whole sockets.
LEMMA ChangePortStep ==
  ASSUME WinInv, NEW p \in Ports, ChangePort(p)
  PROVE  WinInv'
<1> USE DEF WinInv
<1>1. /\ ui = <<"idle", "">> /\ changes < MaxChanges
      /\ port' = p /\ changes' = changes + 1 /\ ui' = <<"close", "udp">>
      /\ UNCHANGED <<running, handle, opened, ksock, timed, bport, mail, pc, on, asked>>
  BY DEF ChangePort, sockVars, threadVars
<1>2. changes \in Nat /\ changes' \in 0..MaxChanges
  <2>1. changes \in 0..MaxChanges
    BY DEF Types
  <2>2. MaxChanges \in Nat
    BY WinAssumption
  <2>3. changes \in Nat
    BY <2>1, <2>2
  <2>4. changes' = changes + 1 /\ changes < MaxChanges
    BY <1>1
  <2>5. changes' \in Nat
    BY <2>3, <2>4
  <2>6. changes' <= MaxChanges
    BY <2>2, <2>3, <2>4
  <2> QED BY <2>2, <2>3, <2>5, <2>6
<1>3. Types'
  BY <1>1, <1>2 DEF Types, Kinds
<1>4. Leaving' /\ Staged'
  BY <1>1 DEF Leaving, Staged, Gone, Whole, Shown
<1>5. Counted'
  <2> SUFFICES ASSUME NEW k \in Kinds
               PROVE  /\ handle[k] \in {Invalid, opened[k]} /\ on[k] <= opened[k]
                      /\ opened[k] <= changes + 1 + 1 /\ opened[k] <= changes + 1
    BY <1>1 DEF Counted
  <2>1. opened[k] \in Nat
    BY DEF Types
  <2> QED BY <1>2, <2>1 DEF Counted
<1>6. Delivered'
  BY <1>1, MailStays
<1>7. Started' /\ Armed'
  <2>1. pc["udp"] # "new" /\ pc["tcp"] # "new"
    BY UserComesLater DEF ChangePort
  <2>2. changes + 1 # 0
    BY <1>2
  <2> QED BY <1>1, <2>1, <2>2 DEF Started, Armed
<1> QED BY <1>3, <1>4, <1>5, <1>6, <1>7

\* So does one who leaves.
LEMMA QuitStep ==
  ASSUME WinInv, Quit
  PROVE  WinInv'
<1> USE DEF WinInv
<1>1. /\ ui = <<"idle", "">> /\ running' = FALSE /\ ui' = <<"close", "udp">>
      /\ UNCHANGED <<port, changes, handle, opened, ksock, timed, bport, mail, pc, on, asked>>
  BY DEF Quit, sockVars, threadVars
<1>2. Types'
  BY <1>1 DEF Types, Kinds
<1>3. Leaving' /\ Staged'
  BY <1>1 DEF Leaving, Staged, Gone, Whole, Shown
<1>4. Counted'
  BY <1>1, CountMovesOn DEF Pending
<1>5. Delivered'
  BY <1>1, MailStays
<1>6. Started' /\ Armed'
  <2>1. pc["udp"] # "new" /\ pc["tcp"] # "new"
    BY UserComesLater DEF Quit
  <2> QED BY <1>1, <2>1 DEF Started, Armed
<1> QED BY <1>2, <1>3, <1>4, <1>5, <1>6

\* CleanupSockets closes a socket.
LEMMA CloseSocketStep ==
  ASSUME WinInv, NEW k \in Kinds, CloseSocket(k)
  PROVE  WinInv'
<1> USE DEF WinInv
<1>1. /\ ui = <<"close", k>> /\ ui' = <<"clear", k>>
      /\ ksock' = [ksock EXCEPT ![k] = "closed"]
      /\ mail' = [mail EXCEPT ![k] = "none"]
      /\ \A j \in Kinds : j # k => timed'[j] = timed[j]
      /\ timed' \in [Kinds -> BOOLEAN]
      /\ UNCHANGED <<running, port, changes, handle, opened, bport, pc, on, asked>>
  <2>1. CASE handle[k] # Invalid
    BY <2>1 DEF CloseSocket, threadVars, Types
  <2>2. CASE handle[k] = Invalid
    <3>1. ksock[k] = "closed"
      BY <2>2, NoHandleNoSocket
    <3>2. mail[k] = "none"
      BY <3>1 DEF Delivered
    <3> QED BY <2>2, <3>1, <3>2 DEF CloseSocket, threadVars, Types
  <2> QED BY <2>1, <2>2
<1>2. Types'
  BY <1>1 DEF Types
<1>3. Leaving' /\ Staged'
  BY <1>1 DEF Types, Leaving, Staged, Gone, Whole, Kinds
<1>4. Counted'
  BY <1>1, CountMovesOn DEF Pending
<1>5. Delivered'
  BY <1>1 DEF Types, Delivered
<1>6. Started' /\ Armed'
  BY <1>1, ListenersWait DEF Types
<1> QED BY <1>2, <1>3, <1>4, <1>5, <1>6

\* And resets its handle.
LEMMA ClearHandleStep ==
  ASSUME WinInv, NEW k \in Kinds, ClearHandle(k)
  PROVE  WinInv'
<1> USE DEF WinInv
<1>1. /\ ui = <<"clear", k>> /\ ui' = AfterCleanup(k)
      /\ handle' = [handle EXCEPT ![k] = Invalid]
      /\ UNCHANGED <<running, port, changes, opened, ksock, timed, bport, mail, pc, on, asked>>
  BY DEF ClearHandle, threadVars
<1>2. Types'
  BY <1>1 DEF Types, AfterCleanup, Invalid, Kinds
<1>3. Leaving' /\ Staged'
  BY <1>1 DEF Types, Leaving, Staged, Gone, Whole, AfterCleanup, Kinds
<1>4. Counted'
  BY <1>1, CountMovesOn DEF Types, Pending, AfterCleanup, Kinds
<1>5. Delivered'
  BY <1>1 DEF Types, Delivered, Staged, Kinds
<1>6. Started' /\ Armed'
  BY <1>1, ListenersWait
<1> QED BY <1>2, <1>3, <1>4, <1>5, <1>6

\* InitializeSockets creates a socket, or fails to.
LEMMA CreateSocketStep ==
  ASSUME WinInv, NEW k \in Kinds, NEW ok \in BOOLEAN, CreateSocket(k, ok)
  PROVE  WinInv'
<1> USE DEF WinInv
<1>1. /\ ui = <<"socket", k>> /\ running /\ Gone(k)
      /\ UNCHANGED <<running, port, changes, bport, mail, pc, on, asked>>
  BY DEF CreateSocket, threadVars, Leaving, Staged, Kinds
<1>2. Delivered'
  <2>1. mail[k] = "none"
    BY <1>1 DEF Delivered, Gone
  <2>2. \A j \in Kinds : j # k => handle'[j] = handle[j] /\ ksock'[j] = ksock[j]
    BY DEF CreateSocket, Types
  <2> QED BY <1>1, <2>1, <2>2 DEF Delivered
<1>3. Started' /\ Armed'
  BY <1>1, ListenersWait
<1>4. CASE ok
  <2>1. /\ opened' = [opened EXCEPT ![k] = opened[k] + 1]
        /\ handle' = [handle EXCEPT ![k] = opened[k] + 1]
        /\ ksock' = [ksock EXCEPT ![k] = "unbound"]
        /\ timed' = [timed EXCEPT ![k] = FALSE]
        /\ ui' = <<"bind", k>>
    BY <1>4 DEF CreateSocket
  <2>2. opened \in [Kinds -> Nat] /\ handle \in [Kinds -> Nat]
    BY DEF Types
  <2>3. opened' \in [Kinds -> Nat] /\ handle' \in [Kinds -> Nat] /\ handle'[k] # Invalid
    BY <2>1, <2>2 DEF Invalid
  <2>4. Types'
    BY <1>1, <2>1, <2>3 DEF Types
  <2>5. Leaving' /\ Staged'
    BY <1>1, <2>1, <2>2, <2>3 DEF Types, Leaving, Staged, Gone, Whole, Shown, Kinds
  <2>6. Counted'
    <3>1. opened[k] <= changes /\ changes \in Nat
      <4>1. opened[k] <= changes
        BY <1>1 DEF Counted, Pending
      <4>2. changes \in 0..MaxChanges
        BY DEF Types
      <4> QED BY <4>1, <4>2, WinAssumption
    <3>2. ~Pending(k)'
      BY <2>1 DEF Pending, Kinds
    <3>3. handle'[k] = opened'[k] /\ opened'[k] = opened[k] + 1
      BY <2>1, <2>2
    <3>4. on'[k] <= opened'[k] /\ opened'[k] <= changes' + 1
      <4>1. on[k] \in Nat /\ opened[k] \in Nat /\ on[k] <= opened[k]
        BY DEF Types, Counted
      <4> QED BY <1>1, <3>1, <3>3, <4>1
    <3>5. ASSUME NEW j \in Kinds, j # k
          PROVE  /\ opened'[j] = opened[j] /\ handle'[j] = handle[j]
                 /\ Pending(j)' => Pending(j)
      BY <1>1, <2>1, <2>2, <3>5 DEF Pending, Kinds
    <3> QED BY <1>1, <3>2, <3>3, <3>4, <3>5 DEF Counted
  <2> QED BY <1>2, <1>3, <2>4, <2>5, <2>6
<1>5. CASE ~ok
  <2>1. /\ handle' = [handle EXCEPT ![k] = Invalid] /\ ui' = AfterInitialize(k)
        /\ UNCHANGED <<opened, ksock, timed>>
    BY <1>5 DEF CreateSocket
  <2>2. Types'
    BY <1>1, <2>1 DEF Types, AfterInitialize, Invalid, Kinds
  <2>3. Leaving' /\ Staged'
    BY <1>1, <2>1 DEF Types, Leaving, Staged, Gone, Whole, Shown, AfterInitialize, Kinds
  <2>4. Counted'
    BY <1>1, <2>1, CountMovesOn DEF Types, Pending, AfterInitialize, Kinds
  <2> QED BY <1>2, <1>3, <2>2, <2>3, <2>4
<1> QED BY <1>4, <1>5

\* It binds the socket, or closes it when it cannot.
LEMMA BindSocketStep ==
  ASSUME WinInv, NEW k \in Kinds, NEW ok \in BOOLEAN, BindSocket(k, ok)
  PROVE  WinInv'
<1> USE DEF WinInv
<1>1. /\ ui = <<"bind", k>> /\ running /\ ksock[k] = "unbound" /\ handle[k] # Invalid
      /\ UNCHANGED <<running, port, changes, handle, opened, timed, mail, pc, on, asked>>
      /\ ksock' = [ksock EXCEPT ![k] = IF ok THEN "bound" ELSE "closed"]
      /\ bport' = IF ok THEN [bport EXCEPT ![k] = port] ELSE bport
      /\ ui' = IF ok THEN AfterInitialize(k) ELSE <<"undo", k>>
  BY DEF BindSocket, threadVars, Leaving, Staged, Kinds
<1>2. Types'
  BY <1>1 DEF Types, AfterInitialize, Kinds
<1>3. Leaving' /\ Staged'
  BY <1>1 DEF Types, Leaving, Staged, Gone, Whole, Shown, AfterInitialize, Kinds
<1>4. Counted'
  BY <1>1, CountMovesOn DEF Types, Pending, AfterInitialize, Kinds
<1>5. Delivered'
  BY <1>1 DEF Types, Delivered
<1>6. Started' /\ Armed'
  BY <1>1, ListenersWait
<1> QED BY <1>2, <1>3, <1>4, <1>5, <1>6

\* And then resets its handle.
LEMMA UndoBindStep ==
  ASSUME WinInv, NEW k \in Kinds, UndoBind(k)
  PROVE  WinInv'
<1> USE DEF WinInv
<1>1. /\ ui = <<"undo", k>> /\ ui' = AfterInitialize(k)
      /\ handle' = [handle EXCEPT ![k] = Invalid]
      /\ UNCHANGED <<running, port, changes, opened, ksock, timed, bport, mail, pc, on, asked>>
  BY DEF UndoBind, threadVars
<1>2. Types'
  BY <1>1 DEF Types, AfterInitialize, Invalid, Kinds
<1>3. Leaving' /\ Staged'
  BY <1>1 DEF Types, Leaving, Staged, Gone, Whole, Shown, AfterInitialize, Kinds
<1>4. Counted'
  BY <1>1, CountMovesOn DEF Types, Pending, AfterInitialize, Kinds
<1>5. Delivered'
  BY <1>1 DEF Types, Delivered, Staged, Kinds
<1>6. Started' /\ Armed'
  BY <1>1, ListenersWait
<1> QED BY <1>2, <1>3, <1>4, <1>5, <1>6

\* WinMain starts the listeners.
LEMMA StartStep ==
  ASSUME WinInv, StartListeners
  PROVE  WinInv'
<1> USE DEF WinInv
<1>1. /\ pc' = [k \in Kinds |-> "check"] /\ ui = <<"idle", "">>
      /\ UNCHANGED <<running, port, ui, changes, handle, opened, ksock, timed, bport, mail, on, asked>>
  BY DEF StartListeners, uiVars, sockVars, Each
<1>2. Types'
  BY <1>1 DEF Types
<1>3. Started' /\ Armed'
  BY <1>1 DEF Started, Armed, Kinds
<1> QED BY <1>1, <1>2, <1>3, PlaceStays, CountStays, MailStays

\* And joins them.
LEMMA JoinStep ==
  ASSUME WinInv, NEW k \in Kinds, JoinListener(k)
  PROVE  WinInv'
<1> USE DEF WinInv
<1>1. /\ ui = <<"join", k>> /\ ui' = IF k = "udp" THEN <<"join", "tcp">> ELSE <<"done", "">>
      /\ UNCHANGED <<running, port, changes, handle, opened, ksock, timed, bport, mail, pc, on, asked>>
  BY DEF JoinListener, sockVars, threadVars
<1>2. Types'
  BY <1>1 DEF Types, Kinds
<1>3. Leaving' /\ Staged'
  BY <1>1 DEF Leaving, Staged, Gone, Kinds
<1>4. Counted'
  BY <1>1, CountMovesOn DEF Leaving, Pending
<1>5. Delivered'
  BY <1>1, MailStays
<1>6. Started' /\ Armed'
  BY <1>1, ListenersWait
<1> QED BY <1>2, <1>3, <1>4, <1>5, <1>6

\* A listener looks at the loop's condition.
LEMMA CheckLoopStep ==
  ASSUME WinInv, NEW k \in Kinds, CheckLoop(k)
  PROVE  WinInv'
<1> USE DEF WinInv
<1>1. /\ pc[k] = "check"
      /\ pc' = [pc EXCEPT ![k] = IF running /\ handle[k] # Invalid THEN "arm" ELSE "exited"]
      /\ UNCHANGED <<running, port, ui, changes, handle, opened, ksock, timed, bport, mail, on, asked>>
  BY DEF CheckLoop, Goto, uiVars, sockVars
<1>2. Types'
  BY <1>1 DEF Types
<1>3. Started'
  BY <1>1 DEF Types, Started, Kinds
<1>4. Armed'
  <2>1. handle[k] = Invalid => ksock[k] = "closed"
    BY NoHandleNoSocket
  <2> QED BY <1>1, <2>1 DEF Types, Armed
<1> QED BY <1>1, <1>2, <1>3, <1>4, PlaceStays, CountStays, MailStays

\* It sets the timeout of the socket it finds.
LEMMA SetTimeoutStep ==
  ASSUME WinInv, NEW k \in Kinds, SetTimeout(k)
  PROVE  WinInv'
<1> USE DEF WinInv
<1>1. /\ pc[k] = "arm" /\ pc' = [pc EXCEPT ![k] = "call"]
      /\ UNCHANGED <<running, port, ui, changes, handle, opened, ksock, bport, mail, on, asked>>
  BY DEF SetTimeout, Goto, uiVars
<1>2. timed' = IF handle[k] # Invalid /\ ksock[k] # "closed"
                 THEN [timed EXCEPT ![k] = TRUE] ELSE timed
  BY DEF SetTimeout
<1>3. Types'
  BY <1>1, <1>2 DEF Types
<1>4. Started'
  BY <1>1 DEF Types, Started, Kinds
<1>5. Armed'
  <2>1. handle[k] = Invalid => ksock[k] = "closed"
    BY NoHandleNoSocket
  <2>2. changes = 0 /\ ksock[k] # "closed" => timed'[k]
    BY <1>2, <2>1 DEF Types
  <2>3. \A j \in Kinds : j # k => timed'[j] = timed[j]
    BY <1>2 DEF Types
  <2> QED BY <1>1, <2>2, <2>3 DEF Types, Armed
<1> QED BY <1>1, <1>3, <1>4, <1>5, PlaceStays, CountStays, MailStays

\* It reads the handle and waits.
LEMMA EnterCallStep ==
  ASSUME WinInv, NEW k \in Kinds, EnterCall(k)
  PROVE  WinInv'
<1> USE DEF WinInv
<1>1. /\ pc[k] = "call" /\ pc' = [pc EXCEPT ![k] = "blocked"]
      /\ on' = [on EXCEPT ![k] = handle[k]]
      /\ UNCHANGED <<running, port, ui, changes, handle, opened, ksock, timed, bport, mail, asked>>
  BY DEF EnterCall, Goto, uiVars, sockVars
<1>2. Types'
  BY <1>1 DEF Types
<1>3. Counted'
  BY <1>1, CountFollows
<1>4. Started' /\ Armed'
  BY <1>1 DEF Types, Started, Armed, Kinds
<1> QED BY <1>1, <1>2, <1>3, <1>4, PlaceStays, MailStays

\* Its call fails or times out.
LEMMA CallFailsStep ==
  ASSUME WinInv, NEW k \in Kinds, CallFails(k)
  PROVE  WinInv'
<1> USE DEF WinInv
<1>1. /\ pc[k] = "blocked" /\ pc' = [pc EXCEPT ![k] = "check"]
      /\ on' = [on EXCEPT ![k] = Invalid]
      /\ UNCHANGED <<running, port, ui, changes, handle, opened, ksock, timed, bport, mail, asked>>
  BY DEF CallFails, Goto, uiVars, sockVars
<1>2. Types'
  BY <1>1 DEF Types, Invalid
<1>3. Counted'
  BY <1>1, CountFollows
<1>4. Started' /\ Armed'
  BY <1>1 DEF Types, Started, Armed, Kinds
<1> QED BY <1>1, <1>2, <1>3, <1>4, PlaceStays, MailStays

\* It receives what waits on its socket.
LEMMA ReceiveStep ==
  ASSUME WinInv, NEW k \in Kinds, Receive(k)
  PROVE  WinInv'
<1> USE DEF WinInv
<1>1. /\ pc[k] = "blocked" /\ ksock[k] = "bound" /\ mail[k] # "none"
      /\ mail' = [mail EXCEPT ![k] = "none"]
      /\ pc' = [pc EXCEPT ![k] = Handled(k)]
      /\ on' = [on EXCEPT ![k] = Invalid]
      /\ UNCHANGED <<running, port, ui, changes, handle, opened, ksock, timed, bport, asked>>
  BY DEF Receive, Usable, Goto, uiVars
<1>2. /\ Handled(k) \in {"shutdown", "check", "stuck"}
      /\ timed[k] => Handled(k) # "stuck"
  BY <1>1 DEF Types, Handled, IsCommand
<1>3. Types'
  BY <1>1, <1>2 DEF Types, Invalid
<1>4. Counted'
  BY <1>1, CountFollows
<1>5. Delivered'
  BY <1>1 DEF Types, Delivered
<1>6. Started'
  BY <1>1, <1>2 DEF Types, Started, Kinds
<1>7. Armed'
  BY <1>1, <1>2 DEF Types, Armed
<1> QED BY <1>1, <1>3, <1>4, <1>5, <1>6, <1>7, PlaceStays

\* The client it waits for speaks.
LEMMA ClientSpeaksStep ==
  ASSUME WinInv, NEW k \in Kinds, ClientSpeaks(k)
  PROVE  WinInv'
<1> USE DEF WinInv
<1>1. PICK l \in {"check", "shutdown"} : pc' = [pc EXCEPT ![k] = l]
  BY DEF ClientSpeaks, Goto
<1>2. /\ pc[k] = "stuck"
      /\ UNCHANGED <<running, port, ui, changes, handle, opened, ksock, timed, bport, mail, on, asked>>
  BY DEF ClientSpeaks, uiVars, sockVars
<1>3. Types'
  BY <1>1, <1>2 DEF Types
<1>4. Started' /\ Armed'
  BY <1>1, <1>2 DEF Types, Started, Armed, Kinds
<1> QED BY <1>2, <1>3, <1>4, PlaceStays, CountStays, MailStays

\* It obeys the command and ends.
LEMMA HandleShutdownStep ==
  ASSUME WinInv, NEW k \in Kinds, HandleShutdown(k)
  PROVE  WinInv'
<1> USE DEF WinInv
<1>1. /\ pc[k] = "shutdown" /\ pc' = [pc EXCEPT ![k] = "exited"]
      /\ asked' = asked \cup {k}
      /\ UNCHANGED <<running, port, ui, changes, handle, opened, ksock, timed, bport, mail, on>>
  BY DEF HandleShutdown, Goto, uiVars, sockVars
<1>2. Types'
  BY <1>1 DEF Types
<1>3. Started' /\ Armed'
  BY <1>1 DEF Types, Started, Armed, Kinds
<1> QED BY <1>1, <1>2, <1>3, PlaceStays, CountStays, MailStays

\* The network delivers to a bound socket.
LEMMA SendStep ==
  ASSUME WinInv, NEW k \in Kinds, NEW m \in {"cmd", "noise", "silent"}, Send(k, m)
  PROVE  WinInv'
<1> USE DEF WinInv
<1>1. /\ ksock[k] = "bound" /\ mail' = [mail EXCEPT ![k] = m]
      /\ UNCHANGED <<running, port, ui, changes, handle, opened, ksock, timed, bport, pc, on, asked>>
  BY DEF Send, uiVars, threadVars
<1>2. Types'
  BY <1>1 DEF Types
<1>3. handle[k] # Invalid
  BY <1>1, NoHandleNoSocket
<1>4. Delivered'
  BY <1>1, <1>3 DEF Types, Delivered
<1> QED BY <1>1, <1>2, <1>4, PlaceStays, CountStays, ListenersStay

\* The invariant holds, whatever the scheduling.
LEMMA WinInvariant == Init /\ [][Next]_vars => []WinInv
<1>1. Init => WinInv
  BY WinAssumption
     DEF Init, WinInv, Types, Leaving, Counted, Staged, Delivered, Started, Armed,
         Pending, Gone, Whole, Shown, Kinds, Invalid, Each
<1>2. WinInv /\ [Next]_vars => WinInv'
  <2> SUFFICES ASSUME WinInv, [Next]_vars PROVE WinInv'
    OBVIOUS
  <2>1. CASE (\E p \in Ports : ChangePort(p)) \/ Quit \/ StartListeners
    BY <2>1, ChangePortStep, QuitStep, StartStep
  <2>2. CASE UiStep
    BY <2>2, CloseSocketStep, ClearHandleStep, CreateSocketStep, BindSocketStep,
       UndoBindStep, JoinStep DEF UiStep
  <2>3. CASE \E k \in Kinds, m \in {"cmd", "noise", "silent"} : Send(k, m)
    BY <2>3, SendStep
  <2>4. CASE \E k \in Kinds : ListenerStep(k) \/ ClientSpeaks(k)
    BY <2>4, CheckLoopStep, SetTimeoutStep, EnterCallStep, CallFailsStep, ReceiveStep,
       HandleShutdownStep, ClientSpeaksStep DEF ListenerStep
  <2>5. CASE Done \/ UNCHANGED vars
    <3>1. /\ UNCHANGED <<running, port, ui, changes, handle, opened, ksock, timed>>
          /\ UNCHANGED <<bport, mail, pc, on, asked>>
      BY <2>5 DEF Done, vars, uiVars, sockVars, threadVars
    <3>2. Types'
      BY <3>1 DEF WinInv, Types
    <3> QED
      BY <3>1, <3>2, PlaceStays, CountStays, MailStays, ListenersStay DEF WinInv
  <2> QED BY <2>1, <2>2, <2>3, <2>4, <2>5 DEF Next
<1> QED BY <1>1, <1>2, PTL

-----------------------------------------------------------------------------
\* What follows.

\* The types of the tray program (smart_home_pc_controller.cpp:413-458): a
\* global holds the last socket of its kind or none, never one the UI thread
\* forgot to close; and a listener waits on one that has been opened.
THEOREM TypeCorrect == Spec => []TypeOK
<1>1. WinInv => TypeOK
  <2> SUFFICES ASSUME WinInv PROVE TypeOK
    OBVIOUS
  <2>1. \A k \in Kinds : opened[k] \in 0..(MaxChanges + 1)
    <3> SUFFICES ASSUME NEW k \in Kinds PROVE opened[k] \in 0..(MaxChanges + 1)
      OBVIOUS
    <3>1. changes \in 0..MaxChanges /\ opened[k] \in Nat
      BY DEF WinInv, Types
    <3>2. opened[k] <= changes + 1
      BY DEF WinInv, Counted
    <3>3. MaxChanges \in Nat
      BY WinAssumption
    <3>4. changes \in Nat /\ changes <= MaxChanges
      BY <3>1, <3>3
    <3> QED BY <3>1, <3>2, <3>3, <3>4
  <2>2. opened \in [Kinds -> 0..(MaxChanges + 1)]
    BY <2>1 DEF WinInv, Types
  <2>3. \A k \in Kinds : ui = <<"socket", k>> => handle[k] = Invalid
    BY DEF WinInv, Staged, Gone, Kinds
  <2>4. \A k \in Kinds : on[k] \in 0..opened[k]
    <3> SUFFICES ASSUME NEW k \in Kinds PROVE on[k] \in 0..opened[k]
      OBVIOUS
    <3>1. on[k] \in Nat /\ opened[k] \in Nat
      BY DEF WinInv, Types
    <3>2. on[k] <= opened[k]
      BY DEF WinInv, Counted
    <3> QED BY <3>1, <3>2
  <2>5. \A k \in Kinds : handle[k] \in {Invalid, opened[k]}
    BY DEF WinInv, Counted
  <2> QED BY <2>2, <2>3, <2>4, <2>5 DEF WinInv, Types, TypeOK
<1> QED BY <1>1, WinInvariant, PTL DEF Spec

\* Whatever the user, the network and the two listeners do meanwhile, a port
\* change whose bind fails included: when the user can act again every socket
\* is on the port that is shown or gone, and no listener is joined before the
\* sockets are closed (lines 111-116, 213-218, 413-458).
THEOREM SocketsAreOnShownPort == Spec => []SocketsOnShownPort
<1>1. WinInv => SocketsOnShownPort
  BY DEF WinInv, Staged, Delivered, SocketsOnShownPort, Gone, Shown, Kinds
<1> QED BY <1>1, WinInvariant, PTL DEF Spec

\* As long as the port is not changed the two threads do not disturb each
\* other, in any interleaving of their steps (lines 467-482, 488-509).
THEOREM ListenersAreUndisturbed == Spec => []ListenersUndisturbed
<1>1. WinInv => ListenersUndisturbed
  BY DEF WinInv, Armed, ListenersUndisturbed, Usable
<1> QED BY <1>1, WinInvariant, PTL DEF Spec

\* The safety half of Exit (lines 113-116): once it joins the listeners none
\* can be asleep on a socket, so each wait it still sees ends by itself, except
\* that for a silent client accepted earlier without a timeout.
THEOREM NoListenerSleepsOnExit ==
  Spec => [](ui[1] \in {"join", "done"} => \A k \in Kinds : ~running /\ ~Usable(k))
<1>1. WinInv => (ui[1] \in {"join", "done"} => \A k \in Kinds : ~running /\ ~Usable(k))
  BY DEF WinInv, Leaving, Staged, Gone, Usable, Kinds
<1> QED BY <1>1, WinInvariant, PTL DEF Spec
=============================================================================
