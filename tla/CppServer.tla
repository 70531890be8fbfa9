----------------------------- MODULE CppServer ------------------------------
(***************************************************************************)
(* The HTTP server of SmartHomePCControl-CPP/src/main.cpp: connections     *)
(* wait in the kernel's backlog, the main thread accepts one, asks the     *)
(* limiter, answers 429 or hands the descriptor to the pool, and a worker  *)
(* reads the request once, decides, calls the PC, answers and closes.      *)
(*                                                                         *)
(* The pool is the module ThreadPool; a worker's time in process_client is *)
(* cut into stages here.  The limiter is the ideal bucket of module Bucket *)
(* counted in whole requests: TokenBucket shows that the lazy bucket of    *)
(* the code admits and refuses like it.  A descriptor is a number in a     *)
(* table that gives out the lowest free one, as the kernel does, so that a *)
(* closed number comes back as another connection or socket.               *)
(*                                                                         *)
(* Of a request, what has arrived is "none"; "word", fewer than the two    *)
(* spaces parse_request looks for; "line", less of the token than the key  *)
(* is long; "key", exactly as much; or "all".  The token a client sends is *)
(* the "key", "longer", which begins with the key, or some "other".        *)
(***************************************************************************)
EXTENDS Integers, Sequences, FiniteSets

CONSTANTS
  Workers,      \* THREAD_POOL_SIZE threads
  MaxQueue,     \* MAX_PENDING_QUEUE
  Backlog,      \* the argument of listen
  Capacity,     \* MAX_REQUESTS_PER_SECOND, as the burst of the limiter
  NumFds,       \* descriptors the process may open for clients and calls
  Conns,        \* connections clients make
  Requests,     \* requests clients send: [get : BOOLEAN, token, path]
  Cuts          \* where the network may cut the request of each connection

Fds == 1..NumFds
NoFd == -1
Free == "free"
Device == "device"
Bytes == {"none", "word", "line", "key", "all"}

ASSUME ServerAssumption ==
  /\ IsFiniteSet(Workers) /\ Workers # {}
  /\ MaxQueue \in Nat \ {0}
  /\ Backlog \in Nat \ {0}
  /\ Capacity \in Nat \ {0}
  /\ NumFds \in Nat
  /\ Requests \subseteq [get : BOOLEAN, token : {"key", "longer", "other"},
                         path : {"on", "off", "probe", "other"}]
  /\ Cuts \in [Conns -> SUBSET {"word", "line", "key"}]
  /\ Free \notin Conns /\ Device \notin Conns

VARIABLES
  tasks, stop, worker, job, owner, hand,    \* the pool, see ThreadPool
  stage,      \* where in process_client each worker is
  sock,       \* the socket a worker has open towards the PC
  status,     \* the status a worker is going to answer
  accepted,   \* client_fd of the main loop between accept and enqueue
  level,      \* requests the limiter would still admit
  fdtab,      \* what each descriptor stands for
  backlog,    \* connections the kernel holds for accept
  conn,       \* state of each connection
  req,        \* the request its client sends
  sent,       \* how much of it has arrived
  read,       \* how much of it recv has returned
  reply,      \* the status written to it, 0 for none
  done        \* the calls to the PC made for it that succeeded

poolVars == <<tasks, stop, worker, job, owner, hand>>
workVars == <<stage, sock, status>>
netVars == <<backlog, conn, req, sent>>
logVars == <<read, reply, done>>
vars == <<poolVars, workVars, accepted, level, fdtab, netVars, logVars>>

Pool == INSTANCE ThreadPool WITH Tasks <- Fds, NoTask <- NoFd

Init ==
  /\ Pool!Init
  /\ stage = [w \in Workers |-> "idle"]
  /\ sock = [w \in Workers |-> NoFd]
  /\ status = [w \in Workers |-> 0]
  /\ accepted = NoFd
  /\ level = Capacity
  /\ fdtab = [f \in Fds |-> Free]
  /\ backlog = <<>>
  /\ conn = [c \in Conns |-> "new"]
  /\ req \in [Conns -> Requests]
  /\ sent = [c \in Conns |-> "none"]
  /\ read = [c \in Conns |-> "none"]
  /\ reply = [c \in Conns |-> 0]
  /\ done = [c \in Conns |-> {}]

FreeFds == {f \in Fds : fdtab[f] = Free}

\* The descriptor that accept() or socket() returns.
LowestFd == CHOOSE f \in FreeFds : \A g \in FreeFds : f <= g

Closed(c) == [conn EXCEPT ![c] = "closed"]

-----------------------------------------------------------------------------
\* Clients and the kernel.

Connect(c) ==
  /\ conn[c] = "new"
  /\ Len(backlog) < Backlog
  /\ backlog' = Append(backlog, c)
  /\ conn' = [conn EXCEPT ![c] = "backlog"]
  /\ UNCHANGED <<poolVars, workVars, accepted, level, fdtab, req, sent, logVars>>

\* What may have arrived next of the request of c.
More(c) ==
  LET after == CASE sent[c] = "none" -> {"word", "line", "key"}
                 [] sent[c] = "word" -> {"line", "key"}
                 [] sent[c] = "line" -> {"key"}
                 [] sent[c] \in {"key", "all"} -> {}
  IN (Cuts[c] \cap after) \cup ({"all"} \ {sent[c]})

\* Bytes of the request arrive, perhaps before the accept.  Nobody looks at
\* what comes after the one recv.
Arrive(c) ==
  /\ conn[c] \in {"backlog", "open"}
  /\ read[c] = "none"
  /\ \E b \in More(c) : sent' = [sent EXCEPT ![c] = b]
  /\ UNCHANGED <<poolVars, workVars, accepted, level, fdtab, backlog, conn, req, logVars>>

\* Time passes for the limiter.
Refill ==
  /\ level < Capacity
  /\ level' = level + 1
  /\ UNCHANGED <<poolVars, workVars, accepted, fdtab, netVars, logVars>>

-----------------------------------------------------------------------------
\* The main loop (main.cpp:436-456).  A failing accept changes nothing.

Accept ==
  /\ owner = "outside"
  /\ accepted = NoFd
  /\ backlog # <<>>
  /\ FreeFds # {}
  /\ accepted' = LowestFd
  /\ fdtab' = [fdtab EXCEPT ![LowestFd] = Head(backlog)]
  /\ conn' = [conn EXCEPT ![Head(backlog)] = "open"]
  /\ backlog' = Tail(backlog)
  /\ UNCHANGED <<poolVars, workVars, level, req, sent, logVars>>

\* Defective variants (not part of the specification): admission without a
\* token; a refusal without the continue, so that a closed descriptor is also
\* enqueued; a refusal that does not close.
AdmitAlways ==
  /\ accepted # NoFd
  /\ level' = level - 1
  /\ Pool!CallEnqueue(accepted)
  /\ accepted' = NoFd
  /\ UNCHANGED <<workVars, fdtab, netVars, logVars>>

RefuseAndEnqueue ==
  /\ accepted # NoFd
  /\ level < 1
  /\ reply' = [reply EXCEPT ![fdtab[accepted]] = 429]
  /\ conn' = Closed(fdtab[accepted])
  /\ fdtab' = [fdtab EXCEPT ![accepted] = Free]
  /\ Pool!CallEnqueue(accepted)
  /\ accepted' = NoFd
  /\ UNCHANGED <<workVars, level, backlog, req, sent, read, done>>

RefuseWithoutClose ==
  /\ accepted # NoFd
  /\ level < 1
  /\ reply' = [reply EXCEPT ![fdtab[accepted]] = 429]
  /\ accepted' = NoFd
  /\ UNCHANGED <<poolVars, workVars, level, fdtab, netVars, read, done>>

\* try_acquire returns true: pool.enqueue(client_fd).
Admit ==
  /\ accepted # NoFd
  /\ level >= 1
  /\ level' = level - 1
  /\ Pool!CallEnqueue(accepted)
  /\ accepted' = NoFd
  /\ UNCHANGED <<workVars, fdtab, netVars, logVars>>

\* try_acquire returns false: 429 and close, without reading the request.
Refuse ==
  /\ accepted # NoFd
  /\ level < 1
  /\ reply' = [reply EXCEPT ![fdtab[accepted]] = 429]
  /\ conn' = Closed(fdtab[accepted])
  /\ fdtab' = [fdtab EXCEPT ![accepted] = Free]
  /\ accepted' = NoFd
  /\ UNCHANGED <<poolVars, workVars, level, backlog, req, sent, read, done>>

\* The inside of enqueue.
EnqueueStep ==
  /\ Pool!Enqueue \/ Pool!AwaitSpace \/ Pool!SpuriousSpace
  /\ UNCHANGED <<workVars, accepted, level, fdtab, netVars, logVars>>

-----------------------------------------------------------------------------
\* A worker.

Client(w) == fdtab[job[w]]

\* The queue side of its loop; process_client begins with the Take.
WorkerQueueStep(w) ==
  /\ \/ Pool!Take(w) /\ stage' = [stage EXCEPT ![w] = "recv"]
     \/ (Pool!Sleep(w) \/ Pool!SpuriousWakeup(w)) /\ UNCHANGED stage
  /\ UNCHANGED <<sock, status, accepted, level, fdtab, netVars, logVars>>

\* parse_request succeeds when it finds two spaces.
Parsed(b) == b # "word"

\* auth_token: what parse_request finds of the token in the bytes b, of which
\* the end is the end of the token.
AuthToken(r, b) ==
  CASE b = "all" -> r.token
    [] b = "key" -> IF r.token = "other" THEN "other" ELSE "key"
    [] b \in {"word", "line"} -> "other"

\* Without a configured WEB_API_KEY every token is another one.
IsAuthorized(r, b) == AuthToken(r, b) = "key"

\* Defective variant: no return after the 401.
DecisionGoesOn(r, b) ==
  CASE ~Parsed(b) \/ ~r.get -> <<"reply", 404>>
    [] Parsed(b) /\ r.get ->
         CASE r.path = "on"    -> <<"wol", 0>>
           [] r.path = "off"   -> <<"udp", 0>>
           [] r.path = "probe" -> <<"probe", 0>>
           [] r.path = "other" -> <<"reply", 404>>

\* Where process_client and handle_request send a request of which the bytes
\* b were read: the next stage, with the status that is then known.
Decision(r, b) ==
  CASE ~Parsed(b) \/ ~r.get -> <<"reply", 404>>
    [] Parsed(b) /\ r.get /\ ~IsAuthorized(r, b) -> <<"reply", 401>>
    [] Parsed(b) /\ r.get /\ IsAuthorized(r, b) ->
         CASE r.path = "on"    -> <<"wol", 0>>
           [] r.path = "off"   -> <<"udp", 0>>
           [] r.path = "probe" -> <<"probe", 0>>
           [] r.path = "other" -> <<"reply", 404>>

\* The one recv returns what has arrived.
Recv(w) ==
  LET c == Client(w)
      d == Decision(req[c], sent[c])
  IN /\ stage[w] = "recv"
     /\ sent[c] # "none"
     /\ read' = [read EXCEPT ![c] = sent[c]]
     /\ stage' = [stage EXCEPT ![w] = d[1]]
     /\ status' = [status EXCEPT ![w] = d[2]]
     /\ UNCHANGED <<poolVars, sock, accepted, level, fdtab, netVars, reply, done>>

\* Defective variant: no SO_RCVTIMEO, recv waits for the client for ever.
RecvNothingWithoutTimeout(w) ==
  /\ stage[w] = "recv"
  /\ FALSE
  /\ UNCHANGED vars

\* recv returns 0 or fails: the client has closed, or reset the connection
\* with what had arrived, or 3 seconds have passed.
RecvNothing(w) ==
  /\ stage[w] = "recv"
  /\ stage' = [stage EXCEPT ![w] = "close"]
  /\ UNCHANGED <<poolVars, sock, status, accepted, level, fdtab, netVars, logVars>>

Calls == {"wol", "udp", "tcp", "probe"}

\* Defective variant: the answer to a turn-off depends on TCP alone.
AfterCallTcpOnly(w, ok) ==
  LET call == stage[w]
      c == Client(w)
  IN /\ stage' = [stage EXCEPT ![w] = IF call = "udp" THEN "tcp" ELSE "reply"]
     /\ done' = IF ok THEN [done EXCEPT ![c] = @ \cup {call}] ELSE done
     /\ status' = [status EXCEPT ![w] =
                     IF ok \/ call = "probe" THEN 200 ELSE 500]

\* A call has ended, ok or not: the UDP command is followed by the TCP one
\* whatever its result and counts if either was sent; the probe answers 200
\* in any case.
AfterCall(w, ok) ==
  LET call == stage[w]
      c == Client(w)
  IN /\ stage' = [stage EXCEPT ![w] = IF call = "udp" THEN "tcp" ELSE "reply"]
     /\ done' = IF ok THEN [done EXCEPT ![c] = @ \cup {call}] ELSE done
     /\ status' = [status EXCEPT ![w] =
                     CASE call = "udp"   -> IF ok THEN 200 ELSE 500
                       [] call = "tcp"   -> IF ok \/ status[w] = 200
                                              THEN 200 ELSE 500
                       [] call = "wol"   -> IF ok THEN 200 ELSE 500
                       [] call = "probe" -> 200]

\* socket(); a process without descriptors fails the call.
OpenSocket(w) ==
  /\ stage[w] \in Calls
  /\ sock[w] = NoFd
  /\ IF FreeFds = {}
       THEN AfterCall(w, FALSE) /\ UNCHANGED <<sock, fdtab>>
       ELSE /\ sock' = [sock EXCEPT ![w] = LowestFd]
            /\ fdtab' = [fdtab EXCEPT ![LowestFd] = Device]
            /\ UNCHANGED <<stage, done, status>>
  /\ UNCHANGED <<poolVars, accepted, level, netVars, read, reply>>

\* connect and send, or sendto, have succeeded or failed (timeouts 5 s for
\* the command, 1 s for the probe), and the socket is closed.
EndCall(w) ==
  /\ stage[w] \in Calls
  /\ sock[w] # NoFd
  /\ \E ok \in BOOLEAN : AfterCall(w, ok)
  /\ fdtab' = [fdtab EXCEPT ![sock[w]] = Free]
  /\ sock' = [sock EXCEPT ![w] = NoFd]
  /\ UNCHANGED <<poolVars, accepted, level, netVars, read, reply>>

Reply(w) ==
  /\ stage[w] = "reply"
  /\ reply' = [reply EXCEPT ![Client(w)] = status[w]]
  /\ stage' = [stage EXCEPT ![w] = "close"]
  /\ status' = [status EXCEPT ![w] = 0]
  /\ UNCHANGED <<poolVars, sock, accepted, level, fdtab, netVars, read, done>>

\* close(client_fd), the end of process_client.
Close(w) ==
  /\ stage[w] = "close"
  /\ Pool!Finish(w)
  /\ conn' = Closed(Client(w))
  /\ fdtab' = [fdtab EXCEPT ![job[w]] = Free]
  /\ stage' = [stage EXCEPT ![w] = "idle"]
  /\ UNCHANGED <<sock, status, accepted, level, backlog, req, sent, logVars>>

Process(w) ==
  Recv(w) \/ RecvNothing(w) \/ OpenSocket(w) \/ EndCall(w) \/ Reply(w) \/ Close(w)

-----------------------------------------------------------------------------
Next ==
  \/ \E c \in Conns : Connect(c) \/ Arrive(c)
  \/ Refill
  \/ Accept \/ Admit \/ Refuse \/ EnqueueStep
  \/ \E w \in Workers : WorkerQueueStep(w) \/ Process(w)

SafeSpec == Init /\ [][Next]_vars

\* Threads run and their mutex is handed on; the calls of process_client end
\* by their timeouts.  Clients, the kernel's wakeups and the refill of the
\* bucket owe nothing.
Fairness ==
  /\ WF_vars(Accept) /\ WF_vars(Admit \/ Refuse)
  /\ WF_vars(EnqueueStep /\ owner = "lock")
  /\ \A w \in Workers :
       /\ WF_vars(WorkerQueueStep(w) /\ worker[w] = "lock")
       /\ WF_vars(Process(w))

Spec == SafeSpec /\ Fairness

-----------------------------------------------------------------------------
\* The types, with the limits of the kernel's and the limiter's counters and
\* the stage of a worker tied to its place in the pool's loop.
TypeOK ==
  /\ Pool!TypeOK
  /\ stage \in [Workers -> {"idle", "recv", "reply", "close"} \cup Calls]
  /\ \A w \in Workers : stage[w] = "idle" <=> worker[w] # "busy"
  /\ sock \in [Workers -> Fds \cup {NoFd}]
  /\ \A w \in Workers : sock[w] # NoFd => stage[w] \in Calls
  /\ status \in [Workers -> {0, 200, 401, 404, 500}]
  /\ accepted \in Fds \cup {NoFd}
  /\ level \in 0..Capacity
  /\ fdtab \in [Fds -> Conns \cup {Free, Device}]
  /\ backlog \in Seq(Conns) /\ Len(backlog) <= Backlog
  /\ conn \in [Conns -> {"new", "backlog", "open", "closed"}]
  /\ req \in [Conns -> Requests]
  /\ sent \in [Conns -> Bytes]
  /\ read \in [Conns -> Bytes]
  /\ reply \in [Conns -> {0, 200, 401, 404, 429, 500}]
  /\ done \in [Conns -> SUBSET Calls]

\* Everything that may use or close descriptor f.
Holders(f) ==
  {<<"main", 0>> : x \in {y \in {accepted} : y = f}} \cup
  {<<"enqueue", 0>> : x \in {y \in {hand} : y = f}} \cup
  {<<"queue", i>> : i \in {j \in 1..Len(tasks) : tasks[j] = f}} \cup
  {<<"client", w>> : w \in {v \in Workers : job[v] = f}} \cup
  {<<"call", w>> : w \in {v \in Workers : sock[v] = f}}

\* An open descriptor has exactly one holder, a client's is never held as a
\* device socket, and a free number has none: nothing leaks, nobody closes
\* or answers on a number that has come back as somebody else's connection
\* (main.cpp:179-181, 195, 214-220, 244, 316, 439-455).
FdOwnership ==
  \A f \in Fds :
    /\ Cardinality(Holders(f)) = IF fdtab[f] = Free THEN 0 ELSE 1
    /\ fdtab[f] = Device <=> \E w \in Workers : sock[w] = f
    /\ fdtab[f] \in Conns => conn[fdtab[f]] = "open"

\* A full queue, busy workers and the connection the main thread is holding
\* bound what is open, whatever the clients do: accept and socket always find
\* a descriptor when the process may open MaxQueue + 1 and two per worker.
FdsSuffice ==
  /\ NumFds >= MaxQueue + 2 * Cardinality(Workers) + 1
  /\ \/ owner = "outside" /\ accepted = NoFd
     \/ \E w \in Workers : stage[w] \in Calls /\ sock[w] = NoFd
  => FreeFds # {}

\* The token that was read of c's request is the key.
KeyRead(c) ==
  <<req[c].token, read[c]>> \in {<<"key", "key">>, <<"key", "all">>, <<"longer", "key">>}

Authorized(c) == req[c].get /\ KeyRead(c)

\* What a client is told is true of its own request, across the descriptor
\* table and the pool: the PC is only called where the key was read and only
\* for what was asked, 200 to a command means that a command was sent for this
\* client, 500 that none was, 401 and 404 that nothing was tried, and 429
\* that the request was not even read (main.cpp:225-229, 249-317, 447-452).
RepliesTruthful ==
  \A c \in Conns :
    /\ done[c] # {} => Authorized(c)
    /\ "wol" \in done[c] => req[c].path = "on"
    /\ done[c] \cap {"udp", "tcp"} # {} => req[c].path = "off"
    /\ "probe" \in done[c] => req[c].path = "probe"
    /\ reply[c] = 200 => \/ Authorized(c) /\ req[c].path = "probe"
                         \/ done[c] # {}
    /\ reply[c] = 500 => /\ Authorized(c) /\ req[c].path \in {"on", "off"}
                         /\ done[c] = {}
    /\ reply[c] = 401 => req[c].get /\ ~KeyRead(c) /\ done[c] = {}
    /\ reply[c] = 404 => /\ done[c] = {}
                         /\ \/ ~req[c].get \/ read[c] = "word"
                            \/ Authorized(c) /\ req[c].path = "other"
    /\ reply[c] = 429 => read[c] = "none" /\ done[c] = {}

\* Every connection that reached the backlog is ended by the server, however
\* long the other clients keep silent: the receive timeout of 3 s frees the
\* worker (main.cpp:298-301), the worker the queue, the queue the main loop.
EveryConnectionEnds ==
  \A c \in Conns : conn[c] = "backlog" ~> conn[c] = "closed"

\* The server uses its pool as ThreadPool says: in particular it never
\* enqueues a descriptor that is still queued or with a worker, and the
\* pool's threads get the fairness that module asks for.
PoolSpec == Pool!Spec

\* Each connection is given the service of module PcService: nothing is
\* called or answered after its answer, and descriptors that come back as
\* other connections never move a call or an answer to another client.  A
\* client that sends more after the key has shown the key as well.
Shown == [c \in Conns |-> [acts |-> req[c].get, key |-> req[c].token # "other",
                          path |-> req[c].path]]

Service == INSTANCE PcService WITH
             Clients <- Conns, req <- Shown,
             Asked <- [acts : BOOLEAN, key : BOOLEAN,
                       path : {"on", "off", "probe", "other"}]

ServiceSpec == Service!Spec
=============================================================================
