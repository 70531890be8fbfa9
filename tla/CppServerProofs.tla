-------------------------- MODULE CppServerProofs ---------------------------
(***************************************************************************)
(* Proofs about CppServer, for any number of workers, descriptors and      *)
(* connections and any limits: a descriptor has one owner, and an answer   *)
(* is true of the request of the connection it is written to.              *)
(***************************************************************************)
EXTENDS CppServer, FiniteSetTheorems, WellFoundedInduction, TLAPS

PP == INSTANCE ThreadPoolProofs WITH Tasks <- Fds, NoTask <- NoFd

-----------------------------------------------------------------------------
\* Queues in which nothing is repeated: the backlog and the queue of the pool.

\* What is in a queue.
Members(q) == {q[i] : i \in 1..Len(q)}

\* Nothing is in it twice.
Distinct(q) == \A i, j \in 1..Len(q) : q[i] = q[j] => i = j

\* The empty queue.
LEMMA EmptyQueue ==
  ASSUME NEW S
  PROVE  <<>> \in Seq(S) /\ Members(<<>>) = {} /\ Distinct(<<>>)
BY SMT DEF Members, Distinct

\* A push adds one member, and no repetition if it was none.
LEMMA AppendQueue ==
  ASSUME NEW S, NEW q \in Seq(S), NEW x \in S
  PROVE  /\ Append(q, x) \in Seq(S)
         /\ Members(Append(q, x)) = Members(q) \cup {x}
         /\ Distinct(q) /\ x \notin Members(q) => Distinct(Append(q, x))
<1>1. /\ Append(q, x) \in Seq(S)
      /\ Len(Append(q, x)) = Len(q) + 1
      /\ \A i \in 1..Len(q) : Append(q, x)[i] = q[i]
      /\ Append(q, x)[Len(q) + 1] = x
  OBVIOUS
<1>2. Members(Append(q, x)) = Members(q) \cup {x}
  BY <1>1 DEF Members
<1>3. ASSUME Distinct(q), x \notin Members(q) PROVE Distinct(Append(q, x))
  BY <1>1, <1>3 DEF Members, Distinct
<1> QED BY <1>1, <1>2, <1>3

\* A pop removes the head, and just the head where nothing is repeated.
LEMMA TailQueue ==
  ASSUME NEW S, NEW q \in Seq(S), q # <<>>, Distinct(q)
  PROVE  /\ Tail(q) \in Seq(S) /\ Distinct(Tail(q))
         /\ Head(q) \in S /\ Head(q) \in Members(q)
         /\ Members(Tail(q)) = Members(q) \ {Head(q)}
<1>1. /\ Tail(q) \in Seq(S) /\ Len(q) \in Nat \ {0}
      /\ Len(Tail(q)) = Len(q) - 1
      /\ \A i \in 1..(Len(q) - 1) : Tail(q)[i] = q[i + 1]
      /\ Head(q) = q[1] /\ Head(q) \in S
  OBVIOUS
<1>2. Distinct(Tail(q))
  BY <1>1 DEF Distinct
<1>3. ASSUME NEW i \in 1..Len(Tail(q))
      PROVE  Tail(q)[i] \in Members(q) \ {Head(q)}
  BY <1>1 DEF Distinct, Members
<1>4. ASSUME NEW x \in Members(q) \ {Head(q)} PROVE x \in Members(Tail(q))
  <2>1. PICK i \in 1..Len(q) : x = q[i]
    BY DEF Members
  <2>2. i - 1 \in 1..Len(Tail(q)) /\ Tail(q)[i - 1] = x
    BY <1>1, <1>4, <2>1
  <2> QED BY <2>2 DEF Members
<1> QED BY <1>1, <1>2, <1>3, <1>4 DEF Members

-----------------------------------------------------------------------------
\* The invariant, in parts.

\* Nothing has happened yet to a connection that no worker has.
Fresh(c) == read[c] = "none" /\ reply[c] = 0 /\ done[c] = {}

\* The backlog holds what has not been accepted.
Waiting ==
  /\ Distinct(backlog)
  /\ \A c \in Members(backlog) : conn[c] = "backlog"

\* A descriptor is with the main loop, in enqueue, in the queue or with one
\* worker, or it is the socket of one worker.
Apart ==
  /\ Distinct(tasks)
  /\ accepted # NoFd => owner = "outside" /\ accepted \notin Members(tasks)
  /\ hand \notin Members(tasks)
  /\ \A w \in Workers : /\ job[w] \notin Members(tasks)
                        /\ job[w] # NoFd => job[w] # accepted /\ job[w] # hand
  /\ \A v, w \in Workers :
       /\ job[v] # NoFd /\ job[v] = job[w] => v = w
       /\ sock[v] # NoFd /\ sock[v] = sock[w] => v = w

IsClient(f) ==
  \/ f = accepted \/ f = hand \/ f \in Members(tasks)
  \/ \E w \in Workers : job[w] = f

IsSocket(f) == \E w \in Workers : sock[w] = f

\* The table of descriptors says which of them it is, and whose.
Table ==
  \A f \in Fds :
    /\ fdtab[f] \in Conns <=> IsClient(f)
    /\ fdtab[f] = Device <=> IsSocket(f)
    /\ fdtab[f] \in Conns =>
         /\ conn[fdtab[f]] = "open"
         /\ \A g \in Fds : fdtab[g] = fdtab[f] => g = f

FdInv == TypeOK /\ Waiting /\ Apart /\ Table

-----------------------------------------------------------------------------
\* The descriptors.

\* A set of natural numbers has a least one.
LEMMA Least ==
  ASSUME NEW S, S \subseteq Nat, S # {}
  PROVE  \E n \in S : \A m \in S : n <= m
<1>1. IsWellFoundedOn(OpToRel(<, Nat), Nat)
  BY NatLessThanWellFounded
<1>2. PICK x \in S : \A y \in S : <<y, x>> \notin OpToRel(<, Nat)
  BY <1>1, WFMin
<1>3. \A y \in S : ~(y < x)
  BY <1>2 DEF OpToRel
<1> QED BY <1>3

\* accept and socket return a descriptor that was free.
LEMMA LowestIsFree == FreeFds # {} => LowestFd \in Fds /\ fdtab[LowestFd] = Free
<1> SUFFICES ASSUME FreeFds # {} PROVE LowestFd \in FreeFds
  BY DEF FreeFds
<1>1. FreeFds \subseteq Nat
  BY ServerAssumption DEF FreeFds, Fds
<1>2. \E f \in FreeFds : \A g \in FreeFds : f <= g
  BY <1>1, Least
<1> QED BY <1>2 DEF LowestFd

\* The three marks in the table and the non-descriptor are no connection and
\* no descriptor.
LEMMA Basics == NoFd \notin Fds /\ Free \notin Conns /\ Device \notin Conns /\ Free # Device
BY ServerAssumption DEF NoFd, Fds, Free, Device

\* The queue of the pool, by members.
LEMMA PoolQueue ==
  TypeOK => /\ tasks \in Seq(Fds) /\ Members(tasks) \subseteq Fds
            /\ Members(backlog) \subseteq Conns
BY DEF TypeOK, Pool!TypeOK, Members

\* The pool's InUse, by members.
LEMMA InUseMembers ==
  \A t : Pool!InUse(t) <=> \/ hand = t \/ t \in Members(tasks)
                           \/ \E w \in Workers : job[w] = t
BY DEF Pool!InUse, Members

-----------------------------------------------------------------------------
\* Every step of the server is one of its pool or leaves it alone.
LEMMA PoolStep == FdInv /\ [Next]_vars => [PP!Next]_(PP!vars)
<1> SUFFICES ASSUME FdInv, [Next]_vars PROVE PP!Next \/ UNCHANGED PP!vars
  OBVIOUS
<1> USE DEF PP!vars, poolVars
<1>1. CASE Admit
  <2>1. accepted \in Fds /\ accepted # NoFd
    BY <1>1 DEF Admit, FdInv, TypeOK
  <2>2. ~Pool!InUse(accepted)
    <3>1. hand = NoFd
      BY <2>1 DEF FdInv, Apart, TypeOK, Pool!TypeOK
    <3> QED BY <2>1, <3>1, InUseMembers DEF FdInv, Apart
  <2>3. PP!Offer(accepted)
    BY <1>1, <2>2 DEF Admit, Pool!CallEnqueue, PP!Offer, PP!CallEnqueue, Pool!InUse, PP!InUse
  <2> QED BY <2>1, <2>3 DEF PP!Next
<1>2. CASE EnqueueStep
  BY <1>2 DEF EnqueueStep, Pool!Enqueue, PP!Enqueue, Pool!AwaitSpace, PP!AwaitSpace,
       Pool!SpuriousSpace, PP!SpuriousSpace, Pool!NotifyOneTask, PP!NotifyOneTask,
       Pool!Waiters, PP!Waiters, PP!Next
<1>3. ASSUME NEW w \in Workers, WorkerQueueStep(w) PROVE PP!Next
  BY <1>3 DEF WorkerQueueStep, Pool!Take, PP!Take, Pool!Sleep, PP!Sleep,
       Pool!SpuriousWakeup, PP!SpuriousWakeup, PP!Next
<1>4. ASSUME NEW w \in Workers, Close(w) PROVE PP!Next
  BY <1>4 DEF Close, Pool!Finish, PP!Finish, PP!Next
<1>5. CASE UNCHANGED poolVars
  BY <1>5
<1> QED
  BY <1>1, <1>2, <1>3, <1>4, <1>5
     DEF Next, Connect, Arrive, Refill, Accept, Refuse, Process, Recv, RecvNothing,
         OpenSocket, EndCall, Reply, vars

\* TypeOK but for the pool's part.
Types ==
  /\ stage \in [Workers -> {"idle", "recv", "reply", "close"} \cup Calls]
  /\ \A w \in Workers : stage[w] = "idle" <=> worker[w] # "busy"
  /\ sock \in [Workers -> Fds \cup {NoFd}]
  /\ \A w \in Workers : sock[w] # NoFd => stage[w] \in Calls
  /\ status \in [Workers -> {0, 200, 401, 404, 500}]
  /\ accepted \in Fds \cup {NoFd}
  /\ level \in 0..Capacity
  /\ fdtab \in [Fds -> Conns \cup {Free, Device}]
  /\ backlog \in Seq(Conns) /\ Len(backlog) <= Backlog
  /\ conn \in [Conns -> {"new", "backlog", "open", "closed"}]
  /\ req \in [Conns -> Requests]
  /\ sent \in [Conns -> Bytes]
  /\ read \in [Conns -> Bytes]
  /\ reply \in [Conns -> {0, 200, 401, 404, 429, 500}]
  /\ done \in [Conns -> SUBSET Calls]

\* The types of the server and those of its pool, apart.
LEMMA Parts == TypeOK <=> Pool!TypeOK /\ Types
BY DEF TypeOK, Types

\* The connection of a worker, which is open, and of the main loop.
LEMMA ClientOfWorker ==
  ASSUME FdInv, NEW w \in Workers, stage[w] # "idle"
  PROVE  /\ job[w] \in Fds /\ worker[w] = "busy"
         /\ Client(w) \in Conns /\ fdtab[job[w]] = Client(w) /\ conn[Client(w)] = "open"
<1>1. worker[w] = "busy" /\ job[w] \in Fds
  BY Basics DEF FdInv, TypeOK, Pool!TypeOK
<1>2. IsClient(job[w])
  BY DEF IsClient
<1> QED BY <1>1, <1>2 DEF FdInv, Table, Client

\* The connection the main loop holds is open.
LEMMA ClientAccepted ==
  ASSUME FdInv, accepted # NoFd
  PROVE  accepted \in Fds /\ fdtab[accepted] \in Conns /\ conn[fdtab[accepted]] = "open"
<1>1. accepted \in Fds /\ IsClient(accepted)
  BY DEF FdInv, TypeOK, IsClient
<1> QED BY <1>1 DEF FdInv, Table

\* What a decision may be.
LEMMA Decisions ==
  ASSUME NEW r \in Requests, NEW b \in Bytes
  PROVE  \/ Decision(r, b) \in {<<"reply", 404>>, <<"reply", 401>>}
         \/ Decision(r, b) \in {<<"wol", 0>>, <<"udp", 0>>, <<"probe", 0>>}
<1>1. r.get \in BOOLEAN /\ r.path \in {"on", "off", "probe", "other"}
  BY ServerAssumption
<1>2. CASE ~Parsed(b) \/ ~r.get
  BY <1>2 DEF Decision
<1>3. CASE Parsed(b) /\ r.get /\ ~IsAuthorized(r, b)
  BY <1>3 DEF Decision
<1>4. CASE Parsed(b) /\ r.get /\ IsAuthorized(r, b)
  BY <1>1, <1>4 DEF Decision
<1> QED BY <1>2, <1>3, <1>4

\* What is compared with the key is the key when, and only when, the bytes that
\* came end after the key or the token does.
LEMMA ReadKey ==
  ASSUME NEW r \in Requests, NEW b \in Bytes \ {"none"}
  PROVE  IsAuthorized(r, b) <=>
           <<r.token, b>> \in {<<"key", "key">>, <<"key", "all">>, <<"longer", "key">>}
<1>1. r.token \in {"key", "longer", "other"}
  BY ServerAssumption
<1>2. CASE b = "all"
  BY <1>1, <1>2 DEF IsAuthorized, AuthToken
<1>3. CASE b = "key"
  BY <1>1, <1>3 DEF IsAuthorized, AuthToken
<1>4. CASE b \in {"word", "line"}
  BY <1>4 DEF IsAuthorized, AuthToken
<1> QED BY <1>2, <1>3, <1>4 DEF Bytes

\* Every step keeps the types.
LEMMA TypesStep == FdInv /\ Next => Types'
<1> USE ServerAssumption DEF Types, Calls, poolVars, workVars, netVars, logVars
<1> SUFFICES ASSUME FdInv, Next PROVE Types'
  OBVIOUS
<1>0. Types
  BY Parts DEF FdInv
<1> USE <1>0
<1>1. ASSUME NEW c \in Conns, Connect(c) PROVE Types'
  <2>1. Append(backlog, c) \in Seq(Conns) /\ Len(Append(backlog, c)) = Len(backlog) + 1
    OBVIOUS
  <2> QED BY <1>1, <2>1 DEF Connect
<1>2. ASSUME NEW c \in Conns, Arrive(c) PROVE Types'
  <2>1. More(c) \subseteq Bytes
    BY DEF More, Bytes
  <2> QED BY <1>2, <2>1 DEF Arrive
<1>3. CASE Refill
  BY <1>3 DEF Refill
<1>4. CASE Accept
  <2>1. Head(backlog) \in Conns /\ Tail(backlog) \in Seq(Conns)
        /\ Len(Tail(backlog)) = Len(backlog) - 1
    BY <1>4 DEF Accept
  <2>2. LowestFd \in Fds
    BY <1>4, LowestIsFree DEF Accept
  <2> QED BY <1>4, <2>1, <2>2 DEF Accept
<1>5. CASE Admit
  BY <1>5 DEF Admit, Pool!CallEnqueue
<1>6. CASE Refuse
  <2>1. fdtab[accepted] \in Conns /\ accepted \in Fds
    BY <1>6, ClientAccepted DEF Refuse
  <2> QED BY <1>6, <2>1 DEF Refuse, Closed
<1>7. CASE EnqueueStep
  <2>1. \A w \in Workers : worker'[w] = "busy" <=> worker[w] = "busy"
    BY <1>7 DEF EnqueueStep, Pool!Enqueue, Pool!AwaitSpace, Pool!SpuriousSpace,
         Pool!NotifyOneTask, Pool!Waiters, FdInv, TypeOK, Pool!TypeOK
  <2> QED BY <1>7, <2>1 DEF EnqueueStep
<1>8. ASSUME NEW w \in Workers, WorkerQueueStep(w) PROVE Types'
  <2>1. worker \in [Workers -> {"lock", "waiting", "busy", "exited"}]
    BY DEF FdInv, TypeOK, Pool!TypeOK
  <2>2. stage[w] = "idle"
    BY <1>8 DEF WorkerQueueStep, Pool!Take, Pool!Sleep, Pool!SpuriousWakeup
  <2>3. CASE Pool!Take(w) /\ stage' = [stage EXCEPT ![w] = "recv"]
    BY <1>8, <2>1, <2>2, <2>3 DEF WorkerQueueStep, Pool!Take
  <2>4. CASE (Pool!Sleep(w) \/ Pool!SpuriousWakeup(w)) /\ UNCHANGED stage
    BY <1>8, <2>1, <2>2, <2>4 DEF WorkerQueueStep, Pool!Sleep, Pool!SpuriousWakeup
  <2> QED BY <1>8, <2>3, <2>4 DEF WorkerQueueStep
<1>9. ASSUME NEW w \in Workers, Recv(w) PROVE Types'
  <2> DEFINE d == Decision(req[Client(w)], sent[Client(w)])
  <2>1. Client(w) \in Conns /\ worker[w] = "busy"
    BY <1>9, ClientOfWorker DEF Recv
  <2>2. d[1] \in {"reply"} \cup Calls /\ d[2] \in {0, 401, 404}
    BY <2>1, Decisions
  <2> HIDE DEF d
  <2>3. /\ read' = [read EXCEPT ![Client(w)] = sent[Client(w)]]
        /\ stage' = [stage EXCEPT ![w] = d[1]]
        /\ status' = [status EXCEPT ![w] = d[2]]
        /\ stage[w] = "recv"
        /\ UNCHANGED <<poolVars, sock, accepted, level, fdtab, netVars, reply, done>>
    BY <1>9 DEF Recv, d
  <2> QED BY <2>1, <2>2, <2>3
<1>10. ASSUME NEW w \in Workers, RecvNothing(w) PROVE Types'
  BY <1>10 DEF RecvNothing
<1>11. ASSUME NEW w \in Workers, NEW k \in BOOLEAN, AfterCall(w, k), stage[w] \in Calls
       PROVE  /\ stage' \in [Workers -> {"idle", "recv", "reply", "close"} \cup Calls]
              /\ status' \in [Workers -> {0, 200, 401, 404, 500}]
              /\ done' \in [Conns -> SUBSET Calls]
              /\ \A v \in Workers : stage'[v] = "idle" <=> stage[v] = "idle"
              /\ \A v \in Workers \ {w} : stage'[v] = stage[v]
  <2>1. Client(w) \in Conns
    BY <1>11, ClientOfWorker
  <2>2. /\ stage' = [stage EXCEPT ![w] = IF stage[w] = "udp" THEN "tcp" ELSE "reply"]
        /\ done' = IF k THEN [done EXCEPT ![Client(w)] = @ \cup {stage[w]}] ELSE done
    BY <1>11 DEF AfterCall
  <2>3. \E x \in {200, 500} : status' = [status EXCEPT ![w] = x]
    <3> DEFINE x == CASE stage[w] = "udp"   -> IF k THEN 200 ELSE 500
                      [] stage[w] = "tcp"   -> IF k \/ status[w] = 200
                                                 THEN 200 ELSE 500
                      [] stage[w] = "wol"   -> IF k THEN 200 ELSE 500
                      [] stage[w] = "probe" -> 200
    <3>1. x \in {200, 500}
      BY <1>11
    <3>2. status' = [status EXCEPT ![w] = x]
      BY <1>11 DEF AfterCall
    <3> QED BY <3>1, <3>2
  <2> QED BY <1>11, <2>1, <2>2, <2>3
<1>12. ASSUME NEW w \in Workers, OpenSocket(w) PROVE Types'
  <2>1. CASE FreeFds = {}
    <3>1. AfterCall(w, FALSE) /\ stage[w] \in Calls /\ sock[w] = NoFd
          /\ UNCHANGED <<sock, fdtab, poolVars, accepted, level, netVars, read, reply>>
      BY <1>12, <2>1 DEF OpenSocket
    <3>2. FALSE \in BOOLEAN
      OBVIOUS
    <3>3. /\ stage' \in [Workers -> {"idle", "recv", "reply", "close"} \cup Calls]
          /\ status' \in [Workers -> {0, 200, 401, 404, 500}]
          /\ done' \in [Conns -> SUBSET Calls]
          /\ \A v \in Workers : stage'[v] = "idle" <=> stage[v] = "idle"
          /\ \A v \in Workers \ {w} : stage'[v] = stage[v]
      BY <1>11, <3>1, <3>2
    <3> QED BY <3>1, <3>3
  <2>2. CASE FreeFds # {}
    <3>1. LowestFd \in Fds
      BY <2>2, LowestIsFree
    <3>2. /\ stage[w] \in Calls
          /\ sock' = [sock EXCEPT ![w] = LowestFd]
          /\ fdtab' = [fdtab EXCEPT ![LowestFd] = Device]
          /\ UNCHANGED <<stage, done, status, poolVars, accepted, level, netVars, read, reply>>
      BY <1>12, <2>2 DEF OpenSocket
    <3> QED BY <3>1, <3>2
  <2> QED BY <2>1, <2>2
<1>13. ASSUME NEW w \in Workers, EndCall(w) PROVE Types'
  <2>1. /\ stage[w] \in Calls /\ sock[w] \in Fds
        /\ fdtab' = [fdtab EXCEPT ![sock[w]] = Free]
        /\ sock' = [sock EXCEPT ![w] = NoFd]
        /\ UNCHANGED <<poolVars, accepted, level, netVars, read, reply>>
    BY <1>13 DEF EndCall
  <2>2. PICK k \in BOOLEAN : AfterCall(w, k)
    BY <1>13 DEF EndCall
  <2> QED BY <1>11, <2>1, <2>2
<1>14. ASSUME NEW w \in Workers, Reply(w) PROVE Types'
  <2>1. Client(w) \in Conns
    BY <1>14, ClientOfWorker DEF Reply
  <2> QED BY <1>14, <2>1 DEF Reply
<1>15. ASSUME NEW w \in Workers, Close(w) PROVE Types'
  <2>1. Client(w) \in Conns /\ job[w] \in Fds
    BY <1>15, ClientOfWorker DEF Close
  <2>2. worker' = [worker EXCEPT ![w] = "lock"]
        /\ worker \in [Workers -> {"lock", "waiting", "busy", "exited"}]
    BY <1>15 DEF Close, Pool!Finish, FdInv, TypeOK, Pool!TypeOK
  <2> QED BY <1>15, <2>1, <2>2 DEF Close, Closed
<1> QED
  BY <1>1, <1>2, <1>3, <1>4, <1>5, <1>6, <1>7, <1>8, <1>9, <1>10, <1>12, <1>13,
     <1>14, <1>15 DEF Next, Process

\* A step that moves no descriptor.
LEMMA FdStay ==
  ASSUME FdInv, UNCHANGED <<tasks, job, hand, accepted, sock, fdtab, conn, backlog>>,
         accepted # NoFd => owner' = "outside"
  PROVE  Waiting' /\ Apart' /\ Table'
BY DEF FdInv, Waiting, Apart, Table, IsClient, IsSocket, Members, Distinct

\* Every step keeps the owners of the descriptors and what the table says.
LEMMA FdStep == FdInv /\ Next => Waiting' /\ Apart' /\ Table'
<1> USE DEF poolVars, workVars, netVars, logVars
<1> SUFFICES ASSUME FdInv, Next PROVE Waiting' /\ Apart' /\ Table'
  OBVIOUS
<1>0. Types /\ Pool!TypeOK /\ Waiting /\ Apart /\ Table
  BY Parts DEF FdInv
<1>1. ASSUME NEW c \in Conns, Connect(c) PROVE Waiting' /\ Apart' /\ Table'
  <2>1. c \notin Members(backlog) /\ conn[c] = "new"
    BY <1>0, <1>1 DEF Connect, Waiting
  <2>2. Members(backlog') = Members(backlog) \cup {c} /\ Distinct(backlog')
    BY <1>0, <1>1, <2>1, AppendQueue DEF Connect, Types, Waiting
  <2>3. /\ conn' = [conn EXCEPT ![c] = "backlog"]
        /\ UNCHANGED <<tasks, job, hand, owner, accepted, sock, fdtab>>
    BY <1>1 DEF Connect
  <2>4. Waiting'
    BY <1>0, <2>2, <2>3, PoolQueue DEF Waiting, Types, FdInv
  <2>5. Apart'
    BY <1>0, <2>3 DEF Apart, Members, Distinct
  <2>6. Table'
    BY <1>0, <2>1, <2>3 DEF Table, IsClient, IsSocket, Types, Members
  <2> QED BY <2>4, <2>5, <2>6
<1>2. CASE Accept
  <2> DEFINE f == LowestFd
             c == Head(backlog)
  <2>1. f \in Fds /\ fdtab[f] = Free
    BY <1>2, LowestIsFree DEF Accept
  <2>2. /\ Members(Tail(backlog)) = Members(backlog) \ {c} /\ Distinct(Tail(backlog))
        /\ c \in Conns /\ c \in Members(backlog)
    BY <1>0, <1>2, TailQueue DEF Accept, Types, Waiting
  <2>3. conn[c] = "backlog"
    BY <1>0, <2>2 DEF Waiting
  <2> HIDE DEF f, c
  <2>4. /\ accepted = NoFd /\ accepted' = f /\ owner = "outside"
        /\ fdtab' = [fdtab EXCEPT ![f] = c]
        /\ conn' = [conn EXCEPT ![c] = "open"]
        /\ backlog' = Tail(backlog)
        /\ UNCHANGED <<tasks, job, hand, owner, sock>>
    BY <1>2 DEF Accept, f, c
  <2>5. ~IsClient(f) /\ ~IsSocket(f)
    BY <1>0, <2>1, Basics DEF Table
  <2>6. Waiting'
    BY <1>0, <2>2, <2>4, PoolQueue DEF Waiting, Types, FdInv
  <2>7. Apart'
    BY <1>0, <2>4, <2>5 DEF Apart, IsClient, Members, Distinct
  <2>8. \A g \in Fds : fdtab[g] # c
    BY <1>0, <2>2, <2>3 DEF Table
  <2>9. \A g \in Fds : (IsClient(g)' <=> IsClient(g) \/ g = f) /\ (IsSocket(g)' <=> IsSocket(g))
    BY <2>4, Basics DEF IsClient, IsSocket, Members
  <2>10. Table'
    BY <1>0, <2>1, <2>2, <2>3, <2>4, <2>5, <2>8, <2>9, Basics DEF Table, Types
  <2> QED BY <2>6, <2>7, <2>10
<1>3. CASE Admit
  <2>1. /\ accepted \in Fds /\ accepted # NoFd /\ accepted' = NoFd /\ hand' = accepted
        /\ owner = "outside"
        /\ UNCHANGED <<tasks, job, sock, fdtab, conn, backlog>>
    BY <1>0, <1>3 DEF Admit, Pool!CallEnqueue, Types
  <2>2. hand = NoFd
    BY <1>0, <2>1 DEF Pool!TypeOK
  <2>3. Waiting'
    BY <1>0, <2>1 DEF Waiting, Members, Distinct
  <2>4. Apart'
    BY <1>0, <2>1, <2>2 DEF Apart, Members, Distinct
  <2>5. \A g \in Fds : (IsClient(g)' <=> IsClient(g)) /\ (IsSocket(g)' <=> IsSocket(g))
    BY <2>1, <2>2, Basics DEF IsClient, IsSocket, Members
  <2>6. Table'
    BY <1>0, <2>1, <2>5 DEF Table
  <2> QED BY <2>3, <2>4, <2>6
<1>4. CASE Refuse
  <2> DEFINE c == fdtab[accepted]
  <2>1. accepted \in Fds /\ c \in Conns /\ accepted # NoFd /\ conn[c] = "open"
    BY <1>4, ClientAccepted DEF Refuse
  <2>2. \A g \in Fds : fdtab[g] = c => g = accepted
    BY <1>0, <2>1 DEF Table
  <2> HIDE DEF c
  <2>3. /\ accepted' = NoFd
        /\ fdtab' = [fdtab EXCEPT ![accepted] = Free]
        /\ conn' = [conn EXCEPT ![c] = "closed"]
        /\ UNCHANGED <<tasks, job, hand, owner, sock, backlog>>
    BY <1>4 DEF Refuse, Closed, c
  <2>4. hand = NoFd
    BY <1>0, <2>1 DEF Apart, Pool!TypeOK
  <2>5. Waiting'
    BY <1>0, <2>1, <2>3, PoolQueue DEF Waiting, Types, FdInv, Members, Distinct
  <2>6. Apart'
    BY <1>0, <2>3 DEF Apart, Members, Distinct
  <2>7. IsClient(accepted)
    BY DEF IsClient
  <2>8. \A g \in Fds : /\ IsClient(g)' <=> IsClient(g) /\ g # accepted
                       /\ IsSocket(g)' <=> IsSocket(g)
    BY <1>0, <2>1, <2>3, <2>4, Basics DEF IsClient, IsSocket, Apart, Members
  <2>9. Table'
    BY <1>0, <2>1, <2>2, <2>3, <2>7, <2>8, Basics DEF Table, Types
  <2> QED BY <2>5, <2>6, <2>9
<1>5. CASE EnqueueStep
  <2>1. CASE Pool!Enqueue
    <3>1. /\ tasks' = Append(tasks, hand) /\ hand' = NoFd /\ hand \in Fds
          /\ owner = "lock" /\ owner' = "outside"
          /\ UNCHANGED <<job, sock, accepted, fdtab, conn, backlog>>
      BY <1>0, <1>5, <2>1 DEF EnqueueStep, Pool!Enqueue, Pool!TypeOK
    <3>2. hand \notin Members(tasks) /\ accepted = NoFd
      BY <1>0, <3>1 DEF Apart
    <3>3. Members(tasks') = Members(tasks) \cup {hand} /\ Distinct(tasks')
      BY <1>0, <3>1, <3>2, AppendQueue, PoolQueue DEF FdInv, Apart
    <3>4. NoFd \notin Members(tasks)
      BY PoolQueue, Basics DEF FdInv
    <3>5. Waiting'
      BY <1>0, <3>1 DEF Waiting, Members, Distinct
    <3>6. Apart'
      BY <1>0, <3>1, <3>2, <3>3, <3>4, Basics DEF Apart, Pool!TypeOK
    <3>7. \A g \in Fds : (IsClient(g)' <=> IsClient(g)) /\ (IsSocket(g)' <=> IsSocket(g))
      BY <3>1, <3>3, Basics DEF IsClient, IsSocket
    <3>8. Table'
      BY <1>0, <3>1, <3>7 DEF Table
    <3> QED BY <3>5, <3>6, <3>8
  <2>2. CASE Pool!AwaitSpace \/ Pool!SpuriousSpace
    <3>1. accepted = NoFd
      BY <1>0, <2>2 DEF Pool!AwaitSpace, Pool!SpuriousSpace, Apart
    <3> QED BY <1>5, <2>2, <3>1, FdStay DEF EnqueueStep, Pool!AwaitSpace, Pool!SpuriousSpace
  <2> QED BY <1>5, <2>1, <2>2 DEF EnqueueStep
<1>6. ASSUME NEW w \in Workers, WorkerQueueStep(w) PROVE Waiting' /\ Apart' /\ Table'
  <2>1. CASE Pool!Take(w)
    <3> DEFINE f == Head(tasks)
    <3>1. /\ tasks # <<>> /\ tasks' = Tail(tasks) /\ job' = [job EXCEPT ![w] = f]
          /\ owner' = (IF owner = "waiting" THEN "lock" ELSE owner)
          /\ worker[w] = "lock"
          /\ UNCHANGED <<hand, accepted, sock, fdtab, conn, backlog>>
      BY <1>6, <2>1 DEF WorkerQueueStep, Pool!Take
    <3>2. /\ f \in Fds /\ f \in Members(tasks)
          /\ Members(Tail(tasks)) = Members(tasks) \ {f} /\ Distinct(Tail(tasks))
      BY <1>0, <3>1, PoolQueue, TailQueue DEF FdInv, Apart
    <3>3. job[w] = NoFd /\ job \in [Workers -> Fds \cup {NoFd}]
      BY <1>0, <3>1 DEF Pool!TypeOK
    <3> HIDE DEF f
    <3>4. Waiting'
      BY <1>0, <3>1 DEF Waiting, Members, Distinct
    <3>5. Apart'
      <4>1. accepted # NoFd => owner' = "outside" /\ accepted \notin Members(tasks')
        BY <1>0, <3>1, <3>2 DEF Apart
      <4>2. hand \notin Members(tasks') /\ Distinct(tasks')
        BY <1>0, <3>1, <3>2 DEF Apart
      <4>3. \A v \in Workers : job'[v] \notin Members(tasks')
        BY <1>0, <3>1, <3>2, <3>3 DEF Apart
      <4>4. \A v \in Workers : job'[v] # NoFd => job'[v] # accepted /\ job'[v] # hand
        BY <1>0, <3>1, <3>2, <3>3, Basics DEF Apart
      <4>5. \A u, v \in Workers : job'[v] # NoFd /\ job'[v] = job'[u] => v = u
        BY <1>0, <3>1, <3>2, <3>3, Basics DEF Apart
      <4> QED BY <1>0, <3>1, <4>1, <4>2, <4>3, <4>4, <4>5 DEF Apart
    <3>6. \A g \in Fds : (IsClient(g)' <=> IsClient(g)) /\ (IsSocket(g)' <=> IsSocket(g))
      BY <3>1, <3>2, <3>3, Basics DEF IsClient, IsSocket
    <3>7. Table'
      BY <1>0, <3>1, <3>6 DEF Table
    <3> QED BY <3>4, <3>5, <3>7
  <2>2. CASE Pool!Sleep(w) \/ Pool!SpuriousWakeup(w)
    <3>1. accepted # NoFd => owner = "outside"
      BY <1>0 DEF Apart
    <3> QED BY <1>6, <2>2, <3>1, FdStay DEF WorkerQueueStep, Pool!Sleep, Pool!SpuriousWakeup
  <2> QED BY <1>6, <2>1, <2>2 DEF WorkerQueueStep
<1>7. ASSUME NEW w \in Workers, OpenSocket(w), FreeFds # {}
      PROVE  Waiting' /\ Apart' /\ Table'
  <2> DEFINE f == LowestFd
  <2>1. f \in Fds /\ fdtab[f] = Free
    BY <1>7, LowestIsFree
  <2> HIDE DEF f
  <2>2. /\ sock[w] = NoFd /\ sock' = [sock EXCEPT ![w] = f]
        /\ fdtab' = [fdtab EXCEPT ![f] = Device]
        /\ UNCHANGED <<tasks, job, hand, owner, accepted, conn, backlog>>
    BY <1>7 DEF OpenSocket, f
  <2>3. ~IsClient(f) /\ ~IsSocket(f)
    BY <1>0, <2>1, Basics DEF Table
  <2>4. Waiting'
    BY <1>0, <2>2 DEF Waiting, Members, Distinct
  <2>5. Apart'
    BY <1>0, <2>2, <2>3 DEF Apart, IsSocket, Types, Members, Distinct
  <2>6. \A g \in Fds : (IsClient(g)' <=> IsClient(g)) /\ (IsSocket(g)' <=> IsSocket(g) \/ g = f)
    BY <1>0, <2>2, Basics DEF IsClient, IsSocket, Types, Members
  <2>7. Table'
    BY <1>0, <2>1, <2>2, <2>3, <2>6, Basics DEF Table, Types
  <2> QED BY <2>4, <2>5, <2>7
<1>8. ASSUME NEW w \in Workers, EndCall(w) PROVE Waiting' /\ Apart' /\ Table'
  <2>1. /\ sock[w] \in Fds /\ sock' = [sock EXCEPT ![w] = NoFd]
        /\ fdtab' = [fdtab EXCEPT ![sock[w]] = Free]
        /\ UNCHANGED <<tasks, job, hand, owner, accepted, conn, backlog>>
    BY <1>0, <1>8 DEF EndCall, Types
  <2>2. IsSocket(sock[w])
    BY DEF IsSocket
  <2>3. Waiting'
    BY <1>0, <2>1 DEF Waiting, Members, Distinct
  <2>4. Apart'
    BY <1>0, <2>1 DEF Apart, Types, Members, Distinct
  <2>5. \A g \in Fds : /\ IsClient(g)' <=> IsClient(g)
                       /\ IsSocket(g)' <=> IsSocket(g) /\ g # sock[w]
    BY <1>0, <2>1, Basics DEF IsClient, IsSocket, Apart, Types, Members
  <2>6. Table'
    BY <1>0, <2>1, <2>2, <2>5, Basics DEF Table, Types
  <2> QED BY <2>3, <2>4, <2>6
<1>9. ASSUME NEW w \in Workers, Close(w) PROVE Waiting' /\ Apart' /\ Table'
  <2> DEFINE f == job[w]
             c == Client(w)
  <2>1. f \in Fds /\ c \in Conns /\ conn[c] = "open" /\ fdtab[f] = c
    BY <1>9, ClientOfWorker DEF Close
  <2>2. \A g \in Fds : fdtab[g] = c => g = f
    BY <1>0, <2>1 DEF Table
  <2>3. /\ job' = [job EXCEPT ![w] = NoFd]
        /\ fdtab' = [fdtab EXCEPT ![f] = Free]
        /\ conn' = [conn EXCEPT ![c] = "closed"]
        /\ UNCHANGED <<tasks, hand, owner, accepted, sock, backlog>>
    BY <1>9 DEF Close, Pool!Finish, Closed
  <2>4. IsClient(f)
    BY DEF IsClient
  <2>5. f # accepted /\ f # hand /\ f \notin Members(tasks)
        /\ \A v \in Workers : job[v] = f => v = w
    BY <1>0, <2>1, Basics DEF Apart
  <2>6. job \in [Workers -> Fds \cup {NoFd}] /\ NoFd \notin Members(tasks)
    BY <1>0, PoolQueue, Basics DEF Pool!TypeOK, FdInv
  <2> HIDE DEF c
  <2>7. Waiting'
    BY <1>0, <2>1, <2>3, PoolQueue DEF Waiting, Types, FdInv, Members, Distinct
  <2>8. Apart'
    BY <1>0, <2>3, <2>6 DEF Apart, Members, Distinct
  <2>9. \A g \in Fds : /\ IsClient(g)' <=> IsClient(g) /\ g # f
                       /\ IsSocket(g)' <=> IsSocket(g)
    BY <2>3, <2>5, <2>6, Basics DEF IsClient, IsSocket, Members
  <2>10. Table'
    BY <1>0, <2>1, <2>2, <2>3, <2>4, <2>9, Basics DEF Table, Types
  <2> QED BY <2>7, <2>8, <2>10
<1>10. CASE UNCHANGED <<tasks, job, hand, owner, accepted, sock, fdtab, conn, backlog>>
  BY <1>0, <1>10, FdStay DEF Apart
<1> QED
  BY <1>1, <1>2, <1>3, <1>4, <1>5, <1>6, <1>7, <1>8, <1>9, <1>10
     DEF Next, Process, Arrive, Refill, Recv, RecvNothing, OpenSocket, Reply

\* At the start every descriptor is free.
LEMMA FdInit == Init => FdInv
<1> SUFFICES ASSUME Init PROVE FdInv
  OBVIOUS
<1> USE ServerAssumption DEF Init, Pool!Init
<1>1. tasks = <<>> /\ backlog = <<>>
  OBVIOUS
<1>2. /\ tasks \in Seq(Fds) /\ Len(tasks) <= MaxQueue /\ Members(tasks) = {} /\ Distinct(tasks)
      /\ backlog \in Seq(Conns) /\ Len(backlog) <= Backlog
      /\ Members(backlog) = {} /\ Distinct(backlog)
  <2>1. Len(<<>>) = 0
    BY SMT
  <2> QED BY <1>1, <2>1, EmptyQueue
<1>3. Pool!TypeOK
  BY <1>2, Basics DEF Pool!TypeOK
<1>4. Types
  BY <1>2, Basics DEF Types, Calls, Bytes
<1>5. Waiting
  BY <1>2 DEF Waiting
<1>6. Apart
  BY <1>2 DEF Apart
<1>7. Table
  BY <1>2, Basics DEF Table, IsClient, IsSocket
<1> QED BY <1>3, <1>4, <1>5, <1>6, <1>7, Parts DEF FdInv

\* Every step keeps the invariant, the part of the pool by its own lemma.
LEMMA FdInvStep == FdInv /\ [Next]_vars => FdInv'
<1>1. FdInv /\ [Next]_vars => Pool!TypeOK'
  <2>1. FdInv => PP!TypeOK
    BY DEF FdInv, TypeOK, Pool!TypeOK, PP!TypeOK
  <2>2. PP!TypeOK /\ [PP!Next]_(PP!vars) => PP!TypeOK'
    <3>1. IsFiniteSet(Workers) /\ Workers # {} /\ NoFd \notin Fds /\ MaxQueue \in Nat \ {0}
      BY ServerAssumption, Basics
    <3>2. PP!IsFiniteSet(Workers)
      BY <3>1 DEF IsFiniteSet, PP!IsFiniteSet
    <3> QED BY PP!TypeStep, <3>1, <3>2
  <2>3. PP!TypeOK' => Pool!TypeOK'
    BY DEF Pool!TypeOK, PP!TypeOK
  <2> QED BY <2>1, <2>2, <2>3, PoolStep
<1>2. FdInv /\ Next => FdInv'
  <2>1. Pool!TypeOK' /\ Types' => TypeOK'
    BY DEF TypeOK, Types
  <2> QED BY <1>1, <2>1, TypesStep, FdStep DEF FdInv
<1>3. FdInv /\ UNCHANGED vars => FdInv'
  BY DEF FdInv, TypeOK, Pool!TypeOK, Waiting, Apart, Table, IsClient, IsSocket,
         Members, Distinct, vars, poolVars, workVars, netVars, logVars
<1> QED BY <1>2, <1>3

\* The invariant of the descriptors holds, whatever the scheduling.
LEMMA FdInvariant == SafeSpec => []FdInv
BY FdInit, FdInvStep, PTL DEF SafeSpec

\* The types of the server and of its pool hold, and a worker is in
\* process_client exactly while it has a descriptor (main.cpp:293-350).
THEOREM TypeCorrect == Spec => []TypeOK
<1>1. FdInv => TypeOK
  BY DEF FdInv
<1> QED BY <1>1, FdInvariant, PTL DEF Spec

-----------------------------------------------------------------------------
\* One owner for each descriptor that is open, none for the others: nothing
\* leaks, and nobody closes or answers on a number that has come back as
\* somebody else's (main.cpp:179-181, 195, 214-220, 244, 316, 439-455).
THEOREM OneOwner == Spec => []FdOwnership
<1>1. ASSUME FdInv, NEW f \in Fds
      PROVE  Cardinality(Holders(f)) = IF fdtab[f] = Free THEN 0 ELSE 1
  <2>0. Types /\ Pool!TypeOK /\ Apart /\ Table /\ f # NoFd
    BY <1>1, Parts, Basics DEF FdInv
  <2>1. \A h : h \in Holders(f) <=>
          \/ accepted = f /\ h = <<"main", 0>>
          \/ hand = f /\ h = <<"enqueue", 0>>
          \/ \E i \in 1..Len(tasks) : tasks[i] = f /\ h = <<"queue", i>>
          \/ \E w \in Workers : job[w] = f /\ h = <<"client", w>>
          \/ \E w \in Workers : sock[w] = f /\ h = <<"call", w>>
    BY DEF Holders
  <2>2. CASE fdtab[f] = Free
    <3>1. ~IsClient(f) /\ ~IsSocket(f)
      BY <2>0, <2>2, Basics DEF Table
    <3>2. Holders(f) = {}
      BY <2>1, <3>1 DEF IsClient, IsSocket, Members
    <3> QED BY <2>2, <3>2, FS_EmptySet
  <2>3. CASE fdtab[f] # Free
    <3>1. IsClient(f) \/ IsSocket(f)
      BY <2>0, <2>3 DEF Table, Types
    <3>2. IsClient(f) => ~IsSocket(f)
      BY <2>0, Basics DEF Table
    <3>3. ASSUME NEW g, NEW h, g \in Holders(f), h \in Holders(f) PROVE g = h
      <4>1. CASE IsSocket(f)
        BY <2>0, <2>1, <3>2, <3>3, <4>1 DEF IsClient, IsSocket, Apart, Members
      <4>2. CASE f = accepted
        <5>1. ~IsSocket(f) /\ hand # f /\ f \notin Members(tasks)
          BY <2>0, <3>2, <4>2 DEF IsClient, Apart, Pool!TypeOK
        <5>2. \A w \in Workers : job[w] # f
          BY <2>0, <4>2 DEF Apart
        <5> QED BY <2>1, <3>3, <4>2, <5>1, <5>2 DEF IsSocket, Members
      <4>3. CASE f = hand
        <5>1. ~IsSocket(f) /\ accepted # f /\ f \notin Members(tasks)
          BY <2>0, <3>2, <4>3 DEF IsClient, Apart, Pool!TypeOK
        <5>2. \A w \in Workers : job[w] # f
          BY <2>0, <4>3 DEF Apart
        <5> QED BY <2>1, <3>3, <4>3, <5>1, <5>2 DEF IsSocket, Members
      <4>4. CASE f \in Members(tasks)
        <5>1. ~IsSocket(f) /\ accepted # f /\ hand # f /\ Distinct(tasks)
          BY <2>0, <3>2, <4>4 DEF IsClient, Apart
        <5>2. \A w \in Workers : job[w] # f
          BY <2>0, <4>4 DEF Apart
        <5> QED BY <2>1, <3>3, <5>1, <5>2 DEF IsSocket, Distinct
      <4>5. ASSUME NEW w \in Workers, job[w] = f PROVE g = h
        <5>1. ~IsSocket(f) /\ accepted # f /\ hand # f /\ f \notin Members(tasks)
          BY <2>0, <3>2, <4>5 DEF IsClient, Apart
        <5>2. \A v \in Workers : job[v] = f => v = w
          BY <2>0, <4>5 DEF Apart
        <5> QED BY <2>1, <3>3, <5>1, <5>2 DEF IsSocket, Members
      <4> QED BY <3>1, <4>1, <4>2, <4>3, <4>4, <4>5 DEF IsClient
    <3>4. \E h : h \in Holders(f)
      BY <2>1, <3>1 DEF IsClient, IsSocket, Members
    <3>5. PICK h : Holders(f) = {h}
      BY <3>3, <3>4
    <3> QED BY <2>3, <3>5, FS_Singleton
  <2> QED BY <2>2, <2>3
<1>2. FdInv => FdOwnership
  BY <1>1 DEF FdInv, Table, IsSocket, FdOwnership
<1> QED BY <1>2, FdInvariant, PTL DEF Spec

-----------------------------------------------------------------------------
\* The answers.

\* RepliesTruthful for one connection and the status s.
Truthful(c, s) ==
  /\ done[c] # {} => Authorized(c)
  /\ "wol" \in done[c] => req[c].path = "on"
  /\ done[c] \cap {"udp", "tcp"} # {} => req[c].path = "off"
  /\ "probe" \in done[c] => req[c].path = "probe"
  /\ s = 200 => (Authorized(c) /\ req[c].path = "probe") \/ done[c] # {}
  /\ s = 500 => Authorized(c) /\ req[c].path \in {"on", "off"} /\ done[c] = {}
  /\ s = 401 => req[c].get /\ ~KeyRead(c) /\ done[c] = {}
  /\ s = 404 => /\ done[c] = {}
                /\ \/ ~req[c].get \/ read[c] = "word"
                   \/ Authorized(c) /\ req[c].path = "other"
  /\ s = 429 => read[c] = "none" /\ done[c] = {}

\* A worker at the call k for c.
Calling(w, c) ==
  /\ reply[c] = 0 /\ Authorized(c)
  /\ stage[w] = "wol" => req[c].path = "on"
  /\ stage[w] \in {"udp", "tcp"} => req[c].path = "off"
  /\ stage[w] = "probe" => req[c].path = "probe"
  /\ stage[w] # "tcp" => done[c] = {}
  /\ stage[w] = "tcp" => \/ status[w] = 200 /\ done[c] = {"udp"}
                         \/ status[w] = 500 /\ done[c] = {}

\* What the place of a connection says of its answer.
Worked(w, c) ==
  /\ stage[w] = "recv" => Fresh(c)
  /\ stage[w] \in Calls => Calling(w, c)
  /\ stage[w] = "reply" => reply[c] = 0 /\ status[w] # 0 /\ Truthful(c, status[w])

Handled ==
  /\ \A c \in Conns : conn[c] \in {"new", "backlog"} => Fresh(c)
  /\ \A f \in Fds : f = accepted \/ f = hand \/ f \in Members(tasks) => Fresh(fdtab[f])
  /\ \A w \in Workers : stage[w] # "idle" => Worked(w, Client(w))
  /\ \A c \in Conns : Truthful(c, reply[c])

AnswerInv == FdInv /\ Handled

\* No two descriptors are of one connection: nobody else has the client of a
\* worker.
LEMMA ClientsApart ==
  ASSUME FdInv, NEW w \in Workers, stage[w] # "idle"
  PROVE  /\ \A v \in Workers \ {w} : stage[v] # "idle" => Client(v) # Client(w)
         /\ \A f \in Fds : f = accepted \/ f = hand \/ f \in Members(tasks) =>
              fdtab[f] # Client(w)
         /\ conn[Client(w)] = "open" /\ Client(w) \in Conns /\ job[w] \in Fds
<1>1. /\ job[w] \in Fds /\ Client(w) \in Conns /\ conn[Client(w)] = "open"
      /\ fdtab[job[w]] = Client(w)
  BY ClientOfWorker
<1>2. \A f \in Fds : fdtab[f] = Client(w) => f = job[w]
  BY <1>1 DEF FdInv, Table
<1>3. job[w] # accepted /\ job[w] # hand /\ job[w] \notin Members(tasks)
  BY <1>1, Basics DEF FdInv, Apart
<1>4. ASSUME NEW v \in Workers \ {w}, stage[v] # "idle" PROVE Client(v) # Client(w)
  <2>1. job[v] \in Fds /\ fdtab[job[v]] = Client(v)
    BY <1>4, ClientOfWorker
  <2>2. job[v] # job[w]
    BY <1>1, <1>4, Basics DEF FdInv, Apart
  <2> QED BY <1>2, <2>1, <2>2
<1> QED BY <1>1, <1>2, <1>3, <1>4

\* A worker whose step touches nothing but its own stage and status and what is
\* known of its client, and leaves these as Handled wants them, keeps Handled.
LEMMA WorkerStep ==
  ASSUME AnswerInv, NEW w \in Workers, stage[w] # "idle",
         UNCHANGED <<poolVars, accepted, netVars>>,
         \A v \in Workers \ {w} : stage'[v] = stage[v] /\ status'[v] = status[v],
         \A f \in Fds : fdtab[f] \in Conns => fdtab'[f] = fdtab[f],
         \A c \in Conns \ {Client(w)} :
           read'[c] = read[c] /\ reply'[c] = reply[c] /\ done'[c] = done[c],
         stage'[w] # "idle" => Worked(w, Client(w))',
         Truthful(Client(w), reply[Client(w)])'
  PROVE  Handled'
<1> USE DEF poolVars, netVars
<1>1. /\ \A v \in Workers \ {w} : stage[v] # "idle" => Client(v) # Client(w)
      /\ \A f \in Fds : f = accepted \/ f = hand \/ f \in Members(tasks) =>
           fdtab[f] # Client(w)
      /\ conn[Client(w)] = "open" /\ Client(w) \in Conns /\ job[w] \in Fds
  BY ClientsApart DEF AnswerInv
<1>2. fdtab'[job[w]] = fdtab[job[w]] /\ Client(w)' = Client(w)
  BY <1>1 DEF Client
<1>3. ASSUME NEW c \in Conns, conn'[c] \in {"new", "backlog"} PROVE Fresh(c)'
  <2>1. conn[c] \in {"new", "backlog"} /\ c # Client(w)
    BY <1>1, <1>3
  <2> QED BY <2>1 DEF AnswerInv, Handled, Fresh
<1>4. ASSUME NEW f \in Fds, f = accepted \/ f = hand \/ f \in Members(tasks)
      PROVE  Fresh(fdtab[f])'
  <2>1. fdtab[f] \in Conns
    BY <1>4 DEF AnswerInv, FdInv, Table, IsClient
  <2>2. fdtab'[f] = fdtab[f] /\ fdtab[f] # Client(w) /\ Fresh(fdtab[f])
    BY <1>1, <1>4, <2>1 DEF AnswerInv, Handled
  <2> QED BY <2>1, <2>2 DEF Fresh
<1>5. ASSUME NEW v \in Workers \ {w}, stage'[v] # "idle" PROVE Worked(v, Client(v))'
  <2>1. stage[v] # "idle" /\ Client(v) \in Conns /\ job[v] \in Fds
        /\ fdtab[job[v]] = Client(v)
    BY <1>5, ClientOfWorker DEF AnswerInv
  <2>2. Client(v)' = Client(v) /\ Client(v) # Client(w)
    BY <1>1, <2>1 DEF Client
  <2>3. Worked(v, Client(v))
    BY <2>1 DEF AnswerInv, Handled
  <2> QED BY <2>1, <2>2, <2>3 DEF Worked, Calling, Fresh, Truthful, Authorized, KeyRead
<1>6. ASSUME NEW c \in Conns, c # Client(w) PROVE Truthful(c, reply[c])'
  BY <1>6 DEF AnswerInv, Handled, Truthful, Authorized, KeyRead
<1> QED BY <1>2, <1>3, <1>4, <1>5, <1>6 DEF Handled

\* The request has been read: the worker answers or calls as the decision says.
LEMMA RecvHandled == ASSUME AnswerInv, NEW w \in Workers, Recv(w) PROVE Handled'
<1> DEFINE c == Client(w)
           d == Decision(req[c], sent[c])
<1>1. stage[w] = "recv" /\ c \in Conns /\ job[w] \in Fds /\ sent[c] # "none"
  BY ClientOfWorker DEF Recv, AnswerInv
<1>2. Fresh(c)
  BY <1>1 DEF AnswerInv, Handled, Worked
<1>3. Types
  BY Parts DEF AnswerInv, FdInv
<1>4. req[c] \in Requests /\ req[c].get \in BOOLEAN /\ req[c].token \in {"key", "longer", "other"}
      /\ req[c].path \in {"on", "off", "probe", "other"} /\ sent[c] \in Bytes
  BY <1>1, <1>3, ServerAssumption DEF Types
<1>6. /\ stage' = [stage EXCEPT ![w] = d[1]]
      /\ status' = [status EXCEPT ![w] = d[2]]
      /\ read' = [read EXCEPT ![c] = sent[c]]
      /\ UNCHANGED <<poolVars, sock, accepted, level, fdtab, netVars, reply, done>>
  BY <1>1 DEF Recv
<1>7. c' = c
  BY <1>6 DEF Client, poolVars
<1>8. /\ stage'[w] = d[1] /\ status'[w] = d[2] /\ read'[c] = sent[c]
      /\ req' = req /\ reply' = reply /\ done' = done
      /\ reply[c] = 0 /\ done[c] = {}
  BY <1>1, <1>2, <1>3, <1>6 DEF Types, Fresh, netVars
<1>5. KeyRead(c)' <=> IsAuthorized(req[c], sent[c])
  <2>1. KeyRead(c)' <=>
          <<req[c].token, sent[c]>> \in {<<"key", "key">>, <<"key", "all">>, <<"longer", "key">>}
    BY <1>7, <1>8 DEF KeyRead
  <2> QED BY <1>1, <1>4, <2>1, ReadKey
<1> HIDE DEF c
<1>9. Worked(w, c)'
  <2> USE DEF Worked, Calling, Truthful, Authorized, Calls
  <2>1. CASE ~Parsed(sent[c]) \/ ~req[c].get
    <3>1. d[1] = "reply" /\ d[2] = 404
      BY <2>1 DEF Decision
    <3> QED BY <1>7, <1>8, <2>1, <3>1 DEF Parsed
  <2>2. CASE Parsed(sent[c]) /\ req[c].get /\ ~IsAuthorized(req[c], sent[c])
    <3>1. d[1] = "reply" /\ d[2] = 401
      BY <2>2 DEF Decision
    <3> QED BY <1>5, <1>7, <1>8, <2>2, <3>1
  <2>3. CASE Parsed(sent[c]) /\ req[c].get /\ IsAuthorized(req[c], sent[c])
    <3>1. KeyRead(c)' /\ req'[c].get
      BY <1>5, <1>8, <2>3
    <3>2. CASE req[c].path = "on"
      <4>1. d[1] = "wol"
        BY <2>3, <3>2 DEF Decision
      <4> QED BY <1>7, <1>8, <2>3, <3>1, <3>2, <4>1
    <3>3. CASE req[c].path = "off"
      <4>1. d[1] = "udp"
        BY <2>3, <3>3 DEF Decision
      <4> QED BY <1>7, <1>8, <2>3, <3>1, <3>3, <4>1
    <3>4. CASE req[c].path = "probe"
      <4>1. d[1] = "probe"
        BY <2>3, <3>4 DEF Decision
      <4> QED BY <1>7, <1>8, <2>3, <3>1, <3>4, <4>1
    <3>5. CASE req[c].path = "other"
      <4>1. d[1] = "reply" /\ d[2] = 404
        BY <2>3, <3>5 DEF Decision
      <4> QED BY <1>7, <1>8, <2>3, <3>1, <3>5, <4>1
    <3> QED BY <1>4, <3>2, <3>3, <3>4, <3>5
  <2> QED BY <2>1, <2>2, <2>3
<1>10. Truthful(c, reply[c])'
  BY <1>7, <1>8, <1>2 DEF Truthful
<1>11. /\ \A v \in Workers \ {w} : stage'[v] = stage[v] /\ status'[v] = status[v]
       /\ \A e \in Conns \ {c} : read'[e] = read[e] /\ reply'[e] = reply[e] /\ done'[e] = done[e]
       /\ fdtab' = fdtab
  BY <1>3, <1>6 DEF Types
<1>12. Worked(w, Client(w))' /\ Truthful(Client(w), reply[Client(w)])'
  BY <1>7, <1>9, <1>10 DEF c
<1> QED BY <1>1, <1>6, <1>11, <1>12, WorkerStep DEF c

\* A call has ended: what its worker has in hand is still true.
LEMMA CallHandled ==
  ASSUME AnswerInv, NEW w \in Workers, NEW k \in BOOLEAN, AfterCall(w, k),
         stage[w] \in Calls,
         UNCHANGED <<poolVars, accepted, netVars, read, reply>>,
         \A f \in Fds : fdtab[f] \in Conns => fdtab'[f] = fdtab[f]
  PROVE  Handled'
<1> DEFINE c == Client(w)
<1>1. c \in Conns /\ job[w] \in Fds /\ fdtab[job[w]] = c /\ stage[w] # "idle"
  BY ClientOfWorker DEF AnswerInv, Calls
<1>2. c' = c
  BY <1>1 DEF Client, poolVars
<1>3. Types
  BY Parts DEF AnswerInv, FdInv
<1>4. Calling(w, c)
  BY <1>1 DEF AnswerInv, Handled, Worked
<1>5. /\ stage' = [stage EXCEPT ![w] = IF stage[w] = "udp" THEN "tcp" ELSE "reply"]
      /\ done' = IF k THEN [done EXCEPT ![c] = @ \cup {stage[w]}] ELSE done
      /\ read' = read /\ reply' = reply /\ req' = req
  BY DEF AfterCall, netVars
<1>6. status' = [status EXCEPT ![w] =
                  CASE stage[w] = "udp"   -> IF k THEN 200 ELSE 500
                    [] stage[w] = "tcp"   -> IF k \/ status[w] = 200 THEN 200 ELSE 500
                    [] stage[w] = "wol"   -> IF k THEN 200 ELSE 500
                    [] stage[w] = "probe" -> 200]
  BY DEF AfterCall
<1>7. /\ stage[w] = "udp" => status'[w] = IF k THEN 200 ELSE 500
      /\ stage[w] = "tcp" => status'[w] = IF k \/ status[w] = 200 THEN 200 ELSE 500
      /\ stage[w] = "wol" => status'[w] = IF k THEN 200 ELSE 500
      /\ stage[w] = "probe" => status'[w] = 200
      /\ stage'[w] = IF stage[w] = "udp" THEN "tcp" ELSE "reply"
      /\ done'[c] = IF k THEN done[c] \cup {stage[w]} ELSE done[c]
  BY <1>1, <1>3, <1>5, <1>6 DEF Types
<1>8. /\ \A v \in Workers \ {w} : stage'[v] = stage[v] /\ status'[v] = status[v]
      /\ \A e \in Conns \ {c} : read'[e] = read[e] /\ reply'[e] = reply[e] /\ done'[e] = done[e]
  BY <1>3, <1>5, <1>6 DEF Types
<1> HIDE DEF c
<1>9. Worked(w, c)' /\ Truthful(c, reply[c])'
  <2> USE DEF Worked, Calling, Truthful, Authorized, KeyRead, Calls
  <2>1. CASE stage[w] = "wol"
    BY <1>2, <1>4, <1>5, <1>7, <2>1
  <2>2. CASE stage[w] = "udp"
    BY <1>2, <1>4, <1>5, <1>7, <2>2
  <2>3. CASE stage[w] = "tcp"
    BY <1>2, <1>4, <1>5, <1>7, <2>3
  <2>4. CASE stage[w] = "probe"
    BY <1>2, <1>4, <1>5, <1>7, <2>4
  <2> QED BY <2>1, <2>2, <2>3, <2>4
<1>10. Worked(w, Client(w))' /\ Truthful(Client(w), reply[Client(w)])'
  BY <1>2, <1>9 DEF c
<1> QED BY <1>1, <1>8, <1>10, WorkerStep DEF c

\* A step that leaves alone what is known of requests, stages and the table,
\* and only puts into the queue or the main loop's hands what it had.
LEMMA QueueHandled ==
  ASSUME AnswerInv, UNCHANGED <<stage, status, fdtab, job, req, read, reply, done>>,
         \A c \in Conns : conn'[c] \in {"new", "backlog"} => conn[c] \in {"new", "backlog"},
         \A f \in Fds : f = accepted' \/ f = hand' \/ f \in Members(tasks') =>
                        f = accepted \/ f = hand \/ f \in Members(tasks)
  PROVE  Handled'
<1>1. \A c \in Conns : /\ Fresh(c)' <=> Fresh(c)
                       /\ Truthful(c, reply[c])' <=> Truthful(c, reply[c])
  BY DEF Fresh, Truthful, Authorized, KeyRead
<1>2. \A c \in Conns : conn'[c] \in {"new", "backlog"} => Fresh(c)'
  BY <1>1 DEF AnswerInv, Handled
<1>3. \A f \in Fds : f = accepted' \/ f = hand' \/ f \in Members(tasks') => Fresh(fdtab[f])'
  BY DEF AnswerInv, Handled, Fresh
<1>4. ASSUME NEW v \in Workers, stage'[v] # "idle" PROVE Worked(v, Client(v))'
  <2>1. Worked(v, Client(v)) /\ Client(v)' = Client(v)
    BY <1>4 DEF AnswerInv, Handled, Client
  <2> QED BY <2>1 DEF Worked, Calling, Fresh, Truthful, Authorized, KeyRead
<1> QED BY <1>1, <1>2, <1>3, <1>4 DEF AnswerInv, Handled

\* Every step keeps what the place of a connection says of its answer.
LEMMA HandledStep == AnswerInv /\ Next => Handled'
<1> USE DEF poolVars, workVars, netVars, logVars
<1> SUFFICES ASSUME AnswerInv, Next PROVE Handled'
  OBVIOUS
<1>0. FdInv /\ Types /\ Pool!TypeOK /\ Waiting /\ Apart /\ Table /\ Handled
  BY Parts DEF AnswerInv, FdInv
<1>1. ASSUME NEW c \in Conns, Connect(c) PROVE Handled'
  <2>1. \A e \in Conns : conn'[e] \in {"new", "backlog"} => conn[e] \in {"new", "backlog"}
    BY <1>0, <1>1 DEF Connect, Types
  <2> QED BY <1>1, <2>1, QueueHandled DEF Connect
<1>2. ASSUME NEW c \in Conns, Arrive(c) PROVE Handled'
  BY <1>2, QueueHandled DEF Arrive
<1>3. CASE Refill
  BY <1>3, QueueHandled DEF Refill
<1>4. CASE Accept
  <2> DEFINE f == LowestFd
             c == Head(backlog)
  <2>1. f \in Fds /\ fdtab[f] = Free
    BY <1>4, LowestIsFree DEF Accept
  <2>2. c \in Conns /\ c \in Members(backlog)
    BY <1>0, <1>4, TailQueue DEF Accept, Types, Waiting
  <2>3. conn[c] = "backlog" /\ Fresh(c)
    BY <1>0, <2>2 DEF Waiting, Handled
  <2> HIDE DEF f, c
  <2>4. /\ accepted' = f
        /\ fdtab' = [fdtab EXCEPT ![f] = c]
        /\ conn' = [conn EXCEPT ![c] = "open"]
        /\ UNCHANGED <<tasks, job, hand, stage, status, req, read, reply, done>>
    BY <1>4 DEF Accept, f, c
  <2>5. ASSUME NEW e \in Conns, conn'[e] \in {"new", "backlog"} PROVE Fresh(e)'
    <3>1. conn[e] \in {"new", "backlog"}
      BY <1>0, <2>2, <2>3, <2>4, <2>5 DEF Types
    <3> QED BY <1>0, <2>4, <3>1 DEF Handled, Fresh
  <2>6. ASSUME NEW g \in Fds, g = accepted' \/ g = hand' \/ g \in Members(tasks')
        PROVE  Fresh(fdtab[g])'
    <3>1. CASE g = f
      <4>1. fdtab'[g] = c
        BY <1>0, <2>1, <2>4, <3>1 DEF Types
      <4> QED BY <2>3, <2>4, <4>1 DEF Fresh
    <3>2. CASE g # f
      <4>1. g = hand \/ g \in Members(tasks)
        BY <2>4, <2>6, <3>2 DEF Members
      <4>2. fdtab'[g] = fdtab[g] /\ Fresh(fdtab[g])
        BY <1>0, <2>4, <3>2, <4>1 DEF Types, Handled
      <4> QED BY <2>4, <4>2 DEF Fresh
    <3> QED BY <3>1, <3>2
  <2>7. ASSUME NEW v \in Workers, stage'[v] # "idle" PROVE Worked(v, Client(v))'
    <3>1. stage[v] # "idle"
      BY <2>4, <2>7
    <3>2. job[v] \in Fds /\ fdtab[job[v]] = Client(v) /\ Client(v) \in Conns
      BY <1>0, <3>1, ClientOfWorker
    <3>3. Client(v)' = Client(v)
      BY <1>0, <2>1, <2>4, <3>2, Basics DEF Types, Client
    <3>4. Worked(v, Client(v))
      BY <1>0, <3>1 DEF Handled
    <3> QED BY <2>4, <3>3, <3>4 DEF Worked, Calling, Fresh, Truthful, Authorized, KeyRead
  <2>8. ASSUME NEW e \in Conns PROVE Truthful(e, reply[e])'
    BY <1>0, <2>4 DEF Handled, Truthful, Authorized, KeyRead
  <2> QED BY <2>5, <2>6, <2>7, <2>8 DEF Handled
<1>5. CASE Admit
  BY <1>5, Basics, QueueHandled DEF Admit, Pool!CallEnqueue, Members
<1>6. CASE Refuse
  <2> DEFINE f == accepted
             c == fdtab[f]
  <2>1. f \in Fds /\ c \in Conns /\ conn[c] = "open"
    BY <1>0, <1>6, ClientAccepted DEF Refuse
  <2>2. \A g \in Fds : fdtab[g] = c => g = f
    BY <1>0, <2>1 DEF Table
  <2>3. Fresh(c) /\ f \notin Members(tasks) /\ f # hand /\ f # NoFd
    BY <1>0, <1>6, <2>1, Basics DEF Handled, Apart, Refuse, Pool!TypeOK
  <2>4. /\ accepted' = NoFd
        /\ reply' = [reply EXCEPT ![c] = 429]
        /\ conn' = [conn EXCEPT ![c] = "closed"]
        /\ fdtab' = [fdtab EXCEPT ![f] = Free]
        /\ UNCHANGED <<tasks, job, hand, stage, status, req, read, done>>
    BY <1>6 DEF Refuse, Closed
  <2>5. \A v \in Workers : stage[v] # "idle" => job[v] # f /\ Client(v) # c
    <3>1. ASSUME NEW v \in Workers, stage[v] # "idle" PROVE job[v] # f /\ Client(v) # c
      <4>1. job[v] \in Fds /\ fdtab[job[v]] = Client(v)
        BY <1>0, <3>1, ClientOfWorker
      <4>2. job[v] # f
        BY <1>0, <4>1, Basics DEF Apart
      <4> QED BY <2>2, <4>1, <4>2
    <3> QED BY <3>1
  <2> HIDE DEF f, c
  <2>6. ASSUME NEW e \in Conns, conn'[e] \in {"new", "backlog"} PROVE Fresh(e)'
    <3>1. conn[e] \in {"new", "backlog"} /\ e # c
      BY <1>0, <2>1, <2>4, <2>6 DEF Types
    <3> QED BY <1>0, <2>1, <2>4, <3>1 DEF Handled, Fresh, Types
  <2>7. ASSUME NEW g \in Fds, g = accepted' \/ g = hand' \/ g \in Members(tasks')
        PROVE  Fresh(fdtab[g])'
    <3>1. (g = hand \/ g \in Members(tasks)) /\ g # f
      BY <2>3, <2>4, <2>7, Basics DEF Members
    <3>2. fdtab'[g] = fdtab[g] /\ fdtab[g] # c /\ Fresh(fdtab[g])
      BY <1>0, <2>1, <2>2, <2>4, <3>1 DEF Types, Handled
    <3> QED BY <1>0, <2>1, <2>4, <3>2 DEF Fresh, Types
  <2>8. ASSUME NEW v \in Workers, stage'[v] # "idle" PROVE Worked(v, Client(v))'
    <3>1. stage[v] # "idle"
      BY <2>4, <2>8
    <3>2. job[v] \in Fds /\ fdtab[job[v]] = Client(v) /\ Client(v) \in Conns
      BY <1>0, <3>1, ClientOfWorker
    <3>3. Client(v)' = Client(v) /\ Client(v) # c
      BY <1>0, <2>1, <2>4, <2>5, <3>1, <3>2 DEF Types, Client
    <3>4. Worked(v, Client(v))
      BY <1>0, <3>1 DEF Handled
    <3>5. reply'[Client(v)] = reply[Client(v)]
      BY <1>0, <2>1, <2>4, <3>2, <3>3 DEF Types
    <3> QED BY <2>4, <3>3, <3>4, <3>5 DEF Worked, Calling, Fresh, Truthful, Authorized, KeyRead
  <2>9. ASSUME NEW e \in Conns PROVE Truthful(e, reply[e])'
    <3>1. CASE e = c
      <4>1. reply'[e] = 429
        BY <1>0, <2>1, <2>4, <3>1 DEF Types
      <4> QED BY <2>3, <2>4, <3>1, <4>1 DEF Truthful, Fresh
    <3>2. CASE e # c
      <4>1. reply'[e] = reply[e]
        BY <1>0, <2>1, <2>4, <3>2 DEF Types
      <4> QED BY <1>0, <2>4, <4>1 DEF Handled, Truthful, Authorized, KeyRead
    <3> QED BY <3>1, <3>2
  <2> QED BY <2>6, <2>7, <2>8, <2>9 DEF Handled
<1>7. CASE EnqueueStep
  <2>1. \A f \in Fds : f = hand' \/ f \in Members(tasks') => f = hand \/ f \in Members(tasks)
    <3>1. CASE Pool!Enqueue
      <4>1. hand \in Fds \/ UNCHANGED tasks
        BY <1>0, <3>1 DEF Pool!Enqueue, Pool!TypeOK
      <4>2. CASE UNCHANGED tasks
        BY <3>1, <4>2, Basics DEF Pool!Enqueue, Members
      <4>3. CASE tasks' = Append(tasks, hand) /\ hand \in Fds
        <5>1. Members(tasks') = Members(tasks) \cup {hand}
          BY <1>0, <4>3, AppendQueue DEF Pool!TypeOK, Apart
        <5> QED BY <3>1, <5>1, Basics DEF Pool!Enqueue
      <4> QED BY <3>1, <4>1, <4>2, <4>3 DEF Pool!Enqueue
    <3>2. CASE Pool!AwaitSpace \/ Pool!SpuriousSpace
      BY <3>2 DEF Pool!AwaitSpace, Pool!SpuriousSpace, Members
    <3> QED BY <1>7, <3>1, <3>2 DEF EnqueueStep
  <2>2. UNCHANGED job
    BY <1>7 DEF EnqueueStep, Pool!Enqueue, Pool!AwaitSpace, Pool!SpuriousSpace
  <2> QED BY <1>7, <2>1, <2>2, QueueHandled DEF EnqueueStep
<1>8. ASSUME NEW w \in Workers, WorkerQueueStep(w) PROVE Handled'
  <2>1. CASE Pool!Take(w) /\ stage' = [stage EXCEPT ![w] = "recv"]
    <3> DEFINE f == Head(tasks)
    <3>1. /\ tasks # <<>> /\ tasks' = Tail(tasks) /\ job' = [job EXCEPT ![w] = f]
          /\ UNCHANGED <<hand, status, accepted, fdtab, conn, req, read, reply, done>>
      BY <1>8, <2>1 DEF WorkerQueueStep, Pool!Take
    <3>2. /\ Members(Tail(tasks)) = Members(tasks) \ {f}
          /\ f \in Fds /\ f \in Members(tasks)
      BY <1>0, <3>1, TailQueue DEF Pool!TypeOK, Apart
    <3>3. Fresh(fdtab[f])
      BY <1>0, <3>2 DEF Handled
    <3> HIDE DEF f
    <3>4. ASSUME NEW v \in Workers, stage'[v] # "idle" PROVE Worked(v, Client(v))'
      <4>1. CASE v = w
        <5>1. stage'[v] = "recv" /\ Client(v)' = fdtab[f]
          BY <1>0, <2>1, <3>1, <4>1 DEF Types, Pool!TypeOK, Client
        <5> QED BY <3>1, <3>3, <5>1 DEF Worked, Fresh, Calls
      <4>2. CASE v # w
        <5>1. stage'[v] = stage[v] /\ Client(v)' = Client(v)
          BY <1>0, <2>1, <3>1, <4>2 DEF Types, Pool!TypeOK, Client
        <5>2. Worked(v, Client(v))
          BY <1>0, <3>4, <5>1 DEF Handled
        <5> QED BY <3>1, <5>1, <5>2 DEF Worked, Calling, Fresh, Truthful, Authorized, KeyRead
      <4> QED BY <4>1, <4>2
    <3>5. \A e \in Conns : (conn'[e] \in {"new", "backlog"} => Fresh(e)')
                           /\ Truthful(e, reply[e])'
      BY <1>0, <3>1 DEF Handled, Fresh, Truthful, Authorized, KeyRead
    <3>6. \A g \in Fds : g = accepted' \/ g = hand' \/ g \in Members(tasks') =>
            Fresh(fdtab[g])'
      BY <1>0, <3>1, <3>2 DEF Handled, Fresh
    <3> QED BY <3>4, <3>5, <3>6 DEF Handled
  <2>2. CASE (Pool!Sleep(w) \/ Pool!SpuriousWakeup(w)) /\ UNCHANGED stage
    BY <1>8, <2>2, QueueHandled DEF WorkerQueueStep, Pool!Sleep, Pool!SpuriousWakeup, Members
  <2> QED BY <1>8, <2>1, <2>2 DEF WorkerQueueStep
<1>9. ASSUME NEW w \in Workers, RecvNothing(w) PROVE Handled'
  <2>1. stage[w] # "idle" /\ Client(w)' = Client(w) /\ stage'[w] = "close"
        /\ \A v \in Workers \ {w} : stage'[v] = stage[v]
    BY <1>0, <1>9 DEF RecvNothing, Types, Client
  <2>2. Client(w) \in Conns
    BY <1>0, <2>1, ClientOfWorker
  <2>3. Truthful(Client(w), reply[Client(w)])'
    BY <1>0, <1>9, <2>1, <2>2 DEF RecvNothing, Handled, Truthful, Authorized, KeyRead
  <2>4. Worked(w, Client(w))'
    BY <2>1 DEF Worked, Calls
  <2> QED BY <1>9, <2>1, <2>3, <2>4, WorkerStep DEF RecvNothing
<1>10. ASSUME NEW w \in Workers, OpenSocket(w) PROVE Handled'
  <2>1. CASE FreeFds = {}
    <3>1. FALSE \in BOOLEAN /\ AfterCall(w, FALSE)
      BY <1>10, <2>1 DEF OpenSocket
    <3> QED BY <1>10, <2>1, <3>1, CallHandled DEF OpenSocket
  <2>2. CASE FreeFds # {}
    <3>1. LowestFd \in Fds /\ fdtab[LowestFd] = Free
      BY <2>2, LowestIsFree
    <3>2. /\ stage[w] # "idle"
          /\ fdtab' = [fdtab EXCEPT ![LowestFd] = Device]
          /\ UNCHANGED <<stage, done, status, poolVars, accepted, netVars, read, reply>>
      BY <1>10, <2>2 DEF OpenSocket, Calls
    <3>3. \A f \in Fds : fdtab[f] \in Conns => fdtab'[f] = fdtab[f]
      BY <1>0, <3>1, <3>2, Basics DEF Types
    <3>4. job[w] \in Fds /\ Client(w) \in Conns /\ fdtab[job[w]] = Client(w)
      BY <1>0, <3>2, ClientOfWorker
    <3>5. Client(w)' = Client(w)
      BY <3>2, <3>3, <3>4 DEF Client
    <3>6. Worked(w, Client(w))' /\ Truthful(Client(w), reply[Client(w)])'
      BY <1>0, <3>2, <3>4, <3>5
         DEF Handled, Worked, Calling, Fresh, Truthful, Authorized, KeyRead
    <3> QED BY <3>2, <3>3, <3>6, WorkerStep
  <2> QED BY <2>1, <2>2
<1>11. ASSUME NEW w \in Workers, EndCall(w) PROVE Handled'
  <2>1. PICK k \in BOOLEAN : AfterCall(w, k)
    BY <1>11 DEF EndCall
  <2>2. /\ stage[w] \in Calls /\ sock[w] \in Fds
        /\ fdtab' = [fdtab EXCEPT ![sock[w]] = Free]
        /\ UNCHANGED <<poolVars, accepted, level, netVars, read, reply>>
    BY <1>0, <1>11 DEF EndCall, Types
  <2>3. fdtab[sock[w]] = Device
    BY <1>0, <2>2 DEF Table, IsSocket
  <2>4. \A f \in Fds : fdtab[f] \in Conns => fdtab'[f] = fdtab[f]
    BY <1>0, <2>2, <2>3, Basics DEF Types
  <2> QED BY <2>1, <2>2, <2>4, CallHandled
<1>12. ASSUME NEW w \in Workers, Reply(w) PROVE Handled'
  <2> DEFINE c == Client(w)
  <2>1. stage[w] # "idle" /\ stage[w] = "reply" /\ c \in Conns /\ c' = c
    BY <1>0, <1>12, ClientOfWorker DEF Reply, Client
  <2>2. Truthful(c, status[w])
    BY <1>0, <2>1 DEF Handled, Worked
  <2>3. /\ reply'[c] = status[w] /\ stage'[w] = "close"
        /\ UNCHANGED <<read, done, req, poolVars, accepted, netVars, fdtab>>
        /\ \A v \in Workers \ {w} : stage'[v] = stage[v] /\ status'[v] = status[v]
        /\ \A e \in Conns \ {c} : reply'[e] = reply[e]
    BY <1>0, <1>12, <2>1 DEF Reply, Types
  <2> HIDE DEF c
  <2>4. Truthful(c, reply[c])'
    BY <2>1, <2>2, <2>3 DEF Truthful, Authorized, KeyRead
  <2>5. Worked(w, c)'
    BY <2>3 DEF Worked, Calls
  <2> QED BY <2>1, <2>3, <2>4, <2>5, WorkerStep DEF c
<1>13. ASSUME NEW w \in Workers, Close(w) PROVE Handled'
  <2>1. stage[w] = "close" /\ job[w] \in Fds /\ Client(w) \in Conns
        /\ fdtab[job[w]] = Client(w) /\ worker[w] = "busy"
    BY <1>0, <1>13, ClientOfWorker DEF Close
  <2>2. /\ \A v \in Workers \ {w} : stage[v] # "idle" => Client(v) # Client(w)
        /\ \A f \in Fds : f = accepted \/ f = hand \/ f \in Members(tasks) =>
             fdtab[f] # Client(w)
    BY <1>0, <2>1, ClientsApart
  <2>3. /\ job' = [job EXCEPT ![w] = NoFd]
        /\ fdtab' = [fdtab EXCEPT ![job[w]] = Free]
        /\ conn' = [conn EXCEPT ![Client(w)] = "closed"]
        /\ stage' = [stage EXCEPT ![w] = "idle"]
        /\ UNCHANGED <<tasks, hand, status, accepted, req, read, reply, done>>
    BY <1>13 DEF Close, Pool!Finish, Closed
  <2>4. ASSUME NEW e \in Conns, conn'[e] \in {"new", "backlog"} PROVE Fresh(e)'
    <3>1. conn[e] \in {"new", "backlog"}
      BY <1>0, <2>1, <2>3, <2>4 DEF Types
    <3> QED BY <1>0, <2>3, <3>1 DEF Handled, Fresh
  <2>5. ASSUME NEW g \in Fds, g = accepted' \/ g = hand' \/ g \in Members(tasks')
        PROVE  Fresh(fdtab[g])'
    <3>1. g = accepted \/ g = hand \/ g \in Members(tasks)
      BY <2>3, <2>5 DEF Members
    <3>2. fdtab[g] # Client(w) /\ Fresh(fdtab[g])
      BY <1>0, <2>2, <3>1 DEF Handled
    <3>3. fdtab'[g] = fdtab[g]
      BY <1>0, <2>1, <2>3, <3>2 DEF Types
    <3> QED BY <2>3, <3>2, <3>3 DEF Fresh
  <2>6. ASSUME NEW v \in Workers, stage'[v] # "idle" PROVE Worked(v, Client(v))'
    <3>1. v # w /\ stage[v] # "idle" /\ stage'[v] = stage[v]
      BY <1>0, <2>1, <2>3, <2>6 DEF Types
    <3>2. job[v] \in Fds /\ fdtab[job[v]] = Client(v)
      BY <1>0, <3>1, ClientOfWorker
    <3>3. job[v] # job[w]
      BY <2>1, <2>2, <3>1, <3>2
    <3>4. Client(v)' = Client(v)
      BY <1>0, <2>1, <2>3, <3>1, <3>2, <3>3 DEF Types, Pool!TypeOK, Client
    <3>5. Worked(v, Client(v))
      BY <1>0, <3>1 DEF Handled
    <3> QED BY <2>3, <3>1, <3>4, <3>5 DEF Worked, Calling, Fresh, Truthful, Authorized, KeyRead
  <2>7. ASSUME NEW e \in Conns PROVE Truthful(e, reply[e])'
    BY <1>0, <2>3 DEF Handled, Truthful, Authorized, KeyRead
  <2> QED BY <2>4, <2>5, <2>6, <2>7 DEF Handled
<1>14. ASSUME NEW w \in Workers, Recv(w) PROVE Handled'
  BY <1>14, RecvHandled
<1> QED
  BY <1>1, <1>2, <1>3, <1>4, <1>5, <1>6, <1>7, <1>8, <1>9, <1>10, <1>11, <1>12, <1>13,
     <1>14 DEF Next, Process

\* At the start nothing has happened to anyone.
LEMMA AnswerInit == Init => AnswerInv
<1> SUFFICES ASSUME Init PROVE AnswerInv
  OBVIOUS
<1>1. FdInv
  BY FdInit
<1>2. \A c \in Conns : Fresh(c) /\ Truthful(c, reply[c])
  BY DEF Init, Fresh, Truthful
<1>3. \A f \in Fds : ~(f = accepted \/ f = hand \/ f \in Members(tasks))
  <2>1. tasks = <<>> /\ Members(tasks) = {}
    BY EmptyQueue DEF Init, Pool!Init
  <2> QED BY <2>1, Basics DEF Init, Pool!Init
<1>4. \A w \in Workers : stage[w] = "idle"
  BY DEF Init
<1> QED BY <1>1, <1>2, <1>3, <1>4 DEF AnswerInv, Handled

\* Every step keeps both invariants.
LEMMA AnswerStep == AnswerInv /\ [Next]_vars => AnswerInv'
<1>1. AnswerInv /\ UNCHANGED vars => Handled'
  <2> SUFFICES ASSUME AnswerInv, UNCHANGED vars PROVE Handled'
    OBVIOUS
  <2> QED BY QueueHandled DEF vars, poolVars, workVars, netVars, logVars, Members
<1> QED BY <1>1, FdInvStep, HandledStep DEF AnswerInv

\* Both invariants hold, whatever the scheduling.
LEMMA AnswerInvariant == SafeSpec => []AnswerInv
BY AnswerInit, AnswerStep, PTL DEF SafeSpec

\* What a client is told is true of its own request, across the descriptor
\* table and the pool (main.cpp:225-229, 249-317, 447-452).
THEOREM AnswersTruthful == Spec => []RepliesTruthful
<1>1. AnswerInv => RepliesTruthful
  BY DEF AnswerInv, Handled, Truthful, RepliesTruthful
<1> QED BY <1>1, AnswerInvariant, PTL DEF Spec

\* Each connection is given the service of PcService: every step is a call or
\* the answer of one client's request, or none of the service's business
\* (main.cpp:205-230, 249-317, 447-452).
THEOREM ImplementsService == Spec => ServiceSpec
<1> USE DEF poolVars, workVars, netVars, logVars, Service!vars
<1>1. Init => Service!Init
  <2> SUFFICES ASSUME Init PROVE Service!Init
    OBVIOUS
  <2>1. \A c \in Conns : req[c].get \in BOOLEAN /\ req[c].path \in {"on", "off", "probe", "other"}
    BY ServerAssumption DEF Init
  <2>2. Shown \in [Conns -> [acts : BOOLEAN, key : BOOLEAN,
                             path : {"on", "off", "probe", "other"}]]
    BY <2>1 DEF Shown
  <2> QED BY <2>2 DEF Init, Service!Init
<1>2. AnswerInv /\ [Next]_vars => [Service!Next]_(Service!vars)
  <2> SUFFICES ASSUME AnswerInv, [Next]_vars, ~UNCHANGED Service!vars
               PROVE  Service!Next
    OBVIOUS
  <2>0. FdInv /\ Types /\ Handled
    BY Parts DEF AnswerInv, FdInv
  <2>1. req \in [Conns -> Requests] /\ \A c \in Conns :
          /\ req[c].get \in BOOLEAN /\ req[c].token \in {"key", "longer", "other"}
          /\ req[c].path \in {"on", "off", "probe", "other"}
    BY <2>0, ServerAssumption DEF Types
  <2>2. req' = req /\ Shown' = Shown
    BY DEF vars, Next, Process, Connect, Arrive, Refill, Accept, Admit, Refuse, EnqueueStep,
           WorkerQueueStep, Recv, RecvNothing, OpenSocket, EndCall, Reply, Close, Shown
  <2>3. \A c \in Conns : /\ Authorized(c) => Shown[c].acts /\ Shown[c].key
                          /\ Shown[c].path = req[c].path
    BY DEF Shown, Authorized, KeyRead
  <2>4. ~UNCHANGED <<done, reply>>
    BY <2>2
  <2>5. ASSUME NEW c \in Conns, NEW s \in {401, 404, 429, 200, 500}, Truthful(c, s)
        PROVE  s \in Service!Answers(Shown[c], done[c])
    <3>1. s = 200 => done[c] # {} \/ Service!Wanted(Shown[c]) = {"probe"}
      BY <2>5, <2>3 DEF Truthful, Service!Wanted
    <3>2. s = 500 => done[c] = {} /\ Service!Wanted(Shown[c]) \in {{"wol"}, {"udp", "tcp"}}
      <4>1. CASE req[c].path = "on"
        BY <2>5, <2>3, <4>1 DEF Truthful, Service!Wanted
      <4>2. CASE req[c].path = "off"
        BY <2>5, <2>3, <4>2 DEF Truthful, Service!Wanted
      <4> QED BY <2>5, <4>1, <4>2 DEF Truthful
    <3>3. s \in {401, 404, 429} => done[c] = {}
      BY <2>5 DEF Truthful
    <3> QED BY <3>1, <3>2, <3>3 DEF Service!Answers
  <2>6. ASSUME NEW w \in Workers, NEW k \in BOOLEAN, AfterCall(w, k), stage[w] \in Calls,
               UNCHANGED <<req, reply>>
        PROVE  Service!Next
    <3>1. Client(w) \in Conns /\ Calling(w, Client(w))
      BY <2>0, <2>6, ClientOfWorker DEF Handled, Worked, Calls
    <3>2. k /\ done' = [done EXCEPT ![Client(w)] = @ \cup {stage[w]}]
      BY <2>6, <2>4 DEF AfterCall
    <3>3. stage[w] \in Service!Wanted(Shown[Client(w)])
      BY <2>6, <2>3, <3>1 DEF Calling, Calls, Service!Wanted
    <3>4. Service!Call(Client(w), stage[w])
      BY <2>6, <2>2, <3>1, <3>2, <3>3 DEF Calling, Service!Call
    <3> QED BY <2>6, <3>1, <3>4 DEF Service!Next, Calls
  <2>7. CASE Refuse
    <3>1. PICK c \in Conns : c = fdtab[accepted]
      BY <2>0, <2>7, ClientAccepted DEF Refuse
    <3>2. Fresh(c)
      BY <2>0, <2>7, <3>1, ClientAccepted DEF Handled, Refuse
    <3>3. 429 \in Service!Answers(Shown[c], done[c])
      BY <3>2 DEF Fresh, Service!Answers
    <3>4. Service!Answer(c, 429)
      BY <2>7, <2>2, <3>1, <3>2, <3>3 DEF Refuse, Fresh, Service!Answer
    <3> QED BY <3>4 DEF Service!Next
  <2>8. ASSUME NEW w \in Workers, OpenSocket(w) PROVE Service!Next
    <3>1. FreeFds = {}
      BY <2>8, <2>4 DEF OpenSocket
    <3>2. FALSE \in BOOLEAN /\ AfterCall(w, FALSE) /\ stage[w] \in Calls /\ UNCHANGED <<req, reply>>
      BY <2>8, <3>1 DEF OpenSocket
    <3> QED BY <2>6, <3>2
  <2>9. ASSUME NEW w \in Workers, EndCall(w) PROVE Service!Next
    <3>1. PICK k \in BOOLEAN : AfterCall(w, k)
      BY <2>9 DEF EndCall
    <3> QED BY <2>6, <2>9, <3>1 DEF EndCall
  <2>10. ASSUME NEW w \in Workers, Reply(w) PROVE Service!Next
    <3>1. stage[w] = "reply" /\ Client(w) \in Conns
      BY <2>0, <2>10, ClientOfWorker DEF Reply
    <3>2. reply[Client(w)] = 0 /\ status[w] # 0 /\ Truthful(Client(w), status[w])
      BY <2>0, <3>1 DEF Handled, Worked
    <3>3. status[w] \in {401, 404, 200, 500}
      BY <2>0, <3>2 DEF Types
    <3>4. ASSUME NEW s \in {401, 404, 200, 500}, status[w] = s PROVE Service!Next
      <4>1. Truthful(Client(w), s)
        BY <3>2, <3>4
      <4>2. s \in Service!Answers(Shown[Client(w)], done[Client(w)])
        BY <2>5, <3>1, <3>4, <4>1
      <4>3. Service!Answer(Client(w), s)
        BY <2>10, <2>2, <3>2, <3>4, <4>2 DEF Reply, Service!Answer
      <4> QED BY <3>1, <3>4, <4>3 DEF Service!Next
    <3> QED BY <3>3, <3>4
  <2>11. CASE UNCHANGED <<done, reply>>
    BY <2>11, <2>2
  <2> QED
    BY <2>7, <2>8, <2>9, <2>10, <2>11
       DEF vars, Next, Process, Connect, Arrive, Refill, Accept, Admit, EnqueueStep,
           WorkerQueueStep, Recv, RecvNothing, Close
<1> QED BY <1>1, <1>2, AnswerInvariant, PTL DEF Spec, SafeSpec, ServiceSpec, Service!Spec

-----------------------------------------------------------------------------
\* The server uses its pool as module ThreadPool says: main calls enqueue with
\* descriptors the pool does not have, and only the pool touches its queue,
\* its workers' places and its condition variables (main.cpp:339-366, 436-456).
THEOREM ImplementsPool == Spec => Pool!SafeSpec
<1>1. Init => Pool!Init
  BY DEF Init
<1>2. [PP!Next]_(PP!vars) => [Pool!Next]_(Pool!vars)
  <2>1. PP!Next => Pool!Next
    BY DEF PP!Next, Pool!Next, PP!Take, Pool!Take, PP!Sleep, Pool!Sleep, PP!Exit, Pool!Exit,
           PP!Finish, Pool!Finish, PP!SpuriousWakeup, Pool!SpuriousWakeup,
           PP!Offer, Pool!Offer, PP!CallEnqueue, Pool!CallEnqueue, PP!InUse, Pool!InUse,
           PP!Enqueue, Pool!Enqueue, PP!NotifyOneTask, Pool!NotifyOneTask,
           PP!Waiters, Pool!Waiters, PP!AwaitSpace, Pool!AwaitSpace,
           PP!SpuriousSpace, Pool!SpuriousSpace, PP!SetStop, Pool!SetStop,
           PP!NotifyAll, Pool!NotifyAll, PP!Join, Pool!Join,
           PP!Destroyed, Pool!Destroyed, PP!vars, Pool!vars
  <2> QED BY <2>1 DEF PP!vars, Pool!vars
<1> QED BY <1>1, <1>2, PoolStep, FdInvariant, PTL DEF Spec, SafeSpec, Pool!SafeSpec

\* What ThreadPoolProofs shows of a pool holds of the one in the server.
LEMMA PoolAlone ==
  Spec => /\ [](PP!WorkConserving /\ PP!SleepsOnlyWhenFull /\ PP!SomebodyRuns)
          /\ PP!QueueSafeSpec
<1>1. Init => PP!Init
  BY DEF Init, Pool!Init, PP!Init
<1>2. IsFiniteSet(Workers) /\ Workers # {} /\ NoFd \notin Fds /\ MaxQueue \in Nat \ {0}
  BY ServerAssumption, Basics
<1>3. PP!IsFiniteSet(Workers)
  BY <1>2 DEF IsFiniteSet, PP!IsFiniteSet
<1>4. PP!SafeSpec => []PP!WorkConserving
  BY <1>2, <1>3, PP!WakeupInvariant
<1>5. PP!SafeSpec => []PP!SleepsOnlyWhenFull
  BY <1>2, <1>3, PP!OwnerInvariant
<1>6. PP!SafeSpec => []PP!SomebodyRuns
  BY <1>2, <1>3, PP!RunningInvariant
<1>7. PP!SafeSpec => PP!QueueSafeSpec
  BY <1>2, <1>3, PP!QueueRefinement
<1> QED
  BY <1>1, <1>4, <1>5, <1>6, <1>7, PoolStep, FdInvariant, PTL DEF Spec, SafeSpec, PP!SafeSpec

\* The pool keeps, inside the server, what ThreadPoolProofs shows of it alone:
\* main never enqueues a descriptor the pool still has, so no push is slept
\* through and enqueue blocks accept only while the queue is full
\* (main.cpp:339-366, 436-456).
THEOREM PoolKeepsItsWord == Spec => [](Pool!WorkConserving /\ Pool!SleepsOnlyWhenFull)
<1>1. PP!WorkConserving /\ PP!SleepsOnlyWhenFull =>
        Pool!WorkConserving /\ Pool!SleepsOnlyWhenFull
  BY DEF PP!WorkConserving, Pool!WorkConserving, PP!SleepsOnlyWhenFull,
       Pool!SleepsOnlyWhenFull, PP!Waiters, Pool!Waiters, PP!Awake, Pool!Awake,
       PP!Cardinality, Pool!Cardinality
<1> QED BY <1>1, PoolAlone, PTL

\* The server never stalls on its pool: while descriptors wait in the queue,
\* or the main loop is asleep in enqueue and accepts nobody, some worker is
\* serving a client or on its way to the next (main.cpp:339-366).
THEOREM ServerNeverStalls ==
  Spec => [](tasks # <<>> \/ owner = "waiting" =>
               \E w \in Workers : worker[w] \in {"lock", "busy"})
<1>1. PP!SomebodyRuns => (tasks # <<>> \/ owner = "waiting" =>
                            \E w \in Workers : worker[w] \in {"lock", "busy"})
  BY DEF PP!SomebodyRuns, PP!Running
<1> QED BY <1>1, PoolAlone, PTL

\* Through the pool the server is a bounded FIFO queue of descriptors: clients
\* are taken in the order they were admitted, each once, whatever the mutex,
\* the condition variables and the descriptors in between (main.cpp:320-379).
THEOREM ImplementsQueue == Spec => Pool!QueueSafeSpec
<1>1. PP!Queue!Init => Pool!Queue!Init
  BY DEF PP!Queue!Init, Pool!Queue!Init
<1>2. [PP!Queue!Next]_(PP!Queue!vars) => [Pool!Queue!Next]_(Pool!Queue!vars)
  BY DEF PP!Queue!Next, Pool!Queue!Next, PP!Queue!vars, Pool!Queue!vars,
         PP!Queue!Offer, Pool!Queue!Offer, PP!Queue!Known, Pool!Queue!Known,
         PP!Queue!Accept, Pool!Queue!Accept, PP!Queue!StartSome, Pool!Queue!StartSome,
         PP!Queue!Start, Pool!Queue!Start, PP!Queue!End, Pool!Queue!End
<1> QED
  BY <1>1, <1>2, PoolAlone, PTL
     DEF PP!QueueSafeSpec, Pool!QueueSafeSpec, PP!Queue!SafeSpec, Pool!Queue!SafeSpec

-----------------------------------------------------------------------------
\* The values of a function are no more than its arguments.
LEMMA ValuesBound ==
  ASSUME NEW S, NEW f, IsFiniteSet(S)
  PROVE  /\ IsFiniteSet({f[x] : x \in S})
         /\ Cardinality({f[x] : x \in S}) <= Cardinality(S)
<1> DEFINE T == {f[x] : x \in S}
           g == [x \in S |-> f[x]]
<1>1. g \in Surjection(S, T)
  BY DEF Surjection
<1> QED BY <1>1, FS_Surjection

\* A union is no larger than its parts together.
LEMMA UnionBound ==
  ASSUME NEW S, NEW T, IsFiniteSet(S), IsFiniteSet(T)
  PROVE  /\ IsFiniteSet(S \cup T)
         /\ Cardinality(S \cup T) <= Cardinality(S) + Cardinality(T)
<1>1. IsFiniteSet(S \cap T)
  BY FS_Subset
<1>2. Cardinality(S) \in Nat /\ Cardinality(T) \in Nat /\ Cardinality(S \cap T) \in Nat
  BY <1>1, FS_CardinalityType
<1>3. /\ IsFiniteSet(S \cup T)
      /\ Cardinality(S \cup T) = Cardinality(S) + Cardinality(T) - Cardinality(S \cap T)
  BY FS_Union
<1> QED BY <1>2, <1>3

\* accept and socket never run out of descriptors when the process may open
\* MaxQueue + 1 and two per worker (main.cpp:179, 214, 436-440).
THEOREM DescriptorsSuffice == Spec => []FdsSuffice
<1>1. ASSUME FdInv, NumFds >= MaxQueue + 2 * Cardinality(Workers) + 1, FreeFds = {},
             \/ owner = "outside" /\ accepted = NoFd
             \/ \E w \in Workers : stage[w] \in Calls /\ sock[w] = NoFd
      PROVE  FALSE
  <2> DEFINE n == Cardinality(Workers)
             A == {accepted, hand} \ {NoFd}
             M == {tasks[i] : i \in 1..Len(tasks)}
             J == {job[w] : w \in Workers}
  <2>0. Types /\ Pool!TypeOK /\ Apart /\ Table
    BY <1>1, Parts DEF FdInv
  <2>1. n \in Nat /\ MaxQueue \in Nat /\ NumFds \in Nat /\ IsFiniteSet(Workers)
    BY ServerAssumption, FS_CardinalityType
  <2>2. Len(tasks) \in Nat /\ Len(tasks) <= MaxQueue
        /\ IsFiniteSet(1..Len(tasks)) /\ Cardinality(1..Len(tasks)) = Len(tasks)
    <3>1. Len(tasks) \in Nat /\ Len(tasks) <= MaxQueue
      BY <2>0 DEF Pool!TypeOK
    <3>2. /\ IsFiniteSet(1..Len(tasks))
          /\ Cardinality(1..Len(tasks)) = IF 1 > Len(tasks) THEN 0 ELSE Len(tasks) - 1 + 1
      BY <3>1, FS_Interval, Z3
    <3> QED BY <3>1, <3>2
  <2>3. IsFiniteSet(M) /\ Cardinality(M) <= MaxQueue /\ Cardinality(M) \in Nat
    <3>1. IsFiniteSet(M) /\ Cardinality(M) <= Cardinality(1..Len(tasks))
      BY <2>2, ValuesBound
    <3>2. Cardinality(M) \in Nat
      BY <3>1, FS_CardinalityType
    <3> QED BY <2>1, <2>2, <3>1, <3>2
  <2>4. IsFiniteSet(J) /\ Cardinality(J) <= n /\ Cardinality(J) \in Nat
    BY <2>1, ValuesBound, FS_CardinalityType
  <2>5. \/ accepted = NoFd /\ hand = NoFd /\ A = {}
        \/ accepted = NoFd /\ hand # NoFd /\ A = {hand}
        \/ accepted # NoFd /\ hand = NoFd /\ A = {accepted}
    BY <2>0 DEF Apart, Pool!TypeOK
  <2>6. /\ IsFiniteSet(A) /\ Cardinality(A) \in 0..1
        /\ owner = "outside" /\ accepted = NoFd => Cardinality(A) = 0
    <3>1. owner = "outside" => hand = NoFd
      BY <2>0 DEF Pool!TypeOK
    <3>2. CASE accepted = NoFd /\ A = {}
      BY <3>2, FS_EmptySet
    <3>3. ASSUME NEW x, A = {x} PROVE IsFiniteSet(A) /\ Cardinality(A) = 1
      BY <3>3, FS_Singleton
    <3> HIDE DEF A
    <3> QED BY <2>5, <3>1, <3>2, <3>3
  <2>7. \E W \in SUBSET Workers :
          /\ \A v \in Workers \ W : sock[v] = NoFd
          /\ Cardinality(A) + Cardinality(W) <= n
    <3>1. CASE owner = "outside" /\ accepted = NoFd
      BY <2>1, <2>6, <3>1
    <3>2. ASSUME NEW w \in Workers, sock[w] = NoFd PROVE <2>7
      <4>1. Cardinality(Workers \ {w}) = n - 1
        BY <2>1, FS_RemoveElement
      <4> QED BY <2>1, <2>6, <3>2, <4>1
    <3> QED BY <1>1, <3>1, <3>2
  <2>8. PICK W \in SUBSET Workers :
          /\ \A v \in Workers \ W : sock[v] = NoFd
          /\ Cardinality(A) + Cardinality(W) <= n
    BY <2>7
  <2> DEFINE K == {sock[w] : w \in W}
  <2>9. IsFiniteSet(K) /\ Cardinality(K) <= Cardinality(W)
        /\ Cardinality(K) \in Nat /\ Cardinality(W) \in Nat
    BY <2>1, FS_Subset, ValuesBound, FS_CardinalityType
  <2>10. Fds \subseteq (A \cup M) \cup (J \cup K)
    <3>1. ASSUME NEW f \in Fds PROVE f \in (A \cup M) \cup (J \cup K)
      <4>1. fdtab[f] # Free /\ f # NoFd
        BY <1>1, Basics DEF FreeFds
      <4>2. IsClient(f) \/ IsSocket(f)
        BY <2>0, <4>1 DEF Table, Types
      <4>3. CASE IsClient(f)
        BY <4>1, <4>3 DEF IsClient, Members
      <4>4. CASE IsSocket(f)
        BY <2>8, <4>1, <4>4 DEF IsSocket
      <4> QED BY <4>2, <4>3, <4>4
    <3> QED BY <3>1
  <2> HIDE DEF A, M, J, K, n
  <2>11. /\ IsFiniteSet(A \cup M) /\ Cardinality(A \cup M) <= Cardinality(A) + Cardinality(M)
         /\ IsFiniteSet(J \cup K) /\ Cardinality(J \cup K) <= Cardinality(J) + Cardinality(K)
    BY <2>3, <2>4, <2>6, <2>9, UnionBound
  <2>12. /\ IsFiniteSet((A \cup M) \cup (J \cup K))
         /\ Cardinality((A \cup M) \cup (J \cup K)) <= Cardinality(A \cup M) + Cardinality(J \cup K)
    BY <2>11, UnionBound
  <2>13. Cardinality(Fds) <= Cardinality((A \cup M) \cup (J \cup K))
         /\ Cardinality(Fds) = NumFds
    <3>1. Cardinality(Fds) = NumFds
      BY <2>1, FS_Interval DEF Fds
    <3> QED BY <2>10, <2>12, <3>1, FS_Subset
  <2>14. /\ Cardinality(A \cup M) \in Nat /\ Cardinality(J \cup K) \in Nat
         /\ Cardinality((A \cup M) \cup (J \cup K)) \in Nat
    BY <2>11, <2>12, FS_CardinalityType
  <2>15. NumFds >= MaxQueue + 2 * n + 1
    BY <1>1 DEF n
  <2> QED BY <2>1, <2>3, <2>4, <2>6, <2>8, <2>9, <2>11, <2>12, <2>13, <2>14, <2>15
<1>2. FdInv => FdsSuffice
  BY <1>1 DEF FdsSuffice
<1> QED BY <1>2, FdInvariant, PTL DEF Spec
=============================================================================
