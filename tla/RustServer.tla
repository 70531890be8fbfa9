----------------------------- MODULE RustServer -----------------------------
(***************************************************************************)
(* The HTTP server of SmartHomePCControl-Rust/src/main.rs: one task per    *)
(* connection on a runtime with a single thread.  A task is woken when its *)
(* socket has news, waits in the run queue, and is polled until it awaits. *)
(* The middleware awaits nothing but the permit and the handlers call the  *)
(* PC with blocking calls, so a request that has begun keeps the thread up *)
(* to its answer, while clients go on connecting, sending and leaving.     *)
(*                                                                         *)
(* The limiter is the ideal bucket of module Bucket counted in requests    *)
(* (see TokenBucket).  A connection is kept alive: it asks again after an  *)
(* answer.  Of a request "none", a "part" or "all" of the head has come;   *)
(* nothing limits how long a head may take.                                *)
(***************************************************************************)
EXTENDS Integers, Sequences, FiniteSets

CONSTANTS
  Conns,          \* connections, each of which may be made again
  Acceptor,       \* the task of main, in axum::serve
  Idle,           \* no task is being polled
  MaxConcurrent,  \* MAX_CONCURRENT_REQUESTS, the permits
  Capacity,       \* MAX_REQUESTS_PER_SECOND, as the burst of the limiter
  Requests,       \* requests: [method, token, path]
  Envs            \* environments: [web, home, mac, ip]

ASSUME RustAssumption ==
  /\ Acceptor \notin Conns /\ Idle \notin Conns \cup {Acceptor}
  /\ MaxConcurrent \in Nat \ {0}
  /\ Capacity \in Nat \ {0}
  /\ Requests \subseteq [method : {"get", "head", "other"}, token : {"none", "empty", "key"},
                         path : {"on", "off", "probe", "other"}]
  /\ Envs \subseteq [web : {"unset", "empty", "key"}, home : {"unset", "empty", "key"},
                     mac : {"good", "bad", "split"}, ip : {"address", "name"}]

VARIABLES
  env,        \* the environment variables of the process
  queue,      \* the run queue of the runtime
  running,    \* the task that is being polled
  place,      \* where in the middleware or a handler it is
  status,     \* the status it is going to answer
  permits,    \* concurrency_semaphore
  level,      \* requests the limiter would still admit
  backlog,    \* connections the kernel holds for accept
  conn,       \* state of each connection
  gone,       \* whether its client has closed it
  sent,       \* how much of its request has arrived
  seen,       \* how much of that its task has read
  req,        \* the request
  done,       \* the calls to the PC made for it that succeeded
  reply       \* its answer, 0 for none yet

threadVars == <<running, place, status, permits, level>>
clientVars == <<backlog, conn, gone, sent, req>>
logVars == <<done, reply>>
vars == <<env, queue, threadVars, seen, clientVars, logVars>>

Calls == {"wol", "udp", "tcp", "probe"}

\* What is recorded for a connection that asks nothing.
NoRequest == [method |-> "other", token |-> "none", path |-> "other"]

Init ==
  /\ env \in Envs
  /\ queue = <<>>
  /\ running = Idle
  /\ place = "none"
  /\ status = 0
  /\ permits = MaxConcurrent
  /\ level = Capacity
  /\ backlog = <<>>
  /\ conn = [c \in Conns |-> "closed"]
  /\ gone = [c \in Conns |-> TRUE]
  /\ sent = [c \in Conns |-> "none"]
  /\ seen = [c \in Conns |-> "none"]
  /\ req = [c \in Conns |-> NoRequest]
  /\ done = [c \in Conns |-> {}]
  /\ reply = [c \in Conns |-> 0]

\* web_api_key: the fallback is for a variable that is not there, not for an
\* empty one.
ApiKey(e) == IF e.web # "unset" THEN e.web
             ELSE IF e.home # "unset" THEN e.home ELSE "empty"

-----------------------------------------------------------------------------
\* Clients, the kernel and the clock.

\* The record of c starts anew with the request r.
Record(c, r) ==
  /\ req' = [req EXCEPT ![c] = r]
  /\ sent' = [sent EXCEPT ![c] = "none"]
  /\ seen' = [seen EXCEPT ![c] = "none"]
  /\ done' = [done EXCEPT ![c] = {}]
  /\ reply' = [reply EXCEPT ![c] = 0]

Connect(c) ==
  /\ conn[c] = "closed"
  /\ \E r \in Requests : Record(c, r)
  /\ conn' = [conn EXCEPT ![c] = "backlog"]
  /\ backlog' = Append(backlog, c)
  /\ gone' = [gone EXCEPT ![c] = FALSE]
  /\ UNCHANGED <<env, queue, threadVars>>

\* The client has its answer and keeps the connection.
AskAgain(c) ==
  /\ conn[c] = "open" /\ ~gone[c] /\ reply[c] # 0
  /\ \E r \in Requests : Record(c, r)
  /\ UNCHANGED <<env, queue, threadVars, backlog, conn, gone>>

Arrive(c) ==
  /\ conn[c] # "closed" /\ ~gone[c] /\ reply[c] = 0
  /\ \/ sent[c] = "none" /\ sent' = [sent EXCEPT ![c] = "part"]
     \/ sent[c] # "all" /\ sent' = [sent EXCEPT ![c] = "all"]
  /\ UNCHANGED <<env, queue, threadVars, backlog, conn, gone, seen, req, logVars>>

Leave(c) ==
  /\ conn[c] # "closed" /\ ~gone[c]
  /\ gone' = [gone EXCEPT ![c] = TRUE]
  /\ UNCHANGED <<env, queue, threadVars, backlog, conn, sent, seen, req, logVars>>

Refill ==
  /\ level < Capacity
  /\ level' = level + 1
  /\ UNCHANGED <<env, queue, running, place, status, permits, seen, clientVars, logVars>>

-----------------------------------------------------------------------------
\* The runtime.

Queued(t) == \E i \in 1..Len(queue) : queue[i] = t

\* The task of a socket with news is put in the run queue.  The runtime asks
\* its I/O driver between polls, however many tasks are queued; the order of
\* what it finds is any.
Wake(t) ==
  /\ running # t
  /\ ~Queued(t)
  /\ IF t = Acceptor
       THEN backlog # <<>>
       ELSE conn[t] = "open" /\ (gone[t] \/ sent[t] # seen[t])
  /\ queue' = Append(queue, t)
  /\ UNCHANGED <<env, threadVars, seen, clientVars, logVars>>

\* The oldest woken task is polled.
Polled(t) ==
  /\ running = Idle
  /\ queue # <<>>
  /\ t = Head(queue)

\* axum::serve accepts what there is and spawns a task for each.
AcceptAll ==
  /\ Polled(Acceptor)
  /\ conn' = [c \in Conns |-> IF conn[c] = "backlog" THEN "open" ELSE conn[c]]
  /\ queue' = Tail(queue) \o backlog
  /\ backlog' = <<>>
  /\ UNCHANGED <<env, threadVars, gone, sent, seen, req, logVars>>

\* Defective variant, not part of the specification: the thread waits for the
\* rest of the head.
ReadPartWaits(c) ==
  /\ Polled(c)
  /\ sent[c] # "all" /\ ~gone[c]
  /\ UNCHANGED vars

\* The head is not complete: the task awaits more.
ReadPart(c) ==
  /\ Polled(c)
  /\ sent[c] # "all" /\ ~gone[c]
  /\ queue' = Tail(queue)
  /\ seen' = [seen EXCEPT ![c] = sent[c]]
  /\ UNCHANGED <<env, threadVars, clientVars, logVars>>

\* The client has gone, and perhaps its request with it.
Drop(c) ==
  /\ Polled(c)
  /\ gone[c]
  /\ queue' = Tail(queue)
  /\ conn' = [conn EXCEPT ![c] = "closed"]
  /\ Record(c, NoRequest)
  /\ UNCHANGED <<env, threadVars, backlog, gone>>

\* The request is read, also one whose client has closed since.  The three
\* layers are those of routes: what no route matches passes them by.
Dispatch(c) ==
  /\ Polled(c)
  /\ sent[c] = "all" /\ reply[c] = 0
  /\ queue' = Tail(queue)
  /\ running' = c
  /\ seen' = [seen EXCEPT ![c] = "all"]
  /\ IF req[c].path = "other"
       THEN place' = "answer" /\ status' = 404
       ELSE place' = "limit" /\ UNCHANGED status
  /\ UNCHANGED <<env, permits, level, clientVars, logVars>>

-----------------------------------------------------------------------------
\* The middleware, in the order in which the layers are passed.

\* The layers end with the status s; where = "answer" writes it.
Go(where, s) == place' = where /\ status' = s

Rest == <<env, queue, running, seen, clientVars>>

\* Defective variants, each the definition its name begins with, with one
\* mistake, and no part of the specification: a key that is empty is compared
\* like any other; requests are admitted without a token; the permit is given
\* back by a call that a panic skips.
AuthorizedByAnyKey(r) == r.token = ApiKey(env)

LimitAlways ==
  /\ place = "limit"
  /\ level' = level - 1
  /\ Go("permit", 0)
  /\ UNCHANGED <<permits, Rest, logVars>>

PanicForgets ==
  /\ place = "wol" /\ env.mac = "split"
  /\ running' = Idle
  /\ place' = "none"
  /\ conn' = [conn EXCEPT ![running] = "closed"]
  /\ UNCHANGED <<env, queue, status, permits, level, seen, backlog, gone, sent, req, logVars>>

\* rate_limit_middleware.
Limit ==
  /\ place = "limit"
  /\ IF level >= 1
       THEN level' = level - 1 /\ Go("permit", 0)
       ELSE UNCHANGED level /\ Go("answer", 429)
  /\ UNCHANGED <<permits, Rest, logVars>>

\* concurrency_middleware: acquire() with a permit to be had does not await.
Acquire ==
  /\ place = "permit"
  /\ permits > 0
  /\ permits' = permits - 1
  /\ Go("auth", 0)
  /\ UNCHANGED <<level, Rest, logVars>>

\* auth_middleware lets a request pass.
IsAuthorized(r) == ApiKey(env) # "empty" /\ r.token = ApiKey(env)

\* The methods a route of get(handler) gives to its handler: axum answers a
\* HEAD by the handler too, without the body.
Handled(r) == r.method \in {"get", "head"}

\* The place of the handler of a path.
Handler(path) == CASE path = "on" -> "wol" [] path = "off" -> "udp"
                   [] path = "probe" -> "probe"

\* The last layer, and the choice of the handler by method.  Without a
\* handler the permit is given back here.
Authorize ==
  /\ place = "auth"
  /\ IF IsAuthorized(req[running]) /\ Handled(req[running])
       THEN Go(Handler(req[running].path), 0) /\ UNCHANGED permits
       ELSE /\ Go("answer", IF IsAuthorized(req[running]) THEN 405 ELSE 401)
            /\ permits' = permits + 1
  /\ UNCHANGED <<level, Rest, logVars>>

-----------------------------------------------------------------------------
\* The handlers.

\* What may come of a blocking call: no packet is made from a bad address,
\* and the TCP calls do not resolve a name.
Outcomes(k) ==
  {ok \in BOOLEAN : /\ ok /\ k = "wol" => env.mac = "good"
                    /\ ok /\ k \in {"tcp", "probe"} => env.ip = "address"}

\* The status after call k: a command is sent if one of its two was, and the
\* probe is answered in any case.
After(k, ok) == IF ok \/ k = "probe" \/ (k = "tcp" /\ status = 200) THEN 200 ELSE 500

CallPc ==
  /\ place \in Calls
  /\ ~(place = "wol" /\ env.mac = "split")
  /\ \E ok \in Outcomes(place) :
       /\ Go(IF place = "udp" THEN "tcp" ELSE "answer", After(place, ok))
       /\ done' = IF ok THEN [done EXCEPT ![running] = @ \cup {place}] ELSE done
  /\ permits' = IF place = "udp" THEN permits ELSE permits + 1
  /\ UNCHANGED <<level, Rest, reply>>

\* The slice of the address is no character boundary: the handler panics,
\* its permit is dropped on the way out, and the task ends with the connection.
Panic ==
  /\ place = "wol" /\ env.mac = "split"
  /\ permits' = permits + 1
  /\ running' = Idle
  /\ place' = "none"
  /\ conn' = [conn EXCEPT ![running] = "closed"]
  /\ UNCHANGED <<env, queue, status, level, seen, backlog, gone, sent, req, logVars>>

\* The answer is written, and the task awaits the next head.
Answer ==
  /\ place = "answer"
  /\ reply' = [reply EXCEPT ![running] = status]
  /\ sent' = [sent EXCEPT ![running] = "none"]
  /\ seen' = [seen EXCEPT ![running] = "none"]
  /\ running' = Idle
  /\ Go("none", 0)
  /\ UNCHANGED <<env, queue, permits, level, backlog, conn, gone, req, done>>

-----------------------------------------------------------------------------
\* The one thread of the runtime.
Thread ==
  \/ AcceptAll
  \/ \E c \in Conns : ReadPart(c) \/ Drop(c) \/ Dispatch(c)
  \/ Limit \/ Acquire \/ Authorize
  \/ CallPc \/ Panic \/ Answer

Next ==
  \/ \E c \in Conns : Connect(c) \/ AskAgain(c) \/ Arrive(c) \/ Leave(c)
  \/ Refill
  \/ \E t \in Conns \cup {Acceptor} : Wake(t)
  \/ Thread

\* The thread runs and its calls end, by their timeouts of 5 s and 1 s or by
\* the kernel's; the driver is asked every now and then.  Clients and the
\* clock owe nothing.
SafeSpec == Init /\ [][Next]_vars

Spec ==
  /\ SafeSpec
  /\ WF_vars(Thread)
  /\ \A t \in Conns \cup {Acceptor} : WF_vars(Wake(t))

-----------------------------------------------------------------------------
\* Whether the request that is being served holds a permit.
Inside == place \in {"auth"} \cup Calls

\* The types, with what the one thread makes of the semaphore: whoever asks
\* for a permit finds all of them, after refusals, failed calls and panics too,
\* so that nobody ever waits for one (main.rs:14-15, 108-115).  A task is in
\* the run queue once, and only while its connection is open.
TypeOK ==
  /\ env \in Envs
  /\ queue \in Seq(Conns \cup {Acceptor})
  /\ \A i, j \in 1..Len(queue) : queue[i] = queue[j] => i = j
  /\ \A c \in Conns : Queued(c) => conn[c] = "open" /\ running # c
  /\ running \in Conns \cup {Idle}
  /\ running # Idle => conn[running] = "open" /\ reply[running] = 0
  /\ place \in {"none", "limit", "permit", "auth", "answer"} \cup Calls
  /\ place = "none" <=> running = Idle
  /\ status \in {0, 200, 401, 404, 405, 429, 500}
  /\ permits = IF Inside THEN MaxConcurrent - 1 ELSE MaxConcurrent
  /\ level \in 0..Capacity
  /\ backlog \in Seq(Conns)
  /\ conn \in [Conns -> {"closed", "backlog", "open"}]
  /\ gone \in [Conns -> BOOLEAN]
  /\ sent \in [Conns -> {"none", "part", "all"}]
  /\ seen \in [Conns -> {"none", "part", "all"}]
  /\ req \in [Conns -> Requests \cup {NoRequest}]
  /\ done \in [Conns -> SUBSET Calls]
  /\ reply \in [Conns -> {0, 200, 401, 404, 405, 429, 500}]

\* Under every configuration the clients get the service of module PcService;
\* nobody is authorized by an empty key (main.rs:118-155, 259-297).
Keyed(r) == r.token = "key" /\ ApiKey(env) = "key"

Served == [c \in Conns |->
             [acts |-> req[c].method # "other", key |-> Keyed(req[c]), path |-> req[c].path]]

Service == INSTANCE PcService WITH
             Clients <- Conns, req <- Served,
             Asked <- [acts : BOOLEAN, key : BOOLEAN,
                       path : {"on", "off", "probe", "other"}]

ServiceSpec == Service!Spec

\* Everybody whose request has arrived is answered, unless the client leaves
\* or the handler panics: silent clients hold a task and not the thread, and
\* those who ask again take turns with the others (main.rs:301, 364).
Answered ==
  \A c \in Conns :
    conn[c] # "closed" /\ sent[c] = "all" /\ reply[c] = 0
      ~> \/ reply[c] # 0 \/ gone[c]
         \/ conn[c] = "closed" /\ env.mac = "split" /\ req[c].path = "on"
=============================================================================
