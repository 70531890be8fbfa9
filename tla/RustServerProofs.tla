-------------------------- MODULE RustServerProofs --------------------------
(***************************************************************************)
(* Proofs about RustServer, for any connections, environments, permits and *)
(* capacity: nobody waits for a permit, and the server implements module   *)
(* PcService.                                                              *)
(***************************************************************************)
EXTENDS RustServer, SequenceTheorems, TLAPS

-----------------------------------------------------------------------------
\* Queues in which nothing is repeated: the backlog and the run queue.

\* What is in a queue.
Members(q) == {q[i] : i \in 1..Len(q)}

\* Nothing is in it twice.
Distinct(q) == \A i, j \in 1..Len(q) : q[i] = q[j] => i = j

\* The empty queue.
LEMMA EmptyQueue ==
  ASSUME NEW S
  PROVE  <<>> \in Seq(S) /\ Members(<<>>) = {} /\ Distinct(<<>>)
BY SMT DEF Members, Distinct

\* A push adds one member, and no repetition if it was none.
LEMMA AppendQueue ==
  ASSUME NEW S, NEW q \in Seq(S), NEW x \in S
  PROVE  /\ Append(q, x) \in Seq(S)
         /\ Members(Append(q, x)) = Members(q) \cup {x}
         /\ Distinct(q) /\ x \notin Members(q) => Distinct(Append(q, x))
<1>1. /\ Append(q, x) \in Seq(S)
      /\ Len(Append(q, x)) = Len(q) + 1
      /\ \A i \in 1..Len(q) : Append(q, x)[i] = q[i]
      /\ Append(q, x)[Len(q) + 1] = x
  OBVIOUS
<1>2. Members(Append(q, x)) = Members(q) \cup {x}
  BY <1>1 DEF Members
<1>3. ASSUME Distinct(q), x \notin Members(q) PROVE Distinct(Append(q, x))
  BY <1>1, <1>3 DEF Members, Distinct
<1> QED BY <1>1, <1>2, <1>3

\* A pop removes the head, and just the head where nothing is repeated.
LEMMA TailQueue ==
  ASSUME NEW S, NEW q \in Seq(S), q # <<>>, Distinct(q)
  PROVE  /\ Tail(q) \in Seq(S) /\ Distinct(Tail(q))
         /\ Head(q) \in S /\ Head(q) \in Members(q)
         /\ Members(Tail(q)) = Members(q) \ {Head(q)}
<1>1. /\ Tail(q) \in Seq(S) /\ Len(q) \in Nat \ {0}
      /\ Len(Tail(q)) = Len(q) - 1
      /\ \A i \in 1..(Len(q) - 1) : Tail(q)[i] = q[i + 1]
      /\ Head(q) = q[1] /\ Head(q) \in S
  OBVIOUS
<1>2. Distinct(Tail(q))
  BY <1>1 DEF Distinct
<1>3. ASSUME NEW i \in 1..Len(Tail(q))
      PROVE  Tail(q)[i] \in Members(q) \ {Head(q)}
  BY <1>1 DEF Distinct, Members
<1>4. ASSUME NEW x \in Members(q) \ {Head(q)} PROVE x \in Members(Tail(q))
  <2>1. PICK i \in 1..Len(q) : x = q[i]
    BY DEF Members
  <2>2. i - 1 \in 1..Len(Tail(q)) /\ Tail(q)[i - 1] = x
    BY <1>1, <1>4, <2>1
  <2> QED BY <2>2 DEF Members
<1> QED BY <1>1, <1>2, <1>3, <1>4 DEF Members

\* Two queues, one behind the other.
LEMMA ConcatQueue ==
  ASSUME NEW S, NEW p \in Seq(S), NEW q \in Seq(S)
  PROVE  /\ p \o q \in Seq(S)
         /\ Members(p \o q) = Members(p) \cup Members(q)
         /\ Distinct(p) /\ Distinct(q) /\ Members(p) \cap Members(q) = {}
              => Distinct(p \o q)
<1>1. /\ p \o q \in Seq(S)
      /\ Len(p) \in Nat /\ Len(q) \in Nat
      /\ Len(p \o q) = Len(p) + Len(q)
      /\ \A i \in 1..Len(p) : (p \o q)[i] = p[i]
      /\ \A i \in (Len(p) + 1)..(Len(p) + Len(q)) : (p \o q)[i] = q[i - Len(p)]
  BY ConcatProperties
<1>2. Members(p \o q) \subseteq Members(p) \cup Members(q)
  BY <1>1 DEF Members
<1>3. ASSUME NEW x \in Members(q) PROVE x \in Members(p \o q)
  <2>1. PICK i \in 1..Len(q) : x = q[i]
    BY DEF Members
  <2>2. i + Len(p) \in 1..Len(p \o q) /\ (p \o q)[i + Len(p)] = x
    BY <1>1, <2>1
  <2> QED BY <2>2 DEF Members
<1>4. Members(p) \subseteq Members(p \o q)
  BY <1>1 DEF Members
<1>5. ASSUME Distinct(p), Distinct(q), Members(p) \cap Members(q) = {}
      PROVE  Distinct(p \o q)
  <2> SUFFICES ASSUME NEW i \in 1..Len(p \o q), NEW j \in 1..Len(p \o q),
                      (p \o q)[i] = (p \o q)[j]
               PROVE  i = j
    BY DEF Distinct
  <2>1. CASE i <= Len(p) /\ j <= Len(p)
    BY <1>1, <1>5, <2>1 DEF Distinct
  <2>2. CASE i > Len(p) /\ j > Len(p)
    <3>1. i - Len(p) \in 1..Len(q) /\ j - Len(p) \in 1..Len(q)
      BY <1>1, <2>2
    <3>2. q[i - Len(p)] = q[j - Len(p)]
      BY <1>1, <2>2
    <3>3. i - Len(p) = j - Len(p)
      BY <1>5, <3>1, <3>2 DEF Distinct
    <3> QED BY <1>1, <3>3
  <2>3. CASE i <= Len(p) /\ j > Len(p)
    <3>1. (p \o q)[i] \in Members(p)
      BY <1>1, <2>3 DEF Members
    <3>2. j - Len(p) \in 1..Len(q) /\ (p \o q)[j] = q[j - Len(p)]
      BY <1>1, <2>3
    <3> QED BY <1>5, <3>1, <3>2 DEF Members
  <2>4. CASE i > Len(p) /\ j <= Len(p)
    <3>1. (p \o q)[j] \in Members(p)
      BY <1>1, <2>4 DEF Members
    <3>2. i - Len(p) \in 1..Len(q) /\ (p \o q)[i] = q[i - Len(p)]
      BY <1>1, <2>4
    <3> QED BY <1>5, <3>1, <3>2 DEF Members
  <2> QED BY <1>1, <2>1, <2>2, <2>3, <2>4
<1> QED BY <1>1, <1>2, <1>3, <1>4, <1>5

-----------------------------------------------------------------------------
\* The inductive invariant.

\* The backlog holds the connections that have been made and not accepted.
Waiting ==
  /\ Distinct(backlog)
  /\ \A c \in Members(backlog) : conn[c] = "backlog"

\* What the place of a request says of the calls made for it.  No call has
\* succeeded for a request that is neither being served nor answered.
Serving ==
  /\ \A c \in Conns : reply[c] = 0 /\ c # running => done[c] = {}
  /\ place \in {"limit", "permit", "auth"} =>
       req[running].path # "other" /\ done[running] = {}
  /\ place \in Calls => place \in Service!Wanted(Served[running])
  /\ place \in {"wol", "udp", "probe"} => done[running] = {}
  /\ place = "tcp" =>
       \/ status = 200 /\ done[running] = {"udp"}
       \/ status = 500 /\ done[running] = {}
  /\ place = "answer" =>
       status # 0 /\ status \in Service!Answers(Served[running], done[running])

RustInv == TypeOK /\ Waiting /\ Serving

\* What waits for the runtime, by members.
LEMMA QueuedMembers == \A t : Queued(t) <=> t \in Members(queue)
BY DEF Queued, Members

\* TypeOK without the queues, and the queues.
Plain ==
  /\ env \in Envs
  /\ running \in Conns \cup {Idle}
  /\ running # Idle => conn[running] = "open" /\ reply[running] = 0
  /\ place \in {"none", "limit", "permit", "auth", "answer"} \cup Calls
  /\ place = "none" <=> running = Idle
  /\ status \in {0, 200, 401, 404, 405, 429, 500}
  /\ permits = IF Inside THEN MaxConcurrent - 1 ELSE MaxConcurrent
  /\ level \in 0..Capacity
  /\ conn \in [Conns -> {"closed", "backlog", "open"}]
  /\ gone \in [Conns -> BOOLEAN]
  /\ sent \in [Conns -> {"none", "part", "all"}]
  /\ seen \in [Conns -> {"none", "part", "all"}]
  /\ req \in [Conns -> Requests \cup {NoRequest}]
  /\ done \in [Conns -> SUBSET Calls]
  /\ reply \in [Conns -> {0, 200, 401, 404, 405, 429, 500}]

Queues ==
  /\ queue \in Seq(Conns \cup {Acceptor}) /\ Distinct(queue)
  /\ \A c \in Conns : c \in Members(queue) => conn[c] = "open" /\ running # c
  /\ backlog \in Seq(Conns)

\* The types of the run queue and the others, apart.
LEMMA Parts == TypeOK <=> Plain /\ Queues
BY QueuedMembers DEF TypeOK, Plain, Queues, Distinct

\* All queues and the connections in them stay as they are.
LEMMA QueuesStay ==
  ASSUME Queues, Waiting, UNCHANGED <<queue, backlog, conn>>, running' \in {running, Idle},
         Idle \notin Conns
  PROVE  Queues' /\ Waiting'
BY DEF Queues, Waiting, Members, Distinct

-----------------------------------------------------------------------------
\* The steps.

\* The head of the run queue is an open connection, or the acceptor.
LEMMA PolledHead ==
  ASSUME RustInv, NEW t \in Conns \cup {Acceptor}, Polled(t)
  PROVE  /\ Tail(queue) \in Seq(Conns \cup {Acceptor}) /\ Distinct(Tail(queue))
         /\ Members(Tail(queue)) = Members(queue) \ {t}
         /\ t \in Conns => conn[t] = "open"
         /\ running = Idle /\ place = "none"
<1>1. Plain /\ Queues
  BY Parts DEF RustInv
<1>2. queue # <<>> /\ t = Head(queue)
  BY DEF Polled
<1>3. /\ Tail(queue) \in Seq(Conns \cup {Acceptor}) /\ Distinct(Tail(queue))
      /\ Head(queue) \in Members(queue)
      /\ Members(Tail(queue)) = Members(queue) \ {Head(queue)}
  BY <1>1, <1>2, TailQueue DEF Queues
<1> QED BY <1>1, <1>2, <1>3 DEF Plain, Queues, Polled

\* Every step keeps the types.
LEMMA PlainStep == RustInv /\ Next => Plain'
<1> USE RustAssumption DEF Inside, Calls
<1> SUFFICES ASSUME RustInv, Next PROVE Plain'
  OBVIOUS
<1>0. Plain
  BY Parts DEF RustInv
<1> USE <1>0 DEF Plain
<1>1. NoRequest \in Requests \cup {NoRequest}
  OBVIOUS
<1>2. ASSUME NEW c \in Conns, Connect(c) PROVE Plain'
  BY <1>2 DEF Connect, Record, threadVars
<1>3. ASSUME NEW c \in Conns, AskAgain(c) PROVE Plain'
  BY <1>3 DEF AskAgain, Record, threadVars
<1>4. ASSUME NEW c \in Conns, Arrive(c) PROVE Plain'
  BY <1>4 DEF Arrive, threadVars, logVars
<1>5. ASSUME NEW c \in Conns, Leave(c) PROVE Plain'
  BY <1>5 DEF Leave, threadVars, logVars
<1>6. CASE Refill
  BY <1>6 DEF Refill, clientVars, logVars
<1>7. ASSUME NEW t \in Conns \cup {Acceptor}, Wake(t) PROVE Plain'
  BY <1>7 DEF Wake, threadVars, clientVars, logVars
<1>8. CASE AcceptAll
  BY <1>8 DEF AcceptAll, Polled, threadVars, logVars
<1>9. ASSUME NEW c \in Conns, ReadPart(c) PROVE Plain'
  BY <1>9 DEF ReadPart, threadVars, clientVars, logVars
<1>10. ASSUME NEW c \in Conns, Drop(c) PROVE Plain'
  BY <1>10, <1>1 DEF Drop, Polled, Record, threadVars
<1>11. ASSUME NEW c \in Conns, Dispatch(c) PROVE Plain'
  <2>1. conn[c] = "open"
    BY <1>11, PolledHead DEF Dispatch
  <2> QED BY <1>11, <2>1, PolledHead DEF Dispatch, Polled, clientVars, logVars
<1>12. CASE Limit
  BY <1>12 DEF Limit, Go, Rest, clientVars, logVars
<1>13. CASE Acquire
  BY <1>13 DEF Acquire, Go, Rest, clientVars, logVars
<1>14. CASE Authorize
  <2>1. CASE IsAuthorized(req[running]) /\ Handled(req[running])
    <3>1. running \in Conns /\ req[running].path \in {"on", "off", "probe"}
      <4>1. running \in Conns /\ req[running].path # "other"
        BY <1>14 DEF Authorize, RustInv, Serving
      <4> QED BY <4>1 DEF NoRequest
    <3>2. Handler(req[running].path) \in {"wol", "udp", "probe"}
      BY <3>1 DEF Handler
    <3> QED BY <1>14, <2>1, <3>2 DEF Authorize, Go, Rest, clientVars, logVars
  <2>2. CASE ~(IsAuthorized(req[running]) /\ Handled(req[running]))
    BY <1>14, <2>2 DEF Authorize, Go, Rest, clientVars, logVars
  <2> QED BY <2>1, <2>2
<1>15. CASE CallPc
  <2>1. running \in Conns
    BY <1>15 DEF CallPc
  <2>2. done' \in [Conns -> SUBSET Calls]
    BY <1>15, <2>1 DEF CallPc
  <2> QED BY <1>15, <2>1, <2>2 DEF CallPc, Go, After, Rest, clientVars
<1>16. CASE Panic
  BY <1>16 DEF Panic, logVars
<1>17. CASE Answer
  BY <1>17 DEF Answer, Go
<1> QED
  BY <1>2, <1>3, <1>4, <1>5, <1>6, <1>7, <1>8, <1>9, <1>10, <1>11, <1>12,
     <1>13, <1>14, <1>15, <1>16, <1>17 DEF Next, Thread

\* Every step keeps the run queue and who may be in it.
LEMMA QueuesStep == RustInv /\ Next => Queues' /\ Waiting'
<1> USE RustAssumption
<1> SUFFICES ASSUME RustInv, Next PROVE Queues' /\ Waiting'
  OBVIOUS
<1>1. Plain /\ Queues /\ Waiting
  BY Parts DEF RustInv
<1>2. ASSUME NEW c \in Conns, Connect(c) PROVE Queues' /\ Waiting'
  <2>1. c \notin Members(backlog) /\ c \notin Members(queue)
    BY <1>1, <1>2 DEF Connect, Waiting, Queues
  <2>2. /\ backlog' \in Seq(Conns)
        /\ Members(backlog') = Members(backlog) \cup {c}
        /\ Distinct(backlog')
    BY <1>1, <1>2, <2>1, AppendQueue DEF Connect, Waiting, Queues
  <2>3. queue' = queue /\ running' = running
        /\ conn' = [conn EXCEPT ![c] = "backlog"]
    BY <1>2 DEF Connect, threadVars
  <2>4. Members(backlog) \subseteq Conns
    BY <1>1 DEF Queues, Members
  <2>5. Queues'
    BY <1>1, <2>1, <2>2, <2>3 DEF Queues, Plain
  <2>6. Waiting'
    BY <1>1, <2>1, <2>2, <2>3, <2>4 DEF Waiting, Plain
  <2> QED BY <2>5, <2>6
<1>3. CASE UNCHANGED <<queue, backlog, conn>> /\ running' \in {running, Idle}
  BY <1>1, <1>3, QueuesStay
<1>4. ASSUME NEW t \in Conns \cup {Acceptor}, Wake(t) PROVE Queues' /\ Waiting'
  <2>1. t \notin Members(queue) /\ running # t /\ (t \in Conns => conn[t] = "open")
    BY <1>4, QueuedMembers DEF Wake
  <2>2. /\ queue' \in Seq(Conns \cup {Acceptor})
        /\ Members(queue') = Members(queue) \cup {t}
        /\ Distinct(queue')
    BY <1>1, <1>4, <2>1, AppendQueue DEF Wake, Queues
  <2>3. UNCHANGED <<backlog, conn, running>>
    BY <1>4 DEF Wake, threadVars, clientVars
  <2>4. Queues'
    BY <1>1, <2>1, <2>2, <2>3 DEF Queues
  <2>5. Waiting'
    BY <1>1, <2>3 DEF Waiting
  <2> QED BY <2>4, <2>5
<1>5. CASE AcceptAll
  <2>1. /\ Tail(queue) \in Seq(Conns \cup {Acceptor}) /\ Distinct(Tail(queue))
        /\ Members(Tail(queue)) = Members(queue) \ {Acceptor}
        /\ running = Idle
    BY <1>5, PolledHead DEF AcceptAll
  <2>2. /\ Members(backlog) \subseteq Conns /\ Distinct(backlog)
        /\ \A c \in Members(backlog) : conn[c] = "backlog"
    BY <1>1 DEF Queues, Waiting, Members
  <2>3. Members(Tail(queue)) \cap Members(backlog) = {}
    BY <1>1, <2>1, <2>2 DEF Queues
  <2>4. backlog \in Seq(Conns \cup {Acceptor})
    BY <1>1 DEF Queues
  <2>5. /\ queue' \in Seq(Conns \cup {Acceptor}) /\ Distinct(queue')
        /\ Members(queue') = Members(Tail(queue)) \cup Members(backlog)
    <3>1. queue' = Tail(queue) \o backlog
      BY <1>5 DEF AcceptAll
    <3>2. /\ Tail(queue) \o backlog \in Seq(Conns \cup {Acceptor})
          /\ Members(Tail(queue) \o backlog) = Members(Tail(queue)) \cup Members(backlog)
          /\ Distinct(Tail(queue)) /\ Distinct(backlog)
               /\ Members(Tail(queue)) \cap Members(backlog) = {}
                 => Distinct(Tail(queue) \o backlog)
      BY <2>1, <2>4, ConcatQueue
    <3> QED BY <3>1, <3>2, <2>1, <2>2, <2>3
  <2>6. \A c \in Conns : c \in Members(queue') => conn'[c] = "open" /\ running' # c
    BY <1>1, <1>5, <2>1, <2>2, <2>5 DEF AcceptAll, Queues, threadVars
  <2>7. backlog' \in Seq(Conns) /\ Waiting'
    BY <1>5, EmptyQueue DEF AcceptAll, Waiting
  <2> QED BY <2>5, <2>6, <2>7 DEF Queues
<1>6. ASSUME NEW c \in Conns, ReadPart(c) \/ Drop(c) \/ Dispatch(c)
      PROVE  Queues' /\ Waiting'
  <2>1. /\ Tail(queue) \in Seq(Conns \cup {Acceptor}) /\ Distinct(Tail(queue))
        /\ Members(Tail(queue)) = Members(queue) \ {c}
        /\ conn[c] = "open"
    BY <1>6, PolledHead DEF ReadPart, Drop, Dispatch
  <2>2. queue' = Tail(queue) /\ UNCHANGED backlog
    BY <1>6 DEF ReadPart, Drop, Dispatch, clientVars
  <2>3. conn' \in {conn, [conn EXCEPT ![c] = "closed"]} /\ running' \in {running, c}
    BY <1>6 DEF ReadPart, Drop, Dispatch, clientVars, threadVars
  <2>4. c \notin Members(backlog) /\ Members(backlog) \subseteq Conns
    BY <1>1, <2>1 DEF Waiting, Queues, Members
  <2>5. Queues'
    BY <1>1, <2>1, <2>2, <2>3 DEF Queues, Plain
  <2>6. Waiting'
    BY <1>1, <2>2, <2>3, <2>4 DEF Waiting, Plain
  <2> QED BY <2>5, <2>6
<1>7. CASE Panic
  <2>1. /\ UNCHANGED <<queue, backlog>> /\ running' = Idle /\ running \in Conns
        /\ conn' = [conn EXCEPT ![running] = "closed"] /\ conn[running] = "open"
    BY <1>1, <1>7 DEF Panic, Plain
  <2>2. running \notin Members(backlog) /\ running \notin Members(queue)
        /\ Members(backlog) \subseteq Conns
    BY <1>1, <2>1 DEF Waiting, Queues, Members
  <2> QED BY <1>1, <2>1, <2>2 DEF Queues, Waiting, Plain, Members, Distinct
<1> QED
  BY <1>2, <1>3, <1>4, <1>5, <1>6, <1>7 DEF Next, Thread, AskAgain, Arrive, Leave, Refill,
     Limit, Acquire, Authorize, CallPc, Answer, Rest, threadVars, clientVars

\* Only the key authorizes, whichever variable it is in (main.rs:65-81, 118-155).
LEMMA KeyAuthorizes ==
  env \in Envs => \A r : IsAuthorized(r) <=> Keyed(r)
<1> SUFFICES ASSUME env \in Envs, NEW r PROVE IsAuthorized(r) <=> Keyed(r)
  OBVIOUS
<1>1. ApiKey(env) \in {"empty", "key"}
  BY RustAssumption DEF ApiKey
<1> QED BY <1>1 DEF IsAuthorized, Keyed

\* A step that leaves the requests, the place and the log of the request in
\* progress alone, and starts none anew but with an empty log, keeps Serving.
LEMMA ServingStay ==
  ASSUME Serving, Plain, UNCHANGED <<env, running, place, status>>,
         NEW c \in Conns, c # running, NEW r \in Requests \cup {NoRequest},
         Record(c, r)
  PROVE  Serving'
<1>1. (UNCHANGED done[running] /\ UNCHANGED req[running]) \/ running = Idle
  BY DEF Record, Plain
<1>2. running \in Conns => UNCHANGED Served[running]
  BY <1>1, RustAssumption DEF Served, Keyed
<1>3. place # "none" => running \in Conns /\ UNCHANGED <<done[running], req[running], Served[running]>>
  BY <1>1, <1>2 DEF Plain
<1>4. \A d \in Conns : reply'[d] = 0 /\ d # running => done'[d] = {}
  BY DEF Record, Plain, Serving
<1> QED BY <1>3, <1>4 DEF Serving, Calls

\* Every step keeps what the place of a request says of its answer.
LEMMA ServingStep == RustInv /\ Next => Serving'
<1> USE RustAssumption
<1> SUFFICES ASSUME RustInv, Next PROVE Serving'
  OBVIOUS
<1>1. Plain /\ Serving
  BY Parts DEF RustInv
<1>2. ASSUME NEW c \in Conns, Connect(c) \/ AskAgain(c) \/ Drop(c) PROVE Serving'
  <2>1. c # running
    BY <1>1, <1>2 DEF Connect, AskAgain, Drop, Polled, Plain
  <2>2. \E r \in Requests \cup {NoRequest} : Record(c, r)
    BY <1>2 DEF Connect, AskAgain, Drop
  <2>3. UNCHANGED <<env, running, place, status>>
    BY <1>2 DEF Connect, AskAgain, Drop, threadVars
  <2> QED BY <1>1, <2>1, <2>2, <2>3, ServingStay
<1>3. CASE UNCHANGED <<env, running, place, status, req, done, reply>>
  BY <1>1, <1>3 DEF Serving, Served, Keyed
<1>4. ASSUME NEW c \in Conns, Dispatch(c) PROVE Serving'
  <2>1. running = Idle /\ reply[c] = 0
    BY <1>4 DEF Dispatch, Polled
  <2>2. done[c] = {}
    BY <1>1, <2>1 DEF Serving
  <2>3. UNCHANGED <<env, req, done, reply>> /\ running' = c
    BY <1>4 DEF Dispatch, clientVars, logVars
  <2>4. \A d \in Conns : reply'[d] = 0 /\ d # running' => done'[d] = {}
    BY <1>1, <2>1, <2>3 DEF Serving
  <2>5. CASE req[c].path = "other"
    <3>1. place' = "answer" /\ status' = 404
      BY <1>4, <2>5 DEF Dispatch
    <3>2. done'[c] = {}
      BY <2>2, <2>3
    <3>3. status' \in Service!Answers(Served'[c], done'[c])
      BY <3>1, <3>2 DEF Service!Answers
    <3> QED BY <2>3, <2>4, <3>1, <3>3 DEF Serving, Calls
  <2>6. CASE req[c].path # "other"
    <3>1. place' = "limit"
      BY <1>4, <2>6 DEF Dispatch
    <3> QED BY <2>2, <2>3, <2>4, <2>6, <3>1 DEF Serving, Calls
  <2> QED BY <2>5, <2>6
<1>5. CASE Limit \/ Acquire
  BY <1>1, <1>5
     DEF Limit, Acquire, Go, Rest, clientVars, logVars, Serving, Service!Answers, Calls
<1>6. CASE Authorize
  <2>1. /\ running \in Conns /\ req[running].path # "other" /\ done[running] = {}
        /\ UNCHANGED <<env, running, req, done, reply>>
    BY <1>1, <1>6 DEF Authorize, Plain, Serving, Rest, clientVars, logVars
  <2>2. CASE ~(IsAuthorized(req[running]) /\ Handled(req[running]))
    BY <1>1, <1>6, <2>1, <2>2 DEF Authorize, Go, Serving, Service!Answers, Calls
  <2>3. CASE IsAuthorized(req[running]) /\ Handled(req[running])
    <3>1. req[running].path \in {"on", "off", "probe"}
      BY <1>1, <2>1 DEF Plain, NoRequest
    <3>2. /\ place' = Handler(req[running].path)
          /\ place' \in {"wol", "udp", "probe"}
      BY <1>6, <2>3, <3>1 DEF Authorize, Go, Handler
    <3>3. Keyed(req[running])
      BY <1>1, <2>3, KeyAuthorizes DEF Plain
    <3>4. place' \in Service!Wanted(Served[running])
      BY <2>1, <2>3, <3>1, <3>2, <3>3 DEF Handler, Handled, Service!Wanted, Served
    <3>5. Served' = Served
      BY <2>1 DEF Served, Keyed
    <3> QED BY <1>1, <2>1, <3>2, <3>4, <3>5 DEF Serving, Calls
  <2> QED BY <2>2, <2>3
<1>7. CASE CallPc
  <2>1. /\ running \in Conns /\ place \in Service!Wanted(Served[running])
        /\ UNCHANGED <<env, running, req, reply>>
    BY <1>1, <1>7 DEF CallPc, Plain, Serving, Rest, clientVars, Calls
  <2>2. Served' = Served
    BY <2>1 DEF Served, Keyed
  <2>3. PICK ok \in Outcomes(place) :
          /\ Go(IF place = "udp" THEN "tcp" ELSE "answer", After(place, ok))
          /\ done' = IF ok THEN [done EXCEPT ![running] = @ \cup {place}] ELSE done
    BY <1>7 DEF CallPc
  <2>4. ok \in BOOLEAN
    BY DEF Outcomes
  <2>5. \A d \in Conns : reply'[d] = 0 /\ d # running' => done'[d] = {}
    BY <1>1, <2>1, <2>3 DEF Plain, Serving
  <2>6. done'[running] = IF ok THEN done[running] \cup {place} ELSE done[running]
    BY <1>1, <2>1, <2>3 DEF Plain
  <2>7. CASE place = "udp"
    <3>1. place' = "tcp" /\ status' = IF ok THEN 200 ELSE 500
      BY <2>3, <2>4, <2>7 DEF Go, After
    <3>2. done'[running] = IF ok THEN {"udp"} ELSE {}
      <4>1. done[running] = {}
        BY <1>1, <2>7 DEF Serving
      <4> QED BY <2>4, <2>6, <2>7, <4>1
    <3>3. "tcp" \in Service!Wanted(Served[running])
      <4>1. Served[running].path \in {"on", "off", "probe", "other"}
        BY <1>1, <2>1 DEF Plain, Served, NoRequest
      <4> QED BY <2>1, <2>7, <4>1 DEF Service!Wanted
    <3> QED BY <2>1, <2>2, <2>5, <3>1, <3>2, <3>3 DEF Serving, Calls
  <2>8. CASE place # "udp"
    <3>1. place' = "answer" /\ status' = After(place, ok)
      BY <2>3, <2>8 DEF Go
    <3>2. place \in {"wol", "tcp", "probe"}
      BY <1>7, <2>8 DEF CallPc, Calls
    <3>3. Service!Wanted(Served[running]) =
            CASE place = "wol" -> {"wol"} [] place = "tcp" -> {"udp", "tcp"}
              [] place = "probe" -> {"probe"}
      <4>1. Served[running].path \in {"on", "off", "probe", "other"}
        BY <1>1, <2>1 DEF Plain, Served, NoRequest
      <4> QED BY <2>1, <3>2, <4>1 DEF Service!Wanted
    <3>4. After(place, ok) \in Service!Answers(Served[running], done'[running])
      BY <1>1, <2>4, <2>6, <3>2, <3>3 DEF After, Service!Answers, Serving
    <3>5. After(place, ok) # 0
      BY DEF After
    <3> QED BY <2>1, <2>2, <2>5, <3>1, <3>4, <3>5 DEF Serving, Calls
  <2> QED BY <2>7, <2>8
<1>8. CASE Panic
  <2>1. running \in Conns /\ done[running] = {} /\ running' = Idle /\ place' = "none"
    BY <1>1, <1>8 DEF Panic, Plain, Serving
  <2>2. UNCHANGED <<done, reply>>
    BY <1>8 DEF Panic, logVars
  <2> QED BY <1>1, <2>1, <2>2 DEF Serving, Calls
<1>9. CASE Answer
  <2>1. /\ running \in Conns /\ status # 0 /\ running' = Idle /\ place' = "none"
        /\ reply' = [reply EXCEPT ![running] = status] /\ UNCHANGED done
    BY <1>1, <1>9 DEF Answer, Plain, Serving, Go
  <2> QED BY <1>1, <2>1 DEF Plain, Serving, Calls
<1> QED
  BY <1>2, <1>3, <1>4, <1>5, <1>6, <1>7, <1>8, <1>9
     DEF Next, Thread, Arrive, Leave, Refill, Wake, AcceptAll, ReadPart,
         threadVars, clientVars, logVars

\* The invariant holds, whatever the scheduling.
LEMMA RustInvariant == SafeSpec => []RustInv
<1>1. Init => RustInv
  <2> SUFFICES ASSUME Init PROVE RustInv
    OBVIOUS
  <2>1. Plain
    BY RustAssumption DEF Init, Plain, Inside, Calls, NoRequest
  <2>2. queue = <<>> /\ backlog = <<>>
    BY DEF Init
  <2>3. Queues /\ Waiting
    BY <2>2, EmptyQueue DEF Queues, Waiting
  <2>4. Serving
    BY DEF Init, Serving, Calls
  <2> QED BY <2>1, <2>3, <2>4, Parts DEF RustInv
<1>2. RustInv /\ [Next]_vars => RustInv'
  <2>1. RustInv /\ Next => RustInv'
    <3>1. Plain' /\ Queues' <=> TypeOK'
      BY Parts, PTL
    <3> QED BY <3>1, PlainStep, QueuesStep, ServingStep DEF RustInv
  <2>2. RustInv /\ UNCHANGED vars => RustInv'
    BY DEF RustInv, TypeOK, Waiting, Serving, Inside, Queued, Members, Distinct, Served,
           Keyed, vars, threadVars, clientVars, logVars
  <2> QED BY <2>1, <2>2
<1> QED BY <1>1, <1>2, PTL DEF SafeSpec

-----------------------------------------------------------------------------
\* The types hold, and with them: the semaphore has all of its permits whenever
\* a request asks for one, and no task is queued twice (main.rs:103-116, 301).
THEOREM TypeCorrect == Spec => []TypeOK
<1>1. RustInv => TypeOK
  BY DEF RustInv
<1> QED BY <1>1, RustInvariant, PTL DEF Spec

\* Every step is one of the service or changes nothing of it.
LEMMA ServiceStep == RustInv /\ Next => [Service!Next]_(Service!vars)
<1> USE RustAssumption DEF Service!vars
<1> SUFFICES ASSUME RustInv, Next PROVE [Service!Next]_(Service!vars)
  OBVIOUS
<1>1. Plain /\ Serving
  BY Parts DEF RustInv
<1>2. ASSUME NEW c \in Conns, NEW r \in Requests \cup {NoRequest}, Record(c, r),
             UNCHANGED env
      PROVE  Service!Next
  <2> DEFINE s == [acts |-> r.method # "other", key |-> Keyed(r), path |-> r.path]
  <2>1. s \in [acts : BOOLEAN, key : BOOLEAN, path : {"on", "off", "probe", "other"}]
    <3>1. r.path \in {"on", "off", "probe", "other"}
      <4>1. CASE r \in Requests
        BY <4>1
      <4>2. CASE r = NoRequest
        BY <4>2 DEF NoRequest
      <4> QED BY <4>1, <4>2
    <3>2. Keyed(r) \in BOOLEAN
      BY DEF Keyed
    <3> QED BY <3>1, <3>2
  <2>2. req' = [req EXCEPT ![c] = r]
    BY <1>2 DEF Record
  <2>3. Served' = [Served EXCEPT ![c] = s]
    <3>1. req'[c] = r /\ \A d \in Conns : d # c => req'[d] = req[d]
      BY <1>1, <2>2 DEF Plain
    <3>2. Served'[c] = s
      BY <1>2, <3>1 DEF Served, Keyed, ApiKey
    <3>3. \A d \in Conns : d # c => Served'[d] = Served[d]
      BY <1>2, <3>1 DEF Served, Keyed, ApiKey
    <3>4. Served' = [d \in Conns |-> Served'[d]] /\ Served = [d \in Conns |-> Served[d]]
      BY DEF Served
    <3> HIDE DEF s
    <3> QED BY <3>2, <3>3, <3>4
  <2>4. Service!Ask(c, s)
    BY <1>2, <2>3 DEF Service!Ask, Record
  <2> HIDE DEF s
  <2> QED BY <2>1, <2>4 DEF Service!Next
<1>3. CASE UNCHANGED <<env, req, done, reply>>
  BY <1>3 DEF Served, Keyed
<1>4. CASE CallPc
  <2>1. /\ running \in Conns /\ reply[running] = 0 /\ UNCHANGED <<env, req, reply>>
        /\ place \in Service!Wanted(Served[running])
        /\ place \in {"wol", "udp", "tcp", "probe"}
    BY <1>1, <1>4 DEF CallPc, Plain, Serving, Rest, clientVars, Calls
  <2>2. Served' = Served
    BY <2>1 DEF Served, Keyed
  <2>3. done' = done \/ done' = [done EXCEPT ![running] = @ \cup {place}]
    BY <1>4 DEF CallPc
  <2>4. CASE done' = [done EXCEPT ![running] = @ \cup {place}]
    <3>1. Service!Call(running, place)
      BY <2>1, <2>2, <2>4 DEF Service!Call
    <3> QED BY <2>1, <3>1 DEF Service!Next
  <2> QED BY <2>1, <2>2, <2>3, <2>4
<1>5. CASE Answer
  <2>1. /\ running \in Conns /\ reply[running] = 0 /\ UNCHANGED <<env, req, done>>
        /\ status \in {200, 401, 404, 405, 429, 500}
        /\ status \in Service!Answers(Served[running], done[running])
        /\ reply' = [reply EXCEPT ![running] = status]
    BY <1>1, <1>5 DEF Answer, Plain, Serving
  <2>2. Served' = Served
    BY <2>1 DEF Served, Keyed
  <2>3. Service!Answer(running, status)
    BY <2>1, <2>2 DEF Service!Answer
  <2> QED BY <2>1, <2>3 DEF Service!Next
<1>6. ASSUME NEW c \in Conns, Connect(c) \/ AskAgain(c) \/ Drop(c) PROVE Service!Next
  <2>1. UNCHANGED env /\ \E r \in Requests \cup {NoRequest} : Record(c, r)
    BY <1>6 DEF Connect, AskAgain, Drop
  <2> QED BY <1>2, <2>1
<1> QED
  BY <1>3, <1>4, <1>5, <1>6
     DEF Next, Thread, Arrive, Leave, Refill, Wake, AcceptAll, ReadPart, Dispatch,
         Limit, Acquire, Authorize, Panic, Rest, threadVars, clientVars, logVars

\* Under every configuration, with any clients, the server gives the service of
\* PcService: nobody is authorized by an empty key, the PC is called for what
\* was asked and before the answer, and answers are true (main.rs:118-155,
\* 259-297).
THEOREM ImplementsService == Spec => ServiceSpec
<1>1. Init => Service!Init
  <2> SUFFICES ASSUME Init PROVE Service!Init
    OBVIOUS
  <2>1. Served \in [Conns -> [acts : BOOLEAN, key : BOOLEAN,
                              path : {"on", "off", "probe", "other"}]]
    BY DEF Init, Served, Keyed, NoRequest
  <2> QED BY <2>1 DEF Init, Service!Init
<1>2. RustInv /\ [Next]_vars => [Service!Next]_(Service!vars)
  <2>1. UNCHANGED vars => UNCHANGED Service!vars
    BY DEF vars, threadVars, clientVars, logVars, Service!vars, Served, Keyed
  <2> QED BY <2>1, ServiceStep
<1> QED BY <1>1, <1>2, RustInvariant, PTL DEF Spec, SafeSpec, ServiceSpec, Service!Spec

-----------------------------------------------------------------------------
\* The service keeps its word.
LEMMA ServiceTruthful == ServiceSpec => []Service!Truthful
<1> DEFINE Typed == /\ DOMAIN Served = Conns
                    /\ done \in [Conns -> SUBSET {"wol", "udp", "tcp", "probe"}]
                    /\ reply \in [Conns -> {0, 200, 401, 404, 405, 429, 500}]
           Inv == Typed /\ Service!Truthful
<1>1. Service!Init => Inv
  BY DEF Service!Init, Service!Truthful, Served
<1>2. Inv /\ [Service!Next]_(Service!vars) => Inv'
  <2> SUFFICES ASSUME Inv, [Service!Next]_(Service!vars) PROVE Inv'
    OBVIOUS
  <2> USE DEF Service!Truthful
  <2>1. DOMAIN Served = Conns /\ (DOMAIN Served = Conns)'
    BY DEF Served
  <2>2. ASSUME NEW c \in Conns,
               NEW r \in [acts : BOOLEAN, key : BOOLEAN, path : {"on", "off", "probe", "other"}],
               Service!Ask(c, r)
        PROVE  Inv'
    <3>1. \A b \in Conns : b # c => Served'[b] = Served[b]
      BY <2>2 DEF Service!Ask, Served
    <3> QED BY <2>1, <2>2, <3>1 DEF Service!Ask
  <2>3. ASSUME NEW c \in Conns, NEW k \in {"wol", "udp", "tcp", "probe"}, Service!Call(c, k)
        PROVE  Inv'
    BY <2>1, <2>3 DEF Service!Call
  <2>4. ASSUME NEW c \in Conns, NEW s \in {200, 401, 404, 405, 429, 500}, Service!Answer(c, s)
        PROVE  Inv'
    BY <2>1, <2>4 DEF Service!Answer
  <2>5. CASE UNCHANGED Service!vars
    BY <2>1, <2>5 DEF Service!vars
  <2> QED BY <2>2, <2>3, <2>4, <2>5 DEF Service!Next
<1> QED BY <1>1, <1>2, PTL DEF ServiceSpec, Service!Spec

\* Whatever the clients send and however the process is configured, the PC is
\* called for nothing but what a request with the right key asks, and an answer
\* is true of the calls made for it (main.rs:118-155, 259-297).
THEOREM AnswersTruthful == Spec => []Service!Truthful
  BY ImplementsService, ServiceTruthful, PTL

\* In particular nothing happens for a client that does not show the key, nor
\* for anybody while no key is configured, nor for a method other than GET and
\* HEAD, both of which a route of get(handler) gives to its handler
\* (main.rs:65-81, 118-155, 327-329).
THEOREM OnlyKeyedRequestsAct ==
  Spec => [](\A c \in Conns :
               done[c] # {} => /\ req[c].method \in {"get", "head"}
                               /\ req[c].token = "key" /\ ApiKey(env) = "key")
<1>1. TypeOK /\ Service!Truthful =>
        \A c \in Conns : done[c] # {} => /\ req[c].method \in {"get", "head"}
                                         /\ req[c].token = "key" /\ ApiKey(env) = "key"
  <2> SUFFICES ASSUME TypeOK, Service!Truthful, NEW c \in Conns, done[c] # {}
               PROVE  /\ req[c].method \in {"get", "head"}
                      /\ req[c].token = "key" /\ ApiKey(env) = "key"
    OBVIOUS
  <2>1. Service!Wanted(Served[c]) # {}
    BY DEF Service!Truthful
  <2>2. Served[c].acts /\ Served[c].key
    BY <2>1 DEF Service!Wanted
  <2>3. req[c].method \in {"get", "head", "other"}
    BY RustAssumption DEF TypeOK, NoRequest
  <2> QED BY <2>2, <2>3 DEF Served, Keyed
<1> QED BY <1>1, TypeCorrect, AnswersTruthful, PTL

\* The semaphore is never short: one thread takes a request from its permit to
\* its answer, or to its panic, before it looks at another, so that a request
\* finds every permit there (main.rs:108-115, 301).
THEOREM PermitsNeverShort == Spec => [](place = "permit" => permits = MaxConcurrent)
<1>1. TypeOK => (place = "permit" => permits = MaxConcurrent)
  BY DEF TypeOK, Inside, Calls
<1> QED BY <1>1, TypeCorrect, PTL
=============================================================================
