----------------------------- MODULE ThreadPool -----------------------------
(***************************************************************************)
(* class ThreadPool (SmartHomePCControl-CPP/src/main.cpp:320-379): workers *)
(* that sleep on cv_task while the queue is empty, and an owner (the main  *)
(* thread) that sleeps on cv_space while it is full.                       *)
(*                                                                         *)
(* A critical section of queue_mutex is one action: it is entered with the *)
(* mutex held, and it either runs to the unlock or ends in a wait, which   *)
(* unlocks and goes to sleep in one step.  A thread that is to (re)acquire *)
(* the mutex and evaluate its predicate is at "lock", a sleeping one at    *)
(* "waiting".  notify_one moves some sleeper to "lock"; a sleeper may also *)
(* wake for no reason.  What is done with a task is left to the user of    *)
(* this module: process_client is the time between Take and Finish.        *)
(*                                                                         *)
(* The main loop of the program never leaves the scope of its pool; the    *)
(* destructor is modelled for the class, whose owner may run it when it is *)
(* not inside enqueue.                                                     *)
(***************************************************************************)
EXTENDS Integers, Sequences, FiniteSets

CONSTANTS
  Workers,      \* the threads of the pool
  Tasks,        \* what is enqueued: file descriptors of clients
  NoTask,       \* client_fd = -1, no task
  MaxQueue      \* max_queue_size

ASSUME PoolAssumption ==
  /\ IsFiniteSet(Workers)
  /\ Workers # {}
  /\ NoTask \notin Tasks
  /\ MaxQueue \in Nat \ {0}

VARIABLES
  tasks,        \* tasks, the queue
  stop,         \* stop
  worker,       \* where each worker is
  job,          \* client_fd of each worker while it processes it
  owner,        \* where the owner is
  hand          \* the argument of the enqueue the owner is in

vars == <<tasks, stop, worker, job, owner, hand>>

Init ==
  /\ tasks = <<>>
  /\ stop = FALSE
  /\ worker = [w \in Workers |-> "lock"]
  /\ job = [w \in Workers |-> NoTask]
  /\ owner = "outside"
  /\ hand = NoTask

Waiters == {w \in Workers : worker[w] = "waiting"}

-----------------------------------------------------------------------------
\* Defective variants: each is the definition its name starts with, with one
\* mistake.  They are not part of the specification; a property that a
\* variant violates is one the code could break.

EnqueueNotifyIfEmpty ==
  /\ owner = "lock"
  /\ stop \/ Len(tasks) < MaxQueue
  /\ IF stop THEN UNCHANGED tasks ELSE tasks' = Append(tasks, hand)
  /\ IF tasks = <<>> /\ Waiters # {}
       THEN \E w \in Waiters : worker' = [worker EXCEPT ![w] = "lock"]
       ELSE UNCHANGED worker
  /\ hand' = NoTask
  /\ owner' = "outside"
  /\ UNCHANGED <<stop, job>>

TakeWithoutNotify(w) ==
  /\ worker[w] = "lock"
  /\ tasks # <<>>
  /\ job' = [job EXCEPT ![w] = Head(tasks)]
  /\ tasks' = Tail(tasks)
  /\ worker' = [worker EXCEPT ![w] = "busy"]
  /\ UNCHANGED <<stop, owner, hand>>

SleepIgnoringStop(w) ==
  /\ worker[w] = "lock"
  /\ tasks = <<>>
  /\ worker' = [worker EXCEPT ![w] = "waiting"]
  /\ UNCHANGED <<tasks, stop, job, owner, hand>>

ExitOnStop(w) ==
  /\ worker[w] = "lock"
  /\ stop
  /\ worker' = [worker EXCEPT ![w] = "exited"]
  /\ UNCHANGED <<tasks, stop, job, owner, hand>>

EnqueueOneTooMany ==
  /\ owner = "lock"
  /\ stop \/ Len(tasks) <= MaxQueue
  /\ IF stop THEN UNCHANGED tasks ELSE tasks' = Append(tasks, hand)
  /\ hand' = NoTask
  /\ owner' = "outside"
  /\ UNCHANGED <<stop, worker, job>>

EnqueueInFront ==
  /\ owner = "lock"
  /\ stop \/ Len(tasks) < MaxQueue
  /\ IF stop THEN UNCHANGED tasks ELSE tasks' = <<hand>> \o tasks
  /\ hand' = NoTask
  /\ owner' = "outside"
  /\ worker' = [w \in Workers |->
                  IF worker[w] = "waiting" THEN "lock" ELSE worker[w]]
  /\ UNCHANGED <<stop, job>>

NotifyAllJustOne ==
  /\ owner = "notifying"
  /\ \/ Waiters = {} /\ UNCHANGED worker
     \/ \E w \in Waiters : worker' = [worker EXCEPT ![w] = "lock"]
  /\ owner' = "joining"
  /\ UNCHANGED <<tasks, stop, job, hand>>

-----------------------------------------------------------------------------
\* cv_task.notify_one: nothing if nobody sleeps, else any one sleeper.
NotifyOneTask ==
  \/ Waiters = {} /\ UNCHANGED worker
  \/ \E w \in Waiters : worker' = [worker EXCEPT ![w] = "lock"]

-----------------------------------------------------------------------------
\* The loop of a worker (main.cpp:335-350).

\* cv_task.wait returns with a task to take.  The owner, the only thread
\* that ever sleeps on cv_space, is notified.
Take(w) ==
  /\ worker[w] = "lock"
  /\ tasks # <<>>
  /\ job' = [job EXCEPT ![w] = Head(tasks)]
  /\ tasks' = Tail(tasks)
  /\ worker' = [worker EXCEPT ![w] = "busy"]
  /\ owner' = IF owner = "waiting" THEN "lock" ELSE owner
  /\ UNCHANGED <<stop, hand>>

\* The predicate of cv_task.wait is false.
Sleep(w) ==
  /\ worker[w] = "lock"
  /\ ~stop
  /\ tasks = <<>>
  /\ worker' = [worker EXCEPT ![w] = "waiting"]
  /\ UNCHANGED <<tasks, stop, job, owner, hand>>

\* if (stop && tasks.empty()) return
Exit(w) ==
  /\ worker[w] = "lock"
  /\ stop
  /\ tasks = <<>>
  /\ worker' = [worker EXCEPT ![w] = "exited"]
  /\ UNCHANGED <<tasks, stop, job, owner, hand>>

\* process_client returns.
Finish(w) ==
  /\ worker[w] = "busy"
  /\ worker' = [worker EXCEPT ![w] = "lock"]
  /\ job' = [job EXCEPT ![w] = NoTask]
  /\ UNCHANGED <<tasks, stop, owner, hand>>

SpuriousWakeup(w) ==
  /\ worker[w] = "waiting"
  /\ worker' = [worker EXCEPT ![w] = "lock"]
  /\ UNCHANGED <<tasks, stop, job, owner, hand>>

\* What a worker does when it gets the mutex.
Locked(w) == Take(w) \/ Sleep(w) \/ Exit(w)

-----------------------------------------------------------------------------
\* The owner: enqueue (main.cpp:355-366) and ~ThreadPool (main.cpp:368-378).

\* The owner calls enqueue(t).
CallEnqueue(t) ==
  /\ owner = "outside"
  /\ hand' = t
  /\ owner' = "lock"
  /\ UNCHANGED <<tasks, stop, worker, job>>

\* Its argument comes from accept(): it is not a descriptor that is still in
\* the queue or with a worker.  CppServer shows that its owner keeps to this.
InUse(t) ==
  \/ hand = t
  \/ \E i \in 1..Len(tasks) : tasks[i] = t
  \/ \E w \in Workers : job[w] = t

Offer(t) == ~InUse(t) /\ CallEnqueue(t)

\* cv_space.wait returns; push and notify, or close the descriptor when the
\* pool is stopping.
Enqueue ==
  /\ owner = "lock"
  /\ stop \/ Len(tasks) < MaxQueue
  /\ IF stop THEN UNCHANGED <<tasks, worker>>
             ELSE tasks' = Append(tasks, hand) /\ NotifyOneTask
  /\ hand' = NoTask
  /\ owner' = "outside"
  /\ UNCHANGED <<stop, job>>

\* The predicate of cv_space.wait is false.
AwaitSpace ==
  /\ owner = "lock"
  /\ ~stop
  /\ Len(tasks) >= MaxQueue
  /\ owner' = "waiting"
  /\ UNCHANGED <<tasks, stop, worker, job, hand>>

SpuriousSpace ==
  /\ owner = "waiting"
  /\ owner' = "lock"
  /\ UNCHANGED <<tasks, stop, worker, job, hand>>

\* The destructor sets stop inside the mutex ...
SetStop ==
  /\ owner = "outside"
  /\ stop' = TRUE
  /\ owner' = "notifying"
  /\ UNCHANGED <<tasks, worker, job, hand>>

\* ... wakes every sleeper once it has released it (on cv_space there is
\* none: the owner itself is here) ...
NotifyAll ==
  /\ owner = "notifying"
  /\ worker' = [w \in Workers |->
                  IF worker[w] = "waiting" THEN "lock" ELSE worker[w]]
  /\ owner' = "joining"
  /\ UNCHANGED <<tasks, stop, job, hand>>

\* ... and joins the workers.
Join ==
  /\ owner = "joining"
  /\ \A w \in Workers : worker[w] = "exited"
  /\ owner' = "destroyed"
  /\ UNCHANGED <<tasks, stop, worker, job, hand>>

\* The end of a run in which the pool is destroyed.
Destroyed == owner = "destroyed" /\ UNCHANGED vars

OwnerLocked == Enqueue \/ AwaitSpace

Next ==
  \/ \E w \in Workers :
       Take(w) \/ Sleep(w) \/ Exit(w) \/ Finish(w) \/ SpuriousWakeup(w)
  \/ \E t \in Tasks : Offer(t)
  \/ Enqueue
  \/ AwaitSpace
  \/ SpuriousSpace
  \/ SetStop
  \/ NotifyAll
  \/ Join
  \/ Destroyed

SafeSpec == Init /\ [][Next]_vars

\* A thread that wants the mutex gets it (sections are short and never block
\* with it held), process_client returns (its socket calls have timeouts),
\* and a destructor that was entered goes on.
Spec ==
  /\ SafeSpec
  /\ \A w \in Workers : WF_vars(Locked(w)) /\ WF_vars(Finish(w))
  /\ WF_vars(OwnerLocked)
  /\ WF_vars(NotifyAll)
  /\ WF_vars(Join)

-----------------------------------------------------------------------------
\* The types, with what the program counters say of the rest: a worker has a
\* job exactly while it processes one, the owner an argument exactly inside
\* enqueue, and the queue respects max_queue_size (main.cpp:358).
TypeOK ==
  /\ tasks \in Seq(Tasks)
  /\ Len(tasks) <= MaxQueue
  /\ stop \in BOOLEAN
  /\ worker \in [Workers -> {"lock", "waiting", "busy", "exited"}]
  /\ job \in [Workers -> Tasks \cup {NoTask}]
  /\ \A w \in Workers : job[w] # NoTask <=> worker[w] = "busy"
  /\ owner \in {"outside", "lock", "waiting", "notifying", "joining", "destroyed"}
  /\ hand \in Tasks \cup {NoTask}
  /\ hand # NoTask <=> owner \in {"lock", "waiting"}
  /\ stop <=> owner \in {"notifying", "joining", "destroyed"}

Awake == {w \in Workers : worker[w] = "lock"}

\* No wakeup of a worker is lost: while some worker sleeps there are at least
\* as many workers on their way to the queue as tasks in it, so one
\* notify_one per push is enough (main.cpp:339-345, 364-365).
WorkConserving == Waiters # {} => Cardinality(Awake) >= Len(tasks)

\* No wakeup of the owner is lost: it sleeps only while the queue is full
\* (main.cpp:345, 357-359).
SleepsOnlyWhenFull == owner = "waiting" => Len(tasks) = MaxQueue

\* The stop flag is set before notify_all and is part of the predicate, so
\* nobody sleeps through the shutdown: join cannot wait for a sleeping worker
\* (main.cpp:339-342, 369-374).
NoSleepAfterStop ==
  owner \in {"joining", "destroyed"} => Waiters = {}

\* What was accepted before the shutdown is still processed: a worker leaves
\* only when the queue is empty, and nothing is left behind (main.cpp:342).
DestructorDrains ==
  /\ (\E w \in Workers : worker[w] = "exited") => stop /\ tasks = <<>>
  /\ owner = "destroyed" => \A w \in Workers : job[w] = NoTask

\* The destructor returns (main.cpp:368-378).
DestructorReturns == owner = "notifying" ~> owner = "destroyed"

\* The pool is the bounded FIFO of TaskQueue: order, bound, and every task
\* that enqueue was called with is queued, started and finished, also when
\* the pool is being destroyed.
Queue == INSTANCE TaskQueue
           WITH Servers <- Workers, offered <- hand,
                waiting <- tasks, running <- job

QueueSpec == Queue!Spec

QueueSafeSpec == Queue!SafeSpec
=============================================================================
