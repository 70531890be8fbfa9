-------------------------- MODULE ThreadPoolProofs --------------------------
(***************************************************************************)
(* Proofs about the thread pool for any number of workers, any queue bound *)
(* and any set of descriptors.                                             *)
(***************************************************************************)
EXTENDS ThreadPool, FiniteSetTheorems, TLAPS

\* The queue after a pop and after a push.
LEMMA QueueOps ==
  ASSUME TypeOK
  PROVE  /\ Len(tasks) \in Nat
         /\ tasks # <<>> => /\ Head(tasks) \in Tasks
                            /\ Tail(tasks) \in Seq(Tasks)
                            /\ Len(Tail(tasks)) = Len(tasks) - 1
                            /\ Len(tasks) > 0
         /\ \A t \in Tasks : /\ Append(tasks, t) \in Seq(Tasks)
                             /\ Len(Append(tasks, t)) = Len(tasks) + 1
  BY SMT DEF TypeOK

\* Every step of the pool keeps the types.
LEMMA TypeStep == TypeOK /\ [Next]_vars => TypeOK'
<1> SUFFICES ASSUME TypeOK, [Next]_vars PROVE TypeOK'
  OBVIOUS
<1> USE PoolAssumption
<1>1. ASSUME NEW w \in Workers, Take(w) PROVE TypeOK'
  BY <1>1, QueueOps, SMT DEF Take, TypeOK
<1>2. ASSUME NEW w \in Workers, Sleep(w) PROVE TypeOK'
  BY <1>2, SMT DEF Sleep, TypeOK
<1>3. ASSUME NEW w \in Workers, Exit(w) PROVE TypeOK'
  BY <1>3, SMT DEF Exit, TypeOK
<1>4. ASSUME NEW w \in Workers, Finish(w) PROVE TypeOK'
  BY <1>4, SMT DEF Finish, TypeOK
<1>5. ASSUME NEW w \in Workers, SpuriousWakeup(w) PROVE TypeOK'
  BY <1>5, SMT DEF SpuriousWakeup, TypeOK
<1>6. ASSUME NEW t \in Tasks, Offer(t) PROVE TypeOK'
  BY <1>6, SMT DEF Offer, CallEnqueue, TypeOK
<1>7. CASE Enqueue
  <2>1. hand \in Tasks /\ ~stop
    BY <1>7, SMT DEF Enqueue, TypeOK
  <2>2. /\ tasks' = Append(tasks, hand)
        /\ NotifyOneTask
        /\ Len(tasks) < MaxQueue
    BY <1>7, <2>1 DEF Enqueue
  <2>3. tasks' \in Seq(Tasks) /\ Len(tasks') <= MaxQueue
    BY <2>1, <2>2, QueueOps, SMT
  <2>4. /\ worker' \in [Workers -> {"lock", "waiting", "busy", "exited"}]
        /\ \A w \in Workers : worker'[w] = "busy" <=> worker[w] = "busy"
    BY <2>2, SMT DEF NotifyOneTask, Waiters, TypeOK
  <2> QED BY <1>7, <2>3, <2>4, SMT DEF Enqueue, TypeOK
<1>8. CASE AwaitSpace
  BY <1>8, SMT DEF AwaitSpace, TypeOK
<1>9. CASE SpuriousSpace
  BY <1>9, SMT DEF SpuriousSpace, TypeOK
<1>10. CASE SetStop
  BY <1>10, SMT DEF SetStop, TypeOK
<1>11. CASE NotifyAll
  BY <1>11, SMT DEF NotifyAll, TypeOK
<1>12. CASE Join
  BY <1>12, SMT DEF Join, TypeOK
<1>13. CASE Destroyed
  BY <1>13 DEF Destroyed, vars, TypeOK
<1>14. CASE UNCHANGED vars
  BY <1>14 DEF vars, TypeOK
<1> QED
  BY <1>1, <1>2, <1>3, <1>4, <1>5, <1>6, <1>7, <1>8, <1>9, <1>10, <1>11,
     <1>12, <1>13, <1>14 DEF Next

\* The types hold without any fairness.
LEMMA TypeInvariant == SafeSpec => []TypeOK
<1>1. Init => TypeOK
  <2>1. <<>> \in Seq(Tasks) /\ Len(<<>>) = 0
    BY SMT
  <2>2. Len(<<>>) <= MaxQueue
    BY <2>1, PoolAssumption, SMT
  <2> QED BY <2>1, <2>2, PoolAssumption DEF Init, TypeOK
<1> QED BY <1>1, TypeStep, PTL DEF SafeSpec

\* Every step of the pool keeps the types and the bound of the queue
\* (main.cpp:320-379).
THEOREM TypeCorrect == Spec => []TypeOK
  BY TypeInvariant, PTL DEF Spec

-----------------------------------------------------------------------------
\* The number of workers on their way to the queue changes by one when one
\* worker joins or leaves them.
LEMMA AwakeCount ==
  /\ IsFiniteSet(Awake)
  /\ Cardinality(Awake) \in Nat
  /\ \A w \in Workers \ Awake :
       /\ IsFiniteSet(Awake \cup {w})
       /\ Cardinality(Awake \cup {w}) = Cardinality(Awake) + 1
  /\ \A w \in Awake :
       /\ IsFiniteSet(Awake \ {w})
       /\ Cardinality(Awake \ {w}) = Cardinality(Awake) - 1
<1>1. IsFiniteSet(Awake)
  BY PoolAssumption, FS_Subset DEF Awake
<1> QED BY <1>1, FS_CardinalityType, FS_AddElement, FS_RemoveElement

\* Without fairness: every step of a worker and of the owner keeps it.
LEMMA WakeupInvariant == SafeSpec => []WorkConserving
<1>1. Init => WorkConserving
  BY SMT DEF Init, WorkConserving, Waiters
<1>2. TypeOK /\ WorkConserving /\ [Next]_vars => WorkConserving'
  <2> SUFFICES ASSUME TypeOK, WorkConserving, [Next]_vars PROVE WorkConserving'
    OBVIOUS
  <2>1. ASSUME NEW w \in Workers, worker[w] = "lock", NEW p,
               worker' = [worker EXCEPT ![w] = p], p # "lock"
        PROVE  Awake' = Awake \ {w}
    BY <2>1 DEF Awake, TypeOK
  <2>2. ASSUME NEW w \in Workers, worker[w] # "lock",
               worker' = [worker EXCEPT ![w] = "lock"]
        PROVE  /\ Awake' = Awake \cup {w}
               /\ Waiters' \subseteq Waiters
               /\ w \in Workers \ Awake
    BY <2>2 DEF Awake, Waiters, TypeOK
  <2>3. ASSUME NEW w \in Workers, Take(w) PROVE WorkConserving'
    <3>1. /\ Awake' = Awake \ {w}
          /\ w \in Awake
          /\ Waiters' = Waiters
          /\ tasks' = Tail(tasks) /\ tasks # <<>>
      BY <2>1, <2>3 DEF Take, Awake, Waiters, TypeOK
    <3>2. /\ Cardinality(Awake') = Cardinality(Awake) - 1
          /\ Cardinality(Awake) \in Nat
      BY <3>1, AwakeCount
    <3>3. Len(tasks') = Len(tasks) - 1 /\ Len(tasks) \in Nat
      BY <3>1, QueueOps
    <3> QED BY <3>1, <3>2, <3>3, SMT DEF WorkConserving
  <2>4. ASSUME NEW w \in Workers, Sleep(w) PROVE WorkConserving'
    <3>0. /\ worker[w] = "lock" /\ tasks = <<>> /\ tasks' = tasks
          /\ worker' = [worker EXCEPT ![w] = "waiting"]
      BY <2>4 DEF Sleep
    <3>1. Awake' = Awake \ {w} /\ w \in Awake /\ Len(tasks') = 0
      <4>1. Awake' = Awake \ {w}
        BY <2>1, <3>0
      <4> QED BY <3>0, <4>1, SMT DEF Awake
    <3>2. Cardinality(Awake') \in Nat
      BY <3>1, AwakeCount, FS_CardinalityType
    <3> QED BY <3>1, <3>2, SMT DEF WorkConserving
  <2>5. ASSUME NEW w \in Workers, Exit(w) PROVE WorkConserving'
    <3>0. /\ worker[w] = "lock" /\ tasks = <<>> /\ tasks' = tasks
          /\ worker' = [worker EXCEPT ![w] = "exited"]
      BY <2>5 DEF Exit
    <3>1. Awake' = Awake \ {w} /\ w \in Awake /\ Len(tasks') = 0
      <4>1. Awake' = Awake \ {w}
        BY <2>1, <3>0
      <4> QED BY <3>0, <4>1, SMT DEF Awake
    <3>2. Cardinality(Awake') \in Nat
      BY <3>1, AwakeCount, FS_CardinalityType
    <3> QED BY <3>1, <3>2, SMT DEF WorkConserving
  <2>6. ASSUME NEW w \in Workers, Finish(w) \/ SpuriousWakeup(w)
        PROVE  WorkConserving'
    <3>1. /\ worker[w] # "lock"
          /\ worker' = [worker EXCEPT ![w] = "lock"]
          /\ tasks' = tasks
      BY <2>6 DEF Finish, SpuriousWakeup
    <3>2. /\ Cardinality(Awake') = Cardinality(Awake) + 1
          /\ Cardinality(Awake) \in Nat
          /\ Waiters' \subseteq Waiters
      BY <2>2, <3>1, AwakeCount
    <3>3. Len(tasks') = Len(tasks) /\ Len(tasks) \in Nat
      BY <3>1, QueueOps
    <3>4. Waiters' # {} => Waiters # {}
      BY <3>2
    <3> QED BY <3>2, <3>3, <3>4, SMT DEF WorkConserving
  <2>7. CASE Enqueue
    <3>1. CASE UNCHANGED <<tasks, worker>>
      BY <3>1 DEF WorkConserving, Waiters, Awake
    <3>2. CASE tasks' = Append(tasks, hand) /\ NotifyOneTask
      <4>1. Len(tasks') = Len(tasks) + 1
        BY <2>7, <3>2, QueueOps DEF Enqueue, TypeOK
      <4>2. CASE Waiters = {} /\ UNCHANGED worker
        BY <4>2 DEF WorkConserving, Waiters
      <4>3. ASSUME NEW w \in Waiters, worker' = [worker EXCEPT ![w] = "lock"]
            PROVE  WorkConserving'
        <5>1. w \in Workers /\ worker[w] # "lock"
          BY <4>3 DEF Waiters
        <5>2. /\ Cardinality(Awake') = Cardinality(Awake) + 1
              /\ Cardinality(Awake) \in Nat
          BY <2>2, <4>3, <5>1, AwakeCount
        <5>3. Len(tasks) \in Nat /\ Waiters # {}
          BY <4>3, QueueOps
        <5> QED BY <4>1, <5>2, <5>3, SMT DEF WorkConserving
      <4> QED BY <3>2, <4>2, <4>3 DEF NotifyOneTask
    <3> QED BY <2>7, <3>1, <3>2 DEF Enqueue
  <2>8. CASE NotifyAll
    <3>1. Waiters' = {}
      BY <2>8 DEF NotifyAll, Waiters, TypeOK
    <3> QED BY <3>1 DEF WorkConserving
  <2>9. ASSUME UNCHANGED <<tasks, worker>> PROVE WorkConserving'
    BY <2>9 DEF WorkConserving, Waiters, Awake
  <2>10. ASSUME NEW t \in Tasks, Offer(t) PROVE WorkConserving'
    BY <2>9, <2>10 DEF Offer, CallEnqueue
  <2>11. CASE AwaitSpace \/ SpuriousSpace \/ SetStop \/ Join \/ Destroyed
    BY <2>9, <2>11
      DEF AwaitSpace, SpuriousSpace, SetStop, Join, Destroyed, vars
  <2>12. CASE UNCHANGED vars
    BY <2>9, <2>12 DEF vars
  <2> QED
    BY <2>3, <2>4, <2>5, <2>6, <2>7, <2>8, <2>10, <2>11, <2>12 DEF Next
<1> QED BY <1>1, <1>2, TypeInvariant, PTL DEF SafeSpec

\* No push of enqueue is slept through: while a worker sleeps, those awake
\* are enough for the tasks in the queue (main.cpp:339-345, 364-365).
THEOREM NoLostWakeup == Spec => []WorkConserving
  BY WakeupInvariant, PTL DEF Spec

\* Without fairness: every step of a worker and of the owner keeps it.
LEMMA OwnerInvariant == SafeSpec => []SleepsOnlyWhenFull
<1>1. Init => SleepsOnlyWhenFull
  BY DEF Init, SleepsOnlyWhenFull
<1>2. TypeOK /\ SleepsOnlyWhenFull /\ [Next]_vars => SleepsOnlyWhenFull'
  <2> SUFFICES ASSUME TypeOK, SleepsOnlyWhenFull, [Next]_vars
               PROVE  SleepsOnlyWhenFull'
    OBVIOUS
  <2>1. ASSUME NEW w \in Workers, Take(w) PROVE SleepsOnlyWhenFull'
    BY <2>1 DEF Take, SleepsOnlyWhenFull
  <2>2. ASSUME NEW w \in Workers,
               Sleep(w) \/ Exit(w) \/ Finish(w) \/ SpuriousWakeup(w)
        PROVE  SleepsOnlyWhenFull'
    BY <2>2 DEF Sleep, Exit, Finish, SpuriousWakeup, SleepsOnlyWhenFull
  <2>3. ASSUME NEW t \in Tasks, Offer(t) PROVE SleepsOnlyWhenFull'
    BY <2>3 DEF Offer, CallEnqueue, SleepsOnlyWhenFull
  <2>4. CASE AwaitSpace
    BY <2>4, PoolAssumption, QueueOps, SMT DEF AwaitSpace, SleepsOnlyWhenFull, TypeOK
  <2>5. CASE Enqueue \/ SpuriousSpace \/ SetStop \/ NotifyAll \/ Join
    BY <2>5 DEF Enqueue, SpuriousSpace, SetStop, NotifyAll, Join,
                SleepsOnlyWhenFull
  <2>6. CASE Destroyed \/ UNCHANGED vars
    BY <2>6 DEF Destroyed, vars, SleepsOnlyWhenFull
  <2> QED BY <2>1, <2>2, <2>3, <2>4, <2>5, <2>6 DEF Next
<1> QED BY <1>1, <1>2, TypeInvariant, PTL DEF SafeSpec

\* The owner sleeps in enqueue only while the queue is full: every pop wakes
\* it (main.cpp:345, 357-359).
THEOREM OwnerSleepsOnlyWhenFull == Spec => []SleepsOnlyWhenFull
  BY OwnerInvariant, PTL DEF Spec

-----------------------------------------------------------------------------
\* Between setting stop and notify_all a worker may still be asleep; after
\* it, none is.  An exited worker has seen an empty queue, and nothing is
\* queued once stop is set.
ShutdownInv ==
  /\ NoSleepAfterStop
  /\ \A w \in Workers : worker[w] = "exited" => stop /\ tasks = <<>>
  /\ owner = "destroyed" => \A w \in Workers : worker[w] = "exited"

\* The shutdown invariant is preserved by every step of the pool.
LEMMA ShutdownInvariant == SafeSpec => []ShutdownInv
<1>1. Init => ShutdownInv
  BY DEF Init, ShutdownInv, NoSleepAfterStop
<1>2. TypeOK /\ ShutdownInv /\ [Next]_vars => ShutdownInv'
  <2> SUFFICES ASSUME TypeOK, ShutdownInv, [Next]_vars PROVE ShutdownInv'
    OBVIOUS
  <2> USE DEF ShutdownInv, NoSleepAfterStop, Waiters
  <2>1. ASSUME NEW w \in Workers, Take(w) PROVE ShutdownInv'
    BY <2>1 DEF Take, TypeOK
  <2>2. ASSUME NEW w \in Workers, Sleep(w) PROVE ShutdownInv'
    BY <2>2 DEF Sleep, TypeOK
  <2>3. ASSUME NEW w \in Workers, Exit(w) PROVE ShutdownInv'
    BY <2>3 DEF Exit, TypeOK
  <2>4. ASSUME NEW w \in Workers, Finish(w) PROVE ShutdownInv'
    BY <2>4 DEF Finish, TypeOK
  <2>5. ASSUME NEW w \in Workers, SpuriousWakeup(w) PROVE ShutdownInv'
    BY <2>5 DEF SpuriousWakeup, TypeOK
  <2>6. ASSUME NEW t \in Tasks, Offer(t) PROVE ShutdownInv'
    BY <2>6 DEF Offer, CallEnqueue, TypeOK
  <2>7. CASE Enqueue
    <3>1. ~stop /\ owner' = "outside"
      BY <2>7 DEF Enqueue, TypeOK
    <3>2. \A w \in Workers : worker[w] # "exited"
      BY <3>1
    <3>3. \A w \in Workers : worker'[w] # "exited"
      BY <2>7, <3>1, <3>2 DEF Enqueue, NotifyOneTask, TypeOK
    <3> QED BY <3>1, <3>3
  <2>8. CASE AwaitSpace \/ SpuriousSpace \/ SetStop
    BY <2>8 DEF AwaitSpace, SpuriousSpace, SetStop, TypeOK
  <2>9. CASE NotifyAll
    BY <2>9 DEF NotifyAll, TypeOK
  <2>10. CASE Join
    BY <2>10 DEF Join, TypeOK
  <2>11. CASE Destroyed \/ UNCHANGED vars
    BY <2>11 DEF Destroyed, vars
  <2> QED
    BY <2>1, <2>2, <2>3, <2>4, <2>5, <2>6, <2>7, <2>8, <2>9, <2>10, <2>11
      DEF Next
<1> QED BY <1>1, <1>2, TypeInvariant, PTL DEF SafeSpec

\* Nobody sleeps through the shutdown (main.cpp:339-342, 369-374).
THEOREM ShutdownWakesAll == Spec => []NoSleepAfterStop
<1>1. ShutdownInv => NoSleepAfterStop
  BY DEF ShutdownInv
<1> QED BY <1>1, ShutdownInvariant, PTL DEF Spec

\* The destructor leaves no accepted task behind (main.cpp:342, 375-377).
THEOREM ShutdownDrains == Spec => []DestructorDrains
<1>1. TypeOK /\ ShutdownInv => DestructorDrains
  <2> SUFFICES ASSUME TypeOK, ShutdownInv PROVE DestructorDrains
    OBVIOUS
  <2>1. owner = "destroyed" => \A w \in Workers : job[w] = NoTask
    BY DEF ShutdownInv, TypeOK
  <2> QED BY <2>1 DEF DestructorDrains, ShutdownInv
<1> QED BY <1>1, ShutdownInvariant, TypeCorrect, PTL DEF Spec

-----------------------------------------------------------------------------
\* Nobody waits for a pool that is asleep: while there is a task, or the owner
\* sleeps in enqueue, some worker is on its way to the queue or processing;
\* and so it is while the destructor joins, until all workers are gone.  No
\* spurious wakeup is needed for it.
Running == {w \in Workers : worker[w] \in {"lock", "busy"}}

SomebodyRuns ==
  /\ tasks # <<>> \/ owner = "waiting" => Running # {}
  /\ owner = "joining" => Running # {} \/ \A w \in Workers : worker[w] = "exited"

\* Without fairness: it follows from the counts and the shutdown.
LEMMA RunningInvariant == SafeSpec => []SomebodyRuns
<1>1. TypeOK /\ WorkConserving /\ SleepsOnlyWhenFull /\ ShutdownInv => SomebodyRuns
  <2> SUFFICES ASSUME TypeOK, WorkConserving, SleepsOnlyWhenFull, ShutdownInv
               PROVE  SomebodyRuns
    OBVIOUS
  <2>1. owner = "waiting" => tasks # <<>>
    <3>1. MaxQueue # 0 /\ Len(<<>>) = 0
      BY PoolAssumption, SMT
    <3> QED BY <3>1 DEF SleepsOnlyWhenFull
  <2>2. ASSUME tasks # <<>> PROVE Running # {}
    <3>1. CASE Waiters # {}
      <4>1. Cardinality(Awake) >= Len(tasks) /\ Len(tasks) > 0 /\ Len(tasks) \in Nat
        BY <2>2, <3>1, QueueOps DEF WorkConserving
      <4>2. Cardinality(Awake) \in Nat /\ Cardinality(Awake) # 0
        BY <4>1, AwakeCount
      <4>3. Awake # {}
        BY <4>2, FS_EmptySet
      <4> QED BY <4>3 DEF Awake, Running
    <3>2. CASE Waiters = {}
      <4>1. PICK w \in Workers : TRUE
        BY PoolAssumption
      <4>2. worker[w] # "exited"
        BY <2>2 DEF ShutdownInv
      <4> QED BY <3>2, <4>2 DEF Waiters, Running, TypeOK
    <3> QED BY <3>1, <3>2
  <2>3. ASSUME owner = "joining", Running = {}, NEW w \in Workers
        PROVE  worker[w] = "exited"
    BY <2>3 DEF ShutdownInv, NoSleepAfterStop, Waiters, Running, TypeOK
  <2> QED BY <2>1, <2>2, <2>3 DEF SomebodyRuns
<1> QED
  BY <1>1, TypeInvariant, WakeupInvariant, OwnerInvariant, ShutdownInvariant, PTL

\* The pool never falls asleep over a task, over the owner or over its own
\* destructor (main.cpp:335-378).
THEOREM PoolNeverStalls == Spec => []SomebodyRuns
  BY RunningInvariant, PTL DEF Spec

-----------------------------------------------------------------------------
\* Every step of the pool is a step of the bounded FIFO queue or leaves it
\* unchanged: mutex, condition variables and shutdown do not show.
LEMMA QueueRefinement == SafeSpec => QueueSafeSpec
<1>1. Init => Queue!Init
  BY DEF Init, Queue!Init
<1>2. TypeOK /\ [Next]_vars => [Queue!Next]_Queue!vars
  <2> SUFFICES ASSUME TypeOK, [Next]_vars
               PROVE  Queue!Next \/ UNCHANGED Queue!vars
    OBVIOUS
  <2> USE DEF Queue!Next, Queue!vars
  <2>1. ASSUME NEW w \in Workers, Take(w) PROVE Queue!Next
    <3>1. job[w] = NoTask
      BY <2>1 DEF Take, TypeOK
    <3>2. Queue!Start(w)
      BY <2>1, <3>1 DEF Take, Queue!Start
    <3> QED BY <3>2 DEF Queue!StartSome
  <2>2. ASSUME NEW w \in Workers, Finish(w) PROVE Queue!Next
    <3>1. Queue!End(w)
      BY <2>2 DEF Finish, TypeOK, Queue!End
    <3> QED BY <3>1
  <2>3. ASSUME NEW w \in Workers, Sleep(w) \/ Exit(w) \/ SpuriousWakeup(w)
        PROVE  UNCHANGED Queue!vars
    BY <2>3 DEF Sleep, Exit, SpuriousWakeup
  <2>4. ASSUME NEW t \in Tasks, Offer(t) PROVE Queue!Next
    <3>1. hand = NoTask
      BY <2>4 DEF Offer, CallEnqueue, TypeOK
    <3>2. Queue!Offer(t)
      BY <2>4, <3>1 DEF Offer, CallEnqueue, InUse, Queue!Offer, Queue!Known
    <3> QED BY <3>2
  <2>5. CASE Enqueue
    <3>1. ~stop /\ hand # NoTask
      BY <2>5 DEF Enqueue, TypeOK
    <3>2. Queue!Accept
      BY <2>5, <3>1 DEF Enqueue, Queue!Accept
    <3> QED BY <3>2
  <2>6. CASE AwaitSpace \/ SpuriousSpace \/ SetStop \/ NotifyAll \/ Join
    BY <2>6 DEF AwaitSpace, SpuriousSpace, SetStop, NotifyAll, Join
  <2>7. CASE Destroyed \/ UNCHANGED vars
    BY <2>7 DEF Destroyed, vars
  <2> QED BY <2>1, <2>2, <2>3, <2>4, <2>5, <2>6, <2>7 DEF Next
<1> QED
  BY <1>1, <1>2, TypeInvariant, PTL
    DEF SafeSpec, QueueSafeSpec, Queue!SafeSpec

\* What the pool promises (main.cpp:320-379): a bounded FIFO queue.
THEOREM ImplementsQueue == Spec => QueueSafeSpec
  BY QueueRefinement, PTL DEF Spec
=============================================================================
