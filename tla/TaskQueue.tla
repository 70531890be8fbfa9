----------------------------- MODULE TaskQueue ------------------------------
(***************************************************************************)
(* What the thread pool of the server promises, without mutex, condition   *)
(* variables or shutdown: a bounded FIFO between one producer and a set of *)
(* servers.  A task that is offered is accepted as soon as there is room,  *)
(* an accepted task is started in its turn and a started task ends.        *)
(***************************************************************************)
EXTENDS Integers, Sequences

CONSTANTS
  Servers,      \* who runs tasks
  Tasks,        \* what may be submitted
  NoTask,       \* the absence of a task
  MaxQueue      \* how many tasks may wait

VARIABLES
  offered,      \* the task the producer is submitting
  waiting,      \* accepted tasks, oldest first
  running       \* the task each server runs

vars == <<offered, waiting, running>>

Init ==
  /\ offered = NoTask
  /\ waiting = <<>>
  /\ running = [s \in Servers |-> NoTask]

Known(t) ==
  \/ offered = t
  \/ \E i \in 1..Len(waiting) : waiting[i] = t
  \/ \E s \in Servers : running[s] = t

Offer(t) ==
  /\ offered = NoTask
  /\ ~Known(t)
  /\ offered' = t
  /\ UNCHANGED <<waiting, running>>

Accept ==
  /\ offered # NoTask
  /\ Len(waiting) < MaxQueue
  /\ waiting' = Append(waiting, offered)
  /\ offered' = NoTask
  /\ UNCHANGED running

Start(s) ==
  /\ running[s] = NoTask
  /\ waiting # <<>>
  /\ running' = [running EXCEPT ![s] = Head(waiting)]
  /\ waiting' = Tail(waiting)
  /\ UNCHANGED offered

End(s) ==
  /\ running[s] # NoTask
  /\ running' = [running EXCEPT ![s] = NoTask]
  /\ UNCHANGED <<offered, waiting>>

StartSome == \E s \in Servers : Start(s)

Next ==
  \/ \E t \in Tasks : Offer(t)
  \/ Accept
  \/ StartSome
  \/ \E s \in Servers : End(s)

SafeSpec == Init /\ [][Next]_vars

\* Room is used, a free server takes the oldest task, every task ends.
Spec ==
  /\ SafeSpec
  /\ WF_vars(Accept)
  /\ WF_vars(StartSome)
  /\ \A s \in Servers : WF_vars(End(s))
=============================================================================
