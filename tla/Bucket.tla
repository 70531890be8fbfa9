------------------------------- MODULE Bucket -------------------------------
(***************************************************************************)
(* What a token bucket promises, as an ideal bucket that is filled by the  *)
(* clock itself: every tick adds RefillRate units up to Capacity, an       *)
(* admission takes Cost units and a request is refused only while fewer    *)
(* than Cost units are there.  TokenBucket, the lazy bucket of the code,   *)
(* implements it.                                                          *)
(***************************************************************************)
EXTENDS Integers, Sequences

CONSTANTS
  Capacity,     \* what the bucket holds when it is full
  RefillRate,   \* units added per tick of the clock
  Cost,         \* units one admitted request takes
  MaxTime       \* bound on the clock

VARIABLES
  level,      \* units in the bucket
  now,        \* the clock, in ticks
  admitted,   \* the times of the admissions, oldest first
  refused     \* the times at which a request was refused

vars == <<level, now, admitted, refused>>

Init ==
  /\ level = Capacity
  /\ now = 0
  /\ admitted = <<>>
  /\ refused = {}

Tick ==
  /\ now < MaxTime
  /\ now' = now + 1
  /\ level' = IF level + RefillRate > Capacity
                THEN Capacity ELSE level + RefillRate
  /\ UNCHANGED <<admitted, refused>>

Admit ==
  /\ level >= Cost
  /\ level' = level - Cost
  /\ admitted' = Append(admitted, now)
  /\ UNCHANGED <<now, refused>>

Refuse ==
  /\ level < Cost
  /\ refused' = refused \cup {now}
  /\ UNCHANGED <<level, now, admitted>>

Next == Tick \/ Admit \/ Refuse

Spec == Init /\ [][Next]_vars
=============================================================================
