---------------------------- MODULE TokenBucket -----------------------------
(***************************************************************************)
(* RateLimiter, the token bucket both servers put in front of their        *)
(* requests (SmartHomePCControl-CPP/src/main.cpp:31-63 and, with the same  *)
(* arithmetic, SmartHomePCControl-Rust/src/main.rs:19-53).  The bucket is  *)
(* lazy: nothing is added when time passes; try_acquire adds what the time *)
(* since the previous call is worth.                                       *)
(*                                                                         *)
(* The mutex of the class makes every call atomic, so one action is one    *)
(* call.  The doubles are integers in a unit fine enough to make the       *)
(* refill of one tick a whole number: with a tick of 1/8 s a request costs *)
(* 8 units, the capacity is 40 units and a tick is worth 5.                *)
(***************************************************************************)
EXTENDS Integers, Sequences, FiniteSets

CONSTANTS
  Capacity,     \* capacity, max_reqs_per_sec requests
  RefillRate,   \* refill_rate, in units per tick
  Cost,         \* the 1.0 a request takes
  MaxTime       \* bound on the clock

ASSUME BucketAssumption ==
  /\ Capacity \in Nat
  /\ RefillRate \in Nat
  /\ Cost \in Nat
  /\ Cost <= Capacity
  /\ MaxTime \in Nat

VARIABLES
  tokens,       \* tokens
  last_check,   \* last_check, the time of the previous call
  now,          \* steady_clock
  admitted,     \* history: the times at which try_acquire returned true
  refused       \* history: the times at which it returned false

vars == <<tokens, last_check, now, admitted, refused>>

Init ==
  /\ tokens = Capacity
  /\ last_check = 0
  /\ now = 0
  /\ admitted = <<>>
  /\ refused = {}

\* Time passes; the clock is monotonic and never waits for the limiter.
Tick ==
  /\ now < MaxTime
  /\ now' = now + 1
  /\ UNCHANGED <<tokens, last_check, admitted, refused>>

\* The balance after the refill and the clamp of try_acquire.
Unclamped == tokens + (now - last_check) * RefillRate

\* Defective variants, not part of the specification: the refill without the
\* clamp, an admission that does not move last_check, a refusal that drops the
\* refill.
RefilledUnclamped == Unclamped

Refilled == IF Unclamped > Capacity THEN Capacity ELSE Unclamped

AdmitStaleClock ==
  /\ Refilled >= Cost
  /\ tokens' = Refilled - Cost
  /\ last_check' = last_check
  /\ admitted' = Append(admitted, now)
  /\ UNCHANGED <<now, refused>>

RefuseDropsRefill ==
  /\ Refilled < Cost
  /\ last_check' = now
  /\ refused' = refused \cup {now}
  /\ UNCHANGED <<tokens, now, admitted>>

\* try_acquire() returning true.
Admit ==
  /\ Refilled >= Cost
  /\ tokens' = Refilled - Cost
  /\ last_check' = now
  /\ admitted' = Append(admitted, now)
  /\ UNCHANGED <<now, refused>>

\* try_acquire() returning false: the refill is kept all the same.
Refuse ==
  /\ Refilled < Cost
  /\ tokens' = Refilled
  /\ last_check' = now
  /\ refused' = refused \cup {now}
  /\ UNCHANGED <<now, admitted>>

Next == Tick \/ Admit \/ Refuse

Spec == Init /\ [][Next]_vars

-----------------------------------------------------------------------------
\* The balance stays between empty and full (the clamp of main.cpp:53-55),
\* and the previous call is never in the future.
TypeOK ==
  /\ tokens \in 0..Capacity
  /\ now \in 0..MaxTime
  /\ last_check \in 0..now
  /\ admitted \in Seq(0..now)
  /\ refused \subseteq 0..now

\* The law of the bucket, whatever pattern the calls arrive in, in two halves
\* (main.cpp:46-62).  Between any two admissions, both included, no more is
\* spent than a full bucket and the refill of the time between them; and a
\* call is refused only where letting it in would break the first half, so
\* that nothing is lost to laziness, to the clamp or to earlier refusals.
AdmitsAtMost ==
  \A j \in 1..Len(admitted) : \A i \in 1..j :
    (j - i + 1) * Cost <= Capacity + (admitted[j] - admitted[i]) * RefillRate

RefusesOnlyBeyond ==
  Refilled < Cost =>
    \E i \in 1..Len(admitted) :
      (Len(admitted) - i + 2) * Cost > Capacity + (now - admitted[i]) * RefillRate

WindowLaw == AdmitsAtMost /\ RefusesOnlyBeyond

\* Laziness is invisible: seen through the balance the next call would find,
\* the limiter admits and refuses exactly as a bucket the clock fills.  In
\* particular a refused call, which also moves last_check, costs nothing.
Ideal == INSTANCE Bucket WITH level <- Refilled

IdealSpec == Ideal!Spec

-----------------------------------------------------------------------------
\* The admissions of the second that ends with the j-th one.
InSecondBefore(j, second) ==
  {i \in 1..j : admitted[j] - admitted[i] < second}
=============================================================================
