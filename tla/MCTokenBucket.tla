--------------------------- MODULE MCTokenBucket ----------------------------
(***************************************************************************)
(* The limiter with the numbers of the code: 5 requests of capacity, 5     *)
(* requests per second, in ticks of an eighth of a second and units of an  *)
(* eighth of a request.                                                    *)
(***************************************************************************)
EXTENDS TokenBucket

TicksPerSecond == 8

\* What the comment on MAX_REQUESTS_PER_SECOND says (main.cpp:28: at most 5
\* requests/s for all clients together): in no second are more than 5
\* requests admitted.
AtMostFivePerSecond ==
  \A j \in 1..Len(admitted) :
    Cardinality(InSecondBefore(j, TicksPerSecond)) * Cost <= Capacity
=============================================================================
