---------------------------- MODULE MCCppServer -----------------------------
(***************************************************************************)
(* Instances of the C++ server for TLC.  A crowd: so many connections that *)
(* the worker, the queue, the main thread asleep in enqueue and the        *)
(* backlog each hold one.  Requests: everything clients may send, cut      *)
(* wherever it matters, to two workers at once.                            *)
(***************************************************************************)
EXTENDS CppServer, TLC

Ask(get, token, path) == [get |-> get, token |-> token, path |-> path]

\* One of every way through handle_request.
EveryRoute ==
  {Ask(TRUE, "key", p) : p \in {"on", "off", "probe", "other"}}
    \cup {Ask(TRUE, "longer", "on"), Ask(TRUE, "other", "on"), Ask(FALSE, "key", "on")}

EveryCut == [c \in Conns |-> {"word", "line", "key"}]

Symmetry == Permutations(Conns) \cup Permutations(Workers)

-----------------------------------------------------------------------------
\* The crowd: a turn-on each, one call to the PC, in one piece or not at all.
JustOn == {Ask(TRUE, "key", "on")}

NoCuts == [c \in Conns |-> {}]

\* Connections that ask the same are interchangeable, so that they may as well
\* be made in a fixed order.
Turn == CHOOSE f \in [Conns -> 1..Cardinality(Conns)] :
          \A c, d \in Conns : f[c] = f[d] => c = d

ByTurns ==
  \A c, d \in Conns : Turn[c] < Turn[d] /\ conn[c] = "new" => conn'[d] = "new"

CrowdSpec == Init /\ [][Next /\ ByTurns]_vars /\ Fairness
=============================================================================
