----------------------------- MODULE PcService ------------------------------
(***************************************************************************)
(* What a client of either HTTP server may rely on, without connections,   *)
(* threads, limiter or queue: the PC is called for authorized requests     *)
(* only, for nothing but what they ask, and before they are answered; an   *)
(* answer says the truth about the calls made and nothing follows it.      *)
(* CppServer and RustServer implement it.                                  *)
(***************************************************************************)
CONSTANTS
  Clients,      \* who asks, one request at a time
  Asked         \* requests, by what the server sees of them: [acts, key :
                \* BOOLEAN, path], acts for a method that has a handler

VARIABLES
  req,          \* the request of each client
  done,         \* the calls to the PC made for it that succeeded
  reply         \* its answer, 0 for none yet

vars == <<req, done, reply>>

\* The calls a request asks for.
Wanted(r) ==
  IF ~r.acts \/ ~r.key THEN {}
  ELSE CASE r.path = "on"    -> {"wol"}
         [] r.path = "off"   -> {"udp", "tcp"}
         [] r.path = "probe" -> {"probe"}
         [] r.path = "other" -> {}

\* The answers that are true of a request for which the calls d succeeded.
Answers(r, d) ==
  {s \in {401, 404, 405, 429} : d = {}} \cup
  {s \in {200} : d # {} \/ Wanted(r) = {"probe"}} \cup
  {s \in {500} : d = {} /\ Wanted(r) \in {{"wol"}, {"udp", "tcp"}}}

Init ==
  /\ req \in [Clients -> Asked]
  /\ done = [c \in Clients |-> {}]
  /\ reply = [c \in Clients |-> 0]

\* The client gives its request up, or has been answered, and asks again.
Ask(c, r) ==
  /\ req' = [req EXCEPT ![c] = r]
  /\ done' = [done EXCEPT ![c] = {}]
  /\ reply' = [reply EXCEPT ![c] = 0]

Call(c, k) ==
  /\ reply[c] = 0
  /\ k \in Wanted(req[c])
  /\ done' = [done EXCEPT ![c] = @ \cup {k}]
  /\ UNCHANGED <<req, reply>>

Answer(c, s) ==
  /\ reply[c] = 0
  /\ s \in Answers(req[c], done[c])
  /\ reply' = [reply EXCEPT ![c] = s]
  /\ UNCHANGED <<req, done>>

Next ==
  \E c \in Clients :
    \/ \E r \in Asked : Ask(c, r)
    \/ \E k \in {"wol", "udp", "tcp", "probe"} : Call(c, k)
    \/ \E s \in {200, 401, 404, 405, 429, 500} : Answer(c, s)

Spec == Init /\ [][Next]_vars

-----------------------------------------------------------------------------
\* What it amounts to at any moment: the PC was called for nothing but what an
\* authorized request asks, and an answer that was given is true of the calls
\* (main.cpp:249-317, main.rs:118-155, 259-297).
Truthful ==
  \A c \in Clients :
    /\ done[c] \subseteq Wanted(req[c])
    /\ reply[c] # 0 => reply[c] \in Answers(req[c], done[c])
=============================================================================
