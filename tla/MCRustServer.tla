---------------------------- MODULE MCRustServer ----------------------------
(***************************************************************************)
(* Instance of the Rust server for TLC: two connections made again and     *)
(* again, every way through the layers and handlers.                       *)
(***************************************************************************)
EXTENDS RustServer

\* Each handler, a path without a route, an empty token, other methods.
EveryRequest ==
  {[method |-> "get", token |-> "key", path |-> p] : p \in {"on", "off", "probe", "other"}}
    \cup {[method |-> "get", token |-> "empty", path |-> "off"],
          [method |-> "head", token |-> "key", path |-> "on"],
          [method |-> "other", token |-> "key", path |-> "on"]}

\* The fallback, with a name for the PC; an address that breaks the handler;
\* an empty key that hides the other one.  What a bad address does, a good one
\* may do as well: the call fails.
EveryEnv ==
  {[web |-> "unset", home |-> "key", mac |-> "good", ip |-> "name"],
   [web |-> "key", home |-> "unset", mac |-> "split", ip |-> "address"],
   [web |-> "empty", home |-> "key", mac |-> "bad", ip |-> "address"]}
=============================================================================
