--------------------------- MODULE MCPowerControl ---------------------------
(***************************************************************************)
(* Instance of the whole for TLC: turn-offs on the one hand and clients of *)
(* the wake-up server on the other, which have nothing in common and take  *)
(* part by turns.                                                          *)
(***************************************************************************)
EXTENDS PowerControl

EitherSide == {Requests, Clients}
=============================================================================
