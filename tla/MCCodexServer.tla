--------------------------- MODULE MCCodexServer ---------------------------
(***************************************************************************)
(* Instances of CodexServer for TLC: each cfg names the handlers its       *)
(* clients call.  Requests are interchangeable and so are clients; no      *)
(* initial state and no action names one of them.                          *)
(***************************************************************************)
EXTENDS ServerProperties

Symmetry == Permutations(Requests) \cup Permutations(Clients)
=============================================================================
