----------------------------- MODULE MCApiKeys -----------------------------
(***************************************************************************)
(* Instances of ApiKeys for TLC.  Keys, clients, requests and commands are *)
(* interchangeable.                                                        *)
(***************************************************************************)
EXTENDS ApiKeys, TLC

Symmetry == Permutations(Keys) \cup Permutations(Clients)
               \cup Permutations(Requests) \cup Permutations(Commands)
=============================================================================
