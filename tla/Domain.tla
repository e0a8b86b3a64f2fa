------------------------------- MODULE Domain -------------------------------
(***************************************************************************)
(* The sets every module of the project speaks about: the HTTP requests a  *)
(* server process handles, the Codex thread ids it meets and the clients   *)
(* the requests are authenticated as.  A request also names the one turn   *)
(* it may start, so "the turn of r" needs no set of its own.               *)
(***************************************************************************)
EXTENDS Integers, FiniteSets

CONSTANTS
    Requests,   \* HTTP requests
    Threads,    \* thread ids (a conversation id is a thread id too)
    Clients,    \* client_id values a request can be authenticated as
    NoRequest,  \* None, where the code holds a turn, a handle or a holder
    NoThread,   \* None, where the code holds a thread id
    NoClient    \* None, where the code holds an owner

ASSUME DomainAssumption ==
    /\ NoRequest \notin Requests
    /\ NoThread \notin Threads
    /\ NoClient \notin Clients
=============================================================================
