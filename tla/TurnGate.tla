------------------------------ MODULE TurnGate ------------------------------
(***************************************************************************)
(* What the turn endpoints promise, whatever locks, slots and tables they  *)
(* use: a thread belongs to the client it was opened for, a turn runs only *)
(* on a thread of the caller, one at a time, and "ok" is only said to a    *)
(* request whose own turn has run.                                         *)
(***************************************************************************)
EXTENDS Domain

VARIABLES
    owner,   \* owner[t]: the client thread t was opened for, or NoClient
    caller,  \* caller[r]: the client that makes turn request r
    place,   \* place[r]: the thread r is about, NoThread until it is opened
    phase    \* phase[r]: how far r has come

gateVars == <<owner, caller, place, phase>>

Phases == {"away", "asked", "running", "ended", "ok", "refused"}

GateInit ==
    /\ owner \in [Threads -> Clients \cup {NoClient}]
    /\ caller = [r \in Requests |-> NoClient]
    /\ place = [r \in Requests |-> NoThread]
    /\ phase = [r \in Requests |-> "away"]

Enter(r, p) == phase' = [phase EXCEPT ![r] = p]

\* A turn request arrives, about any thread or about a new one.
Ask(r, c, t) ==
    /\ phase[r] = "away"
    /\ Enter(r, "asked")
    /\ caller' = [caller EXCEPT ![r] = c]
    /\ place' = [place EXCEPT ![r] = t]
    /\ UNCHANGED owner

\* A new thread is opened for the caller; its first turn may run at once, as
\* nobody else knows of the thread.
Open(r, t) ==
    /\ phase[r] = "asked"
    /\ owner[t] = NoClient
    /\ owner' = [owner EXCEPT ![t] = caller[r]]
    /\ place' = [place EXCEPT ![r] = t]
    /\ Enter(r, "asked") \/ Enter(r, "running")
    /\ UNCHANGED caller

\* The turn of r runs: on a thread of its caller, and alone.
Run(r) ==
    /\ phase[r] = "asked"
    /\ place[r] \in Threads
    /\ owner[place[r]] = caller[r]
    /\ \A q \in Requests : phase[q] = "running" => place[q] # place[r]
    /\ Enter(r, "running")
    /\ UNCHANGED <<owner, caller, place>>

\* The turn is over, with or without an answer at once.
Leave(r) ==
    /\ phase[r] = "running"
    /\ \E p \in {"ended", "ok", "refused"} : Enter(r, p)
    /\ UNCHANGED <<owner, caller, place>>

Confirm(r) ==
    /\ phase[r] = "ended"
    /\ Enter(r, "ok")
    /\ UNCHANGED <<owner, caller, place>>

Reject(r) ==
    /\ phase[r] \in {"asked", "ended"}
    /\ Enter(r, "refused")
    /\ UNCHANGED <<owner, caller, place>>

\* Whoever has no answer when the process dies gets none.
Crash ==
    /\ phase' = [r \in Requests |-> IF phase[r] \in {"asked", "running", "ended"}
                                    THEN "refused" ELSE phase[r]]
    /\ UNCHANGED <<owner, caller, place>>

GateNext ==
    \/ \E r \in Requests :
          \/ \E c \in Clients, t \in Threads \cup {NoThread} : Ask(r, c, t)
          \/ \E t \in Threads : Open(r, t)
          \/ Run(r) \/ Leave(r) \/ Confirm(r) \/ Reject(r)
    \/ Crash

GateSpec == GateInit /\ [][GateNext]_gateVars
----------------------------------------------------------------------------
\* The promise: a turn runs on a thread of its caller, and nobody else's turn
\* runs there.
TurnsApart ==
    \A r \in Requests : phase[r] = "running" =>
       /\ place[r] \in Threads
       /\ owner[place[r]] = caller[r]
       /\ \A q \in Requests \ {r} : phase[q] = "running" => place[q] # place[r]

\* It is kept since whoever has asked is a client, so that a thread without an
\* owner, which Open may take, is nobody's.
GateInv ==
    /\ owner \in [Threads -> Clients \cup {NoClient}]
    /\ caller \in [Requests -> Clients \cup {NoClient}]
    /\ place \in [Requests -> Threads \cup {NoThread}]
    /\ phase \in [Requests -> Phases]
    /\ \A r \in Requests : phase[r] # "away" => caller[r] \in Clients
    /\ TurnsApart
=============================================================================
