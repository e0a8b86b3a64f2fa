------------------------------ MODULE ApiKeys ------------------------------
(***************************************************************************)
(* API keys: how a request is authenticated (require_auth in               *)
(* app/dependencies.py) while the administrator's commands (cli/users.py,  *)
(* cli/api_keys.py) change the same tables from other processes.           *)
(*                                                                         *)
(* Every SQL statement is a transaction of its own.  Rows of clients and   *)
(* api_keys are never deleted and a key never changes its client, so the   *)
(* existence check of a command and its one write are a single step; the   *)
(* commands that write and then print (create, rotate) are processes that  *)
(* may die, or fail on a locked database, between any two steps.           *)
(***************************************************************************)
EXTENDS Domain

CONSTANTS
    Keys,      \* rows of api_keys; a raw key stands for the row with its hash
    NoKey,     \* a raw key that no row has the hash of
    Commands   \* runs of "create" and "rotate"

ASSUME KeysAssumption == NoKey \notin Keys

VARIABLES
    clients,    \* clients[c]: "none", "enabled" or "disabled"
    keys,       \* keys[k]: the row of k; nothing reads its last_used_at
    known,      \* the raw keys that were printed, so that a client can use them
    step,       \* step[p]: how far the command p has come
    old,        \* old[p]: the key that p revokes, or NoKey
    new,        \* new[p]: the key that p has inserted
    auth,       \* auth[r]: how far require_auth has come
    presented,  \* presented[r]: the key in the Authorization header of r
    found,      \* found[r]: the ApiKeyLookupResult, read before the checks
    blocked,    \* history: the requests whose key was never usable since they came
    spent       \* history: the requests whose key was revoked before its lookup

tableVars == <<clients, keys>>
commandVars == <<known, step, old, new>>
authVars == <<auth, presented, found>>
keyVars == <<tableVars, commandVars, authVars, blocked, spent>>

Expiry == {"never", "later", "past"}
KeyRow == [owner : Clients \cup {NoClient}, enabled : BOOLEAN, revoked : BOOLEAN,
           expiry : Expiry]
NoKeyRow == [owner |-> NoClient, enabled |-> FALSE, revoked |-> FALSE, expiry |-> "never"]
Lookup == [row : KeyRow, clientEnabled : BOOLEAN]
NoLookup == [row |-> NoKeyRow, clientEnabled |-> FALSE]

Issued(k) == keys[k].owner # NoClient

\* What the checks of require_auth ask for, of the tables as they are now.
Usable(k) ==
    /\ k \in Keys
    /\ Issued(k)
    /\ keys[k].enabled /\ ~keys[k].revoked /\ keys[k].expiry # "past"
    /\ clients[keys[k].owner] = "enabled"

KeysInit ==
    /\ clients = [c \in Clients |-> "none"]
    /\ keys = [k \in Keys |-> NoKeyRow]
    /\ known = {}
    /\ step = [p \in Commands |-> "ready"]
    /\ old = [p \in Commands |-> NoKey]
    /\ new = [p \in Commands |-> NoKey]
    /\ auth = [r \in Requests |-> "none"]
    /\ presented = [r \in Requests |-> NoKey]
    /\ found = [r \in Requests |-> NoLookup]
    /\ blocked = {} /\ spent = {}
----------------------------------------------------------------------------
(* The administrator's commands. *)

CreateUser(c) ==
    /\ clients[c] = "none"
    /\ clients' = [clients EXCEPT ![c] = "enabled"]
    /\ UNCHANGED <<keys, commandVars, authVars>>

\* users enable, users disable.
SetUserEnabled(c, state) ==
    /\ clients[c] # "none"
    /\ clients' = [clients EXCEPT ![c] = state]
    /\ UNCHANGED <<keys, commandVars, authVars>>

RevokeRow(k) == keys' = [keys EXCEPT ![k].enabled = FALSE, ![k].revoked = TRUE]

\* api_keys revoke.
Revoke(k) ==
    /\ Issued(k)
    /\ RevokeRow(k)
    /\ UNCHANGED <<clients, commandVars, authVars>>

\* Mutant: enabling a key takes its revocation back.
SetKeyUsable(k, value) ==
    /\ Issued(k)
    /\ keys' = [keys EXCEPT ![k].enabled = value, ![k].revoked = @ /\ ~value]
    /\ UNCHANGED <<clients, commandVars, authVars>>

\* api_keys enable, api_keys disable: revoked_at is left as it is.
SetKeyEnabled(k, value) ==
    /\ Issued(k)
    /\ keys' = [keys EXCEPT ![k].enabled = value]
    /\ UNCHANGED <<clients, commandVars, authVars>>

\* create_api_key: a new row, of a client that exists, enabled or not.
InsertKey(k, c, expiry) ==
    /\ ~Issued(k)
    /\ clients[c] # "none"
    /\ keys' = [keys EXCEPT ![k] = [owner |-> c, enabled |-> TRUE, revoked |-> FALSE,
                                    expiry |-> expiry]]

\* api_keys create.
CreateKey(p, c, k, expiry) ==
    /\ step[p] = "ready"
    /\ InsertKey(k, c, expiry)
    /\ new' = [new EXCEPT ![p] = k]
    /\ step' = [step EXCEPT ![p] = "printing"]
    /\ UNCHANGED <<clients, known, old, authVars>>

\* Mutant: the client is not compared with that of the old key.
RotateIssuesAnyClient(p, o, k, expiry) ==
    /\ step[p] = "ready"
    /\ Issued(o)
    /\ \E c \in Clients : InsertKey(k, c, expiry)
    /\ old' = [old EXCEPT ![p] = o]
    /\ new' = [new EXCEPT ![p] = k]
    /\ step' = [step EXCEPT ![p] = "issued"]
    /\ UNCHANGED <<clients, known, authVars>>

\* api_keys rotate: a new key for the client that the old key belongs to ...
RotateIssues(p, o, k, expiry) ==
    /\ step[p] = "ready"
    /\ Issued(o)
    /\ InsertKey(k, keys[o].owner, expiry)
    /\ old' = [old EXCEPT ![p] = o]
    /\ new' = [new EXCEPT ![p] = k]
    /\ step' = [step EXCEPT ![p] = "issued"]
    /\ UNCHANGED <<clients, known, authVars>>

\* ... then the old one is revoked, whatever became of it meanwhile ...
RotateRevokes(p) ==
    /\ step[p] = "issued"
    /\ RevokeRow(old[p])
    /\ step' = [step EXCEPT ![p] = "printing"]
    /\ UNCHANGED <<clients, known, old, new, authVars>>

\* ... and only then is the new raw key printed: the one time it is shown.
PrintKey(p) ==
    /\ step[p] = "printing"
    /\ known' = known \cup {new[p]}
    /\ step' = [step EXCEPT ![p] = "finished"]
    /\ UNCHANGED <<tableVars, old, new, authVars>>

CommandDies(p) ==
    /\ step[p] \in {"issued", "printing"}
    /\ step' = [step EXCEPT ![p] = "dead"]
    /\ UNCHANGED <<tableVars, known, old, new, authVars>>

\* expires_at goes by.
KeyExpires(k) ==
    /\ Issued(k)
    /\ keys[k].expiry = "later"
    /\ keys' = [keys EXCEPT ![k].expiry = "past"]
    /\ UNCHANGED <<clients, commandVars, authVars>>
----------------------------------------------------------------------------
(* require_auth. *)

Present(r, k) ==
    /\ auth[r] = "none"
    /\ auth' = [auth EXCEPT ![r] = "presented"]
    /\ presented' = [presented EXCEPT ![r] = k]
    /\ UNCHANGED <<tableVars, commandVars, found>>

\* find_by_hash: key and client are read by one SELECT.
FindByHash(r) ==
    /\ auth[r] = "presented"
    /\ found' = [found EXCEPT ![r] =
          IF presented[r] \in Keys /\ Issued(presented[r])
          THEN [row |-> keys[presented[r]],
                clientEnabled |-> clients[keys[presented[r]].owner] = "enabled"]
          ELSE NoLookup]
    /\ auth' = [auth EXCEPT ![r] = "found"]
    /\ UNCHANGED <<tableVars, commandVars, presented>>

\* Mutant: the client is read by a query of its own, after the key.
PassesChecksTwoReads(r) ==
    /\ found[r].row.owner # NoClient
    /\ found[r].row.enabled /\ ~found[r].row.revoked
    /\ keys[presented[r]].expiry # "past"
    /\ clients[found[r].row.owner] = "enabled"

\* The checks, on what was read: only the expiry is compared with the present.
PassesChecks(r) ==
    /\ found[r].row.owner # NoClient
    /\ found[r].row.enabled /\ ~found[r].row.revoked
    /\ keys[presented[r]].expiry # "past"
    /\ found[r].clientEnabled

CheckKey(r) ==
    /\ auth[r] = "found"
    /\ auth' = [auth EXCEPT ![r] = IF PassesChecks(r) THEN "touching" ELSE "unauthorized"]
    /\ UNCHANGED <<tableVars, commandVars, presented, found>>

\* touch_last_used, then the principal is made of what was found; the write
\* raises when a command holds the database for too long.
TouchLastUsed(r) ==
    /\ auth[r] = "touching"
    /\ \E outcome \in {"authenticated", "failed"} : auth' = [auth EXCEPT ![r] = outcome]
    /\ UNCHANGED <<tableVars, commandVars, presented, found>>
----------------------------------------------------------------------------
Command(p) ==
    \/ \E k \in Keys, expiry \in Expiry :
          \/ \E c \in Clients : CreateKey(p, c, k, expiry)
          \/ \E o \in Keys : RotateIssues(p, o, k, expiry)
    \/ RotateRevokes(p) \/ PrintKey(p) \/ CommandDies(p)

Authentication(r) ==
    \/ \E k \in known \cup {NoKey} : Present(r, k)
    \/ FindByHash(r) \/ CheckKey(r) \/ TouchLastUsed(r)

Administration ==
    \/ \E c \in Clients :
          \/ CreateUser(c)
          \/ \E state \in {"enabled", "disabled"} : SetUserEnabled(c, state)
    \/ \E k \in Keys :
          \/ Revoke(k)
          \/ \E value \in BOOLEAN : SetKeyEnabled(k, value)
          \/ KeyExpires(k)
    \/ \E p \in Commands : Command(p)

\* A request stays blocked as long as its key has not been usable since it came.
WatchBlocked ==
    blocked' = {r \in Requests : /\ auth'[r] # "none"
                                 /\ auth[r] = "none" \/ r \in blocked
                                 /\ ~Usable(presented[r])'}

\* r has not been looked up yet, and its key is revoked.
RevokedAtOnce(r) ==
    auth[r] = "presented" /\ presented[r] \in Keys /\ keys[presented[r]].revoked

WatchSpent == spent' = spent \cup {r \in Requests : RevokedAtOnce(r)'}

KeysNext ==
    /\ \/ Administration
       \/ \E r \in Requests : Authentication(r)
    /\ WatchBlocked
    /\ WatchSpent

KeysSpec == KeysInit /\ [][KeysNext]_keyVars
----------------------------------------------------------------------------
KeysTypeOK ==
    /\ clients \in [Clients -> {"none", "enabled", "disabled"}]
    /\ keys \in [Keys -> KeyRow]
    /\ known \subseteq Keys
    /\ step \in [Commands -> {"ready", "issued", "printing", "finished", "dead"}]
    /\ old \in [Commands -> Keys \cup {NoKey}]
    /\ new \in [Commands -> Keys \cup {NoKey}]
    /\ auth \in [Requests -> {"none", "presented", "found", "touching", "authenticated",
                              "unauthorized", "failed"}]
    /\ presented \in [Requests -> Keys \cup {NoKey}]
    /\ found \in [Requests -> Lookup]
    /\ blocked \subseteq Requests

Accepted(r) == auth[r] \in {"touching", "authenticated"}

\* A request is let in only if, at one and the same moment since it came, its
\* key was enabled, not revoked and not expired and its client enabled: the
\* await between the lookup and the principal lets nobody in that a lookup at
\* no single instant would have (dependencies.py:92-117).
BlockedIsRefused == \A r \in blocked : ~Accepted(r)

\* The principal of a request is the client its key was created for, and a
\* rotation issues the new key to the client of the old one.
KeysKeepTheirClient ==
    /\ \A r \in Requests : Accepted(r) =>
          presented[r] \in Keys /\ found[r].row.owner = keys[presented[r]].owner
    /\ \A p \in Commands : old[p] # NoKey => keys[new[p]].owner = keys[old[p]].owner

\* prompt.md:791, "after the revoke authentication is impossible at once": no
\* request that has not been looked up yet is let in, whatever is enabled
\* again later (the enable command accepts a revoked key).
RevocationIsFinal == \A r \in spent : ~Accepted(r)
=============================================================================
