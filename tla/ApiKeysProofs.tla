--------------------------- MODULE ApiKeysProofs ---------------------------
(***************************************************************************)
(* Proofs about ApiKeys, for any number of clients, keys, requests and     *)
(* runs of the administrator's commands.                                   *)
(***************************************************************************)
EXTENDS ApiKeys, TLAPS

\* What was found is a row of the presented key; a request whose key was never
\* usable fails the checks.
FoundFits(r) ==
    /\ auth[r] = "none" => r \notin blocked
    /\ found[r].row.owner # NoClient =>
          presented[r] \in Keys /\ keys[presented[r]].owner = found[r].row.owner
    /\ Accepted(r) => found[r].row.owner # NoClient
    /\ auth[r] = "none" => found[r].row.owner = NoClient
    /\ auth[r] = "found" /\ r \in blocked => ~PassesChecks(r)

CommandFits(p) ==
    /\ step[p] = "ready" => old[p] = NoKey
    /\ step[p] = "issued" => old[p] # NoKey
    /\ step[p] = "printing" => new[p] \in Keys
    /\ old[p] # NoKey => /\ old[p] \in Keys /\ Issued(old[p])
                         /\ new[p] \in Keys /\ Issued(new[p])

\* The inductive invariant.
KeysInv ==
    /\ KeysTypeOK
    /\ BlockedIsRefused
    /\ KeysKeepTheirClient
    /\ \A k \in Keys : keys[k].revoked => Issued(k)
    /\ \A r \in Requests : FoundFits(r)
    /\ \A p \in Commands : CommandFits(p)

\* What every step does to the rows: they keep their client, they stay revoked,
\* and an expiry only goes by.
RowsGrow ==
    \A k \in Keys : Issued(k) =>
       /\ keys'[k].owner = keys[k].owner
       /\ keys[k].revoked => keys'[k].revoked
       /\ keys[k].expiry = "past" => keys'[k].expiry = "past"

\* What an administrator's step promises the rest of the proof.
AdministrationOK ==
    /\ RowsGrow
    /\ UNCHANGED authVars
    /\ \A k \in Keys : keys'[k].revoked => keys'[k].owner # NoClient
    /\ clients' \in [Clients -> {"none", "enabled", "disabled"}]
    /\ keys' \in [Keys -> KeyRow]
    /\ known' \subseteq Keys
    /\ step' \in [Commands -> {"ready", "issued", "printing", "finished", "dead"}]
    /\ old' \in [Commands -> Keys \cup {NoKey}]
    /\ new' \in [Commands -> Keys \cup {NoKey}]
    /\ \A p \in Commands : CommandFits(p)'
    /\ \A p \in Commands : old'[p] # NoKey => keys'[new'[p]].owner = keys'[old'[p]].owner

\* Revoking a row changes its two flags and no other row.
LEMMA RevokeRowEffect ==
    ASSUME KeysTypeOK, NEW k \in Keys, RevokeRow(k)
    PROVE  /\ keys' \in [Keys -> KeyRow]
           /\ \A j \in Keys : /\ keys'[j].owner = keys[j].owner
                              /\ keys'[j].expiry = keys[j].expiry
                              /\ keys'[j].revoked <=> keys[j].revoked \/ j = k
<1>1. keys \in [Keys -> KeyRow] /\ keys[k] \in KeyRow
  BY DEF KeysTypeOK
<1>2. DEFINE row == [keys[k] EXCEPT !.enabled = FALSE, !.revoked = TRUE]
<1>3. row \in KeyRow /\ row.owner = keys[k].owner /\ row.expiry = keys[k].expiry /\ row.revoked = TRUE
  BY <1>1 DEF KeyRow
<1>4. keys' = [keys EXCEPT ![k] = row]
  BY <1>1 DEF RevokeRow, KeyRow
<1>5. QED
  <2> HIDE DEF row
  <2> QED
    BY <1>1, <1>3, <1>4

\* A new row is a row of its client, and not revoked; the others stay.
LEMMA InsertKeyEffect ==
    ASSUME KeysTypeOK, NEW k \in Keys, NEW c \in Clients, NEW expiry \in Expiry,
           InsertKey(k, c, expiry)
    PROVE  /\ keys' \in [Keys -> KeyRow]
           /\ ~Issued(k) /\ Issued(k)' /\ keys'[k].owner = c /\ ~keys'[k].revoked
           /\ \A j \in Keys \ {k} : keys'[j] = keys[j]
BY DomainAssumption DEF InsertKey, Issued, KeysTypeOK, KeyRow

\* A step that revokes one row and moves no command forward except to "printing".
LEMMA RevokeOK ==
    ASSUME KeysInv, NEW k \in Keys, Issued(k), RevokeRow(k),
           UNCHANGED <<clients, known, old, new, authVars>>,
           step' \in [Commands -> {"ready", "issued", "printing", "finished", "dead"}],
           \A p \in Commands : step'[p] = step[p] \/ (step[p] = "issued" /\ step'[p] = "printing")
    PROVE  AdministrationOK
BY RevokeRowEffect
DEF AdministrationOK, RowsGrow, Issued, CommandFits, KeysInv, KeysTypeOK, KeysKeepTheirClient

\* The administrator's steps change no request, and rows only as RowsGrow says.
LEMMA AdministrationEffect ==
    ASSUME KeysInv, Administration
    PROVE  AdministrationOK
<1>1. KeysTypeOK /\ (\A k \in Keys : keys[k].revoked => Issued(k)) /\ \A p \in Commands : CommandFits(p)
  BY DEF KeysInv
<1>2. \A p \in Commands : old[p] # NoKey => keys[new[p]].owner = keys[old[p]].owner
  BY DEF KeysInv, KeysKeepTheirClient
<1>3. ASSUME NEW c \in Clients, NEW state \in {"enabled", "disabled"},
             clients' = [clients EXCEPT ![c] = state],
             UNCHANGED <<keys, commandVars, authVars>>
      PROVE  AdministrationOK
  BY <1>1, <1>2, <1>3
  DEF AdministrationOK, RowsGrow, Issued, CommandFits, KeysTypeOK, commandVars, authVars
<1>4. ASSUME NEW k \in Keys, Issued(k), NEW value \in BOOLEAN,
             KeyExpires(k) \/ SetKeyEnabled(k, value)
      PROVE  AdministrationOK
  <2>1. keys \in [Keys -> KeyRow] /\ keys[k] \in KeyRow
    BY <1>1 DEF KeysTypeOK
  <2>2. UNCHANGED <<clients, known, step, old, new, authVars>>
    BY <1>4 DEF KeyExpires, SetKeyEnabled, commandVars
  <2>3. /\ keys' \in [Keys -> KeyRow]
        /\ \A j \in Keys : /\ keys'[j].owner = keys[j].owner
                           /\ keys'[j].revoked = keys[j].revoked
                           /\ keys[j].expiry = "past" => keys'[j].expiry = "past"
    BY <1>4, <2>1 DEF KeyExpires, SetKeyEnabled, KeyRow, Expiry
  <2>4. QED
    BY <1>1, <1>2, <2>2, <2>3
    DEF AdministrationOK, RowsGrow, Issued, CommandFits, KeysTypeOK
<1>5. ASSUME NEW p \in Commands, NEW c \in Clients, NEW k \in Keys, NEW expiry \in Expiry,
             CreateKey(p, c, k, expiry)
      PROVE  AdministrationOK
  <2>1. /\ InsertKey(k, c, expiry) /\ step[p] = "ready" /\ new' = [new EXCEPT ![p] = k]
        /\ step' = [step EXCEPT ![p] = "printing"] /\ UNCHANGED <<clients, known, old, authVars>>
    BY <1>5 DEF CreateKey
  <2>2. \A q \in Commands : old[q] # NoKey => q # p /\ k # old[q] /\ k # new[q]
    BY <1>1, <2>1, InsertKeyEffect DEF CommandFits
  <2>3. \A q \in Commands : CommandFits(q)'
    BY <1>1, <2>1, <2>2, InsertKeyEffect DEF CommandFits, Issued, KeysTypeOK
  <2>4. \A q \in Commands : old'[q] # NoKey => keys'[new'[q]].owner = keys'[old'[q]].owner
    BY <1>1, <1>2, <2>1, <2>2, InsertKeyEffect DEF CommandFits, KeysTypeOK
  <2>5. QED
    BY <1>1, <2>1, <2>3, <2>4, InsertKeyEffect DEF AdministrationOK, RowsGrow, Issued, KeysTypeOK
<1>6. ASSUME NEW p \in Commands, NEW o \in Keys, NEW k \in Keys, NEW expiry \in Expiry,
             RotateIssues(p, o, k, expiry)
      PROVE  AdministrationOK
  <2>1. /\ InsertKey(k, keys[o].owner, expiry) /\ Issued(o) /\ new' = [new EXCEPT ![p] = k]
        /\ step' = [step EXCEPT ![p] = "issued"] /\ old' = [old EXCEPT ![p] = o]
        /\ UNCHANGED <<clients, known, authVars>>
    BY <1>6 DEF RotateIssues
  <2>2. keys[o].owner \in Clients
    BY <1>1, <2>1 DEF Issued, KeysTypeOK, KeyRow
  <2>3. /\ k # o /\ keys'[o] = keys[o]
        /\ \A q \in Commands : old[q] # NoKey => k # old[q] /\ k # new[q]
    BY <1>1, <2>1, <2>2, InsertKeyEffect DEF CommandFits
  <2>4. QED
    BY <1>1, <1>2, <2>1, <2>2, <2>3, InsertKeyEffect, KeysAssumption
    DEF AdministrationOK, RowsGrow, Issued, CommandFits, KeysTypeOK
<1>7. ASSUME NEW k \in Keys, Revoke(k)
      PROVE  AdministrationOK
  BY <1>1, <1>7, RevokeOK DEF Revoke, commandVars, KeysTypeOK
<1>8. ASSUME NEW p \in Commands, RotateRevokes(p)
      PROVE  AdministrationOK
  <2>1. old[p] \in Keys /\ Issued(old[p])
    BY <1>1, <1>8 DEF RotateRevokes, CommandFits
  <2>2. \A q \in Commands : step'[q] = step[q] \/ (step[q] = "issued" /\ step'[q] = "printing")
    BY <1>1, <1>8 DEF RotateRevokes, KeysTypeOK
  <2>3. step' \in [Commands -> {"ready", "issued", "printing", "finished", "dead"}]
    BY <1>1, <1>8 DEF RotateRevokes, KeysTypeOK
  <2>4. RevokeRow(old[p]) /\ UNCHANGED <<clients, known, old, new, authVars>>
    BY <1>8 DEF RotateRevokes
  <2>5. QED
    BY <2>1, <2>2, <2>3, <2>4, RevokeOK
<1>9. CASE \E p \in Commands : PrintKey(p) \/ CommandDies(p)
  BY <1>1, <1>2, <1>9
  DEF PrintKey, CommandDies, AdministrationOK, RowsGrow, Issued, CommandFits, KeysTypeOK,
      tableVars, authVars
<1>10. QED
  BY <1>3, <1>4, <1>5, <1>6, <1>7, <1>8, <1>9
  DEF Administration, Command, CreateUser, SetUserEnabled, KeyExpires, SetKeyEnabled

\* The invariant holds at the start.
LEMMA KeysInitInv == KeysInit => KeysInv
BY KeysAssumption
DEF KeysInit, KeysInv, KeysTypeOK, BlockedIsRefused, KeysKeepTheirClient, FoundFits,
    CommandFits, Accepted, PassesChecks, Issued, KeyRow, NoKeyRow, Lookup, NoLookup, Expiry

\* A step of the administrator keeps it: requests do not move, and what the
\* checks still read of a row that was found can only get worse.
LEMMA AdministrationKeeps ==
    ASSUME KeysInv, Administration, WatchBlocked
    PROVE  KeysInv'
<1>1. KeysTypeOK /\ BlockedIsRefused /\ KeysKeepTheirClient /\ \A r \in Requests : FoundFits(r)
  BY DEF KeysInv
<1>2. AdministrationOK
  BY AdministrationEffect
<1>3. UNCHANGED <<auth, presented, found>> /\ RowsGrow
  BY <1>2 DEF AdministrationOK, authVars
<1>4. blocked' \subseteq blocked
  BY <1>1, <1>3 DEF WatchBlocked, FoundFits
<1>5. KeysTypeOK'
  BY <1>1, <1>2, <1>3, <1>4 DEF AdministrationOK, KeysTypeOK
<1>6. BlockedIsRefused'
  BY <1>1, <1>3, <1>4 DEF BlockedIsRefused, Accepted
<1>7. ASSUME NEW r \in Requests
      PROVE  FoundFits(r)' /\ (Accepted(r)' => presented'[r] \in Keys
                                  /\ found'[r].row.owner = keys'[presented'[r]].owner)
  <2>1. /\ auth'[r] = auth[r] /\ presented'[r] = presented[r] /\ found'[r] = found[r]
        /\ r \in blocked' => r \in blocked
    BY <1>3, <1>4
  <2>2. found[r].row.owner # NoClient =>
           /\ presented[r] \in Keys
           /\ keys'[presented[r]].owner = found[r].row.owner
           /\ keys[presented[r]].expiry = "past" => keys'[presented[r]].expiry = "past"
    BY <1>1, <1>3 DEF FoundFits, RowsGrow, Issued
  <2>3. PassesChecks(r)' => PassesChecks(r)
    BY <2>1, <2>2 DEF PassesChecks
  <2>4. QED
    BY <1>1, <2>1, <2>2, <2>3 DEF FoundFits, Accepted
<1>8. QED
  BY <1>2, <1>5, <1>6, <1>7 DEF KeysInv, KeysKeepTheirClient, AdministrationOK, Issued

\* A step of require_auth keeps it: the lookup reads key and client at once.
LEMMA AuthenticationKeeps ==
    ASSUME KeysInv, NEW r \in Requests, Authentication(r), WatchBlocked
    PROVE  KeysInv'
<1>1. KeysTypeOK /\ BlockedIsRefused /\ KeysKeepTheirClient /\ \A q \in Requests : FoundFits(q)
  BY DEF KeysInv
<1>2. UNCHANGED <<clients, keys, known, step, old, new>>
  BY DEF Authentication, Present, FindByHash, CheckKey, TouchLastUsed, tableVars, commandVars
<1>3. \A q \in Requests \ {r} :
         auth'[q] = auth[q] /\ presented'[q] = presented[q] /\ found'[q] = found[q]
  BY <1>1 DEF Authentication, Present, FindByHash, CheckKey, TouchLastUsed, KeysTypeOK
<1>4. \A q \in Requests : q \in blocked' => /\ auth[q] = "none" \/ q \in blocked
                                           /\ auth'[q] # "none"
                                           /\ ~Usable(presented[q])'
  BY DEF WatchBlocked
<1>5. KeysTypeOK'
  <2>1. blocked' \subseteq Requests
    BY DEF WatchBlocked
  <2>2. CASE \E k \in known \cup {NoKey} : Present(r, k)
    BY <1>1, <1>2, <2>1, <2>2 DEF Present, KeysTypeOK, tableVars
  <2>3. CASE FindByHash(r)
    <3>1. found' \in [Requests -> Lookup]
      BY <1>1, <2>3 DEF FindByHash, KeysTypeOK, Lookup, NoLookup, NoKeyRow, KeyRow, Expiry
    <3>2. QED
      BY <1>1, <1>2, <2>1, <2>3, <3>1 DEF FindByHash, KeysTypeOK, tableVars
  <2>4. CASE CheckKey(r)
    BY <1>1, <1>2, <2>1, <2>4 DEF CheckKey, KeysTypeOK, tableVars
  <2>5. CASE TouchLastUsed(r)
    BY <1>1, <1>2, <2>1, <2>5 DEF TouchLastUsed, KeysTypeOK
  <2>6. QED
    BY <2>2, <2>3, <2>4, <2>5 DEF Authentication
<1>6. ASSUME NEW q \in Requests, q # r
      PROVE  FoundFits(q)' /\ (q \in blocked' => ~Accepted(q)')
                /\ (Accepted(q)' => presented'[q] \in Keys
                                     /\ found'[q].row.owner = keys'[presented'[q]].owner)
  <2>1. /\ auth'[q] = auth[q] /\ presented'[q] = presented[q] /\ found'[q] = found[q]
        /\ q \in blocked' => q \in blocked
    BY <1>1, <1>3, <1>4, <1>6 DEF FoundFits
  <2>2. FoundFits(q)'
    <3>1. PassesChecks(q)' <=> PassesChecks(q)
      BY <1>2, <2>1 DEF PassesChecks
    <3>2. auth'[q] = "none" => q \notin blocked'
      BY <1>4
    <3>3. auth'[q] = "found" /\ q \in blocked' => ~PassesChecks(q)'
      BY <1>1, <2>1, <3>1 DEF FoundFits
    <3>4. FoundFits(q)
      BY <1>1
    <3>5. QED
      BY <1>2, <2>1, <3>2, <3>3, <3>4 DEF FoundFits, Accepted
  <2>3. QED
    BY <1>1, <1>2, <2>1, <2>2 DEF Accepted, BlockedIsRefused, KeysKeepTheirClient
<1>7. FoundFits(r)' /\ (r \in blocked' => ~Accepted(r)')
         /\ (Accepted(r)' => presented'[r] \in Keys
                              /\ found'[r].row.owner = keys'[presented'[r]].owner)
  <2>1. CASE \E k \in known \cup {NoKey} : Present(r, k)
    BY <1>1, <1>2, <2>1 DEF Present, FoundFits, Accepted, KeysTypeOK
  <2>2. CASE FindByHash(r)
    <3>1. auth[r] = "presented" /\ auth'[r] = "found" /\ presented'[r] = presented[r]
      BY <1>1, <2>2 DEF FindByHash, KeysTypeOK
    <3>2. CASE presented[r] \in Keys /\ Issued(presented[r])
      <4>1. /\ found'[r].row = keys[presented[r]]
            /\ found'[r].clientEnabled <=> clients[keys[presented[r]].owner] = "enabled"
        BY <1>1, <2>2, <3>2 DEF FindByHash, KeysTypeOK
      <4>2. r \in blocked' => ~PassesChecks(r)'
        BY <1>2, <1>4, <3>1, <3>2, <4>1 DEF PassesChecks, Usable, Issued
      <4>3. QED
        BY <1>2, <3>1, <3>2, <4>1, <4>2 DEF FoundFits, Accepted
    <3>3. CASE ~(presented[r] \in Keys /\ Issued(presented[r]))
      <4>1. found'[r].row.owner = NoClient
        BY <1>1, <2>2, <3>3 DEF FindByHash, KeysTypeOK, NoLookup, NoKeyRow
      <4>2. QED
        BY <3>1, <4>1 DEF FoundFits, Accepted, PassesChecks
    <3>4. QED
      BY <3>2, <3>3
  <2>3. CASE CheckKey(r)
    <3>1. /\ auth[r] = "found" /\ presented'[r] = presented[r] /\ found'[r] = found[r]
          /\ auth'[r] = IF PassesChecks(r) THEN "touching" ELSE "unauthorized"
      BY <1>1, <2>3 DEF CheckKey, KeysTypeOK
    <3>2. PassesChecks(r) => found[r].row.owner # NoClient
      BY DEF PassesChecks
    <3>3. r \in blocked' => r \in blocked
      BY <1>4, <3>1
    <3>4. QED
      BY <1>1, <1>2, <3>1, <3>2, <3>3 DEF FoundFits, Accepted
  <2>4. CASE TouchLastUsed(r)
    <3>1. /\ auth[r] = "touching" /\ auth'[r] \in {"authenticated", "failed"}
          /\ presented'[r] = presented[r] /\ found'[r] = found[r]
      BY <1>1, <2>4 DEF TouchLastUsed, KeysTypeOK
    <3>2. QED
      BY <1>1, <1>2, <1>4, <3>1 DEF FoundFits, Accepted, BlockedIsRefused, KeysKeepTheirClient
  <2>5. QED
    BY <2>1, <2>2, <2>3, <2>4 DEF Authentication
<1>8. BlockedIsRefused' /\ KeysKeepTheirClient' /\ \A q \in Requests : FoundFits(q)'
  BY <1>1, <1>2, <1>4, <1>5, <1>6, <1>7 DEF BlockedIsRefused, KeysKeepTheirClient, KeysTypeOK
<1>9. QED
  BY <1>2, <1>5, <1>8 DEF KeysInv, CommandFits, Issued

\* Every step keeps the invariant.
LEMMA KeysStepInv == KeysInv /\ [KeysNext]_keyVars => KeysInv'
<1>1. CASE UNCHANGED keyVars
  BY <1>1
  DEF keyVars, tableVars, commandVars, authVars, KeysInv, KeysTypeOK, BlockedIsRefused,
      KeysKeepTheirClient, FoundFits, CommandFits, Accepted, PassesChecks, Issued
<1>2. QED
  BY <1>1, AdministrationKeeps, AuthenticationKeeps DEF KeysNext

\* A request is let in only if its key and its client were usable together at
\* one moment since it came, whatever administrators did around its lookup
\* (require_auth).
THEOREM AuthenticationIsSound == KeysSpec => []BlockedIsRefused
<1>1. KeysInv => BlockedIsRefused
  BY DEF KeysInv
<1>2. QED
  BY <1>1, KeysInitInv, KeysStepInv, PTL DEF KeysSpec

\* The principal of a request is the client its key was created for, and a
\* rotation leaves the new key with the client of the old one, wherever the
\* command dies (require_auth, api_keys.rotate).
THEOREM KeysStayWithTheirClient == KeysSpec => []KeysKeepTheirClient
<1>1. KeysInv => KeysKeepTheirClient
  BY DEF KeysInv
<1>2. QED
  BY <1>1, KeysInitInv, KeysStepInv, PTL DEF KeysSpec

\* A request with a revoked key is on its way to being refused.
Doomed(r) ==
    \/ RevokedAtOnce(r)
    \/ auth[r] = "found" /\ ~(found[r].row.owner # NoClient /\ ~found[r].row.revoked)
    \/ auth[r] = "unauthorized"

\* No step of anybody gets it off that way.
LEMMA DoomedStays ==
    ASSUME NEW r \in Requests, KeysInv, Doomed(r), [KeysNext]_keyVars
    PROVE  Doomed(r)'
<1>1. KeysTypeOK /\ \A k \in Keys : keys[k].revoked => Issued(k)
  BY DEF KeysInv
<1>2. CASE UNCHANGED keyVars
  BY <1>2 DEF keyVars, tableVars, authVars, Doomed, RevokedAtOnce
<1>3. CASE Administration
  BY <1>1, <1>3, AdministrationEffect DEF AdministrationOK, RowsGrow, authVars, Doomed, RevokedAtOnce
<1>4. ASSUME NEW q \in Requests, Authentication(q), q # r
      PROVE  Doomed(r)'
  BY <1>1, <1>4 DEF Authentication, Present, FindByHash, CheckKey, TouchLastUsed, tableVars,
     KeysTypeOK, Doomed, RevokedAtOnce
<1>5. CASE Authentication(r)
  BY <1>1, <1>5 DEF Authentication, Present, FindByHash, CheckKey, TouchLastUsed, PassesChecks,
     tableVars, KeysTypeOK, Doomed, RevokedAtOnce, NoLookup, NoKeyRow
<1>6. QED
  BY <1>2, <1>3, <1>4, <1>5 DEF KeysNext

\* Once a key is revoked, no request that has not been looked up by then is ever
\* let in with it, even if the key is enabled again (api_keys enable leaves
\* revoked_at alone, and require_auth asks for it).
THEOREM RevokedKeysStayOut == KeysSpec => []RevocationIsFinal
<1> DEFINE SpentInv == spent \subseteq Requests /\ \A r \in spent : Doomed(r)
<1>1. KeysInit => SpentInv
  BY DEF KeysInit
<1>2. KeysInv /\ SpentInv /\ [KeysNext]_keyVars => SpentInv'
  <2> SUFFICES ASSUME KeysInv, SpentInv, [KeysNext]_keyVars
               PROVE  SpentInv'
    OBVIOUS
  <2>1. \A r \in spent : Doomed(r)'
    BY DoomedStays
  <2>2. CASE UNCHANGED keyVars
    BY <2>1, <2>2 DEF keyVars
  <2>3. CASE KeysNext
    <3>1. spent' \subseteq Requests /\ \A r \in spent' \ spent : RevokedAtOnce(r)'
      BY <2>3 DEF KeysNext, WatchSpent
    <3>2. \A r \in Requests : RevokedAtOnce(r)' => Doomed(r)'
      BY DEF Doomed
    <3>3. QED
      BY <2>1, <3>1, <3>2
  <2>4. QED
    BY <2>2, <2>3
<1>3. SpentInv => RevocationIsFinal
  BY DEF RevocationIsFinal, Doomed, RevokedAtOnce, Accepted
<1>4. QED
  BY <1>1, <1>2, <1>3, KeysInitInv, KeysStepInv, PTL DEF KeysSpec
=============================================================================
