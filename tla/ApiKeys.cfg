SPECIFICATION KeysSpec
CONSTANTS
    Requests = {r1}
    Threads = {t1}
    Clients = {c1, c2}
    NoRequest = NoRequest
    NoThread = NoThread
    NoClient = NoClient
    Keys = {k1, k2}
    NoKey = NoKey
    Commands = {p1, p2}
SYMMETRY Symmetry
INVARIANTS
    BlockedIsRefused
    KeysKeepTheirClient
    RevocationIsFinal
