SPECIFICATION Spec
CONSTANTS
    Requests = {r1, r2}
    Threads = {t1, t2}
    Clients = {c1}
    NoRequest = NoRequest
    NoThread = NoThread
    NoClient = NoClient
    MaxJobs = 1
    Handlers = {"create_thread", "post_message"}
    Existing = {t1}
    MaxRestarts = 0
SYMMETRY Symmetry
INVARIANTS
    TurnsWithinCap
