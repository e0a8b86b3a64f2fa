SPECIFICATION FairSpec
CONSTANTS
    Requests = {r1, r2}
    Threads = {t1, t2}
    Clients = {c1}
    NoRequest = NoRequest
    NoThread = NoThread
    NoClient = NoClient
    MaxJobs = 2
    Handlers = {"post_message", "stream_existing_thread", "stream_new_thread",
                "start_conversation"}
    Existing = {t1}
    MaxRestarts = 0
PROPERTIES
    SlotsReturned
    LocksReturned
    TurnRequestsServed
