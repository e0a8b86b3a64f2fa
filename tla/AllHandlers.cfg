SPECIFICATION Spec
CONSTANTS
    Requests = {r1, r2}
    Threads = {t1, t2}
    Clients = {c1, c2}
    NoRequest = NoRequest
    NoThread = NoThread
    NoClient = NoClient
    MaxJobs = 2
    Handlers = {"chat", "create_thread", "start_conversation", "stream_new_thread",
                "post_message", "continue_conversation", "stream_existing_thread",
                "delete_thread", "delete_conversation", "interrupt_thread"}
    Existing = {t1}
    MaxRestarts = 1
SYMMETRY Symmetry
INVARIANTS
    ServerInv
    NothingLeaks
    FreshThreadsUnlocked
    TurnsStayWithOwner
    InterruptsOwnTurn
    AnsweredIsRecorded
PROPERTIES
    TurnGateSpec
