SPECIFICATION Spec
CONSTANTS
    Requests = {r1, r2, r3}
    Threads = {t1}
    Clients = {c1, c2}
    NoRequest = NoRequest
    NoThread = NoThread
    NoClient = NoClient
    MaxJobs = 2
    Handlers = {"stream_existing_thread", "post_message", "interrupt_thread",
                "delete_thread", "continue_conversation", "delete_conversation"}
    Existing = {t1}
    MaxRestarts = 0
SYMMETRY Symmetry
INVARIANTS
    SlotsExact
    SlotsFollowTasks
    RegistryExact
    OneTurnPerThread
    NobodyWaitsInVain
    DeletedStaysDeleted
PROPERTIES
    LastTurnForward
    LimiterSpec
    LocksSpec
    NoOvertaking
