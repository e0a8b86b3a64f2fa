SPECIFICATION FairDbSpec
CONSTANTS
    Tasks = {s1, s2, p1}
    Cancellable = {s1, s2}
INVARIANTS
    UndisturbedIsAtomic
    OnlyStraysDisturb
    NoTransactionLeftOpen
    StoredInOrder
PROPERTIES
    CallsEnd
