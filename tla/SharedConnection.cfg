SPECIFICATION DbSpec
CONSTANTS
    Tasks = {s1, p1}
    Cancellable = {s1}
INVARIANT
    OneThreadPerConnection
