\* Descriptors, connections and the end, when the server gets its socket.
\* An idle server waits in accept: that is no deadlock.
CHECK_DEADLOCK FALSE
SPECIFICATION FairSpec
CONSTANTS
    Conns = {c1, c2}
    None = None
    MaxSignals = 2
    Faults = {"setup", "accept", "thread"}
INVARIANTS
    TypeOK
    DescriptorClosedOnce
    AcceptedIsOwned
PROPERTIES
    StopsAfterSignal
