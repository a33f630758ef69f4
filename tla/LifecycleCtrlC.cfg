\* The message of http_server_start: Ctrl+C stops the server.
\* An idle server waits in accept: that is no deadlock.
CHECK_DEADLOCK FALSE
SPECIFICATION FairSpec
CONSTANTS
    Conns = {c1, c2}
    None = None
    MaxSignals = 2
    Faults = {}
PROPERTIES
    SignalStops
