\* The comment of http_server_stop: it waits for connections.
SPECIFICATION Spec
CONSTANTS
    Conns = {c1, c2}
    None = None
    MaxSignals = 2
    Faults = {}
INVARIANTS
    WaitsForConnections
