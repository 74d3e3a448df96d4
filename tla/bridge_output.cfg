SPECIFICATION OutputSpec
CONSTANTS
    Clients = {c1}
    MaxConns = 2
    MaxCalls = 1
INVARIANT
    SilentBridge
