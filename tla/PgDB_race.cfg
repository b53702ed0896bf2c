\* Two handlers add to one counter, and nothing fails.
SPECIFICATION Spec
CONSTANTS
    a = a
    b = b
    Null = Null
    Ids = {a}
    Clients = {h1, h2}
    Ops <- CounterOps
    MaxRetries = 3
    MaxCalls = 3
    Faults = FALSE
INVARIANTS AcknowledgedIsCounted
