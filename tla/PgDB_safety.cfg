\* Two handlers, two calls, connections that fail.
SPECIFICATION FairSpec
CONSTANTS
    a = a
    b = b
    Null = Null
    Ids = {a, b}
    Clients = {h1, h2}
    Ops <- MixedOps
    MaxRetries = 2
    MaxCalls = 2
    Faults = TRUE
INVARIANTS TypeOK CounterExactUnlessRaced
PROPERTIES CallsReturn
