\* Three concurrent handlers, one call each or three by one.
SPECIFICATION FairSpec
CONSTANTS
    a = a
    b = b
    NoVal = NoVal
    Ids = {a, b}
    Clients = {h1, h2, h3}
    Ops <- MCOps
    MaxCalls = 3
INVARIANTS TypeOK
PROPERTIES ImplementsMetricStore
