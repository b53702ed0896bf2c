\* Two writing handlers and a reading one, faults, and one restart.
SPECIFICATION ServerSpec
CONSTANTS
    a = a
    b = b
    Null = Null
    Ids = {a, b}
    Clients = {h1, h2}
    Ops <- MixedOps
    Reads <- MixedReads
    MaxRetries = 1
    MaxCalls = 2
    MaxReads = 1
    MaxRestarts = 1
    Faults = TRUE
SYMMETRY ClientSymmetry
INVARIANTS CounterExactUnlessRaced ReadsSeeAcknowledged PageListsEachIdOnce UnexplainedErrorsAreNulls
