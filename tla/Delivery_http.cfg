\* HTTP and PostgreSQL: batches committed twice, a request that is late.
SPECIFICATION DFairSpec
CONSTANTS
    Workers = {w1, w2}
    RateLimit = 1
    MaxPolls = 2
    Grpc = FALSE
    EncodeMayFail = FALSE
    Postgres = TRUE
    Late = {l1}
    MaxCommits = 2
    MaxStored = 3
INVARIANTS DTypeOK ConfirmedIsStored CountedOnceIfConfirmed
PROPERTIES ShutdownCompletes OnlyTheNetworkStalls
