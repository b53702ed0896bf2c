\* gRPC, the in-memory store.
SPECIFICATION DSpec
CONSTANTS
    Workers = {w1, w2}
    RateLimit = 1
    MaxPolls = 2
    Grpc = TRUE
    EncodeMayFail = FALSE
    Postgres = FALSE
    Late = {l1}
    MaxCommits = 1
    MaxStored = 6
SYMMETRY WorkerSymmetry
INVARIANTS ConfirmedIsStored
