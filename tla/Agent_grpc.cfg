\* Liveness over unbuffered channels (RateLimit 0) and gRPC: no symmetry.
SPECIFICATION FairSpec
CONSTANTS
    Workers = {w1, w2}
    RateLimit = 0
    MaxPolls = 3
    Grpc = TRUE
    EncodeMayFail = FALSE
INVARIANTS OneReportAtATime NoPollAckedTwice
PROPERTIES ShutdownCompletes OnlyTheNetworkStalls ReportsGetThrough
