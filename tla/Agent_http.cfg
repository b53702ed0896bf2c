\* HTTP transport, buffered channels, encoding errors possible.
SPECIFICATION Spec
CONSTANTS
    Workers = {w1, w2, w3}
    RateLimit = 1
    MaxPolls = 5
    Grpc = FALSE
    EncodeMayFail = TRUE
SYMMETRY WorkerSymmetry
INVARIANTS TypeOK Inv OneReportAtATime PayloadStable NoPollAckedTwice BatchCoherent
PROPERTIES ResetOnlyAfterSuccess ResetDropsOnlyLatePolls
