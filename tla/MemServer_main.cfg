\* Crashes, restarts, both savers, an HTTP and a gRPC handler, shutdown.
SPECIFICATION FairSpec
CONSTANTS
    Handlers = {h1}
    RpcHandlers = {r1}
    CounterIds = {c1, c2}
    GaugeIds = {g}
    StoreInterval = 300
    MaxUpdates = 2
    Hole = Hole
    MayCrash = TRUE
INVARIANTS SaveIsSnapshot NothingInvented ExitKeepsAcknowledged TypeOK
PROPERTIES OnlyAStreamStalls
