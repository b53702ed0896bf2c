\* Graceful shutdown only, one handler.
SPECIFICATION Spec
CONSTANTS
    Handlers = {h1}
    RpcHandlers = {}
    CounterIds = {c}
    GaugeIds = {g}
    StoreInterval = 300
    MaxUpdates = 2
    Hole = Hole
    MayCrash = FALSE
INVARIANTS ShutdownSavesAcknowledged
