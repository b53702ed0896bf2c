\* A crash during a save.
SPECIFICATION Spec
CONSTANTS
    Handlers = {h1}
    RpcHandlers = {}
    CounterIds = {c}
    GaugeIds = {g}
    StoreInterval = 300
    MaxUpdates = 2
    Hole = Hole
    MayCrash = TRUE
INVARIANTS RestartFindsLastSave
