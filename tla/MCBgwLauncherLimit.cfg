CONSTANTS
    Db = {d1}
    Template = {}
    Worker = {w1, w2}
    Job = {j1, j2}
    Backend = {b1}
    Commands = {"start_workers"}
    QueueSize = 1
    MaxTxn = 1
    MaxLaunches = 2
    MaxWorkers = 3
    NoWorker = NoWorker
    NoDb = NoDb
SPECIFICATION Spec
SYMMETRY Symmetry
INVARIANT WithinLimit
CHECK_DEADLOCK FALSE
