\* One launcher process; two databases compete with the jobs of a running
\* scheduler for two workers.
CONSTANTS
    Db = {d1, d2}
    Template = {}
    Worker = {w1, w2}
    Job = {j1}
    Backend = {b1}
    Commands = {"stop_workers", "extension"}
    QueueSize = 1
    MaxTxn = 1
    MaxLaunches = 1
    MaxWorkers = 3
    NoWorker = NoWorker
    NoDb = NoDb
SPECIFICATION Spec
SYMMETRY Symmetry
INVARIANTS TypeOK WithinLimit CounterExact
PROPERTIES RestartKeepsSlot PoolSpec
