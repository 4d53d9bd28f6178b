\* The launcher dies and is started again once; the schedulers of the first
\* launcher may outlive it.
CONSTANTS
    Db = {d1}
    Template = {}
    Worker = {w1, w2}
    Job = {j1, j2}
    Backend = {b1}
    Commands = {"start_workers", "stop_workers", "restart_workers"}
    QueueSize = 1
    MaxTxn = 1
    MaxLaunches = 2
    MaxWorkers = 3
    NoWorker = NoWorker
    NoDb = NoDb
SPECIFICATION Spec
SYMMETRY Symmetry
INVARIANTS OneSchedulerPerDb
\* Once the bound on launches is used up nothing may be left to do.
CHECK_DEADLOCK FALSE
