\* One database, every command, two transactions, so that a message of the
\* first can still be in the queue when the second sends its own.  Room for
\* every scheduler and job: 1 + |Db| + |Worker| * |Job| workers.
CONSTANTS
    Db = {d1}
    Template = {}
    Worker = {w1}
    Job = {j1}
    Backend = {b1}
    Commands = {"start_workers", "stop_workers", "restart_workers", "extension",
                "drop_database", "move_database"}
    QueueSize = 1
    MaxTxn = 2
    MaxLaunches = 1
    MaxWorkers = 3
    NoWorker = NoWorker
    NoDb = NoDb
SPECIFICATION FairSpec
INVARIANTS StopMeansDisconnected
PROPERTIES  SendReturns EntriesSettle DroppedDbReleased
