CONSTANTS
    RetryPeriod = 1
    MinWaitAfterCrash = 2
    MaxFailuresMultiplier = 1
    MaxIntervalsBackoff = 2
    Job = {1}
    Initial <- OneJob
    Worker = {w1}
    Session = {s1}
    Interval = {1}
    MaxRuntime = 1
    MaxTimeout = 1
    Commands = {"delete", "next_start"}
    Faults = {"no_slot", "no_worker", "no_fork", "kill"}
    Prompt = TRUE
    NoJob = 0
    NoWorker = NoWorker
    NoSession = NoSession
SPECIFICATION FairSpec
PROPERTIES RunsEnd DeleteReturns EveryJobRuns
