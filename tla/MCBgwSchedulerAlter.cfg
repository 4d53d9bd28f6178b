CONSTANTS
    RetryPeriod = 1
    MinWaitAfterCrash = 1
    MaxFailuresMultiplier = 1
    MaxIntervalsBackoff = 2
    Job = {1, 2}
    Initial <- TwoJobs
    Worker = {w1}
    Session = {}
    Interval = {1}
    MaxRuntime = 0
    MaxTimeout = 1
    Commands = {"alter", "upsert"}
    Faults = {}
    Prompt = TRUE
    NoJob = 0
    NoWorker = NoWorker
    NoSession = NoSession
SPECIFICATION Spec
INVARIANTS AssertsHold BooksBalance NoForgottenProcess CrashNeverMissed
