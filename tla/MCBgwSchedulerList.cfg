CONSTANTS
    RetryPeriod = 1
    MinWaitAfterCrash = 2
    MaxFailuresMultiplier = 1
    MaxIntervalsBackoff = 2
    Job = {1, 2}
    Initial <- OneJob
    Worker = {w1}
    Session = {s1}
    Interval = {1}
    MaxRuntime = 0
    MaxTimeout = 1
    Commands = {"insert", "delete"}
    Faults = {}
    Prompt = TRUE
    NoJob = 0
    NoWorker = NoWorker
    NoSession = NoSession
SPECIFICATION Spec
INVARIANTS BooksBalance NoForgottenProcess
 
