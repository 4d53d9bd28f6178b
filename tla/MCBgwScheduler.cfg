CONSTANTS
    RetryPeriod = 1
    MinWaitAfterCrash = 2
    MaxFailuresMultiplier = 1
    MaxIntervalsBackoff = 2
    Job = {1}
    Initial <- OneJob
    Worker = {w1, w2}
    Session = {s1}
    Interval = {1, 2}
    MaxRuntime = 1
    MaxTimeout = 2
    Commands = {"delete", "next_start", "alter"}
    Faults = {"no_worker", "no_slot", "no_fork", "kill", "sigterm", "instance"}
    Prompt = TRUE
    NoJob = 0
    NoWorker = NoWorker
    NoSession = NoSession
SPECIFICATION Spec
SYMMETRY Symmetry
INVARIANTS TypeOK AssertsHold BooksBalance NoForgottenProcess CrashNeverMissed  DeletedJobStops
PROPERTIES CrashedJobWaits TimeoutsOnTime
