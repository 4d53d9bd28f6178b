------------------------------- MODULE JobStat ------------------------------
(***************************************************************************)
(* The rows of the catalog table bgw_job_stat (src/bgw/job_stat.c) and     *)
(* what is computed from them.  A time is kept as the number of ticks that *)
(* are left until it, 0 once it is reached.  Only what decides about the   *)
(* next start is kept of a row: the totals and durations are left out, and *)
(* the two counts of consecutive failures and crashes stop at the bound    *)
(* beyond which they make no difference.                                   *)
(***************************************************************************)
EXTENDS Integers

CONSTANTS
    RetryPeriod,            \* bgw_job.retry_period, in ticks
    MinWaitAfterCrash,      \* MIN_WAIT_AFTER_CRASH_MS
    MaxFailuresMultiplier,  \* MAX_FAILURES_MULTIPLIER
    MaxIntervalsBackoff     \* MAX_INTERVALS_BACKOFF

ASSUME JobStatAssumption ==
    /\ RetryPeriod \in Nat \ {0}
    /\ MinWaitAfterCrash \in Nat
    /\ MaxFailuresMultiplier \in Nat \ {0}
    /\ MaxIntervalsBackoff \in Nat \ {0}

Least(a, b) == IF a < b THEN a ELSE b
Greatest(a, b) == IF a > b THEN a ELSE b

\* DT_NOBEGIN: "not set", and before every other time.
NoBegin == -1

\* finished: last_finish is set.  next: next_start.
Stat == [exists : BOOLEAN, finished : BOOLEAN, next : Int,
         failures : 0 .. MaxFailuresMultiplier,
         crashes : 0 .. MaxFailuresMultiplier]

NoStat ==
    [exists |-> FALSE, finished |-> FALSE, next |-> NoBegin,
     failures |-> 0, crashes |-> 0]

\* Variant: the multiplier is not limited.
OneMoreUnlimited(count) == count + 1

OneMore(count) == Least(count + 1, MaxFailuresMultiplier)

\* The row a run begins with, inserted when there is none.
mark_start(s) ==
    [exists |-> TRUE, finished |-> FALSE, next |-> NoBegin,
     failures |-> s.failures, crashes |-> OneMore(s.crashes)]

calculate_next_start_on_success(interval) == interval

\* Jitter moves the delay by an eighth at most: by one tick, rounded.
calculate_next_start_on_failure(failures, interval) ==
    LET delay == Least(RetryPeriod * Least(failures, MaxFailuresMultiplier),
                       MaxIntervalsBackoff * interval)
    IN  (delay - 1) .. (delay + 1)

calculate_next_start_on_crash(crashes, interval) ==
    {Greatest(MinWaitAfterCrash, delay) :
        delay \in calculate_next_start_on_failure(crashes, interval)}

NextStartWasSet(s) == s.next # NoBegin

MarkSuccess(s, interval) ==
    [s EXCEPT !.finished = TRUE, !.crashes = 0, !.failures = 0,
              !.next = IF NextStartWasSet(s) THEN @
                       ELSE calculate_next_start_on_success(interval)]

MarkFailure(s, interval) ==
    LET failures == OneMore(s.failures)
        next == IF NextStartWasSet(s) THEN {s.next}
                ELSE calculate_next_start_on_failure(failures, interval)
    IN  {[s EXCEPT !.finished = TRUE, !.crashes = 0, !.failures = failures,
                   !.next = n] : n \in next}

MarkFailureToStart(s) ==
    [s EXCEPT !.finished = TRUE, !.crashes = 0, !.failures = OneMore(@)]

\* The rows a row can become when a run ends.
mark_end(s, result, interval) ==
    CASE result = "SUCCESS" -> {MarkSuccess(s, interval)}
      [] result = "FAILURE" -> MarkFailure(s, interval)
      [] result = "FAILURE_TO_START" -> {MarkFailureToStart(s)}

set_next_start(s, next) == [s EXCEPT !.next = next]

\* A row that has to be inserted is inserted as that of a started run.
upsert_next_start(s, next) ==
    IF s.exists THEN set_next_start(s, next)
    ELSE [mark_start(NoStat) EXCEPT !.next = next]

\* Variant: an unfinished run is not taken for a crash.
next_start_ignores_crash(s, interval) ==
    IF ~s.exists THEN {NoBegin} ELSE {s.next}

\* When the scheduler is to start the job next.
next_start(s, interval) ==
    IF ~s.exists THEN {NoBegin}
    ELSE IF s.crashes > 0 THEN calculate_next_start_on_crash(s.crashes, interval)
    ELSE {s.next}

\* One tick passes.
Later(time) == IF time > 0 THEN time - 1 ELSE time
LaterStat(s) == [s EXCEPT !.next = Later(@)]

=============================================================================
