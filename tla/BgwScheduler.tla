---------------------------- MODULE BgwScheduler ----------------------------
(***************************************************************************)
(* The job scheduler of one database (src/bgw/scheduler.c), the job table  *)
(* and its locks (src/bgw/job.c), and the processes that run the jobs.     *)
(* The scheduler, the job processes, the sessions that alter and delete    *)
(* jobs, and the clock interleave; a scheduler or the whole instance may   *)
(* go down at any time and a new scheduler be started.                     *)
(*                                                                         *)
(* Times are ticks that are left, as in JobStat.  Table locks on bgw_job   *)
(* and bgw_job_stat last for one scan and are left out.                    *)
(***************************************************************************)
EXTENDS JobStat, Sequences, SequencesExt, FiniteSets

CONSTANTS
    Job,         \* job ids
    Initial,     \* the jobs in the table at first, in the order of the heap
    Worker,      \* background worker slots of the postmaster
    Session,     \* client sessions that delete jobs
    Interval,    \* the values of schedule_interval
    MaxRuntime,  \* bgw_job.max_runtime; 0 is no limit
    MaxTimeout,  \* MAX_TIMEOUT of a wait (timer.c)
    Commands,    \* what users and jobs do: "insert", "alter", "delete",
                 \* "upsert" (alter with a next start), "next_start" (a job sets it)
    Faults,      \* what may go wrong: "no_worker", "no_slot", "no_fork",
                 \* "kill", "sigterm", "instance"
    Prompt,      \* whether a job stops within a tick of its SIGTERM
    NoJob, NoWorker, NoSession

ASSUME SchedulerAssumption ==
    /\ Job \subseteq Nat
    /\ Initial \in Seq(Job)
    /\ Interval \subseteq Nat \ {0}
    /\ MaxRuntime \in Nat
    /\ MaxTimeout \in Nat \ {0}
    /\ Prompt \in BOOLEAN
    /\ NoWorker \notin Worker
    /\ NoSession \notin Session
    /\ NoJob \notin Job

VARIABLES
    jobs,          \* ids in bgw_job, in the order a heap scan returns them
    interval,      \* bgw_job.schedule_interval of each id
    next_id,       \* the sequence job ids are drawn from
    stat,          \* bgw_job_stat
    lock,          \* per job: the session with the exclusive advisory lock
    sess,          \* the sessions that delete: [pc, job]
    scheduled_jobs,        \* the scheduler's list, by id
    sjob,                  \* its ScheduledBgwJob structs
    jobs_list_needs_update,
    inval,         \* an invalidation the scheduler has not read yet
    cancelled,     \* SIGINT sent to the scheduler
    pc, cur, ret,  \* scheduler: where, for which job, where to afterwards
    todo,          \* scheduler: jobs still to look at in the loop it is in
    cur_ptr, new_ptr, new_jobs,  \* ts_update_scheduled_jobs_list
    fresh,         \* the structs of new_jobs that are not copies of sjob
    wake,          \* ticks until the scheduler's wait times out
    uptime,        \* history: ticks the scheduler is up, to MinWaitAfterCrash
    proc           \* per slot: the job process in it

catalog == <<jobs, interval, next_id, stat>>
locks == <<lock, sess>>
list == <<scheduled_jobs, sjob>>
flags == <<jobs_list_needs_update, inval, cancelled>>
control == <<pc, cur, ret, todo>>
merge == <<cur_ptr, new_ptr, new_jobs, fresh>>
clock == <<wake, uptime>>
vars == <<catalog, locks, list, flags, control, merge, clock, proc>>

\* A zeroed struct; MemoryContextAllocZero makes DISABLED its state.
ZeroJob ==
    [state |-> "DISABLED", next |-> 0, timeout |-> 0, handle |-> NoWorker,
     reserved |-> FALSE, mark |-> FALSE, interval |-> 0]

NoProc == [phase |-> "none", job |-> NoJob, term |-> FALSE, interval |-> 0]

JobState == {"DISABLED", "SCHEDULED", "STARTED", "TERMINATING"}
ScheduledBgwJob ==
    [state : JobState, next : Int, timeout : Nat, handle : Worker \cup {NoWorker},
     reserved : BOOLEAN, mark : BOOLEAN, interval : Nat]
Proc == [phase : {"none", "registered", "starting", "executing", "ended"},
         job : Job \cup {NoJob}, term : BOOLEAN, interval : Nat]
Row == [id : Job, interval : Interval]

InTable(j) == j \in ToSet(jobs)
Live(w) == proc[w].phase # "none"

\* Who holds the advisory lock of a job in share mode: the scheduler inside
\* the transactions that call ts_bgw_job_get_share_lock, and a job process
\* from its lookup of the job to its exit (a session lock).
SchedulerHolds(j) == pc \in {"reserve", "restore", "ending"} /\ cur = j
ProcHolds(w, j) == proc[w].phase \in {"executing", "ended"} /\ proc[w].job = j
Shared(j) == SchedulerHolds(j) \/ \E w \in Worker : ProcHolds(w, j)

\* The lock queue is fair: a waiting delete goes first.
CanShare(j) ==
    /\ lock[j] = NoSession
    /\ \A s \in Session : sess[s] # [pc |-> "waiting", job |-> j]

AcceptInvalidationMessages ==
    /\ jobs_list_needs_update' = (jobs_list_needs_update \/ inval)
    /\ inval' = FALSE
    /\ UNCHANGED cancelled

ts_bgw_job_cache_invalidate_callback ==
    /\ jobs_list_needs_update' = TRUE
    /\ inval' = FALSE
    /\ UNCHANGED cancelled

Init ==
    /\ jobs = Initial
    /\ interval \in [Job -> Interval]
    /\ next_id = Len(Initial) + 1
    /\ stat = [j \in Job |-> NoStat]
    /\ lock = [j \in Job |-> NoSession]
    /\ sess = [s \in Session |-> [pc |-> "idle", job |-> NoJob]]
    /\ scheduled_jobs = <<>>
    /\ sjob = [j \in Job |-> ZeroJob]
    /\ jobs_list_needs_update = FALSE /\ inval = FALSE /\ cancelled = FALSE
    /\ pc = "down" /\ cur = NoJob /\ ret = "check" /\ todo = {}
    /\ cur_ptr = <<>> /\ new_ptr = <<>> /\ new_jobs = <<>>
    /\ fresh = [j \in Job |-> ZeroJob]
    /\ wake = 0 /\ uptime = 0
    /\ proc = [w \in Worker |-> NoProc]

-----------------------------------------------------------------------------
(* The scheduler: reading the job table into its list. *)

\* A new scheduler process: static data zeroed, no list yet.
ts_bgw_scheduler_main ==
    /\ pc = "down"
    /\ pc' = "scan" /\ uptime' = 0
    /\ jobs_list_needs_update' = FALSE /\ inval' = FALSE /\ cancelled' = FALSE
    /\ UNCHANGED <<catalog, locks, list, cur, ret, todo, merge, wake, proc>>

\* ts_bgw_job_get_all: the rows as the scan of the heap returns them.
ts_bgw_job_get_all ==
    /\ pc = "scan"
    /\ new_jobs' = [i \in DOMAIN jobs |->
                        [id |-> jobs[i], interval |-> interval[jobs[i]]]]
    /\ new_ptr' = new_jobs'
    /\ cur_ptr' = scheduled_jobs
    /\ pc' = "merge"
    /\ AcceptInvalidationMessages
    /\ UNCHANGED <<catalog, locks, list, cur, ret, todo, fresh, clock, proc>>


\* The order the merge takes for granted in both lists.
CurFirst ==
    /\ cur_ptr # <<>>
    /\ new_ptr # <<>> => Head(cur_ptr) < Head(new_ptr).id
Same ==
    /\ cur_ptr # <<>> /\ new_ptr # <<>>
    /\ Head(cur_ptr) = Head(new_ptr).id
NewFirst ==
    /\ new_ptr # <<>>
    /\ cur_ptr # <<>> => Head(cur_ptr) > Head(new_ptr).id

\* terminate_and_cleanup_job: signal the process ...
MergeTerminates ==
    LET w == sjob[Head(cur_ptr)].handle IN
    /\ pc = "merge" /\ CurFirst
    /\ w # NoWorker /\ Live(w) /\ ~proc[w].term
    /\ proc' = [proc EXCEPT ![w].term = TRUE]
    /\ UNCHANGED <<catalog, locks, list, flags, control, merge, clock>>

\* Variant: the process is neither signalled nor waited for.
MergeForgets ==
    LET j == Head(cur_ptr) IN
    /\ pc = "merge" /\ CurFirst
    /\ sjob' = [sjob EXCEPT ![j].mark = FALSE, ![j].handle = NoWorker,
                            ![j].reserved = FALSE]
    /\ cur_ptr' = Tail(cur_ptr)
    /\ UNCHANGED <<catalog, locks, scheduled_jobs, flags, control, new_ptr,
                   new_jobs, fresh, clock, proc>>

\* ... wait until it is gone, and drop what is kept of it.
MergeCleansUp ==
    LET j == Head(cur_ptr) IN
    /\ pc = "merge" /\ CurFirst
    /\ sjob[j].handle # NoWorker => ~Live(sjob[j].handle)
    /\ sjob' = [sjob EXCEPT ![j].mark = FALSE, ![j].handle = NoWorker,
                            ![j].reserved = FALSE]
    /\ cur_ptr' = Tail(cur_ptr)
    /\ UNCHANGED <<catalog, locks, scheduled_jobs, flags, control, new_ptr,
                   new_jobs, fresh, clock, proc>>

\* The job is in both lists: its entry is kept, with the row read anew, and a
\* waiting job's start is computed again.
MergeKeeps ==
    LET row == Head(new_ptr) IN
    /\ pc = "merge" /\ Same
    /\ IF sjob[row.id].state = "SCHEDULED"
       THEN /\ \E next \in next_start(stat[row.id], row.interval) :
                 sjob' = [sjob EXCEPT ![row.id].interval = row.interval,
                                      ![row.id].next = next]
            /\ AcceptInvalidationMessages
       ELSE /\ sjob' = [sjob EXCEPT ![row.id].interval = row.interval]
            /\ UNCHANGED flags
    /\ cur_ptr' = Tail(cur_ptr) /\ new_ptr' = Tail(new_ptr)
    /\ UNCHANGED <<catalog, locks, scheduled_jobs, control, new_jobs, fresh,
                   clock, proc>>

\* The job is new to the list.
MergeAdds ==
    LET row == Head(new_ptr) IN
    /\ pc = "merge" /\ NewFirst
    /\ \E next \in next_start(stat[row.id], row.interval) :
         fresh' = [fresh EXCEPT ![row.id] =
                     [ZeroJob EXCEPT !.state = "SCHEDULED", !.next = next,
                                     !.interval = row.interval]]
    /\ new_ptr' = Tail(new_ptr)
    /\ AcceptInvalidationMessages
    /\ UNCHANGED <<catalog, locks, list, control, cur_ptr, new_jobs, clock, proc>>

\* The new list replaces the old one, and only then is the flag reset.
MergeReturns ==
    LET new == {new_jobs[i].id : i \in DOMAIN new_jobs} IN
    /\ pc = "merge" /\ cur_ptr = <<>> /\ new_ptr = <<>>
    /\ scheduled_jobs' = [i \in DOMAIN new_jobs |-> new_jobs[i].id]
    /\ sjob' = [j \in Job |-> CASE j \notin new -> ZeroJob
                                 [] j \in new /\ fresh[j] # ZeroJob -> fresh[j]
                                 [] OTHER -> sjob[j]]
    /\ jobs_list_needs_update' = FALSE
    /\ new_jobs' = <<>> /\ fresh' = [j \in Job |-> ZeroJob]
    /\ pc' = "check" /\ todo' = new
    /\ UNCHANGED <<catalog, locks, inval, cancelled, cur, ret, cur_ptr, new_ptr,
                   clock, proc>>

-----------------------------------------------------------------------------
(* The scheduler: starting jobs. *)

Due(j) == sjob[j].state = "SCHEDULED" /\ sjob[j].next <= 0

\* start_scheduled_jobs takes the jobs in the order of their next start and
\* begins the transaction of the first that is due, with its share lock.
StartJob(j) ==
    /\ pc = "start" /\ j \in todo /\ Due(j)
    /\ \A k \in todo : Due(k) => sjob[j].next <= sjob[k].next
    /\ CanShare(j)
    /\ pc' = "reserve" /\ cur' = j /\ todo' = todo \ {j}
    /\ AcceptInvalidationMessages
    /\ UNCHANGED <<catalog, locks, list, ret, merge, clock, proc>>

\* The job was deleted since the list was read.
StartFindsNoJob ==
    /\ pc = "reserve" /\ ~InTable(cur)
    /\ pc' = "start"
    /\ ts_bgw_job_cache_invalidate_callback
    /\ UNCHANGED <<catalog, locks, list, cur, ret, todo, merge, clock, proc>>

\* ts_bgw_worker_reserve fails: back to SCHEDULED.
StartFindsNoWorker ==
    /\ pc = "reserve" /\ InTable(cur)
    /\ "no_worker" \in Faults
    /\ \E next \in next_start(stat[cur], sjob[cur].interval) :
         sjob' = [sjob EXCEPT ![cur].next = next]
    /\ pc' = "start"
    /\ AcceptInvalidationMessages
    /\ UNCHANGED <<catalog, locks, scheduled_jobs, cur, ret, todo, merge, clock, proc>>

\* Variant: the start is not written to the table.
StartUnmarked ==
    /\ pc = "reserve" /\ InTable(cur)
    /\ sjob' = [sjob EXCEPT ![cur].reserved = TRUE, ![cur].mark = TRUE,
                            ![cur].timeout = MaxRuntime]
    /\ pc' = "launch"
    /\ AcceptInvalidationMessages
    /\ UNCHANGED <<catalog, locks, scheduled_jobs, cur, ret, todo, merge, clock, proc>>

\* The run is marked as started and the mark committed before the process is
\* registered.
MarkJobAsStarted ==
    /\ pc = "reserve" /\ InTable(cur)
    /\ stat' = [stat EXCEPT ![cur] = mark_start(@)]
    /\ sjob' = [sjob EXCEPT ![cur].reserved = TRUE, ![cur].mark = TRUE,
                            ![cur].timeout = MaxRuntime]
    /\ pc' = "launch"
    /\ AcceptInvalidationMessages
    /\ UNCHANGED <<jobs, interval, next_id, locks, scheduled_jobs, cur, ret, todo,
                   merge, clock, proc>>

Unused(w) == ~Live(w) /\ \A j \in Job : sjob[j].handle # w

ts_bgw_job_start ==
    /\ pc = "launch"
    /\ \E w \in Worker :
         /\ Unused(w)
         /\ proc' = [proc EXCEPT ![w] = [NoProc EXCEPT !.phase = "registered",
                                                       !.job = cur]]
         /\ sjob' = [sjob EXCEPT ![cur].handle = w, ![cur].state = "STARTED"]
    /\ pc' = "startup"
    /\ UNCHANGED <<catalog, locks, scheduled_jobs, flags, cur, ret, todo, merge, clock>>

\* No slot is free: those of the instance's other workers count as well.
JobStartFails ==
    /\ pc = "launch"
    /\ "no_slot" \in Faults \/ \A w \in Worker : ~Unused(w)
    /\ pc' = "failed"
    /\ UNCHANGED <<catalog, locks, list, flags, cur, ret, todo, merge, clock, proc>>

OnFailureLocks ==
    /\ pc = "failed" /\ CanShare(cur)
    /\ pc' = "restore"
    /\ AcceptInvalidationMessages
    /\ UNCHANGED <<catalog, locks, list, cur, ret, todo, merge, clock, proc>>

\* Variant: the worker is not given back.
FailedStartKeepsWorker ==
    /\ pc = "restore"
    /\ IF InTable(cur)
       THEN /\ \E t \in mark_end(stat[cur], "FAILURE_TO_START", sjob[cur].interval) :
                 stat' = [stat EXCEPT ![cur] = t]
            /\ AcceptInvalidationMessages
       ELSE UNCHANGED stat /\ ts_bgw_job_cache_invalidate_callback
    /\ \E next \in next_start(stat'[cur], sjob[cur].interval) :
         sjob' = [sjob EXCEPT ![cur].mark = FALSE, ![cur].next = next]
    /\ pc' = "start"
    /\ UNCHANGED <<jobs, interval, next_id, locks, scheduled_jobs, cur, ret, todo,
                   merge, clock, proc>>

\* on_failure_to_start_job puts next_start back, undoes the start mark and
\* gives the worker back; a job deleted meanwhile has no row to write to.
on_failure_to_start_job ==
    LET s == stat[cur]
        restored == IF sjob[cur].next # NoBegin THEN set_next_start(s, sjob[cur].next)
                    ELSE s
    IN
    /\ pc = "restore"
    /\ IF InTable(cur)
       THEN /\ \E t \in mark_end(restored, "FAILURE_TO_START", sjob[cur].interval) :
                 stat' = [stat EXCEPT ![cur] = t]
            /\ AcceptInvalidationMessages
       ELSE UNCHANGED stat /\ ts_bgw_job_cache_invalidate_callback
    /\ \E next \in next_start(stat'[cur], sjob[cur].interval) :
         sjob' = [sjob EXCEPT ![cur].mark = FALSE, ![cur].reserved = FALSE,
                              ![cur].next = next]
    /\ pc' = "start"
    /\ UNCHANGED <<jobs, interval, next_id, locks, scheduled_jobs, cur, ret, todo,
                   merge, clock, proc>>

\* WaitForBackgroundWorkerStartup returns BGWH_STARTED ...
StartupSeen ==
    /\ pc = "startup"
    /\ proc[sjob[cur].handle].phase \notin {"registered", "none"}
    /\ pc' = "start"
    /\ UNCHANGED <<catalog, locks, list, flags, cur, ret, todo, merge, clock, proc>>

-----------------------------------------------------------------------------
(* The scheduler: a job's process has stopped. *)

\* Variant: the worker is not given back.
CleanUpKeepsWorker(j, back) ==
    /\ sjob' = [sjob EXCEPT ![j].handle = NoWorker]
    /\ pc' = "mark" /\ cur' = j /\ ret' = back
    /\ UNCHANGED <<catalog, locks, scheduled_jobs, flags, merge, clock, proc>>

\* worker_state_cleanup: the worker is given back before the table is touched.
CleanUp(j, back) ==
    /\ sjob' = [sjob EXCEPT ![j].handle = NoWorker, ![j].reserved = FALSE]
    /\ pc' = "mark" /\ cur' = j /\ ret' = back
    /\ UNCHANGED <<catalog, locks, scheduled_jobs, flags, merge, clock, proc>>

\* ... or BGWH_STOPPED, when the process is gone before that was seen.
StartupMissed ==
    /\ pc = "startup" /\ ~Live(sjob[cur].handle)
    /\ CleanUp(cur, "start")
    /\ UNCHANGED todo

MarkLocks ==
    /\ pc = "mark" /\ CanShare(cur)
    /\ pc' = "ending"
    /\ AcceptInvalidationMessages
    /\ UNCHANGED <<catalog, locks, list, cur, ret, todo, merge, clock, proc>>

\* Variant: a job that has ended is not scheduled again.
EndedNotRescheduled ==
    /\ pc = "ending"
    /\ IF InTable(cur)
       THEN /\ IF stat[cur].finished THEN UNCHANGED stat
               ELSE \E t \in mark_end(stat[cur], "FAILURE", sjob[cur].interval) :
                      stat' = [stat EXCEPT ![cur] = t]
            /\ AcceptInvalidationMessages
       ELSE UNCHANGED stat /\ ts_bgw_job_cache_invalidate_callback
    /\ sjob' = [sjob EXCEPT ![cur].mark = FALSE, ![cur].state = "DISABLED"]
    /\ pc' = ret
    /\ UNCHANGED <<jobs, interval, next_id, locks, scheduled_jobs, cur, ret, todo,
                   merge, clock, proc>>

\* The end of the run is marked if the job process has not done so, and the
\* job is SCHEDULED again.
MarkJobAsEnded ==
    /\ pc = "ending"
    /\ IF InTable(cur)
       THEN /\ IF stat[cur].finished THEN UNCHANGED stat
               ELSE \E t \in mark_end(stat[cur], "FAILURE", sjob[cur].interval) :
                      stat' = [stat EXCEPT ![cur] = t]
            /\ AcceptInvalidationMessages
       ELSE UNCHANGED stat /\ ts_bgw_job_cache_invalidate_callback
    /\ \E next \in next_start(stat'[cur], sjob[cur].interval) :
         sjob' = [sjob EXCEPT ![cur].mark = FALSE, ![cur].state = "SCHEDULED",
                              ![cur].next = next]
    /\ pc' = ret
    /\ UNCHANGED <<jobs, interval, next_id, locks, scheduled_jobs, cur, ret, todo,
                   merge, clock, proc>>

-----------------------------------------------------------------------------
(* The scheduler: its wait, the check of running jobs, its exit. *)

\* earliest_wakeup_to_start_next_job and earliest_job_timeout.
EarliestStart ==
    {IF sjob[j].next <= 0 THEN 1 ELSE sjob[j].next :
        j \in {k \in ToSet(scheduled_jobs) : sjob[k].state = "SCHEDULED"}}
EarliestTimeout ==
    {sjob[j].timeout : j \in {k \in ToSet(scheduled_jobs) :
        MaxRuntime > 0 /\ sjob[k].state = "STARTED"}}

\* Variant: the wait is not cut short for a running job's timeout.
WaitPastTimeouts ==
    LET times == EarliestStart \cup {MaxTimeout} IN
    /\ pc = "start" /\ \A j \in todo : ~Due(j)
    /\ wake' = CHOOSE t \in times : \A u \in times : t <= u
    /\ pc' = "sleep" /\ todo' = {}
    /\ UNCHANGED <<catalog, locks, list, flags, cur, ret, merge, uptime, proc>>

\* No job is left to start: wait until the next one is due, the first one
\* running times out, or MAX_TIMEOUT.
ts_timer_wait ==
    LET times == EarliestStart \cup EarliestTimeout \cup {MaxTimeout} IN
    /\ pc = "start" /\ \A j \in todo : ~Due(j)
    /\ wake' = CHOOSE t \in times : \A u \in times : t <= u
    /\ pc' = "sleep" /\ todo' = {}
    /\ UNCHANGED <<catalog, locks, list, flags, cur, ret, merge, uptime, proc>>

\* The wait ends: it timed out, or the latch was set.
WakeUp ==
    /\ pc = "sleep"
    /\ AcceptInvalidationMessages
    /\ pc' = IF jobs_list_needs_update' THEN "scan" ELSE "check"
    /\ todo' = ToSet(scheduled_jobs)
    /\ wake' = 0
    /\ UNCHANGED <<catalog, locks, list, cur, ret, merge, uptime, proc>>

Running(j) == sjob[j].state \in {"STARTED", "TERMINATING"}

CheckFindsStopped(j) ==
    /\ pc = "check" /\ j \in todo /\ Running(j)
    /\ ~Live(sjob[j].handle)
    /\ CleanUp(j, "check")
    /\ todo' = todo \ {j}

\* Variant: the process that is out of time is not signalled.
TimeoutUnsignalled(j) ==
    /\ pc = "check" /\ j \in todo
    /\ sjob[j].state = "STARTED" /\ Live(sjob[j].handle)
    /\ MaxRuntime > 0 /\ sjob[j].timeout = 0
    /\ sjob' = [sjob EXCEPT ![j].state = "TERMINATING"]
    /\ todo' = todo \ {j}
    /\ UNCHANGED <<catalog, locks, scheduled_jobs, flags, pc, cur, ret, merge, clock, proc>>

CheckTimesOut(j) ==
    LET w == sjob[j].handle IN
    /\ pc = "check" /\ j \in todo
    /\ sjob[j].state = "STARTED" /\ Live(w)
    /\ MaxRuntime > 0 /\ sjob[j].timeout = 0
    /\ proc' = [proc EXCEPT ![w].term = TRUE]
    /\ sjob' = [sjob EXCEPT ![j].state = "TERMINATING"]
    /\ todo' = todo \ {j}
    /\ UNCHANGED <<catalog, locks, scheduled_jobs, flags, pc, cur, ret, merge, clock>>

CheckFindsRunning(j) ==
    /\ pc = "check" /\ j \in todo /\ Running(j)
    /\ Live(sjob[j].handle)
    /\ ~(sjob[j].state = "STARTED" /\ MaxRuntime > 0 /\ sjob[j].timeout = 0)
    /\ todo' = todo \ {j}
    /\ UNCHANGED <<catalog, locks, list, flags, pc, cur, ret, merge, clock, proc>>

CheckReturns ==
    /\ pc = "check" /\ \A j \in todo : ~Running(j)
    /\ pc' = "start" /\ todo' = ToSet(scheduled_jobs)
    /\ UNCHANGED <<catalog, locks, list, flags, cur, ret, merge, clock, proc>>

\* What is left of a scheduler process.
SchedulerGone ==
    /\ pc' = "down" /\ cur' = NoJob /\ ret' = "check" /\ todo' = {}
    /\ cur_ptr' = <<>> /\ new_ptr' = <<>> /\ new_jobs' = <<>>
    /\ fresh' = [j \in Job |-> ZeroJob]
    /\ scheduled_jobs' = <<>> /\ sjob' = [j \in Job |-> ZeroJob]
    /\ jobs_list_needs_update' = FALSE /\ inval' = FALSE /\ cancelled' = FALSE
    /\ wake' = 0 /\ uptime' = 0

\* Variant: the exit leaves the job processes alone.
ExitLeavesJobs ==
    /\ pc # "down"
    /\ cancelled \/ "sigterm" \in Faults
    /\ SchedulerGone
    /\ UNCHANGED <<catalog, locks, proc>>

\* SIGTERM, or an error, which ends a background worker too.  The exit
\* callback signals the processes of the list it has and does not wait.
terminate_all_jobs_and_release_workers ==
    /\ pc # "down"
    /\ cancelled \/ "sigterm" \in Faults
    /\ proc' = [w \in Worker |->
                  IF Live(w) /\ \E j \in ToSet(scheduled_jobs) : sjob[j].handle = w
                  THEN [proc[w] EXCEPT !.term = TRUE] ELSE proc[w]]
    /\ SchedulerGone
    /\ UNCHANGED <<catalog, locks>>

-----------------------------------------------------------------------------
(* Job processes: ts_bgw_job_entrypoint. *)

\* The postmaster starts the process, or never does.
Fork(w) ==
    /\ proc[w].phase = "registered" /\ ~proc[w].term
    /\ proc' = [proc EXCEPT ![w].phase = "starting"]
    /\ UNCHANGED <<catalog, locks, list, flags, control, merge, clock>>

ForkFails(w) ==
    /\ proc[w].phase = "registered"
    /\ proc[w].term \/ "no_fork" \in Faults
    /\ proc' = [proc EXCEPT ![w] = NoProc]
    /\ UNCHANGED <<catalog, locks, list, flags, control, merge, clock>>

\* Variant: the job is read without its lock.
JobLooksUpUnlocked(w) ==
    LET j == proc[w].job IN
    /\ proc[w].phase = "starting"
    /\ proc' = IF InTable(j)
               THEN [proc EXCEPT ![w].phase = "executing", ![w].interval = interval[j]]
               ELSE [proc EXCEPT ![w] = NoProc]
    /\ UNCHANGED <<catalog, locks, list, flags, control, merge, clock>>

\* The process takes its session lock and reads its job; without one it
\* raises an error, and marks nothing.
JobLooksUp(w) ==
    LET j == proc[w].job IN
    /\ proc[w].phase = "starting" /\ CanShare(j)
    /\ proc' = IF InTable(j)
               THEN [proc EXCEPT ![w].phase = "executing", ![w].interval = interval[j]]
               ELSE [proc EXCEPT ![w] = NoProc]
    /\ UNCHANGED <<catalog, locks, list, flags, control, merge, clock>>

\* A job may choose its own next start (ts_bgw_job_stat_set_next_start).
JobSetsNextStart(w) ==
    LET j == proc[w].job IN
    /\ proc[w].phase = "executing" /\ "next_start" \in Commands
    /\ \E next \in Interval : stat' = [stat EXCEPT ![j] = set_next_start(@, next)]
    /\ UNCHANGED <<jobs, interval, next_id, locks, list, flags, control, merge,
                   clock, proc>>

\* The job returns: the process marks the end with the row it read at first.
JobReturns(w) ==
    LET j == proc[w].job IN
    /\ proc[w].phase = "executing"
    /\ \E result \in {"SUCCESS", "FAILURE"} :
         \E t \in mark_end(stat[j], result, proc[w].interval) :
           stat' = [stat EXCEPT ![j] = t]
    /\ proc' = [proc EXCEPT ![w].phase = "ended"]
    /\ UNCHANGED <<jobs, interval, next_id, locks, list, flags, control, merge, clock>>

\* The job raises an error, its own or that of a cancel: the process reads
\* its row again and marks the end.  The advisory lock survives the abort.
JobThrows(w) ==
    LET j == proc[w].job IN
    /\ proc[w].phase = "executing"
    /\ \E t \in mark_end(stat[j], "FAILURE", interval[j]) :
         stat' = [stat EXCEPT ![j] = t]
    /\ proc' = [proc EXCEPT ![w].phase = "ended"]
    /\ UNCHANGED <<jobs, interval, next_id, locks, list, flags, control, merge, clock>>

JobExits(w) ==
    /\ proc[w].phase = "ended"
    /\ proc' = [proc EXCEPT ![w] = NoProc]
    /\ UNCHANGED <<catalog, locks, list, flags, control, merge, clock>>

\* A process that is terminated writes nothing any more.
JobDies(w) ==
    /\ proc[w].phase \in {"starting", "executing", "ended"}
    /\ proc[w].term \/ "kill" \in Faults
    /\ proc' = [proc EXCEPT ![w] = NoProc]
    /\ UNCHANGED <<catalog, locks, list, flags, control, merge, clock>>

-----------------------------------------------------------------------------
(* Users: the job table. *)

\* A commit that changed bgw_job reaches the scheduler's queue.
Invalidate ==
    /\ inval' = (pc # "down")
    /\ UNCHANGED <<jobs_list_needs_update, cancelled>>

ts_bgw_job_insert_relation ==
    /\ "insert" \in Commands /\ next_id \in Job
    /\ jobs' = Append(jobs, next_id) /\ next_id' = next_id + 1
    /\ Invalidate
    /\ UNCHANGED <<interval, stat, locks, list, control, merge, clock, proc>>

\* alter_job_schedule: the new version of the row goes to the end of the heap.
\* The time since last_finish is not kept, so what is left of a changed
\* interval is any number of ticks up to it.
MoveToEnd(j) == Append(SelectSeq(jobs, LAMBDA k : k # j), j)

bgw_policy_alter_job_schedule(j, iv) ==
    LET s == stat[j]
        starts == IF iv = interval[j] \/ ~s.exists THEN {s.next}
                  ELSE IF s.finished THEN 0 .. iv ELSE {NoBegin}
    IN
    /\ "alter" \in Commands /\ InTable(j)
    /\ interval' = [interval EXCEPT ![j] = iv]
    /\ \E n \in starts :
         LET changed == IF s.exists THEN set_next_start(s, n) ELSE s IN
         \/ stat' = [stat EXCEPT ![j] = changed]
         \/ /\ "upsert" \in Commands
            /\ \E next \in Interval :
                 stat' = [stat EXCEPT ![j] = upsert_next_start(changed, next)]
    /\ jobs' = MoveToEnd(j)
    /\ Invalidate
    /\ UNCHANGED <<next_id, locks, list, control, merge, clock, proc>>

-----------------------------------------------------------------------------
(* Users: deleting a job. *)

Sess(s, where, j) == sess' = [sess EXCEPT ![s] = [pc |-> where, job |-> j]]

\* get_job_lock_for_delete gets its lock at once ...
DeleteLocks(s, j) ==
    /\ "delete" \in Commands /\ sess[s].pc = "idle"
    /\ CanShare(j) /\ ~Shared(j)
    /\ lock' = [lock EXCEPT ![j] = s]
    /\ Sess(s, "locked", j)
    /\ UNCHANGED <<catalog, list, flags, control, merge, clock, proc>>

\* ... or cancels a background worker that holds it, which may be the
\* scheduler, and waits.  A cancelled job throws, which it may do anyway.
DeleteWaits(s, j) ==
    /\ "delete" \in Commands /\ sess[s].pc = "idle"
    /\ Shared(j) \/ ~CanShare(j)
    /\ Sess(s, "waiting", j)
    /\ \/ SchedulerHolds(j) /\ cancelled' = TRUE
       \/ \E w \in Worker : ProcHolds(w, j) /\ UNCHANGED cancelled
       \/ ~Shared(j) /\ UNCHANGED cancelled
    /\ UNCHANGED <<catalog, lock, list, jobs_list_needs_update, inval, control,
                   merge, clock, proc>>

DeleteGetsLock(s) ==
    LET j == sess[s].job IN
    /\ sess[s].pc = "waiting"
    /\ lock[j] = NoSession /\ ~Shared(j)
    /\ lock' = [lock EXCEPT ![j] = s]
    /\ Sess(s, "locked", j)
    /\ UNCHANGED <<catalog, list, flags, control, merge, clock, proc>>

\* The row and its statistics go with the commit.  The lock was taken as a
\* session lock (lock_type 0), so the end of the transaction keeps it.
DeleteCommits(s) ==
    LET j == sess[s].job IN
    /\ sess[s].pc = "locked"
    /\ Sess(s, "done", j)
    /\ IF InTable(j)
       THEN /\ jobs' = SelectSeq(jobs, LAMBDA k : k # j)
            /\ stat' = [stat EXCEPT ![j] = NoStat]
            /\ Invalidate
       ELSE UNCHANGED <<jobs, stat, flags>>
    /\ UNCHANGED <<interval, next_id, lock, list, control, merge, clock, proc>>

\* A failed transaction deletes nothing; a wait may end in a lock timeout.
DeleteAborts(s) ==
    /\ sess[s].pc \in {"locked", "waiting"}
    /\ IF sess[s].pc = "locked" THEN Sess(s, "done", sess[s].job)
       ELSE Sess(s, "idle", NoJob)
    /\ UNCHANGED <<catalog, lock, list, flags, control, merge, clock, proc>>

\* The session ends.
Disconnect(s) ==
    /\ sess[s].pc = "done"
    /\ lock' = [lock EXCEPT ![sess[s].job] = NoSession]
    /\ Sess(s, "idle", NoJob)
    /\ UNCHANGED <<catalog, list, flags, control, merge, clock, proc>>

-----------------------------------------------------------------------------
(* The clock, and the end of the instance. *)

\* A wait does not outlast its timeout.
Tick ==
    /\ ~(pc = "sleep" /\ wake = 0)
    /\ Prompt => \A w \in Worker : Live(w) => ~proc[w].term
    /\ stat' = [j \in Job |-> LaterStat(stat[j])]
    /\ sjob' = [j \in Job |-> [sjob[j] EXCEPT !.next = Later(@), !.timeout = Later(@)]]
    /\ fresh' = [j \in Job |-> [fresh[j] EXCEPT !.next = Later(@)]]
    /\ wake' = Later(wake)
    /\ uptime' = IF pc = "down" THEN 0 ELSE Least(uptime + 1, MinWaitAfterCrash)
    /\ UNCHANGED <<jobs, interval, next_id, locks, scheduled_jobs, flags, control,
                   cur_ptr, new_ptr, new_jobs, proc>>

\* A crash of any process takes all down; what was committed stays.
InstanceCrashes ==
    /\ "instance" \in Faults
    /\ proc' = [w \in Worker |-> NoProc]
    /\ lock' = [j \in Job |-> NoSession]
    /\ sess' = [s \in Session |-> [pc |-> "idle", job |-> NoJob]]
    /\ SchedulerGone
    /\ UNCHANGED catalog

-----------------------------------------------------------------------------
Merge ==
    \/ MergeTerminates \/ MergeCleansUp \/ MergeKeeps \/ MergeAdds \/ MergeReturns
Start ==
    \/ \E j \in Job : StartJob(j)
    \/ StartFindsNoJob \/ StartFindsNoWorker \/ MarkJobAsStarted
    \/ ts_bgw_job_start \/ JobStartFails \/ OnFailureLocks \/ on_failure_to_start_job
    \/ StartupSeen \/ StartupMissed \/ MarkLocks \/ MarkJobAsEnded
Check ==
    \/ \E j \in Job : CheckFindsStopped(j) \/ CheckTimesOut(j) \/ CheckFindsRunning(j)
    \/ CheckReturns

\* The scheduler process, but for its end.
SchedulerStep ==
    \/ ts_bgw_scheduler_main \/ ts_bgw_job_get_all
    \/ Merge \/ Start \/ ts_timer_wait \/ WakeUp \/ Check

JobStep(w) ==
    \/ Fork(w) \/ ForkFails(w) \/ JobLooksUp(w) \/ JobSetsNextStart(w)
    \/ JobReturns(w) \/ JobThrows(w) \/ JobExits(w) \/ JobDies(w)

DeleteStep(s) ==
    \/ \E j \in Job : DeleteLocks(s, j) \/ DeleteWaits(s, j)
    \/ DeleteGetsLock(s) \/ DeleteCommits(s) \/ DeleteAborts(s) \/ Disconnect(s)

Next ==
    \/ SchedulerStep
    \/ terminate_all_jobs_and_release_workers
    \/ \E w \in Worker : JobStep(w)
    \/ ts_bgw_job_insert_relation
    \/ \E j \in Job, iv \in Interval : bgw_policy_alter_job_schedule(j, iv)
    \/ \E s \in Session : DeleteStep(s)
    \/ Tick
    \/ InstanceCrashes

Spec == Init /\ [][Next]_vars

-----------------------------------------------------------------------------
(* Properties. *)

\* Every variable keeps its type.
TypeOK ==
    /\ jobs \in Seq(Job) /\ interval \in [Job -> Interval] /\ next_id \in Nat
    /\ stat \in [Job -> Stat]
    /\ lock \in [Job -> Session \cup {NoSession}]
    /\ sess \in [Session -> [pc : {"idle", "waiting", "locked", "done"},
                             job : Job \cup {NoJob}]]
    /\ scheduled_jobs \in Seq(Job) /\ sjob \in [Job -> ScheduledBgwJob]
    /\ {jobs_list_needs_update, inval, cancelled} \subseteq BOOLEAN
    /\ pc \in {"down", "scan", "merge", "check", "start", "reserve", "launch",
               "failed", "restore", "startup", "mark", "ending", "sleep"}
    /\ cur \in Job \cup {NoJob} /\ ret \in {"check", "start"}
    /\ todo \subseteq Job
    /\ cur_ptr \in Seq(Job) /\ new_ptr \in Seq(Row) /\ new_jobs \in Seq(Row)
    /\ fresh \in [Job -> ScheduledBgwJob]
    /\ wake \in Nat /\ uptime \in 0 .. MinWaitAfterCrash
    /\ proc \in [Worker -> Proc]

\* The assertions of scheduler.c hold where they are evaluated: a job is
\* started from a clean entry (235-237, 127), a started one has its worker
\* and process (293, 296-298), its process is never seen unborn (639, 118),
\* and the statistics of a job that ran exist (135, 183).
AssertsHold ==
    /\ pc = "reserve" =>
         /\ sjob[cur].state = "SCHEDULED" /\ sjob[cur].handle = NoWorker
         /\ ~sjob[cur].reserved /\ ~sjob[cur].mark
    /\ pc = "restore" => sjob[cur].mark
    /\ pc = "ending" /\ InTable(cur) => stat[cur].exists
    /\ pc = "check" => \A j \in todo : Running(j) =>
         /\ sjob[j].handle # NoWorker /\ sjob[j].reserved
         /\ proc[sjob[j].handle].phase # "registered"

\* Whenever the scheduler waits, a worker is reserved, a process handle kept
\* and an end mark owed for exactly the jobs that are running: no way a start,
\* a failed start, a refresh or a cleanup goes leaks or loses one.
BooksBalance ==
    pc = "sleep" => \A j \in Job :
        /\ sjob[j].reserved <=> Running(j)
        /\ sjob[j].mark <=> Running(j)
        /\ (sjob[j].handle # NoWorker) <=> Running(j)

\* A job process that nobody has told to stop is in the scheduler's list,
\* with the worker it was counted for: a refresh or an exit forgets none.
NoForgottenProcess ==
    \A w \in Worker : Live(w) /\ ~proc[w].term =>
        \E j \in ToSet(scheduled_jobs) :
            sjob[j].handle = w /\ sjob[j].reserved /\ proc[w].job = j

\* While job code runs, the job counts as started and not ended, so that a
\* crash at any point is seen afterwards (job_stat.c:113-118).
CrashNeverMissed ==
    \A w \in Worker : proc[w].phase = "executing" =>
        LET s == stat[proc[w].job] IN s.exists /\ ~s.finished /\ s.crashes > 0


\* A job that crashed is not started by a scheduler that is up for less than
\* the time an operator is given to disable it (bgw/README.md:29-32).
CrashedJobWaits ==
    [][ MarkJobAsStarted /\ stat[cur].crashes > 0 => uptime >= MinWaitAfterCrash ]_vars

\* A job whose deletion was committed does not run: the delete waited for it,
\* and one that starts later finds no row (job.c:265-266).
DeletedJobStops ==
    \A w \in Worker : proc[w].phase = "executing" => InTable(proc[w].job)

\* Time never passes a running job's timeout while the scheduler sleeps.
TimeoutsOnTime ==
    [][ Tick /\ pc = "sleep" /\ MaxRuntime > 0 =>
          \A j \in Job : sjob[j].state = "STARTED" => sjob[j].timeout > 0 ]_vars


-----------------------------------------------------------------------------
(* Liveness.  PostgreSQL schedules every process, a latch wait ends with its
   timeout, the queue of a lock is first come first served, the launcher
   starts a scheduler again that has gone, and workers and slots that others
   use become free again.  A job may hang, but dies of its SIGTERM; a session
   that has a lock may stay. *)
Fairness ==
    /\ WF_vars(SchedulerStep) /\ WF_vars(Tick)
    /\ \A j \in Job : SF_vars(StartJob(j))
    /\ SF_vars(MarkLocks) /\ SF_vars(OnFailureLocks)
    /\ SF_vars(MarkJobAsStarted) /\ SF_vars(ts_bgw_job_start)
    /\ WF_vars(cancelled /\ terminate_all_jobs_and_release_workers)
    /\ \A w \in Worker :
         /\ WF_vars(Fork(w) \/ ForkFails(w)) /\ SF_vars(Fork(w))
         /\ SF_vars(JobLooksUp(w))
         /\ WF_vars(JobExits(w)) /\ WF_vars(proc[w].term /\ JobDies(w))
    /\ \A s \in Session :
         /\ WF_vars(DeleteGetsLock(s)) /\ WF_vars(DeleteCommits(s))

SessionsEnd == \A s \in Session : WF_vars(Disconnect(s))

IdleSessionSpec == Spec /\ Fairness
FairSpec == IdleSessionSpec /\ SessionsEnd

\* A reserved worker is given back, also when the job hangs: its timeout is
\* noticed, the process terminated, and its end seen.
RunsEnd == \A j \in Job : sjob[j].reserved ~> ~sjob[j].reserved

\* A job of the table runs again and again until it is deleted, unless
\* sessions keep trying to delete it for ever: each try may cancel the
\* scheduler at the moment it starts the job.
EveryJobRuns ==
    <>[](\A s \in Session : sess[s].pc = "idle") =>
        \A j \in Job : InTable(j) ~>
            \/ ~InTable(j)
            \/ \E w \in Worker : proc[w].phase = "executing" /\ proc[w].job = j

\* A delete gets its lock in the end: the job ends, is cancelled or times out.
DeleteReturns == \A s \in Session : sess[s].pc = "waiting" ~> sess[s].pc # "waiting"

\* The scheduler does not stop working when it waits for the lock of a job
\* whose delete is over (job.c:380 and 406: not a session lock).
SchedulerGoesOn == \A j \in Job : (pc = "mark" /\ cur = j) ~> ~(pc = "mark" /\ cur = j)

=============================================================================
