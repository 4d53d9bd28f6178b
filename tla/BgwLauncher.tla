---------------------------- MODULE BgwLauncher -----------------------------
(***************************************************************************)
(* The background worker launcher of the loader (src/loader): one launcher *)
(* process per instance keeps a hash table with a state per database,      *)
(* starts and stops one scheduler worker per database, and serves START,   *)
(* STOP and RESTART messages that backends put on a bounded shared queue   *)
(* and wait for an acknowledgement of.  Launcher, scheduler workers,       *)
(* backends and the postmaster interleave; the launcher may die and be     *)
(* restarted while the workers it started are still alive.                 *)
(***************************************************************************)
EXTENDS BgwCounter, Sequences, FiniteSets

CONSTANTS
    Db,            \* database oids
    Template,      \* the template databases among them
    Worker,        \* background worker slots of the postmaster
    Job,           \* jobs of one scheduler (each needs one counted worker)
    Backend,       \* client backends
    Commands,      \* the commands the backends issue
    QueueSize,     \* BGW_MQ_MAX_MESSAGES
    MaxTxn,        \* bound: transactions per backend
    MaxLaunches,   \* bound: times the postmaster starts the launcher
    NoWorker,      \* a NULL BackgroundWorkerHandle
    NoDb           \* no entry is being worked on

\* Every statement or function whose execution sends a message.
CommandMessage ==
    [start_workers |-> "START", stop_workers |-> "STOP",
     restart_workers |-> "RESTART", extension |-> "RESTART",
     drop_database |-> "STOP", move_database |-> "RESTART"]

ASSUME LauncherAssumption ==
    /\ Template \subseteq Db
    /\ IsFiniteSet(Db) /\ IsFiniteSet(Worker) /\ IsFiniteSet(Job)
    /\ Commands \subseteq DOMAIN CommandMessage
    /\ QueueSize \in Nat \ {0}
    /\ MaxTxn \in Nat
    /\ MaxLaunches \in Nat
    /\ NoWorker \notin Worker
    /\ NoDb \notin Db

VARIABLES
    lpc,        \* where the launcher is in its main loop
    ltodo,      \* databases the current scan has yet to visit
    lcur,       \* the entry whose worker is being started or stopped
    lmsg,       \* the message being handled
    lvxid,      \* its sender's transaction, read when it was received
    launches,   \* launcher processes started so far
    state,      \* the hash table: SchedulerState, "absent" without an entry
    handle,     \* db_scheduler_handle
    vxid,       \* the transaction the next scheduler is to wait for
    queue,      \* messages in the ring buffer, oldest first
    reader_pid, \* TRUE: the launcher is the reader; FALSE: InvalidPid
    wphase,     \* life of a scheduler worker
    wdb,        \* bgw_main_arg
    wvxid,      \* bgw_extra
    wterm,      \* the worker was told to terminate
    reserved,   \* <<worker, job>>: counted job workers a scheduler holds
    bpc,        \* where a backend is in ts_bgw_message_send_and_wait
    bcmd,       \* the command it is executing
    lxid,       \* its current (or last) local transaction id
    bres,       \* what queue_add or the whole call has returned so far
    ack,        \* content of the backend's ack queue
    dbstate,    \* pg_database, as the launcher's scan sees it
    installed   \* databases whose committed state has the extension

lvars == <<lpc, ltodo, lcur, lmsg, lvxid, launches>>
tabvars == <<state, handle, vxid>>
mqvars == <<queue, reader_pid>>
wvars == <<wphase, wdb, wvxid, wterm, reserved>>
bvars == <<bpc, bcmd, lxid, bres, ack>>
dbvars == <<dbstate, installed>>
vars == <<total_workers, lvars, tabvars, mqvars, wvars, bvars, dbvars>>

NoMsg == [type |-> "NONE"]
NoVxid == <<>>
NoCmd == [cmd |-> "none"]

Message == [type : {"START", "STOP", "RESTART"}, sender : Backend, db : Db,
            ack_dsm_handle : Nat]
Vxid == (Backend \X Nat) \cup {NoVxid}
SchedulerState == {"ENABLED", "ALLOCATED", "STARTED", "DISABLED"}

\* VirtualXactLock returns at once unless that transaction is still running.
InTransaction(b) == bpc[b] \notin {"idle", "gone"}
VxidActive(v) == v # NoVxid /\ InTransaction(v[1]) /\ lxid[v[1]] = v[2]

\* Variant: a database that already has its slot is not visited again.
EntriesWithoutSlot == {d \in Db : state[d] \notin {"absent", "ALLOCATED"}}

Entries == {d \in Db : state[d] # "absent"}
Connectable == {d \in Db \ Template : dbstate[d] = "exists"}
Live(w) == wphase[w] # "stopped"
\* A slot can be registered again once its worker has stopped and no handle
\* refers to it (PostgreSQL tells generations of a slot apart).
FreeWorker(w) == ~Live(w) /\ \A d \in Db : handle[d] # w
Connected(d) == \E w \in Worker : /\ wdb[w] = d
                                  /\ wphase[w] \in {"waiting", "checking", "running", "exiting"}

-----------------------------------------------------------------------------
\* The queue and the hash table of a freshly initialised shared memory.
SharedMemoryInit ==
    /\ total_workers = 0
    /\ lpc = "down" /\ ltodo = {} /\ lcur = NoDb /\ lmsg = NoMsg
    /\ lvxid = NoVxid /\ launches = 0
    /\ state = [d \in Db |-> "absent"]
    /\ handle = [d \in Db |-> NoWorker]
    /\ vxid = [d \in Db |-> NoVxid]
    /\ queue = <<>> /\ reader_pid = FALSE
    /\ wphase = [w \in Worker |-> "stopped"]
    /\ wdb = [w \in Worker |-> NoDb]
    /\ wvxid = [w \in Worker |-> NoVxid]
    /\ wterm = [w \in Worker |-> FALSE]
    /\ reserved = {}
    /\ bpc = [b \in Backend |-> "idle"]
    /\ bcmd = [b \in Backend |-> NoCmd]
    /\ lxid = [b \in Backend |-> 0]
    /\ bres = [b \in Backend |-> FALSE]
    /\ ack = [b \in Backend |-> "none"]

Init ==
    /\ SharedMemoryInit
    /\ dbstate \in [Db -> {"none", "exists"}]
    /\ \A d \in Template : dbstate[d] = "exists"
    /\ installed \in SUBSET Connectable

\* The postmaster's answer to a crash: every process is killed and shared
\* memory is set up again; what was committed stays.
CrashRestart ==
    /\ total_workers' = 0
    /\ lpc' = "down" /\ ltodo' = {} /\ lcur' = NoDb /\ lmsg' = NoMsg
    /\ lvxid' = NoVxid /\ launches' = 0
    /\ state' = [d \in Db |-> "absent"]
    /\ handle' = [d \in Db |-> NoWorker]
    /\ vxid' = [d \in Db |-> NoVxid]
    /\ queue' = <<>> /\ reader_pid' = FALSE
    /\ wphase' = [w \in Worker |-> "stopped"]
    /\ wdb' = [w \in Worker |-> NoDb]
    /\ wvxid' = [w \in Worker |-> NoVxid]
    /\ wterm' = [w \in Worker |-> FALSE]
    /\ reserved' = {}
    /\ bpc' = [b \in Backend |-> "idle"]
    /\ bcmd' = [b \in Backend |-> NoCmd]
    /\ lxid' = [b \in Backend |-> 0]
    /\ bres' = [b \in Backend |-> FALSE]
    /\ ack' = [b \in Backend |-> "none"]
    /\ UNCHANGED dbvars

-----------------------------------------------------------------------------
\* The launcher process.

\* Variant: the schedulers are not told to terminate.
CleanupKeepsSchedulers ==
    /\ state' = [d \in Db |-> "absent"]
    /\ handle' = [d \in Db |-> NoWorker]
    /\ vxid' = [d \in Db |-> NoVxid]
    /\ reader_pid' = FALSE
    /\ lpc' = "down" /\ ltodo' = {} /\ lcur' = NoDb /\ lmsg' = NoMsg
    /\ lvxid' = NoVxid
    /\ UNCHANGED <<total_workers, launches, queue, wvars, bvars, dbvars>>

\* launcher_pre_shmem_cleanup and the end of the process: the schedulers are
\* told to terminate but neither waited for nor uncounted.
LauncherCleanup ==
    /\ wterm' = [w \in Worker |-> wterm[w] \/ \E d \in Db : handle[d] = w]
    /\ state' = [d \in Db |-> "absent"]
    /\ handle' = [d \in Db |-> NoWorker]
    /\ vxid' = [d \in Db |-> NoVxid]
    /\ reader_pid' = FALSE
    /\ lpc' = "down" /\ ltodo' = {} /\ lcur' = NoDb /\ lmsg' = NoMsg
    /\ lvxid' = NoVxid
    /\ UNCHANGED <<total_workers, launches, queue, wphase, wdb, wvxid, reserved,
                   bvars, dbvars>>

\* A SIGTERM, or an error anywhere: the exit status is not 0, so the
\* postmaster starts the launcher again.
LauncherDies ==
    /\ lpc \notin {"down", "exited"}
    /\ launches < MaxLaunches
    /\ LauncherCleanup

LauncherReinit ==
    /\ lpc = "down"
    /\ launches < MaxLaunches
    /\ ts_bgw_counter_reinit
    /\ launches' = launches + 1
    /\ lpc' = "count"
    /\ UNCHANGED <<ltodo, lcur, lmsg, lvxid, tabvars, mqvars, wvars, bvars, dbvars>>

\* Without room for itself the launcher exits with status 0, for good.
LauncherCount ==
    /\ lpc = "count"
    /\ \/ /\ ts_bgw_total_workers_increment
          /\ lpc' = "connect"
       \/ /\ ~CanIncrement
          /\ lpc' = "exited"
          /\ UNCHANGED total_workers
    /\ UNCHANGED <<ltodo, lcur, lmsg, lvxid, launches, tabvars, mqvars, wvars,
                   bvars, dbvars>>

LauncherSetReader ==
    /\ lpc = "connect"
    /\ reader_pid' = TRUE
    /\ lpc' = "scan"
    /\ ltodo' = Connectable
    /\ UNCHANGED <<total_workers, lcur, lmsg, lvxid, launches, tabvars, queue,
                   wvars, bvars, dbvars>>

\* Variant: the result of the reservation is ignored.
CreateEntryAllocated(d) ==
    /\ state[d] = "absent"
    /\ state' = [state EXCEPT ![d] = "ALLOCATED"]
    /\ total_workers' = IF CanIncrement THEN total_workers + 1 ELSE total_workers
    /\ UNCHANGED <<handle, vxid>>

\* db_hash_entry_create_if_not_exists for a database without an entry: it is
\* ENABLED and at once tries to become ALLOCATED.
CreateEntry(d) ==
    /\ state[d] = "absent"
    /\ \/ /\ ts_bgw_total_workers_increment
          /\ state' = [state EXCEPT ![d] = "ALLOCATED"]
       \/ /\ ~CanIncrement
          /\ state' = [state EXCEPT ![d] = "ENABLED"]
          /\ UNCHANGED total_workers
    /\ UNCHANGED <<handle, vxid>>

PopulateEntry(d) ==
    /\ lpc = "scan"
    /\ d \in ltodo
    /\ ltodo' = ltodo \ {d}
    /\ \/ CreateEntry(d)
       \/ state[d] # "absent" /\ UNCHANGED <<total_workers, tabvars>>
    /\ UNCHANGED <<lpc, lcur, lmsg, lvxid, launches, mqvars, wvars, bvars, dbvars>>

\* populate_database_htab returns and launcher_handle_message takes a message,
\* if there is one.  A message whose sender has gone is dropped.
LauncherReceive ==
    /\ lpc = "scan"
    /\ ltodo = {}
    /\ \/ /\ queue = <<>>
          /\ lpc' = "auto" /\ ltodo' = Entries
          /\ UNCHANGED <<queue, lmsg, lvxid>>
       \/ /\ queue # <<>>
          /\ queue' = Tail(queue)
          /\ LET m == Head(queue) IN
             \/ /\ bpc[m.sender] = "gone"
                /\ lpc' = "auto" /\ ltodo' = Entries
                /\ UNCHANGED <<lmsg, lvxid>>
             \/ /\ bpc[m.sender] # "gone"
                /\ lpc' = "handle" /\ ltodo' = {}
                /\ lmsg' = m
                /\ lvxid' = IF InTransaction(m.sender)
                            THEN <<m.sender, lxid[m.sender]>> ELSE NoVxid
    /\ UNCHANGED <<total_workers, lcur, launches, tabvars, reader_pid, wvars,
                   bvars, dbvars>>

\* An entry is done with: back to the loop, or on to the acknowledgement.
AfterEntry == IF lmsg = NoMsg THEN "auto" ELSE "ack"

\* Variant: only a missing handle counts as a stopped scheduler.
QuitWithoutHandle(d) == state[d] = "STARTED" /\ handle[d] = NoWorker

Quit(d) == state[d] = "STARTED" /\ ~Live(handle[d])

\* scheduler_state_trans_automatic on an entry whose state is st (a message
\* may just have changed it); todo is what is left of the scan.
Automatic(d, st, todo) ==
    /\ ltodo' = todo
    /\ \/ /\ st = "ENABLED" /\ ~CanIncrement
          /\ state' = [state EXCEPT ![d] = "ENABLED"]
          /\ lpc' = AfterEntry
          /\ UNCHANGED <<total_workers, handle, lcur>>
       \/ /\ st = "ENABLED" /\ ts_bgw_total_workers_increment
          /\ state' = [state EXCEPT ![d] = "ALLOCATED"]
          /\ lpc' = "register" /\ lcur' = d
          /\ UNCHANGED handle
       \/ /\ st = "ALLOCATED"
          /\ lpc' = "register" /\ lcur' = d
          /\ UNCHANGED <<total_workers, state, handle>>
       \/ /\ st = "STARTED" /\ Quit(d) /\ ts_bgw_total_workers_decrement
          /\ state' = [state EXCEPT ![d] = "DISABLED"]
          /\ handle' = [handle EXCEPT ![d] = NoWorker]
          /\ lpc' = AfterEntry
          /\ UNCHANGED lcur
       \/ /\ st = "DISABLED" \/ (st = "STARTED" /\ ~Quit(d))
          /\ lpc' = AfterEntry
          /\ UNCHANGED <<total_workers, state, handle, lcur>>


\* scheduler_state_trans_allocated_to_started, first half: the registration
\* fails when the postmaster has no slot left (other extensions use them too).
RegisterWorker ==
    /\ lpc = "register"
    /\ \E w \in Worker :
          /\ FreeWorker(w)
          /\ handle' = [handle EXCEPT ![lcur] = w]
          /\ wphase' = [wphase EXCEPT ![w] = "registered"]
          /\ wdb' = [wdb EXCEPT ![w] = lcur]
          /\ wvxid' = [wvxid EXCEPT ![w] = vxid[lcur]]
          /\ wterm' = [wterm EXCEPT ![w] = FALSE]
    /\ lpc' = "startup"
    /\ UNCHANGED <<total_workers, ltodo, lcur, lmsg, lvxid, launches, state, vxid,
                   mqvars, reserved, bvars, dbvars>>

RegisterFails ==
    /\ lpc = "register"
    /\ lpc' = AfterEntry
    /\ lcur' = NoDb
    /\ UNCHANGED <<total_workers, ltodo, lmsg, lvxid, launches, tabvars, mqvars,
                   wvars, bvars, dbvars>>

\* Variant: the launcher waits until the scheduler runs or has ended.
StartupWaitsForScheduler ==
    /\ lpc = "startup"
    /\ wphase[handle[lcur]] \in {"running", "stopped"}
    /\ vxid' = [vxid EXCEPT ![lcur] = NoVxid]
    /\ state' = [state EXCEPT ![lcur] = "STARTED"]
    /\ lpc' = AfterEntry
    /\ lcur' = NoDb
    /\ UNCHANGED <<total_workers, ltodo, lmsg, lvxid, launches, handle, mqvars,
                   wvars, bvars, dbvars>>

\* Second half: WaitForBackgroundWorkerStartup has returned.
WorkerStartupSeen ==
    /\ lpc = "startup"
    /\ wphase[handle[lcur]] # "registered"
    /\ vxid' = [vxid EXCEPT ![lcur] = NoVxid]
    /\ state' = [state EXCEPT ![lcur] = "STARTED"]
    /\ lpc' = AfterEntry
    /\ lcur' = NoDb
    /\ UNCHANGED <<total_workers, ltodo, lmsg, lvxid, launches, handle, mqvars,
                   wvars, bvars, dbvars>>

AutoEntry(d) ==
    /\ lpc = "auto"
    /\ d \in ltodo
    /\ Automatic(d, state[d], ltodo \ {d})
    /\ UNCHANGED <<lmsg, lvxid, launches, vxid, mqvars, wvars, bvars, dbvars>>

AutoDone ==
    /\ lpc = "auto"
    /\ ltodo = {}
    /\ lpc' = "scan"
    /\ ltodo' = Connectable
    /\ UNCHANGED <<total_workers, lcur, lmsg, lvxid, launches, tabvars, mqvars,
                   wvars, bvars, dbvars>>

\* Every message first makes sure that its database has an entry.
MessageCreateEntry ==
    /\ lpc = "handle"
    /\ CreateEntry(lmsg.db)
    /\ UNCHANGED <<lvars, mqvars, wvars, bvars, dbvars>>

MessageStart ==
    /\ lpc = "handle" /\ lmsg.type = "START"
    /\ state[lmsg.db] # "absent"
    /\ LET d == lmsg.db IN
       Automatic(d, IF state[d] = "DISABLED" THEN "ENABLED" ELSE state[d], {})
    /\ UNCHANGED <<lmsg, lvxid, launches, vxid, mqvars, wvars, bvars, dbvars>>

\* terminate_background_worker, then wait_for_background_worker_shutdown.
TerminateAndWait(d) ==
    /\ wterm' = [wterm EXCEPT ![handle[d]] = TRUE]
    /\ lpc' = "shutdown"
    /\ lcur' = d
    /\ UNCHANGED <<total_workers, ltodo, lmsg, lvxid, launches, state, handle, mqvars,
                   wphase, wdb, wvxid, reserved, bvars, dbvars>>

\* Variant: stopping an ALLOCATED database does not release its worker.
MessageStopKeepsWorker ==
    /\ lpc = "handle" /\ lmsg.type = "STOP"
    /\ LET d == lmsg.db IN
       \/ /\ state[d] = "STARTED"
          /\ TerminateAndWait(d)
          /\ UNCHANGED vxid
       \/ /\ state[d] \in {"ENABLED", "ALLOCATED", "DISABLED"}
          /\ state' = [state EXCEPT ![d] = "DISABLED"]
          /\ lpc' = "ack"
          /\ UNCHANGED <<total_workers, ltodo, lcur, lmsg, lvxid, launches, handle, vxid,
                         mqvars, wvars, bvars, dbvars>>

MessageStop ==
    /\ lpc = "handle" /\ lmsg.type = "STOP"
    /\ LET d == lmsg.db IN
       \/ /\ state[d] = "STARTED"
          /\ TerminateAndWait(d)
          /\ UNCHANGED vxid
       \/ /\ \/ state[d] \in {"ENABLED", "DISABLED"} /\ UNCHANGED total_workers
             \/ state[d] = "ALLOCATED" /\ ts_bgw_total_workers_decrement
          /\ state' = [state EXCEPT ![d] = "DISABLED"]
          /\ lpc' = "ack"
          /\ UNCHANGED <<ltodo, lcur, lmsg, lvxid, launches, handle, vxid, mqvars,
                         wvars, bvars, dbvars>>

MessageRestart ==
    /\ lpc = "handle" /\ lmsg.type = "RESTART"
    /\ LET d == lmsg.db IN
       /\ vxid' = [vxid EXCEPT ![d] = lvxid]
       /\ \/ state[d] = "STARTED" /\ TerminateAndWait(d)
          \/ /\ state[d] \in {"ENABLED", "ALLOCATED", "DISABLED"}
             /\ Automatic(d, IF state[d] = "DISABLED" THEN "ENABLED" ELSE state[d], {})
             /\ UNCHANGED <<lmsg, lvxid, launches, mqvars, wvars, bvars, dbvars>>

\* Variants of the step after TerminateBackgroundWorker: the shutdown is not
\* waited for; a restart uncounts the worker; a restart is a stop and a start.
ShutdownNotAwaited ==
    /\ lpc = "shutdown"
    /\ handle' = [handle EXCEPT ![lcur] = NoWorker]
    /\ lmsg.type = "STOP"
    /\ ts_bgw_total_workers_decrement
    /\ state' = [state EXCEPT ![lcur] = "DISABLED"]
    /\ lpc' = "ack" /\ lcur' = NoDb
    /\ UNCHANGED <<ltodo, lmsg, lvxid, launches, vxid, mqvars, wvars, bvars, dbvars>>

RestartUncounts ==
    /\ lpc = "shutdown"
    /\ ~Live(handle[lcur])
    /\ handle' = [handle EXCEPT ![lcur] = NoWorker]
    /\ ts_bgw_total_workers_decrement
    /\ state' = [state EXCEPT ![lcur] = "ALLOCATED"]
    /\ lpc' = "register"
    /\ UNCHANGED <<ltodo, lcur, lmsg, lvxid, launches, vxid, mqvars, wvars, bvars, dbvars>>

RestartReleasesSlot ==
    /\ lpc = "shutdown"
    /\ ~Live(handle[lcur])
    /\ handle' = [handle EXCEPT ![lcur] = NoWorker]
    /\ ts_bgw_total_workers_decrement
    /\ state' = [state EXCEPT ![lcur] = IF lmsg.type = "STOP" THEN "DISABLED" ELSE "ENABLED"]
    /\ lpc' = "ack" /\ lcur' = NoDb
    /\ UNCHANGED <<ltodo, lmsg, lvxid, launches, vxid, mqvars, wvars, bvars, dbvars>>

\* The shutdown has been seen: STOP releases the slot, RESTART keeps it and
\* goes on to scheduler_state_trans_automatic.
WorkerShutdownSeen ==
    /\ lpc = "shutdown"
    /\ ~Live(handle[lcur])
    /\ handle' = [handle EXCEPT ![lcur] = NoWorker]
    /\ \/ /\ lmsg.type = "STOP"
          /\ ts_bgw_total_workers_decrement
          /\ state' = [state EXCEPT ![lcur] = "DISABLED"]
          /\ lpc' = "ack" /\ lcur' = NoDb
       \/ /\ lmsg.type = "RESTART"
          /\ state' = [state EXCEPT ![lcur] = "ALLOCATED"]
          /\ lpc' = "register"
          /\ UNCHANGED <<total_workers, lcur>>
    /\ UNCHANGED <<ltodo, lmsg, lvxid, launches, vxid, mqvars, wvars, bvars, dbvars>>

\* A release of the launcher's own that meets a counter of 1 is FATAL.
LauncherDecrementFails ==
    /\ ~CanDecrement
    /\ \/ lpc = "auto" /\ \E d \in ltodo : Quit(d)
       \/ lpc = "handle" /\ lmsg.type = "START" /\ Quit(lmsg.db)
       \/ lpc = "handle" /\ lmsg.type = "STOP" /\ state[lmsg.db] = "ALLOCATED"
       \/ lpc = "shutdown" /\ lmsg.type = "STOP" /\ ~Live(handle[lcur])
    /\ LauncherCleanup

\* The segment named by a message lives as long as its sender's call.
AckSegmentExists(m) ==
    /\ bpc[m.sender] \in {"added", "latch", "attach"}
    /\ lxid[m.sender] = m.ack_dsm_handle

AckResult(m) ==
    IF state[m.db] = (IF m.type = "STOP" THEN "DISABLED" ELSE "STARTED")
    THEN "success" ELSE "failure"

\* ts_bgw_message_send_ack: with no segment nothing is sent, and a receiver
\* that does not read in time never gets the value.
SendAck ==
    /\ lpc = "ack"
    /\ \/ /\ AckSegmentExists(lmsg)
          /\ \E a \in {AckResult(lmsg), "lost"} : ack' = [ack EXCEPT ![lmsg.sender] = a]
       \/ ~AckSegmentExists(lmsg) /\ UNCHANGED ack
    /\ lmsg' = NoMsg /\ lvxid' = NoVxid
    /\ lpc' = "auto" /\ ltodo' = Entries
    /\ UNCHANGED <<total_workers, lcur, launches, tabvars, mqvars, wvars, bpc, bcmd,
                   lxid, bres, dbvars>>

Launcher ==
    \/ LauncherReinit \/ LauncherCount \/ LauncherSetReader
    \/ \E d \in Db : PopulateEntry(d)
    \/ LauncherReceive
    \/ MessageCreateEntry \/ MessageStart \/ MessageStop \/ MessageRestart
    \/ RegisterWorker \/ RegisterFails \/ WorkerStartupSeen \/ WorkerShutdownSeen
    \/ SendAck
    \/ \E d \in Db : AutoEntry(d)
    \/ AutoDone
    \/ LauncherDecrementFails

-----------------------------------------------------------------------------
\* A scheduler worker, from the postmaster's fork to the end of the process.

\* A worker told to terminate before it was forked is never started.
WorkerForked(w) ==
    /\ wphase[w] = "registered"
    /\ wphase' = [wphase EXCEPT ![w] = IF wterm[w] THEN "stopped" ELSE "started"]
    /\ UNCHANGED <<total_workers, lvars, tabvars, mqvars, wdb, wvxid, wterm, reserved,
                   bvars, dbvars>>

\* BackgroundWorkerInitializeConnectionByOid fails for a dropped database.
WorkerConnects(w) ==
    /\ wphase[w] = "started"
    /\ wphase' = [wphase EXCEPT ![w] = IF dbstate[wdb[w]] = "exists"
                                       THEN "waiting" ELSE "stopped"]
    /\ UNCHANGED <<total_workers, lvars, tabvars, mqvars, wdb, wvxid, wterm, reserved,
                   bvars, dbvars>>

\* VirtualXactLock has returned; a new transaction is started.
WorkerWaited(w) ==
    /\ wphase[w] = "waiting"
    /\ ~VxidActive(wvxid[w])
    /\ wphase' = [wphase EXCEPT ![w] = "checking"]
    /\ UNCHANGED <<total_workers, lvars, tabvars, mqvars, wdb, wvxid, wterm, reserved,
                   bvars, dbvars>>

\* database_is_template_check and ts_loader_extension_exists: the worker
\* becomes the scheduler of the installed version, or ends.
WorkerChecks(w) ==
    /\ wphase[w] = "checking"
    /\ wphase' = [wphase EXCEPT ![w] =
                     IF wdb[w] \in installed \ Template THEN "running" ELSE "stopped"]
    /\ UNCHANGED <<total_workers, lvars, tabvars, mqvars, wdb, wvxid, wterm, reserved,
                   bvars, dbvars>>

\* The scheduler counts a worker for a job it is about to start ...
WorkerReserves(w, j) ==
    /\ wphase[w] = "running"
    /\ <<w, j>> \notin reserved
    /\ ts_bgw_total_workers_increment
    /\ reserved' = reserved \cup {<<w, j>>}
    /\ UNCHANGED <<lvars, tabvars, mqvars, wphase, wdb, wvxid, wterm, bvars, dbvars>>

\* ... and uncounts it when the job has stopped, or on its own way out.
WorkerReleases(w, j) ==
    /\ wphase[w] \in {"running", "exiting"}
    /\ <<w, j>> \in reserved
    /\ ts_bgw_total_workers_decrement
    /\ reserved' = reserved \ {<<w, j>>}
    /\ UNCHANGED <<lvars, tabvars, mqvars, wphase, wdb, wvxid, wterm, bvars, dbvars>>

\* A release that meets a counter of 1 is FATAL: a running scheduler starts to
\* exit; during the exit the callback is abandoned with what it still holds.
WorkerReleaseFails(w, j) ==
    /\ <<w, j>> \in reserved
    /\ ~CanDecrement
    /\ \/ /\ wphase[w] = "running"
          /\ wphase' = [wphase EXCEPT ![w] = "exiting"]
          /\ UNCHANGED reserved
       \/ /\ wphase[w] = "exiting"
          /\ wphase' = [wphase EXCEPT ![w] = "stopped"]
          /\ reserved' = {r \in reserved : r[1] # w}
    /\ UNCHANGED <<total_workers, lvars, tabvars, mqvars, wdb, wvxid, wterm, bvars, dbvars>>

\* SIGTERM, or an error: the worker leaves through its exit callbacks.
WorkerExits(w) ==
    /\ wphase[w] \in {"started", "waiting", "checking", "running"}
    /\ wphase' = [wphase EXCEPT ![w] = "exiting"]
    /\ UNCHANGED <<total_workers, lvars, tabvars, mqvars, wdb, wvxid, wterm, reserved,
                   bvars, dbvars>>

WorkerStops(w) ==
    /\ wphase[w] = "exiting"
    /\ \A j \in Job : <<w, j>> \notin reserved
    /\ wphase' = [wphase EXCEPT ![w] = "stopped"]
    /\ UNCHANGED <<total_workers, lvars, tabvars, mqvars, wdb, wvxid, wterm, reserved,
                   bvars, dbvars>>

Scheduler(w) ==
    \/ WorkerForked(w) \/ WorkerConnects(w) \/ WorkerWaited(w) \/ WorkerChecks(w)
    \/ WorkerExits(w) \/ WorkerStops(w)
    \/ \E j \in Job : WorkerReserves(w, j) \/ WorkerReleases(w, j) \/ WorkerReleaseFails(w, j)

-----------------------------------------------------------------------------
\* A backend: a transaction that executes one command, which sends a message.

BeginCommand(b, c, d) ==
    /\ bpc[b] = "idle"
    /\ lxid[b] < MaxTxn
    /\ dbstate[d] = "exists"
    /\ bpc' = [bpc EXCEPT ![b] = "call"]
    /\ bcmd' = [bcmd EXCEPT ![b] = [cmd |-> c, db |-> d]]
    /\ lxid' = [lxid EXCEPT ![b] = @ + 1]
    /\ bres' = [bres EXCEPT ![b] = FALSE]
    /\ ack' = [ack EXCEPT ![b] = "none"]
    /\ UNCHANGED <<total_workers, lvars, tabvars, mqvars, wvars, dbvars>>

\* queue_add, the part under the lock; bres: was the message added?
QueueAdd(b) ==
    /\ bpc[b] = "call"
    /\ bpc' = [bpc EXCEPT ![b] = "added"]
    /\ \/ /\ Len(queue) < QueueSize
          /\ queue' = Append(queue, [type |-> CommandMessage[bcmd[b].cmd], sender |-> b,
                                     db |-> bcmd[b].db, ack_dsm_handle |-> lxid[b]])
          /\ bres' = [bres EXCEPT ![b] = TRUE]
       \/ Len(queue) >= QueueSize /\ UNCHANGED <<queue, bres>>
    /\ UNCHANGED <<total_workers, lvars, tabvars, reader_pid, wvars, bcmd, lxid, ack, dbvars>>

\* Its first look at the reader, after the unlock.  Without a reader the call
\* returns false although the message stays in the queue.
QueueCheckReader(b) ==
    /\ bpc[b] = "added"
    /\ bpc' = [bpc EXCEPT ![b] = IF reader_pid THEN "latch" ELSE "done"]
    /\ bres' = [bres EXCEPT ![b] = @ /\ reader_pid]
    /\ UNCHANGED <<total_workers, lvars, tabvars, mqvars, wvars, bcmd, lxid, ack, dbvars>>

\* Its second look, for the reader's latch.
QueueSetLatch(b) ==
    /\ bpc[b] = "latch"
    /\ reader_pid
    /\ bpc' = [bpc EXCEPT ![b] = IF bres[b] THEN "attach" ELSE "done"]
    /\ UNCHANGED <<total_workers, lvars, tabvars, mqvars, wvars, bcmd, lxid, bres, ack, dbvars>>

\* A reader that went away between the two looks leaves a null PGPROC to
\* dereference.
QueueSetLatchCrash(b) ==
    /\ bpc[b] = "latch"
    /\ ~reader_pid
    /\ CrashRestart

\* ts_shm_mq_wait_for_attach and the receive loop of
\* enqueue_message_wait_for_ack: the ack queue has a value or is detached, the
\* reader is gone, or the waits are used up.
AckReceived(b) ==
    /\ bpc[b] = "attach"
    /\ ack[b] # "none"
    /\ bpc' = [bpc EXCEPT ![b] = "done"]
    /\ bres' = [bres EXCEPT ![b] = (ack[b] = "success")]
    /\ UNCHANGED <<total_workers, lvars, tabvars, mqvars, wvars, bcmd, lxid, ack, dbvars>>

AckReaderGone(b) ==
    /\ bpc[b] = "attach"
    /\ ack[b] = "none" /\ ~reader_pid
    /\ bpc' = [bpc EXCEPT ![b] = "done"]
    /\ bres' = [bres EXCEPT ![b] = FALSE]
    /\ UNCHANGED <<total_workers, lvars, tabvars, mqvars, wvars, bcmd, lxid, ack, dbvars>>

AckTimeout(b) ==
    /\ bpc[b] = "attach"
    /\ bpc' = [bpc EXCEPT ![b] = "done"]
    /\ bres' = [bres EXCEPT ![b] = FALSE]
    /\ UNCHANGED <<total_workers, lvars, tabvars, mqvars, wvars, bcmd, lxid, ack, dbvars>>

\* Commands a backend issues for the database it is itself connected to.
OwnDatabase == {"start_workers", "stop_workers", "restart_workers", "extension"}

\* The rest of the statement and its commit.  Dropping or moving a database
\* fails while anything is connected to it.
CommitEffect(c) ==
    \/ /\ c.cmd = "extension"
       /\ installed' = (installed \ {c.db}) \cup ({c.db} \ installed)
       /\ UNCHANGED dbstate
    \/ /\ c.cmd = "drop_database"
       /\ ~Connected(c.db)
       /\ \A b \in Backend : InTransaction(b) /\ bcmd[b].cmd \in OwnDatabase => bcmd[b].db # c.db
       /\ dbstate' = [dbstate EXCEPT ![c.db] = "dropped"]
       /\ installed' = installed \ {c.db}
    \/ /\ c.cmd = "move_database" => ~Connected(c.db)
       /\ c.cmd \notin {"extension", "drop_database"}
       /\ UNCHANGED dbvars

Commit(b) ==
    /\ bpc[b] = "done"
    /\ CommitEffect(bcmd[b])
    /\ bpc' = [bpc EXCEPT ![b] = "idle"]
    /\ UNCHANGED <<total_workers, lvars, tabvars, mqvars, wvars, bcmd, lxid, bres, ack>>

\* An error after the message, or a cancel while waiting.
Abort(b) ==
    /\ bpc[b] \in {"attach", "done"}
    /\ bpc' = [bpc EXCEPT ![b] = "idle"]
    /\ UNCHANGED <<total_workers, lvars, tabvars, mqvars, wvars, bcmd, lxid, bres, ack, dbvars>>

BackendExits(b) ==
    /\ bpc[b] = "idle"
    /\ bpc' = [bpc EXCEPT ![b] = "gone"]
    /\ UNCHANGED <<total_workers, lvars, tabvars, mqvars, wvars, bcmd, lxid, bres, ack, dbvars>>

CreateDatabase(d) ==
    /\ dbstate[d] = "none"
    /\ dbstate' = [dbstate EXCEPT ![d] = "exists"]
    /\ UNCHANGED <<total_workers, lvars, tabvars, mqvars, wvars, bvars, installed>>

Send(b) ==
    \/ QueueAdd(b) \/ QueueCheckReader(b) \/ QueueSetLatch(b) \/ QueueSetLatchCrash(b)
    \/ AckReceived(b) \/ AckReaderGone(b)

Client(b) ==
    \/ \E c \in Commands, d \in Db : BeginCommand(b, c, d)
    \/ Send(b) \/ AckTimeout(b)
    \/ Commit(b) \/ Abort(b) \/ BackendExits(b)

Next ==
    \/ Launcher
    \/ LauncherDies
    \/ \E w \in Worker : Scheduler(w)
    \/ \E b \in Backend : Client(b)
    \/ \E d \in Db : CreateDatabase(d)

Spec == Init /\ [][Next]_vars

(***************************************************************************)
(* Fairness.  The launcher and every started worker are processes the      *)
(* operating system keeps scheduling; a registration that keeps being      *)
(* tried succeeds in the end; a worker told to terminate reaches an        *)
(* interrupt check.  Nothing is assumed of the sender's timeouts, of       *)
(* commits and of crashes.                                                 *)
(***************************************************************************)
WorkerProgress(w) ==
    \/ WorkerForked(w) \/ WorkerConnects(w) \/ WorkerWaited(w) \/ WorkerChecks(w)
    \/ wterm[w] /\ WorkerExits(w)
    \/ WorkerStops(w)
    \/ /\ wphase[w] = "exiting"
       /\ \E j \in Job : WorkerReleases(w, j) \/ WorkerReleaseFails(w, j)

FairSpec ==
    /\ Spec
    /\ WF_vars(Launcher) /\ SF_vars(RegisterWorker)
    /\ \A w \in Worker : WF_vars(WorkerProgress(w)) /\ SF_vars(wterm[w] /\ WorkerExits(w))
    /\ \A b \in Backend : WF_vars(Send(b))

-----------------------------------------------------------------------------
LauncherPc == {"down", "exited", "count", "connect", "scan", "handle", "register",
               "startup", "shutdown", "ack", "auto"}
WorkerPhase == {"registered", "started", "waiting", "checking", "running", "exiting",
                "stopped"}
BackendPc == {"idle", "call", "added", "latch", "attach", "done", "gone"}

LauncherTypes ==
    /\ lpc \in LauncherPc
    /\ ltodo \subseteq Db
    /\ lcur \in Db \cup {NoDb}
    /\ lmsg \in Message \cup {NoMsg}
    /\ lvxid \in Vxid
    /\ launches \in 0..MaxLaunches

TableTypes ==
    /\ total_workers \in 0..MaxWorkers
    /\ state \in [Db -> SchedulerState \cup {"absent"}]
    /\ handle \in [Db -> Worker \cup {NoWorker}]
    /\ vxid \in [Db -> Vxid]

QueueTypes ==
    /\ queue \in Seq(Message) /\ Len(queue) <= QueueSize
    /\ reader_pid \in BOOLEAN

WorkerTypes ==
    /\ wphase \in [Worker -> WorkerPhase]
    /\ wdb \in [Worker -> Db \cup {NoDb}]
    /\ wvxid \in [Worker -> Vxid]
    /\ wterm \in [Worker -> BOOLEAN]
    /\ reserved \subseteq Worker \X Job

BackendTypes ==
    /\ bpc \in [Backend -> BackendPc]
    /\ bcmd \in [Backend -> [cmd : Commands, db : Db] \cup {NoCmd}]
    /\ lxid \in [Backend -> 0..MaxTxn]
    /\ bres \in [Backend -> BOOLEAN]
    /\ ack \in [Backend -> {"none", "success", "failure", "lost"}]
    /\ dbstate \in [Db -> {"none", "exists", "dropped"}]
    /\ installed \subseteq Db

\* The counter stays within 0 .. MaxWorkers and the queue within its capacity;
\* the rest says what each variable ranges over.
TypeOK == LauncherTypes /\ TableTypes /\ QueueTypes /\ WorkerTypes /\ BackendTypes

\* Where the launcher and the backends are decides what their variables hold.
LauncherControl ==
    /\ lpc \in {"register", "startup", "shutdown"} => lcur \in Db
    /\ lpc \in {"register", "startup"} => state[lcur] = "ALLOCATED"
    /\ lpc = "shutdown" => state[lcur] = "STARTED"
    /\ lpc \in {"handle", "shutdown", "ack"} => lmsg \in Message
BackendControl ==
    \A b \in Backend : InTransaction(b) => bcmd[b] \in [cmd : Commands, db : Db]
ControlInv == LauncherControl /\ BackendControl

\* Who holds a worker: the launcher once it has counted itself, the databases
\* whose scheduler has a slot, and the jobs the schedulers reserved one for.
Counted == lpc \notin {"down", "count", "exited"}
SlotDbs == {d \in Db : state[d] \in {"ALLOCATED", "STARTED"}}
Held == (IF Counted THEN {<<"launcher">>} ELSE {})
            \cup {<<"db", d>> : d \in SlotDbs}
            \cup {<<"job", r[1], r[2]>> : r \in reserved}

\* README.md, "to be sure we are not using more `worker_processes` than we
\* should": whatever reserves and releases interleave, the launcher, the
\* schedulers and their jobs together stay within max_background_workers.
WithinLimit == Counted => Cardinality(Held) <= MaxWorkers

\* The counter says what is in use: every path by which the launcher or a
\* scheduler comes by a worker or loses one, failures included, counts it once.
CounterExact == Counted => total_workers = Cardinality(Held)

Pool == INSTANCE WorkerPool WITH
    Limit <- MaxWorkers, held <- Held, LauncherOwner <- <<"launcher">>,
    Owner <- {<<"launcher">>} \cup {<<"db", d>> : d \in Db}
                \cup {<<"job", w, j>> : w \in Worker, j \in Job}

\* Launcher, schedulers and counter together implement the pool: each of
\* their steps takes one worker that is left, gives one back, or neither.
PoolSpec == Pool!Spec

\* What makes CounterExact inductive while one launcher lives: before it has
\* counted itself nobody holds a worker and no scheduler runs, it is never
\* launched twice, and no sender is about to wake a reader that has gone.
CountInv ==
    /\ total_workers = Cardinality(Held)
    /\ ~Counted => Held = {} /\ \A w \in Worker : wphase[w] = "stopped"
    /\ lpc # "down" => launches = MaxLaunches
    /\ \A b \in Backend : bpc[b] = "latch" => reader_pid

\* Two schedulers for one database never both go on: a second one exists only
\* while the first has already been told to terminate.
OneSchedulerPerDb ==
    \A w1, w2 \in Worker :
        Live(w1) /\ Live(w2) /\ ~wterm[w1] /\ ~wterm[w2] /\ wdb[w1] = wdb[w2] => w1 = w2

\* README.md on DROP DATABASE: when the launcher acknowledges a STOP, no
\* scheduler process of that database is left that could hold a connection.
StopMeansDisconnected ==
    lpc = "ack" /\ lmsg.type = "STOP" /\ AckResult(lmsg) = "success"
        => \A w \in Worker : wdb[w] = lmsg.db => ~Live(w)

\* message_restart_action: a database that has a slot keeps it all through a
\* restart, so that no job of another database can steal it.
RestartKeepsSlot ==
    [][\A d \in SlotDbs : lmsg.type = "RESTART" /\ lmsg.db = d /\ lpc' # "down"
            => d \in SlotDbs']_vars


\* ts_bgw_message_send_and_wait returns without the help of its timeouts: the
\* sender waiting for the ack inside its transaction, the launcher waiting for
\* a worker to start or to stop, and the worker waiting for the sender's
\* transaction never wait for each other in a circle.
SendReturns ==
    \A b \in Backend : bpc[b] \in {"call", "added", "latch", "attach"}
                          ~> bpc[b] \in {"done", "idle"}

\* The automatic transitions: a database the launcher knows is neither left
\* ENABLED nor ALLOCATED for ever when there is room for every scheduler.
EntriesSettle ==
    \A d \in Db : state[d] \in {"ENABLED", "ALLOCATED"} ~> state[d] \in {"STARTED", "DISABLED"}

\* A dropped database gives its slot back, also when the STOP sent before the
\* drop was lost.
DroppedDbReleased ==
    \A d \in Db : dbstate[d] = "dropped" ~> d \notin SlotDbs
=============================================================================
