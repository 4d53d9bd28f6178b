----------------------- MODULE BgwLauncherCountProofs -----------------------
(***************************************************************************)
(* The worker counter, while one launcher process lives: it always says    *)
(* what is in use, the limit holds, and launcher and schedulers implement  *)
(* the abstract pool.  Each step of the system leaves the holders of       *)
(* workers alone, adds one and counts it, or removes one and uncounts it.  *)
(***************************************************************************)
EXTENDS BgwLauncherProofs

PoolOwner == {<<"launcher">>} \cup {<<"db", d>> : d \in Db}
                \cup {<<"job", w, j>> : w \in Worker, j \in Job}

Keep == UNCHANGED <<Held, total_workers>>
Take == \E o \in PoolOwner : /\ o \notin Held
                             /\ o = <<"launcher">> \/ <<"launcher">> \in Held
                             /\ Held' = Held \cup {o}
                             /\ ts_bgw_total_workers_increment
Drop == \E o \in PoolOwner \ {<<"launcher">>} : /\ o \in Held
                                                /\ Held' = Held \ {o}
                                                /\ ts_bgw_total_workers_decrement
PoolStep == Keep \/ Take \/ Drop

CInv == CountInv /\ IsFiniteSet(Held)

LEMMA TwoElements ==
    ASSUME NEW S, IsFiniteSet(S), NEW a \in S, NEW b \in S, a # b
    PROVE  Cardinality(S) >= 2
<1>1. /\ IsFiniteSet(S \ {a})
      /\ Cardinality(S \ {a}) = Cardinality(S) - 1
    BY FS_RemoveElement
<1>2. Cardinality(S \ {a}) # 0
    BY <1>1, FS_EmptySet
<1>3. Cardinality(S) \in Nat /\ Cardinality(S \ {a}) \in Nat
    BY <1>1, FS_CardinalityType
<1> QED
    BY <1>1, <1>2, <1>3

\* A held slot or job keeps the decrement from ever reaching the launcher's one.
LEMMA HolderCounts ==
    ASSUME CInv, NEW o \in Held, o # <<"launcher">>
    PROVE  CanDecrement /\ Counted
<1>1. Counted
    BY DEF CInv, CountInv
<1>2. <<"launcher">> \in Held
    BY <1>1 DEF Held
<1>3. Cardinality(Held) >= 2 /\ Cardinality(Held) \in Nat
    BY <1>2, TwoElements, FS_CardinalityType DEF CInv
<1> QED
    BY <1>1, <1>3 DEF CInv, CountInv, CanDecrement

\* How the holders change when slots or reservations do.
LEMMA HeldKeeps ==
    ASSUME Counted' <=> Counted, SlotDbs' = SlotDbs, reserved' = reserved
    PROVE  Held' = Held
    BY DEF Held

LEMMA SlotTaken ==
    ASSUME Counted, Counted', NEW d \in Db, state[d] \notin {"ALLOCATED", "STARTED"},
           SlotDbs' = SlotDbs \cup {d}, reserved' = reserved,
           ts_bgw_total_workers_increment
    PROVE  Take
<1>1. <<"db", d>> \in PoolOwner
    BY DEF PoolOwner
<1>2. <<"db", d>> \notin Held
    BY DEF Held, SlotDbs
<1>3. <<"launcher">> \in Held
    BY DEF Held
<1>4. Held' = Held \cup {<<"db", d>>}
    BY DEF Held
<1> QED
    BY <1>1, <1>2, <1>3, <1>4 DEF Take

LEMMA SlotDropped ==
    ASSUME Counted, Counted', NEW d \in Db, state[d] \in {"ALLOCATED", "STARTED"},
           SlotDbs' = SlotDbs \ {d}, reserved' = reserved,
           ts_bgw_total_workers_decrement
    PROVE  Drop
<1>1. <<"db", d>> \in PoolOwner \ {<<"launcher">>}
    BY DEF PoolOwner
<1>2. <<"db", d>> \in Held
    BY DEF Held, SlotDbs
<1>4. Held' = Held \ {<<"db", d>>}
    BY DEF Held
<1> QED
    BY <1>1, <1>2, <1>4 DEF Drop

LEMMA JobTaken ==
    ASSUME TypeOK, NEW w \in Worker, NEW j \in Job, Counted, WorkerReserves(w, j)
    PROVE  Take
<1>1. <<"job", w, j>> \in PoolOwner
    BY DEF PoolOwner
<1>2. <<"job", w, j>> \notin Held
    BY DEF Held, WorkerReserves, TypeOK, WorkerTypes
<1>3. <<"launcher">> \in Held
    BY DEF Held
<1>4. Held' = Held \cup {<<"job", w, j>>}
    BY DEF Held, WorkerReserves, Counted, SlotDbs, lvars, tabvars
<1> QED
    BY <1>1, <1>2, <1>3, <1>4 DEF Take, WorkerReserves

LEMMA JobDropped ==
    ASSUME TypeOK, NEW w \in Worker, NEW j \in Job, WorkerReleases(w, j)
    PROVE  Drop
<1>1. <<"job", w, j>> \in PoolOwner \ {<<"launcher">>}
    BY DEF PoolOwner
<1>2. <<"job", w, j>> \in Held
    BY DEF Held, WorkerReleases
<1>4. Held' = Held \ {<<"job", w, j>>}
  <2>1. \A r \in reserved : <<"job", r[1], r[2]>> = <<"job", w, j>> <=> r = <<w, j>>
    BY DEF TypeOK, WorkerTypes
  <2>2. {<<"job", r[1], r[2]>> : r \in reserved \ {<<w, j>>}}
            = {<<"job", r[1], r[2]>> : r \in reserved} \ {<<"job", w, j>>}
    BY <2>1
  <2> QED
    BY <2>2 DEF Held, WorkerReleases, Counted, SlotDbs, lvars, tabvars
<1> QED
    BY <1>1, <1>2, <1>4 DEF Drop, WorkerReleases

\* Writing an entry's state gives or takes the slot of that database only.
LEMMA EntryWritten ==
    ASSUME TypeOK, NEW d \in Db, NEW s, state' = [state EXCEPT ![d] = s]
    PROVE  /\ s \in {"ALLOCATED", "STARTED"} => SlotDbs' = SlotDbs \cup {d}
           /\ s \notin {"ALLOCATED", "STARTED"} => SlotDbs' = SlotDbs \ {d}
<1>1. state \in [Db -> SchedulerState \cup {"absent"}]
    BY DEF TypeOK, TableTypes
<1>2. state'[d] = s /\ \A e \in Db \ {d} : state'[e] = state[e]
    BY <1>1
<1> QED
    BY <1>2 DEF SlotDbs

\* What a transition of one entry does to its slot and to the counter.
Slotted(d) == state[d] \in {"ALLOCATED", "STARTED"}
EntryMove ==
    \/ UNCHANGED <<state, total_workers>>
    \/ \E d \in Db :
       \/ /\ ~Slotted(d) /\ UNCHANGED total_workers
          /\ \E s \in {"ENABLED", "DISABLED"} : state' = [state EXCEPT ![d] = s]
       \/ /\ Slotted(d) /\ UNCHANGED total_workers
          /\ \E s \in {"ALLOCATED", "STARTED"} : state' = [state EXCEPT ![d] = s]
       \/ /\ ~Slotted(d) /\ ts_bgw_total_workers_increment
          /\ state' = [state EXCEPT ![d] = "ALLOCATED"]
       \/ /\ Slotted(d) /\ ts_bgw_total_workers_decrement
          /\ state' = [state EXCEPT ![d] = "DISABLED"]

LEMMA EntryMoves ==
    ASSUME TypeOK, Counted, Counted', EntryMove, reserved' = reserved
    PROVE  PoolStep
<1>1. CASE UNCHANGED <<state, total_workers>>
    BY <1>1, HeldKeeps DEF PoolStep, Keep, SlotDbs
<1>2. ASSUME NEW d \in Db,
             /\ ~Slotted(d) /\ UNCHANGED total_workers
             /\ \E s \in {"ENABLED", "DISABLED"} : state' = [state EXCEPT ![d] = s]
      PROVE  PoolStep
  <2>1. SlotDbs' = SlotDbs
    BY <1>2, EntryWritten DEF SlotDbs, Slotted
  <2> QED
    BY <1>2, <2>1, HeldKeeps DEF PoolStep, Keep
<1>3. ASSUME NEW d \in Db,
             /\ Slotted(d) /\ UNCHANGED total_workers
             /\ \E s \in {"ALLOCATED", "STARTED"} : state' = [state EXCEPT ![d] = s]
      PROVE  PoolStep
  <2>1. SlotDbs' = SlotDbs
    BY <1>3, EntryWritten DEF SlotDbs, Slotted
  <2> QED
    BY <1>3, <2>1, HeldKeeps DEF PoolStep, Keep
<1>4. ASSUME NEW d \in Db,
             /\ ~Slotted(d) /\ ts_bgw_total_workers_increment
             /\ state' = [state EXCEPT ![d] = "ALLOCATED"]
      PROVE  PoolStep
    BY <1>4, EntryWritten, SlotTaken DEF PoolStep, Slotted
<1>5. ASSUME NEW d \in Db,
             /\ Slotted(d) /\ ts_bgw_total_workers_decrement
             /\ state' = [state EXCEPT ![d] = "DISABLED"]
      PROVE  PoolStep
  <2>1. SlotDbs' = SlotDbs \ {d}
    BY <1>5, EntryWritten, "DISABLED" \notin {"ALLOCATED", "STARTED"}
  <2> QED
    BY <1>5, <2>1, SlotDropped DEF PoolStep, Slotted
<1> QED
    BY <1>1, <1>2, <1>3, <1>4, <1>5 DEF EntryMove

\* A release cannot fail while one launcher lives.
LEMMA NoFailedRelease ==
    ASSUME TypeOK, ControlInv, CInv
    PROVE  /\ ~LauncherDecrementFails
           /\ \A w \in Worker, j \in Job : ~WorkerReleaseFails(w, j)
<1>1. ASSUME NEW d \in Db, state[d] \in {"ALLOCATED", "STARTED"}
      PROVE  CanDecrement
  <2>1. <<"db", d>> \in Held /\ <<"db", d>> # <<"launcher">>
    BY <1>1 DEF Held, SlotDbs
  <2> QED
    BY <2>1, HolderCounts
<1>2. ASSUME NEW w \in Worker, NEW j \in Job, <<w, j>> \in reserved
      PROVE  CanDecrement
  <2>1. <<"job", w, j>> \in Held /\ <<"job", w, j>> # <<"launcher">>
    BY <1>2 DEF Held
  <2> QED
    BY <2>1, HolderCounts
<1>3. ASSUME LauncherDecrementFails PROVE FALSE
  <2>1. CASE lpc = "auto" /\ \E d \in ltodo : Quit(d)
    BY <1>1, <1>3, <2>1 DEF LauncherDecrementFails, Quit, TypeOK, LauncherTypes
  <2>2. CASE lpc = "handle" /\ lmsg.type = "START" /\ Quit(lmsg.db)
    BY <1>1, <1>3, <2>2, MessageFacts DEF LauncherDecrementFails, Quit, ControlInv, LauncherControl
  <2>3. CASE lpc = "handle" /\ lmsg.type = "STOP" /\ state[lmsg.db] = "ALLOCATED"
    BY <1>1, <1>3, <2>3, MessageFacts DEF LauncherDecrementFails, ControlInv, LauncherControl
  <2>4. CASE lpc = "shutdown"
    BY <1>1, <1>3, <2>4 DEF LauncherDecrementFails, ControlInv, LauncherControl
  <2> QED
    BY <1>3, <2>1, <2>2, <2>3, <2>4 DEF LauncherDecrementFails
<1> QED
    BY <1>2, <1>3 DEF WorkerReleaseFails

\* The launcher's steps once it has counted itself.
LauncherWorks == PoolStep /\ Counted /\ Counted' /\ UNCHANGED <<launches, bpc>>
                    /\ (reader_pid => reader_pid')

LEMMA LauncherStep ==
    ASSUME TypeOK, ControlInv, CInv, Launcher
    PROVE  LauncherReinit \/ LauncherCount \/ LauncherWorks
<1> USE DEF lvars, tabvars, mqvars, wvars, bvars, dbvars
<1>0. ASSUME EntryMove, lpc \notin {"down", "count", "exited"},
             lpc' \notin {"down", "count", "exited"},
             reserved' = reserved, launches' = launches, bpc' = bpc,
             reader_pid => reader_pid'
      PROVE  LauncherWorks
  <2>1. Counted /\ Counted'
    BY <1>0 DEF Counted
  <2> QED
    BY <1>0, <2>1, EntryMoves DEF LauncherWorks
<1>1. CASE LauncherSetReader
  <2>1. EntryMove
    BY <1>1 DEF LauncherSetReader, EntryMove, Slotted, ControlInv, LauncherControl
  <2>2. lpc \notin {"down", "count", "exited"} /\ lpc' \notin {"down", "count", "exited"}
    BY <1>1 DEF LauncherSetReader
  <2> QED
    BY <1>1, <1>0, <2>1, <2>2 DEF LauncherSetReader
<1>2. ASSUME NEW d \in Db, PopulateEntry(d) PROVE LauncherWorks
  <2>1. EntryMove
    BY <1>2 DEF PopulateEntry, CreateEntry, EntryMove, Slotted, ControlInv, LauncherControl
  <2>2. lpc \notin {"down", "count", "exited"} /\ lpc' \notin {"down", "count", "exited"}
    BY <1>2 DEF PopulateEntry, CreateEntry
  <2> QED
    BY <1>2, <1>0, <2>1, <2>2 DEF PopulateEntry, CreateEntry
<1>3. CASE LauncherReceive
  <2>1. EntryMove
    BY <1>3 DEF LauncherReceive, EntryMove, Slotted, ControlInv, LauncherControl
  <2>2. lpc \notin {"down", "count", "exited"} /\ lpc' \notin {"down", "count", "exited"}
    BY <1>3 DEF LauncherReceive
  <2> QED
    BY <1>3, <1>0, <2>1, <2>2 DEF LauncherReceive
<1>4. CASE MessageCreateEntry
  <2>1. EntryMove
    BY <1>4, MessageFacts DEF MessageCreateEntry, CreateEntry, EntryMove, Slotted, ControlInv, LauncherControl
  <2>2. lpc \notin {"down", "count", "exited"} /\ lpc' \notin {"down", "count", "exited"}
    BY <1>4 DEF MessageCreateEntry, CreateEntry
  <2> QED
    BY <1>4, <1>0, <2>1, <2>2 DEF MessageCreateEntry, CreateEntry
<1>5. CASE MessageStart
  <2>1. EntryMove
    BY <1>5, MessageFacts DEF MessageStart, Automatic, AfterEntry, Quit, EntryMove, Slotted, ControlInv, LauncherControl
  <2>2. lpc \notin {"down", "count", "exited"} /\ lpc' \notin {"down", "count", "exited"}
    BY <1>5 DEF MessageStart, Automatic, AfterEntry, Quit
  <2> QED
    BY <1>5, <1>0, <2>1, <2>2 DEF MessageStart, Automatic, AfterEntry, Quit
<1>6. CASE MessageStop
  <2>1. EntryMove
    BY <1>6, MessageFacts DEF MessageStop, TerminateAndWait, EntryMove, Slotted, ControlInv, LauncherControl
  <2>2. lpc \notin {"down", "count", "exited"} /\ lpc' \notin {"down", "count", "exited"}
    BY <1>6 DEF MessageStop, TerminateAndWait
  <2> QED
    BY <1>6, <1>0, <2>1, <2>2 DEF MessageStop, TerminateAndWait
<1>7. CASE MessageRestart
  <2>1. EntryMove
    BY <1>7, MessageFacts DEF MessageRestart, TerminateAndWait, Automatic, AfterEntry, Quit, EntryMove, Slotted, ControlInv, LauncherControl
  <2>2. lpc \notin {"down", "count", "exited"} /\ lpc' \notin {"down", "count", "exited"}
    BY <1>7 DEF MessageRestart, TerminateAndWait, Automatic, AfterEntry, Quit
  <2> QED
    BY <1>7, <1>0, <2>1, <2>2 DEF MessageRestart, TerminateAndWait, Automatic, AfterEntry, Quit
<1>8. CASE RegisterWorker
  <2>1. EntryMove
    BY <1>8 DEF RegisterWorker, EntryMove, Slotted, ControlInv, LauncherControl
  <2>2. lpc \notin {"down", "count", "exited"} /\ lpc' \notin {"down", "count", "exited"}
    BY <1>8 DEF RegisterWorker
  <2> QED
    BY <1>8, <1>0, <2>1, <2>2 DEF RegisterWorker
<1>9. CASE RegisterFails
  <2>1. EntryMove
    BY <1>9 DEF RegisterFails, AfterEntry, EntryMove, Slotted, ControlInv, LauncherControl
  <2>2. lpc \notin {"down", "count", "exited"} /\ lpc' \notin {"down", "count", "exited"}
    BY <1>9 DEF RegisterFails, AfterEntry
  <2> QED
    BY <1>9, <1>0, <2>1, <2>2 DEF RegisterFails, AfterEntry
<1>10. CASE WorkerStartupSeen
  <2>1. EntryMove
    BY <1>10 DEF WorkerStartupSeen, AfterEntry, EntryMove, Slotted, ControlInv, LauncherControl
  <2>2. lpc \notin {"down", "count", "exited"} /\ lpc' \notin {"down", "count", "exited"}
    BY <1>10 DEF WorkerStartupSeen, AfterEntry
  <2> QED
    BY <1>10, <1>0, <2>1, <2>2 DEF WorkerStartupSeen, AfterEntry
<1>11. CASE WorkerShutdownSeen
  <2>1. EntryMove
    BY <1>11 DEF WorkerShutdownSeen, EntryMove, Slotted, ControlInv, LauncherControl
  <2>2. lpc \notin {"down", "count", "exited"} /\ lpc' \notin {"down", "count", "exited"}
    BY <1>11 DEF WorkerShutdownSeen
  <2> QED
    BY <1>11, <1>0, <2>1, <2>2 DEF WorkerShutdownSeen
<1>12. CASE SendAck
  <2>1. EntryMove
    BY <1>12 DEF SendAck, EntryMove, Slotted, ControlInv, LauncherControl
  <2>2. lpc \notin {"down", "count", "exited"} /\ lpc' \notin {"down", "count", "exited"}
    BY <1>12 DEF SendAck
  <2> QED
    BY <1>12, <1>0, <2>1, <2>2 DEF SendAck
<1>13. ASSUME NEW d \in Db, AutoEntry(d) PROVE LauncherWorks
  <2>1. EntryMove
    BY <1>13 DEF AutoEntry, Automatic, AfterEntry, Quit, EntryMove, Slotted, ControlInv, LauncherControl
  <2>2. lpc \notin {"down", "count", "exited"} /\ lpc' \notin {"down", "count", "exited"}
    BY <1>13 DEF AutoEntry, Automatic, AfterEntry, Quit
  <2> QED
    BY <1>13, <1>0, <2>1, <2>2 DEF AutoEntry, Automatic, AfterEntry, Quit
<1>14. CASE AutoDone
  <2>1. EntryMove
    BY <1>14 DEF AutoDone, EntryMove, Slotted, ControlInv, LauncherControl
  <2>2. lpc \notin {"down", "count", "exited"} /\ lpc' \notin {"down", "count", "exited"}
    BY <1>14 DEF AutoDone
  <2> QED
    BY <1>14, <1>0, <2>1, <2>2 DEF AutoDone
<1> QED
    BY <1>1, <1>2, <1>3, <1>4, <1>5, <1>6, <1>7, <1>8, <1>9, <1>10, <1>11, <1>12, <1>13,
       <1>14, NoFailedRelease DEF Launcher

\* What a step leaves true besides the count itself.
LifeInv ==
    /\ ~Counted => Held = {} /\ \A w \in Worker : wphase[w] = "stopped"
    /\ lpc # "down" => launches = MaxLaunches
    /\ \A b \in Backend : bpc[b] = "latch" => reader_pid

LEMMA LauncherLife ==
    ASSUME MaxLaunches = 1, TypeOK, ControlInv, CInv, Launcher \/ LauncherDies
    PROVE  PoolStep /\ LifeInv'
<1> USE DEF lvars, tabvars, mqvars, wvars, bvars, dbvars
<1>1. CASE LauncherReinit
  <2>1. Held = {} /\ total_workers = 0
    BY <1>1, FS_EmptySet DEF LauncherReinit, Counted, CInv, CountInv
  <2>2. ~Counted /\ ~Counted'
    BY <1>1 DEF LauncherReinit, Counted
  <2>3. Held' = Held
    BY <1>1, <2>2, HeldKeeps DEF LauncherReinit, SlotDbs
  <2>4. Keep
    BY <1>1, <2>1, <2>3 DEF LauncherReinit, ts_bgw_counter_reinit, Keep
  <2>5. launches' = MaxLaunches
    BY <1>1 DEF LauncherReinit, TypeOK, LauncherTypes
  <2> QED
    BY <1>1, <2>1, <2>2, <2>3, <2>4, <2>5 DEF LauncherReinit, PoolStep, LifeInv, CInv, CountInv
<1>2. CASE LauncherCount
  <2>1. Held = {} /\ ~Counted
    BY <1>2 DEF LauncherCount, Counted, CInv, CountInv
  <2>2. SlotDbs' = SlotDbs /\ reserved' = reserved /\ SlotDbs = {} /\ reserved = {}
    BY <1>2, <2>1 DEF LauncherCount, SlotDbs, Held
  <2>3. CASE ts_bgw_total_workers_increment /\ lpc' = "connect"
    <3>1. Held' = {<<"launcher">>} /\ Counted'
      BY <2>2, <2>3 DEF Held, Counted
    <3>2. Take
      <4>1. <<"launcher">> \in PoolOwner /\ <<"launcher">> \notin Held
        BY <2>1 DEF PoolOwner
      <4>2. Held' = Held \cup {<<"launcher">>}
        BY <2>1, <3>1
      <4> QED
        BY <2>3, <4>1, <4>2 DEF Take
    <3> QED
      BY <1>2, <3>1, <3>2 DEF LauncherCount, PoolStep, LifeInv, CInv, CountInv
  <2>4. CASE lpc' = "exited" /\ UNCHANGED total_workers
    <3>1. Held' = {} /\ ~Counted'
      BY <2>2, <2>4 DEF Held, Counted
    <3> QED
      BY <1>2, <2>1, <2>4, <3>1 DEF LauncherCount, PoolStep, Keep, LifeInv, CInv, CountInv
  <2> QED
    BY <1>2, <2>3, <2>4 DEF LauncherCount
<1>3. CASE LauncherWorks
  <2>1. lpc # "down" /\ launches' = MaxLaunches
    BY <1>3 DEF LauncherWorks, Counted, CInv, CountInv
  <2> QED
    BY <1>3, <2>1 DEF LauncherWorks, LifeInv, CInv, CountInv
<1>4. ~LauncherDies
    BY DEF LauncherDies, CInv, CountInv
<1> QED
    BY <1>1, <1>2, <1>3, <1>4, LauncherStep

\* Schedulers run only while the launcher is counted.
LEMMA SchedulerLife ==
    ASSUME TypeOK, ControlInv, CInv, NEW w \in Worker, Scheduler(w)
    PROVE  PoolStep /\ LifeInv'
<1> USE DEF lvars, tabvars, mqvars, wvars, bvars, dbvars
<1>1. UNCHANGED <<lpc, launches, state, bpc, reader_pid>>
    BY Zenon DEF Scheduler, WorkerForked, WorkerConnects, WorkerWaited, WorkerChecks, WorkerExits,
           WorkerStops, WorkerReserves, WorkerReleases, WorkerReleaseFails
<1>2. wphase[w] # "stopped"
    BY Zenon DEF Scheduler, WorkerForked, WorkerConnects, WorkerWaited, WorkerChecks, WorkerExits,
           WorkerStops, WorkerReserves, WorkerReleases, WorkerReleaseFails
<1>3. Counted /\ Counted'
    BY <1>1, <1>2 DEF CInv, CountInv, Counted
<1>4. LifeInv'
    BY <1>1, <1>3 DEF LifeInv, CInv, CountInv
<1>5. CASE UNCHANGED <<total_workers, reserved>>
  <2>1. SlotDbs' = SlotDbs /\ reserved' = reserved
    BY <1>1, <1>5 DEF SlotDbs
  <2>2. Held' = Held
    BY <1>3, <2>1, HeldKeeps
  <2> QED
    BY <1>4, <1>5, <2>2 DEF PoolStep, Keep
<1>6. ASSUME NEW j \in Job, WorkerReserves(w, j) PROVE PoolStep
    BY <1>3, <1>6, JobTaken DEF PoolStep
<1>7. ASSUME NEW j \in Job, WorkerReleases(w, j) PROVE PoolStep
    BY <1>7, JobDropped DEF PoolStep
<1>8. \/ WorkerForked(w) \/ WorkerConnects(w) \/ WorkerWaited(w) \/ WorkerChecks(w)
      \/ WorkerExits(w) \/ WorkerStops(w)
      => UNCHANGED <<total_workers, reserved>>
    BY Zenon DEF WorkerForked, WorkerConnects, WorkerWaited, WorkerChecks, WorkerExits, WorkerStops
<1> QED
    BY Zenon, <1>4, <1>5, <1>6, <1>7, <1>8, NoFailedRelease DEF Scheduler

\* Backends and CREATE DATABASE leave launcher, table and schedulers alone; the
\* crash of a sender is out of reach because the reader stays attached.
LEMMA OthersLife ==
    ASSUME TypeOK, ControlInv, CInv,
           \/ \E b \in Backend : Client(b)
           \/ \E d \in Db : CreateDatabase(d)
           \/ UNCHANGED vars
    PROVE  PoolStep /\ LifeInv'
<1> USE DEF lvars, tabvars, mqvars, wvars, bvars, dbvars
<1>1. \A b \in Backend : ~QueueSetLatchCrash(b)
    BY DEF QueueSetLatchCrash, CInv, CountInv
<1>2. UNCHANGED <<total_workers, lpc, launches, state, wphase, reserved, reader_pid>>
    BY Zenon, <1>1 DEF Client, Send, BeginCommand, QueueAdd, QueueCheckReader, QueueSetLatch,
       AckReceived, AckReaderGone, AckTimeout, Commit, Abort, BackendExits, CreateDatabase, vars
<1>3. \A b \in Backend : bpc'[b] = "latch" => reader_pid'
  <2>1. \A b \in Backend : bpc'[b] = "latch" => bpc[b] = "latch" \/ reader_pid
    BY Zenon, <1>1 DEF Client, Send, BeginCommand, QueueAdd, QueueCheckReader, QueueSetLatch,
       AckReceived, AckReaderGone, AckTimeout, Commit, Abort, BackendExits, CreateDatabase, vars,
       TypeOK, BackendTypes
  <2> QED
    BY Zenon, <1>2, <2>1 DEF CInv, CountInv
<1>4. Counted' <=> Counted
    BY <1>2 DEF Counted
<1>5. Keep
    BY <1>2, <1>4, HeldKeeps DEF Keep, SlotDbs
<1> QED
    BY <1>2, <1>3, <1>4, <1>5 DEF PoolStep, Keep, LifeInv, CInv, CountInv

LEMMA CountStep ==
    ASSUME MaxLaunches = 1, TypeOK, ControlInv, CInv, [Next]_vars
    PROVE  PoolStep /\ CInv'
<1>1. PoolStep /\ LifeInv'
    BY LauncherLife, SchedulerLife, OthersLife DEF Next
<1>2. total_workers' = Cardinality(Held') /\ IsFiniteSet(Held')
  <2>1. IsFiniteSet(Held) /\ total_workers = Cardinality(Held)
    BY DEF CInv, CountInv
  <2>2. CASE Keep
    BY <2>1, <2>2 DEF Keep
  <2>3. CASE Take
    <3>1. PICK o : o \notin Held /\ Held' = Held \cup {o} /\ total_workers' = total_workers + 1
      BY <2>3 DEF Take, ts_bgw_total_workers_increment
    <3> QED
      BY <2>1, <3>1, FS_AddElement
  <2>4. CASE Drop
    <3>1. PICK o : o \in Held /\ Held' = Held \ {o} /\ total_workers' = total_workers - 1
      BY <2>4 DEF Drop, ts_bgw_total_workers_decrement
    <3> QED
      BY <2>1, <3>1, FS_RemoveElement
  <2> QED
    BY <1>1, <2>2, <2>3, <2>4 DEF PoolStep
<1> QED
    BY Zenon, <1>1, <1>2 DEF CInv, CountInv, LifeInv

LEMMA CountInit == Init => CInv /\ Held = {}
<1> SUFFICES ASSUME Init PROVE CInv /\ Held = {}
    OBVIOUS
<1>1. Held = {}
    BY DEF Init, SharedMemoryInit, Held, Counted, SlotDbs
<1> QED
    BY <1>1, FS_EmptySet DEF Init, SharedMemoryInit, CInv, CountInv, Counted

LEMMA CountAlways == MaxLaunches = 1 /\ Spec => [](TypeOK /\ ControlInv /\ CInv)
<1> SUFFICES ASSUME MaxLaunches = 1 PROVE Spec => [](TypeOK /\ ControlInv /\ CInv)
    OBVIOUS
<1>1. Init => TypeOK /\ ControlInv /\ CInv
    BY TypeInit, CountInit
<1>2. TypeOK /\ ControlInv /\ CInv /\ [Next]_vars => TypeOK' /\ ControlInv' /\ CInv'
    BY TypeStep, CountStep
<1> QED
    BY <1>1, <1>2, PTL DEF Spec

\* While one launcher process lives the shared counter is exactly the number of
\* workers in use: every reserve and release of launcher and schedulers, on
\* every path of the entry state machine, is counted once.
THEOREM CounterIsExact == MaxLaunches = 1 /\ Spec => []CounterExact
<1> SUFFICES ASSUME MaxLaunches = 1 PROVE Spec => []CounterExact
    OBVIOUS
<1>1. CInv => CounterExact
    BY DEF CInv, CountInv, CounterExact
<1> QED
    BY <1>1, CountAlways, PTL

\* Launcher, schedulers and jobs never use more workers than
\* timescaledb.max_background_workers allows.
THEOREM LimitHolds == MaxLaunches = 1 /\ Spec => []WithinLimit
<1> SUFFICES ASSUME MaxLaunches = 1 PROVE Spec => []WithinLimit
    OBVIOUS
<1>1. TypeOK /\ CInv => WithinLimit
    BY MaxWorkersAssumption DEF CInv, CountInv, WithinLimit, TypeOK, TableTypes
<1> QED
    BY <1>1, CountAlways, PTL

\* The launcher and the schedulers implement the abstract pool of workers.
THEOREM ImplementsPool == MaxLaunches = 1 /\ Spec => PoolSpec
<1> SUFFICES ASSUME MaxLaunches = 1 PROVE Spec => PoolSpec
    OBVIOUS
<1>1. Init => Pool!Init
    BY CountInit DEF Pool!Init
<1>2. TypeOK /\ ControlInv /\ CInv /\ [Next]_vars => [Pool!Next]_Held
  <2> SUFFICES ASSUME TypeOK, ControlInv, CInv, [Next]_vars PROVE [Pool!Next]_Held
    OBVIOUS
  <2>1. PoolStep
    BY CountStep
  <2>2. CASE Take
    <3>1. PICK o \in PoolOwner : /\ o \notin Held
                                 /\ o = <<"launcher">> \/ <<"launcher">> \in Held
                                 /\ Held' = Held \cup {o}
                                 /\ CanIncrement
      BY <2>2 DEF Take, ts_bgw_total_workers_increment
    <3>2. Cardinality(Held) < MaxWorkers
      BY <3>1, MaxWorkersAssumption DEF CInv, CountInv, CanIncrement, TypeOK, TableTypes
    <3> QED
      <4>0. Pool!Cardinality(Held) = Cardinality(Held)
        BY DEF Pool!Cardinality, Cardinality, Pool!IsFiniteSet, IsFiniteSet
      <4>1. Pool!Acquire(o)
        BY <3>1, <3>2, <4>0 DEF Pool!Acquire
      <4> QED
        BY <4>1 DEF Pool!Next, PoolOwner
  <2>3. CASE Drop
    BY <2>3 DEF Drop, Pool!Next, Pool!Release, PoolOwner
  <2> QED
    BY <2>1, <2>2, <2>3 DEF PoolStep, Keep
<1> QED
    BY <1>1, <1>2, CountAlways, PTL DEF Spec, PoolSpec, Pool!Spec
=============================================================================
