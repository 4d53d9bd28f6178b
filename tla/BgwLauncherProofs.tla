------------------------- MODULE BgwLauncherProofs --------------------------
(***************************************************************************)
(* Theorems about the launcher, for every set of databases, workers, jobs  *)
(* and backends and every limit.                                           *)
(***************************************************************************)
EXTENDS BgwLauncher, FiniteSetTheorems, TLAPS

\* What the provers need to know of messages and transaction ids.
LEMMA MessageFacts ==
    /\ NoMsg \notin Message /\ NoMsg.type = "NONE"
    /\ \A m \in Message : /\ m.type \in {"START", "STOP", "RESTART"}
                          /\ m.sender \in Backend /\ m.db \in Db
                          /\ m.ack_dsm_handle \in Nat
    /\ \A b \in Backend, c \in Commands, d \in Db, n \in Nat :
          [type |-> CommandMessage[c], sender |-> b, db |-> d, ack_dsm_handle |-> n] \in Message
<1>1. \A m \in Message : m # NoMsg /\ m.type \in {"START", "STOP", "RESTART"}
    BY DEF Message, NoMsg
<1>2. \A c \in Commands : CommandMessage[c] \in {"START", "STOP", "RESTART"}
    BY LauncherAssumption DEF CommandMessage
<1> QED
    BY <1>1, <1>2 DEF Message, NoMsg

LEMMA VxidFacts == NoVxid \in Vxid /\ \A b \in Backend, n \in Nat : <<b, n>> \in Vxid
    BY DEF Vxid, NoVxid

\* Both counter operations keep the counter between 0 and the limit.
LEMMA CounterSteps ==
    ASSUME total_workers \in 0..MaxWorkers,
           \/ ts_bgw_total_workers_increment
           \/ ts_bgw_total_workers_decrement
    PROVE  total_workers' \in 0..MaxWorkers
    BY MaxWorkersAssumption
    DEF ts_bgw_total_workers_increment, CanIncrement, ts_bgw_total_workers_decrement, CanDecrement

\* Receiving and adding a message keep the queue a sequence of messages.
LEMMA QueueSteps ==
    ASSUME queue \in Seq(Message),
           \/ queue' = queue
           \/ queue # <<>> /\ queue' = Tail(queue)
           \/ \E m \in Message : queue' = Append(queue, m)
    PROVE  queue' \in Seq(Message)
    OBVIOUS

\* Types and the launcher's control facts are inductive together: what a step
\* stores is typed because of where the launcher or the backend is.
LEMMA TypeInit == Init => TypeOK /\ ControlInv
<1> SUFFICES ASSUME Init PROVE TypeOK /\ ControlInv
    OBVIOUS
<1> USE MaxWorkersAssumption, LauncherAssumption, VxidFacts DEF Init, SharedMemoryInit, NoCmd
<1>1. LauncherTypes
    BY DEF LauncherTypes, LauncherPc
<1>2. TableTypes
    BY DEF TableTypes
<1>3. QueueTypes
  <2>1. queue \in Seq(Message)
    BY DEF QueueTypes
  <2>2. Len(queue) <= QueueSize
    BY DEF QueueTypes
  <2>3. reader_pid \in BOOLEAN
    BY DEF QueueTypes
  <2> QED
    BY <2>1, <2>2, <2>3 DEF QueueTypes
<1>4. WorkerTypes
    BY DEF WorkerTypes, WorkerPhase
<1>5. BackendTypes
    BY DEF BackendTypes, BackendPc, Connectable
<1>6. ControlInv
    BY DEF ControlInv, LauncherControl, BackendControl, InTransaction
<1> QED
    BY <1>1, <1>2, <1>3, <1>4, <1>5, <1>6 DEF TypeOK

\* A commit drops databases and installs extensions in known databases only.
LEMMA CommitTypes ==
    ASSUME NEW c \in [cmd : Commands, db : Db], CommitEffect(c)
    PROVE  /\ dbstate \in [Db -> {"none", "exists", "dropped"}]
                => dbstate' \in [Db -> {"none", "exists", "dropped"}]
           /\ installed \subseteq Db => installed' \subseteq Db
<1>1. dbstate' = dbstate \/ dbstate' = [dbstate EXCEPT ![c.db] = "dropped"]
    BY DEF CommitEffect, dbvars
<1>2. installed' \subseteq installed \cup {c.db}
    BY DEF CommitEffect, dbvars
<1> QED
    BY <1>1, <1>2

\* A part of the state whose variables a step leaves alone keeps its types.
LEMMA Frames ==
    /\ LauncherTypes /\ UNCHANGED lvars => LauncherTypes'
    /\ TableTypes /\ total_workers' \in 0..MaxWorkers /\ UNCHANGED tabvars => TableTypes'
    /\ TableTypes /\ UNCHANGED <<total_workers, tabvars>> => TableTypes'
    /\ QueueTypes /\ UNCHANGED mqvars => QueueTypes'
    /\ WorkerTypes /\ UNCHANGED wvars => WorkerTypes'
    /\ BackendTypes /\ UNCHANGED <<bvars, dbvars>> => BackendTypes'
    /\ LauncherControl /\ UNCHANGED <<lvars, state>> => LauncherControl'
    /\ BackendControl /\ UNCHANGED <<bpc, bcmd>> => BackendControl'
<1>1. LauncherTypes /\ UNCHANGED lvars => LauncherTypes'
    BY DEF LauncherTypes, lvars
<1>2. TableTypes /\ total_workers' \in 0..MaxWorkers /\ UNCHANGED tabvars => TableTypes'
    BY DEF TableTypes, tabvars
<1>3. TableTypes /\ UNCHANGED <<total_workers, tabvars>> => TableTypes'
    BY DEF TableTypes, tabvars
<1>4. QueueTypes /\ UNCHANGED mqvars => QueueTypes'
    BY DEF QueueTypes, mqvars
<1>5. WorkerTypes /\ UNCHANGED wvars => WorkerTypes'
    BY DEF WorkerTypes, wvars
<1>6. BackendTypes /\ UNCHANGED <<bvars, dbvars>> => BackendTypes'
    BY DEF BackendTypes, bvars, dbvars
<1>7. LauncherControl /\ UNCHANGED <<lvars, state>> => LauncherControl'
    BY DEF LauncherControl, lvars
<1>8. BackendControl /\ UNCHANGED <<bpc, bcmd>> => BackendControl'
    BY DEF BackendControl, InTransaction
<1> QED
    BY <1>1, <1>2, <1>3, <1>4, <1>5, <1>6, <1>7, <1>8

LEMMA TypeStep == TypeOK /\ ControlInv /\ [Next]_vars => TypeOK' /\ ControlInv'
<1> SUFFICES ASSUME TypeOK, ControlInv, [Next]_vars
             PROVE  TypeOK' /\ ControlInv'
    OBVIOUS
<1>0. LauncherTypes /\ TableTypes /\ QueueTypes /\ WorkerTypes /\ BackendTypes
    BY DEF TypeOK
<1>ltodo. ltodo \subseteq Db
    BY <1>0 DEF LauncherTypes
<1>lcur. lcur \in Db \cup {NoDb}
    BY <1>0 DEF LauncherTypes
<1>lmsg. lmsg \in Message \cup {NoMsg}
    BY <1>0 DEF LauncherTypes
<1>lvxid. lvxid \in Vxid
    BY <1>0 DEF LauncherTypes
<1>launches. launches \in 0..MaxLaunches
    BY <1>0 DEF LauncherTypes
<1>total_workers. total_workers \in 0..MaxWorkers
    BY <1>0 DEF TableTypes
<1>state. state \in [Db -> SchedulerState \cup {"absent"}]
    BY <1>0 DEF TableTypes
<1>handle. handle \in [Db -> Worker \cup {NoWorker}]
    BY <1>0 DEF TableTypes
<1>vxid. vxid \in [Db -> Vxid]
    BY <1>0 DEF TableTypes
<1>queue. queue \in Seq(Message)
    BY <1>0 DEF QueueTypes
<1>qlen. Len(queue) <= QueueSize
    BY <1>0 DEF QueueTypes
<1>reader_pid. reader_pid \in BOOLEAN
    BY <1>0 DEF QueueTypes
<1>wphase. wphase \in [Worker -> WorkerPhase]
    BY <1>0 DEF WorkerTypes
<1>wdb. wdb \in [Worker -> Db \cup {NoDb}]
    BY <1>0 DEF WorkerTypes
<1>wvxid. wvxid \in [Worker -> Vxid]
    BY <1>0 DEF WorkerTypes
<1>wterm. wterm \in [Worker -> BOOLEAN]
    BY <1>0 DEF WorkerTypes
<1>reserved. reserved \subseteq Worker \X Job
    BY <1>0 DEF WorkerTypes
<1>bpc. bpc \in [Backend -> BackendPc]
    BY <1>0 DEF BackendTypes
<1>bcmd. bcmd \in [Backend -> [cmd : Commands, db : Db] \cup {NoCmd}]
    BY <1>0 DEF BackendTypes
<1>lxid. lxid \in [Backend -> 0..MaxTxn]
    BY <1>0 DEF BackendTypes
<1>bres. bres \in [Backend -> BOOLEAN]
    BY <1>0 DEF BackendTypes
<1>ack. ack \in [Backend -> {"none", "success", "failure", "lost"}]
    BY <1>0 DEF BackendTypes
<1>dbstate. dbstate \in [Db -> {"none", "exists", "dropped"}]
    BY <1>0 DEF BackendTypes
<1>installed. installed \subseteq Db
    BY <1>0 DEF BackendTypes
<1>msg. lpc \in {"handle", "shutdown", "ack"} => lmsg.db \in Db /\ lmsg.sender \in Backend
    BY MessageFacts DEF ControlInv, LauncherControl
<1>cur. lpc \in {"register", "startup", "shutdown"} => lcur \in Db
    BY DEF ControlInv, LauncherControl
<1>1. CASE LauncherReinit
  <2>1. UNCHANGED <<ltodo, lcur, lmsg, lvxid, state, handle, vxid, mqvars, wvars, bvars,
                        dbvars>>
    BY <1>1 DEF LauncherReinit, ts_bgw_counter_reinit, lvars, tabvars
  <2>2. lpc' \in LauncherPc
    BY <1>1 DEF LauncherReinit, ts_bgw_counter_reinit, LauncherPc
  <2>3. launches' \in 0..MaxLaunches
    BY <1>launches, <1>1, LauncherAssumption DEF LauncherReinit, ts_bgw_counter_reinit
  <2>4. total_workers' \in 0..MaxWorkers
    BY <1>total_workers, <1>1, MaxWorkersAssumption DEF LauncherReinit,
       ts_bgw_counter_reinit
  <2>5. LauncherTypes'
    BY <1>0, <2>1, <2>2, <2>3 DEF LauncherTypes, lvars
  <2>6. TableTypes'
    BY <1>0, <2>1, <2>4 DEF TableTypes, tabvars
  <2>7. LauncherControl'
    BY <1>1, <1>state, MessageFacts DEF LauncherReinit, ts_bgw_counter_reinit, ControlInv,
       LauncherControl, lvars, tabvars
  <2> QED
    BY <1>0, <2>1, <2>5, <2>6, <2>7, Frames DEF TypeOK, ControlInv, lvars, tabvars, bvars,
       dbvars
<1>2. CASE LauncherCount
  <2>1. UNCHANGED <<ltodo, lcur, lmsg, lvxid, launches, state, handle, vxid, mqvars, wvars,
                        bvars, dbvars>>
    BY <1>2 DEF LauncherCount, lvars, tabvars
  <2>2. lpc' \in LauncherPc
    BY <1>2 DEF LauncherCount, LauncherPc
  <2>3. total_workers' \in 0..MaxWorkers
    BY <1>total_workers, <1>2, CounterSteps DEF LauncherCount
  <2>4. LauncherTypes'
    BY <1>0, <2>1, <2>2 DEF LauncherTypes, lvars
  <2>5. TableTypes'
    BY <1>0, <2>1, <2>3 DEF TableTypes, tabvars
  <2>6. LauncherControl'
    BY <1>2, <1>state, MessageFacts DEF LauncherCount, ControlInv, LauncherControl, lvars,
       tabvars
  <2> QED
    BY <1>0, <2>1, <2>4, <2>5, <2>6, Frames DEF TypeOK, ControlInv, lvars, tabvars, bvars,
       dbvars
<1>3. CASE LauncherSetReader
  <2>1. UNCHANGED <<lcur, lmsg, lvxid, launches, total_workers, tabvars, queue, wvars,
                        bvars, dbvars>>
    BY <1>3 DEF LauncherSetReader, Connectable, lvars, mqvars
  <2>2. lpc' \in LauncherPc
    BY <1>3 DEF LauncherSetReader, Connectable, LauncherPc
  <2>3. ltodo' \subseteq Db
    BY <1>ltodo, <1>3 DEF LauncherSetReader, Connectable
  <2>4. reader_pid' \in BOOLEAN
    BY <1>3 DEF LauncherSetReader, Connectable
  <2>5. LauncherTypes'
    BY <1>0, <2>1, <2>2, <2>3 DEF LauncherTypes, lvars
  <2>6. QueueTypes'
    BY <1>0, <2>1, <2>4 DEF QueueTypes, mqvars
  <2>7. LauncherControl'
    BY <1>3, <1>state, MessageFacts DEF LauncherSetReader, Connectable, ControlInv,
       LauncherControl, lvars, tabvars
  <2> QED
    BY <1>0, <2>1, <2>5, <2>6, <2>7, Frames DEF TypeOK, ControlInv, lvars, tabvars, bvars,
       dbvars
<1>4. ASSUME NEW d \in Db, PopulateEntry(d)
       PROVE  TypeOK' /\ ControlInv'
  <2>1. UNCHANGED <<lpc, lcur, lmsg, lvxid, launches, handle, vxid, mqvars, wvars, bvars,
                        dbvars>>
    BY <1>4 DEF PopulateEntry, CreateEntry, lvars, tabvars
  <2>2. ltodo' \subseteq Db
    BY <1>ltodo, <1>4 DEF PopulateEntry, CreateEntry
  <2>3. total_workers' \in 0..MaxWorkers
    BY <1>total_workers, <1>4, CounterSteps DEF PopulateEntry, CreateEntry
  <2>4. state' \in [Db -> SchedulerState \cup {"absent"}]
    <3>1. \/ state' = state
          \/ \E s \in SchedulerState : state' = [state EXCEPT ![d] = s]
      BY <1>4 DEF PopulateEntry, CreateEntry, SchedulerState, tabvars
    <3> QED
      BY <1>state, <3>1
  <2>5. LauncherTypes'
    BY <1>0, <2>1, <2>2 DEF LauncherTypes, lvars
  <2>6. TableTypes'
    BY <1>0, <2>1, <2>3, <2>4 DEF TableTypes, tabvars
  <2>7. LauncherControl'
    BY <1>4, <1>state, MessageFacts DEF PopulateEntry, CreateEntry, ControlInv,
       LauncherControl, lvars, tabvars
  <2> QED
    BY <1>0, <2>1, <2>5, <2>6, <2>7, Frames DEF TypeOK, ControlInv, lvars, tabvars, bvars,
       dbvars
<1>5. CASE LauncherReceive
  <2>1. UNCHANGED <<lcur, launches, total_workers, tabvars, reader_pid, wvars, bvars,
                        dbvars>>
    BY Zenon, <1>5 DEF LauncherReceive, Entries, lvars, mqvars
  <2>2. lpc' \in LauncherPc
    BY <1>5 DEF LauncherReceive, Entries, LauncherPc
  <2>3. ltodo' \subseteq Db
    BY <1>ltodo, <1>5 DEF LauncherReceive, Entries
  <2>4. lmsg' \in Message \cup {NoMsg}
    BY <1>lmsg, <1>5, <1>queue DEF LauncherReceive, Entries
  <2>5. lvxid' \in Vxid
    BY <1>lvxid, <1>5, VxidFacts, <1>lxid, <1>queue, MessageFacts, LauncherAssumption DEF
       LauncherReceive, Entries
  <2>6. queue' \in Seq(Message)
    <3>1. queue' = queue \/ (queue # <<>> /\ queue' = Tail(queue))
      BY <1>5 DEF LauncherReceive
    <3> QED
      BY <1>queue, <3>1, QueueSteps
  <2>7. Len(queue') <= QueueSize
    BY <1>qlen, <1>5, <1>queue, LauncherAssumption DEF LauncherReceive, Entries
  <2>8. LauncherTypes'
    BY <1>0, <2>1, <2>2, <2>3, <2>4, <2>5 DEF LauncherTypes, lvars
  <2>9. QueueTypes'
    BY <1>0, <2>1, <2>6, <2>7 DEF QueueTypes, mqvars
  <2>10. LauncherControl'
    BY <1>5, <1>state, <1>queue, MessageFacts DEF LauncherReceive, Entries, ControlInv,
       LauncherControl, lvars, tabvars
  <2> QED
    BY <1>0, <2>1, <2>8, <2>9, <2>10, Frames DEF TypeOK, ControlInv, lvars, tabvars, bvars,
       dbvars
<1>6. CASE MessageCreateEntry
  <2>1. UNCHANGED <<lvars, handle, vxid, mqvars, wvars, bvars, dbvars>>
    BY <1>6 DEF MessageCreateEntry, CreateEntry, tabvars
  <2>2. total_workers' \in 0..MaxWorkers
    BY <1>total_workers, <1>6, CounterSteps DEF MessageCreateEntry, CreateEntry
  <2>3. state' \in [Db -> SchedulerState \cup {"absent"}]
    BY <1>state, <1>6, <1>msg DEF MessageCreateEntry, CreateEntry, SchedulerState
  <2>4. TableTypes'
    BY <1>0, <2>1, <2>2, <2>3 DEF TableTypes, tabvars
  <2>5. LauncherControl'
    BY <1>6, <1>state, <1>msg, MessageFacts DEF MessageCreateEntry, CreateEntry, ControlInv,
       LauncherControl, lvars, tabvars
  <2> QED
    BY <1>0, <2>1, <2>4, <2>5, Frames DEF TypeOK, ControlInv, lvars, tabvars, bvars, dbvars
<1>7. CASE MessageStart
  <2>1. UNCHANGED <<lmsg, lvxid, launches, vxid, mqvars, wvars, bvars, dbvars>>
    BY <1>7 DEF MessageStart, Automatic, AfterEntry, lvars, tabvars
  <2>2. lpc' \in LauncherPc
    BY <1>7 DEF MessageStart, Automatic, AfterEntry, LauncherPc
  <2>3. ltodo' \subseteq Db
    BY <1>ltodo, <1>7 DEF MessageStart, Automatic, AfterEntry
  <2>4. lcur' \in Db \cup {NoDb}
    BY <1>lcur, <1>7, <1>msg DEF MessageStart, Automatic, AfterEntry
  <2>5. total_workers' \in 0..MaxWorkers
    BY <1>total_workers, <1>7, CounterSteps DEF MessageStart, Automatic, AfterEntry
  <2>6. state' \in [Db -> SchedulerState \cup {"absent"}]
    BY <1>state, <1>7, <1>msg DEF MessageStart, Automatic, AfterEntry, SchedulerState
  <2>7. handle' \in [Db -> Worker \cup {NoWorker}]
    BY <1>handle, <1>7, <1>msg DEF MessageStart, Automatic, AfterEntry
  <2>8. LauncherTypes'
    BY <1>0, <2>1, <2>2, <2>3, <2>4 DEF LauncherTypes, lvars
  <2>9. TableTypes'
    BY <1>0, <2>1, <2>5, <2>6, <2>7 DEF TableTypes, tabvars
  <2>10. LauncherControl'
    BY <1>7, <1>state, <1>msg, <1>lmsg, MessageFacts DEF MessageStart, Automatic,
       AfterEntry, ControlInv, LauncherControl, lvars, tabvars
  <2> QED
    BY <1>0, <2>1, <2>8, <2>9, <2>10, Frames DEF TypeOK, ControlInv, lvars, tabvars, bvars,
       dbvars
<1>8. CASE MessageStop
  <2>1. UNCHANGED <<ltodo, lmsg, lvxid, launches, handle, vxid, mqvars, wphase, wdb, wvxid,
                        reserved, bvars, dbvars>>
    BY Zenon, <1>8 DEF MessageStop, TerminateAndWait, lvars, tabvars, wvars
  <2>2. lpc' \in LauncherPc
    BY Zenon, <1>8 DEF MessageStop, TerminateAndWait, LauncherPc
  <2>3. lcur' \in Db \cup {NoDb}
    BY <1>lcur, <1>8, <1>msg DEF MessageStop, TerminateAndWait
  <2>4. total_workers' \in 0..MaxWorkers
    BY <1>total_workers, <1>8, CounterSteps DEF MessageStop, TerminateAndWait
  <2>5. state' \in [Db -> SchedulerState \cup {"absent"}]
    BY <1>state, <1>8, <1>msg DEF MessageStop, TerminateAndWait, SchedulerState
  <2>6. wterm' \in [Worker -> BOOLEAN]
    <3>1. wterm' = wterm \/ \E w : wterm' = [wterm EXCEPT ![w] = TRUE]
      BY <1>8 DEF MessageStop, TerminateAndWait, wvars
    <3> QED
      BY <1>wterm, <3>1
  <2>7. LauncherTypes'
    BY <1>0, <2>1, <2>2, <2>3 DEF LauncherTypes, lvars
  <2>8. TableTypes'
    BY <1>0, <2>1, <2>4, <2>5 DEF TableTypes, tabvars
  <2>9. WorkerTypes'
    BY <1>0, <2>1, <2>6 DEF WorkerTypes, wvars
  <2>10. LauncherControl'
    BY <1>8, <1>state, <1>msg, MessageFacts DEF MessageStop, TerminateAndWait, ControlInv,
       LauncherControl, lvars, tabvars
  <2> QED
    BY <1>0, <2>1, <2>7, <2>8, <2>9, <2>10, Frames DEF TypeOK, ControlInv, lvars, tabvars,
       bvars, dbvars
<1>9. CASE MessageRestart
  <2>1. UNCHANGED <<lmsg, lvxid, launches, mqvars, wphase, wdb, wvxid, reserved, bvars,
                        dbvars>>
    BY <1>9 DEF MessageRestart, TerminateAndWait, Automatic, AfterEntry, lvars, tabvars,
       wvars
  <2>2. lpc' \in LauncherPc
    BY <1>9 DEF MessageRestart, TerminateAndWait, Automatic, AfterEntry, LauncherPc
  <2>3. ltodo' \subseteq Db
    BY <1>ltodo, <1>9 DEF MessageRestart, TerminateAndWait, Automatic, AfterEntry
  <2>4. lcur' \in Db \cup {NoDb}
    BY <1>lcur, <1>9, <1>msg DEF MessageRestart, TerminateAndWait, Automatic, AfterEntry
  <2>5. total_workers' \in 0..MaxWorkers
    BY <1>total_workers, <1>9, CounterSteps DEF MessageRestart, TerminateAndWait, Automatic,
       AfterEntry
  <2>6. state' \in [Db -> SchedulerState \cup {"absent"}]
    BY <1>state, <1>9, <1>msg DEF MessageRestart, TerminateAndWait, Automatic, AfterEntry,
       SchedulerState
  <2>7. handle' \in [Db -> Worker \cup {NoWorker}]
    BY <1>handle, <1>9, <1>msg DEF MessageRestart, TerminateAndWait, Automatic, AfterEntry
  <2>8. vxid' \in [Db -> Vxid]
    BY <1>vxid, <1>9, <1>msg, VxidFacts, <1>lvxid DEF MessageRestart, TerminateAndWait,
       Automatic, AfterEntry
  <2>9. wterm' \in [Worker -> BOOLEAN]
    <3>1. wterm' = wterm \/ \E w : wterm' = [wterm EXCEPT ![w] = TRUE]
      BY <1>9 DEF MessageRestart, TerminateAndWait, Automatic, AfterEntry, wvars
    <3> QED
      BY <1>wterm, <3>1
  <2>10. LauncherTypes'
    BY <1>0, <2>1, <2>2, <2>3, <2>4 DEF LauncherTypes, lvars
  <2>11. TableTypes'
    BY <2>5, <2>6, <2>7, <2>8 DEF TableTypes
  <2>12. WorkerTypes'
    BY <1>0, <2>1, <2>9 DEF WorkerTypes, wvars
  <2>13. LauncherControl'
    BY <1>9, <1>state, <1>msg, <1>lmsg, MessageFacts DEF MessageRestart, TerminateAndWait,
       Automatic, AfterEntry, ControlInv, LauncherControl, lvars, tabvars
  <2> QED
    BY <1>0, <2>1, <2>10, <2>11, <2>12, <2>13, Frames DEF TypeOK, ControlInv, lvars,
       tabvars, bvars, dbvars
<1>10. CASE RegisterWorker
  <2>1. UNCHANGED <<ltodo, lcur, lmsg, lvxid, launches, total_workers, state, vxid, mqvars,
                        reserved, bvars, dbvars>>
    BY <1>10 DEF RegisterWorker, lvars, tabvars, wvars
  <2>2. lpc' \in LauncherPc
    BY <1>10 DEF RegisterWorker, LauncherPc
  <2>3. handle' \in [Db -> Worker \cup {NoWorker}]
    BY <1>handle, <1>10, <1>cur DEF RegisterWorker
  <2>4. wphase' \in [Worker -> WorkerPhase]
    BY <1>wphase, <1>10 DEF RegisterWorker, WorkerPhase
  <2>5. wdb' \in [Worker -> Db \cup {NoDb}]
    BY <1>wdb, <1>10, <1>cur DEF RegisterWorker
  <2>6. wvxid' \in [Worker -> Vxid]
    BY <1>wvxid, <1>10, VxidFacts, <1>vxid, <1>cur DEF RegisterWorker
  <2>7. wterm' \in [Worker -> BOOLEAN]
    BY <1>wterm, <1>10 DEF RegisterWorker
  <2>8. LauncherTypes'
    BY <1>0, <2>1, <2>2 DEF LauncherTypes, lvars
  <2>9. TableTypes'
    BY <1>0, <2>1, <2>3 DEF TableTypes, tabvars
  <2>10. WorkerTypes'
    BY <1>0, <2>1, <2>4, <2>5, <2>6, <2>7 DEF WorkerTypes, wvars
  <2>11. LauncherControl'
    BY <1>10, <1>state, MessageFacts DEF RegisterWorker, ControlInv, LauncherControl, lvars,
       tabvars
  <2> QED
    BY <1>0, <2>1, <2>8, <2>9, <2>10, <2>11, Frames DEF TypeOK, ControlInv, lvars, tabvars,
       bvars, dbvars
<1>11. CASE RegisterFails
  <2>1. UNCHANGED <<ltodo, lmsg, lvxid, launches, total_workers, tabvars, mqvars, wvars,
                        bvars, dbvars>>
    BY <1>11 DEF RegisterFails, AfterEntry, lvars
  <2>2. lpc' \in LauncherPc
    BY <1>11 DEF RegisterFails, AfterEntry, LauncherPc
  <2>3. lcur' \in Db \cup {NoDb}
    BY <1>lcur, <1>11 DEF RegisterFails, AfterEntry
  <2>4. LauncherTypes'
    BY <1>0, <2>1, <2>2, <2>3 DEF LauncherTypes, lvars
  <2>5. LauncherControl'
    BY <1>11, <1>state, <1>lmsg, MessageFacts DEF RegisterFails, AfterEntry, ControlInv,
       LauncherControl, lvars, tabvars
  <2> QED
    BY <1>0, <2>1, <2>4, <2>5, Frames DEF TypeOK, ControlInv, lvars, tabvars, bvars, dbvars
<1>12. CASE WorkerStartupSeen
  <2>1. UNCHANGED <<ltodo, lmsg, lvxid, launches, total_workers, handle, mqvars, wvars,
                        bvars, dbvars>>
    BY <1>12 DEF WorkerStartupSeen, AfterEntry, lvars, tabvars
  <2>2. lpc' \in LauncherPc
    BY <1>12 DEF WorkerStartupSeen, AfterEntry, LauncherPc
  <2>3. lcur' \in Db \cup {NoDb}
    BY <1>lcur, <1>12 DEF WorkerStartupSeen, AfterEntry
  <2>4. state' \in [Db -> SchedulerState \cup {"absent"}]
    BY <1>state, <1>12, <1>cur DEF WorkerStartupSeen, AfterEntry, SchedulerState
  <2>5. vxid' \in [Db -> Vxid]
    BY <1>vxid, <1>12, <1>cur, VxidFacts DEF WorkerStartupSeen, AfterEntry
  <2>6. LauncherTypes'
    BY <1>0, <2>1, <2>2, <2>3 DEF LauncherTypes, lvars
  <2>7. TableTypes'
    BY <1>0, <2>1, <2>4, <2>5 DEF TableTypes, tabvars
  <2>8. LauncherControl'
    BY <1>12, <1>state, <1>lmsg, MessageFacts DEF WorkerStartupSeen, AfterEntry, ControlInv,
       LauncherControl, lvars, tabvars
  <2> QED
    BY <1>0, <2>1, <2>6, <2>7, <2>8, Frames DEF TypeOK, ControlInv, lvars, tabvars, bvars,
       dbvars
<1>13. CASE WorkerShutdownSeen
  <2>1. UNCHANGED <<ltodo, lmsg, lvxid, launches, vxid, mqvars, wvars, bvars, dbvars>>
    BY <1>13 DEF WorkerShutdownSeen, lvars, tabvars
  <2>2. lpc' \in LauncherPc
    BY <1>13 DEF WorkerShutdownSeen, LauncherPc
  <2>3. lcur' \in Db \cup {NoDb}
    BY <1>lcur, <1>13 DEF WorkerShutdownSeen
  <2>4. total_workers' \in 0..MaxWorkers
    BY <1>total_workers, <1>13, CounterSteps DEF WorkerShutdownSeen
  <2>5. state' \in [Db -> SchedulerState \cup {"absent"}]
    BY <1>state, <1>13, <1>cur DEF WorkerShutdownSeen, SchedulerState
  <2>6. handle' \in [Db -> Worker \cup {NoWorker}]
    BY <1>handle, <1>13, <1>cur DEF WorkerShutdownSeen
  <2>7. LauncherTypes'
    BY <1>0, <2>1, <2>2, <2>3 DEF LauncherTypes, lvars
  <2>8. TableTypes'
    BY <1>0, <2>1, <2>4, <2>5, <2>6 DEF TableTypes, tabvars
  <2>9. LauncherControl'
    BY <1>13, <1>state, MessageFacts DEF WorkerShutdownSeen, ControlInv, LauncherControl,
       lvars, tabvars
  <2> QED
    BY <1>0, <2>1, <2>7, <2>8, <2>9, Frames DEF TypeOK, ControlInv, lvars, tabvars, bvars,
       dbvars
<1>14. CASE SendAck
  <2>1. UNCHANGED <<lcur, launches, total_workers, tabvars, mqvars, wvars, bpc, bcmd, lxid,
                        bres, dbstate, installed>>
    BY Zenon, <1>14 DEF SendAck, AckResult, Entries, lvars, bvars, dbvars
  <2>2. lpc' \in LauncherPc
    BY Zenon, <1>14 DEF SendAck, AckResult, Entries, LauncherPc
  <2>3. ltodo' \subseteq Db
    BY <1>ltodo, <1>14 DEF SendAck, AckResult, Entries
  <2>4. lmsg' \in Message \cup {NoMsg}
    BY <1>lmsg, <1>14 DEF SendAck, AckResult, Entries
  <2>5. lvxid' \in Vxid
    BY <1>lvxid, <1>14, VxidFacts DEF SendAck, AckResult, Entries
  <2>6. ack' \in [Backend -> {"none", "success", "failure", "lost"}]
    BY <1>ack, <1>14, <1>msg, MessageFacts DEF SendAck, AckResult, Entries
  <2>7. LauncherTypes'
    BY <1>0, <2>1, <2>2, <2>3, <2>4, <2>5 DEF LauncherTypes, lvars
  <2>8. BackendTypes'
    BY <1>0, <2>1, <2>6 DEF BackendTypes, bvars, dbvars
  <2>9. LauncherControl'
    BY <1>14, <1>state, MessageFacts DEF SendAck, AckResult, Entries, ControlInv,
       LauncherControl, lvars, tabvars
  <2> QED
    BY <1>0, <2>1, <2>7, <2>8, <2>9, Frames DEF TypeOK, ControlInv, lvars, tabvars, bvars,
       dbvars
<1>15. ASSUME NEW d \in Db, AutoEntry(d)
       PROVE  TypeOK' /\ ControlInv'
  <2>1. UNCHANGED <<lmsg, lvxid, launches, vxid, mqvars, wvars, bvars, dbvars>>
    BY <1>15 DEF AutoEntry, Automatic, AfterEntry, lvars, tabvars
  <2>2. lpc' \in LauncherPc
    BY <1>15 DEF AutoEntry, Automatic, AfterEntry, LauncherPc
  <2>3. ltodo' \subseteq Db
    BY <1>ltodo, <1>15 DEF AutoEntry, Automatic, AfterEntry
  <2>4. lcur' \in Db \cup {NoDb}
    BY <1>lcur, <1>15 DEF AutoEntry, Automatic, AfterEntry
  <2>5. total_workers' \in 0..MaxWorkers
    BY <1>total_workers, <1>15, CounterSteps DEF AutoEntry, Automatic, AfterEntry
  <2>6. state' \in [Db -> SchedulerState \cup {"absent"}]
    BY <1>state, <1>15 DEF AutoEntry, Automatic, AfterEntry, SchedulerState
  <2>7. handle' \in [Db -> Worker \cup {NoWorker}]
    BY <1>handle, <1>15 DEF AutoEntry, Automatic, AfterEntry
  <2>8. LauncherTypes'
    BY <1>0, <2>1, <2>2, <2>3, <2>4 DEF LauncherTypes, lvars
  <2>9. TableTypes'
    BY <1>0, <2>1, <2>5, <2>6, <2>7 DEF TableTypes, tabvars
  <2>10. LauncherControl'
    BY Zenon, <1>15, <1>state, <1>lmsg, MessageFacts DEF AutoEntry, Automatic, AfterEntry,
       ControlInv, LauncherControl, lvars, tabvars
  <2> QED
    BY <1>0, <2>1, <2>8, <2>9, <2>10, Frames DEF TypeOK, ControlInv, lvars, tabvars, bvars,
       dbvars
<1>16. CASE AutoDone
  <2>1. UNCHANGED <<lcur, lmsg, lvxid, launches, total_workers, tabvars, mqvars, wvars,
                        bvars, dbvars>>
    BY <1>16 DEF AutoDone, Connectable, lvars
  <2>2. lpc' \in LauncherPc
    BY <1>16 DEF AutoDone, Connectable, LauncherPc
  <2>3. ltodo' \subseteq Db
    BY <1>ltodo, <1>16 DEF AutoDone, Connectable
  <2>4. LauncherTypes'
    BY <1>0, <2>1, <2>2, <2>3 DEF LauncherTypes, lvars
  <2>5. LauncherControl'
    BY <1>16, <1>state, MessageFacts DEF AutoDone, Connectable, ControlInv, LauncherControl,
       lvars, tabvars
  <2> QED
    BY <1>0, <2>1, <2>4, <2>5, Frames DEF TypeOK, ControlInv, lvars, tabvars, bvars, dbvars
<1>17. CASE LauncherCleanup
  <2>1. UNCHANGED <<launches, total_workers, queue, wphase, wdb, wvxid, reserved, bvars,
                        dbvars>>
    BY Zenon, <1>17 DEF LauncherCleanup, lvars, tabvars, mqvars, wvars
  <2>2. lpc' \in LauncherPc
    BY <1>17 DEF LauncherCleanup, LauncherPc
  <2>3. ltodo' \subseteq Db
    BY <1>17 DEF LauncherCleanup
  <2>4. lcur' \in Db \cup {NoDb}
    BY <1>17 DEF LauncherCleanup
  <2>5. lmsg' \in Message \cup {NoMsg}
    BY <1>17 DEF LauncherCleanup
  <2>6. lvxid' \in Vxid
    BY <1>17, VxidFacts DEF LauncherCleanup
  <2>7. state' \in [Db -> SchedulerState \cup {"absent"}]
    BY <1>17 DEF LauncherCleanup, SchedulerState
  <2>8. handle' \in [Db -> Worker \cup {NoWorker}]
    BY <1>17 DEF LauncherCleanup
  <2>9. vxid' \in [Db -> Vxid]
    BY <1>17, VxidFacts DEF LauncherCleanup
  <2>10. reader_pid' \in BOOLEAN
    BY <1>17 DEF LauncherCleanup
  <2>11. wterm' \in [Worker -> BOOLEAN]
    BY <1>wterm, <1>17 DEF LauncherCleanup
  <2>12. LauncherTypes'
    BY <1>0, <2>1, <2>2, <2>3, <2>4, <2>5, <2>6 DEF LauncherTypes, lvars
  <2>13. TableTypes'
    BY <1>0, <2>1, <2>7, <2>8, <2>9 DEF TableTypes, tabvars
  <2>14. QueueTypes'
    BY <1>0, <2>1, <2>10 DEF QueueTypes, mqvars
  <2>15. WorkerTypes'
    BY <1>0, <2>1, <2>11 DEF WorkerTypes, wvars
  <2>16. LauncherControl'
    BY <1>17, <1>state, MessageFacts DEF LauncherCleanup, ControlInv, LauncherControl,
       lvars, tabvars
  <2> QED
    BY <1>0, <2>1, <2>12, <2>13, <2>14, <2>15, <2>16, Frames DEF TypeOK, ControlInv, lvars,
       tabvars, bvars, dbvars
<1>18. ASSUME NEW w \in Worker, WorkerForked(w)
       PROVE  TypeOK' /\ ControlInv'
  <2>1. UNCHANGED <<lvars, total_workers, tabvars, mqvars, wdb, wvxid, wterm, reserved,
                        bvars, dbvars>>
    BY <1>18 DEF WorkerForked, wvars
  <2>2. wphase' \in [Worker -> WorkerPhase]
    BY <1>wphase, <1>18 DEF WorkerForked, WorkerPhase
  <2>3. WorkerTypes'
    BY <1>0, <2>1, <2>2 DEF WorkerTypes, wvars
  <2> QED
    BY <1>0, <2>1, <2>3, Frames DEF TypeOK, ControlInv, lvars, tabvars, bvars, dbvars
<1>19. ASSUME NEW w \in Worker, WorkerConnects(w)
       PROVE  TypeOK' /\ ControlInv'
  <2>1. UNCHANGED <<lvars, total_workers, tabvars, mqvars, wdb, wvxid, wterm, reserved,
                        bvars, dbvars>>
    BY Zenon, <1>19 DEF WorkerConnects, wvars
  <2>2. wphase' \in [Worker -> WorkerPhase]
    BY <1>wphase, <1>19 DEF WorkerConnects, WorkerPhase
  <2>3. WorkerTypes'
    BY <1>0, <2>1, <2>2 DEF WorkerTypes, wvars
  <2> QED
    BY <1>0, <2>1, <2>3, Frames DEF TypeOK, ControlInv, lvars, tabvars, bvars, dbvars
<1>20. ASSUME NEW w \in Worker, WorkerWaited(w)
       PROVE  TypeOK' /\ ControlInv'
  <2>1. UNCHANGED <<lvars, total_workers, tabvars, mqvars, wdb, wvxid, wterm, reserved,
                        bvars, dbvars>>
    BY <1>20 DEF WorkerWaited, wvars
  <2>2. wphase' \in [Worker -> WorkerPhase]
    BY <1>wphase, <1>20 DEF WorkerWaited, WorkerPhase
  <2>3. WorkerTypes'
    BY <1>0, <2>1, <2>2 DEF WorkerTypes, wvars
  <2> QED
    BY <1>0, <2>1, <2>3, Frames DEF TypeOK, ControlInv, lvars, tabvars, bvars, dbvars
<1>21. ASSUME NEW w \in Worker, WorkerChecks(w)
       PROVE  TypeOK' /\ ControlInv'
  <2>1. UNCHANGED <<lvars, total_workers, tabvars, mqvars, wdb, wvxid, wterm, reserved,
                        bvars, dbvars>>
    BY <1>21 DEF WorkerChecks, wvars
  <2>2. wphase' \in [Worker -> WorkerPhase]
    BY <1>wphase, <1>21 DEF WorkerChecks, WorkerPhase
  <2>3. WorkerTypes'
    BY <1>0, <2>1, <2>2 DEF WorkerTypes, wvars
  <2> QED
    BY <1>0, <2>1, <2>3, Frames DEF TypeOK, ControlInv, lvars, tabvars, bvars, dbvars
<1>22. ASSUME NEW w \in Worker, WorkerExits(w)
       PROVE  TypeOK' /\ ControlInv'
  <2>1. UNCHANGED <<lvars, total_workers, tabvars, mqvars, wdb, wvxid, wterm, reserved,
                        bvars, dbvars>>
    BY <1>22 DEF WorkerExits, wvars
  <2>2. wphase' \in [Worker -> WorkerPhase]
    BY <1>wphase, <1>22 DEF WorkerExits, WorkerPhase
  <2>3. WorkerTypes'
    BY <1>0, <2>1, <2>2 DEF WorkerTypes, wvars
  <2> QED
    BY <1>0, <2>1, <2>3, Frames DEF TypeOK, ControlInv, lvars, tabvars, bvars, dbvars
<1>23. ASSUME NEW w \in Worker, WorkerStops(w)
       PROVE  TypeOK' /\ ControlInv'
  <2>1. UNCHANGED <<lvars, total_workers, tabvars, mqvars, wdb, wvxid, wterm, reserved,
                        bvars, dbvars>>
    BY <1>23 DEF WorkerStops, wvars
  <2>2. wphase' \in [Worker -> WorkerPhase]
    BY <1>wphase, <1>23 DEF WorkerStops, WorkerPhase
  <2>3. WorkerTypes'
    BY <1>0, <2>1, <2>2 DEF WorkerTypes, wvars
  <2> QED
    BY <1>0, <2>1, <2>3, Frames DEF TypeOK, ControlInv, lvars, tabvars, bvars, dbvars
<1>24. ASSUME NEW w \in Worker, NEW j \in Job, WorkerReserves(w, j)
       PROVE  TypeOK' /\ ControlInv'
  <2>1. UNCHANGED <<lvars, state, handle, vxid, mqvars, wphase, wdb, wvxid, wterm, bvars,
                        dbvars>>
    BY <1>24 DEF WorkerReserves, tabvars, wvars
  <2>2. total_workers' \in 0..MaxWorkers
    BY <1>total_workers, <1>24, CounterSteps DEF WorkerReserves
  <2>3. reserved' \subseteq Worker \X Job
    BY <1>reserved, <1>24 DEF WorkerReserves
  <2>4. TableTypes'
    BY <1>0, <2>1, <2>2 DEF TableTypes, tabvars
  <2>5. WorkerTypes'
    BY <1>0, <2>1, <2>3 DEF WorkerTypes, wvars
  <2> QED
    BY <1>0, <2>1, <2>4, <2>5, Frames DEF TypeOK, ControlInv, lvars, tabvars, bvars, dbvars
<1>25. ASSUME NEW w \in Worker, NEW j \in Job, WorkerReleases(w, j)
       PROVE  TypeOK' /\ ControlInv'
  <2>1. UNCHANGED <<lvars, state, handle, vxid, mqvars, wphase, wdb, wvxid, wterm, bvars,
                        dbvars>>
    BY <1>25 DEF WorkerReleases, tabvars, wvars
  <2>2. total_workers' \in 0..MaxWorkers
    BY <1>total_workers, <1>25, CounterSteps DEF WorkerReleases
  <2>3. reserved' \subseteq Worker \X Job
    BY <1>reserved, <1>25 DEF WorkerReleases
  <2>4. TableTypes'
    BY <1>0, <2>1, <2>2 DEF TableTypes, tabvars
  <2>5. WorkerTypes'
    BY <1>0, <2>1, <2>3 DEF WorkerTypes, wvars
  <2> QED
    BY <1>0, <2>1, <2>4, <2>5, Frames DEF TypeOK, ControlInv, lvars, tabvars, bvars, dbvars
<1>26. ASSUME NEW w \in Worker, NEW j \in Job, WorkerReleaseFails(w, j)
       PROVE  TypeOK' /\ ControlInv'
  <2>1. UNCHANGED <<lvars, total_workers, tabvars, mqvars, wdb, wvxid, wterm, bvars,
                        dbvars>>
    BY <1>26 DEF WorkerReleaseFails, wvars
  <2>2. wphase' \in [Worker -> WorkerPhase]
    BY <1>wphase, <1>26 DEF WorkerReleaseFails, WorkerPhase
  <2>3. reserved' \subseteq Worker \X Job
    BY <1>reserved, <1>26 DEF WorkerReleaseFails
  <2>4. WorkerTypes'
    BY <1>0, <2>1, <2>2, <2>3 DEF WorkerTypes, wvars
  <2> QED
    BY <1>0, <2>1, <2>4, Frames DEF TypeOK, ControlInv, lvars, tabvars, bvars, dbvars
<1>27. ASSUME NEW b \in Backend, NEW c \in Commands, NEW d \in Db, BeginCommand(b, c, d)
       PROVE  TypeOK' /\ ControlInv'
  <2>1. UNCHANGED <<lvars, total_workers, tabvars, mqvars, wvars, dbstate, installed>>
    BY <1>27 DEF BeginCommand, bvars, dbvars
  <2>2. bpc' \in [Backend -> BackendPc]
    BY <1>bpc, <1>27 DEF BeginCommand, BackendPc
  <2>3. bcmd' \in [Backend -> [cmd : Commands, db : Db] \cup {NoCmd}]
    BY <1>bcmd, <1>27 DEF BeginCommand, NoCmd
  <2>4. lxid' \in [Backend -> 0..MaxTxn]
    BY <1>lxid, <1>27, LauncherAssumption DEF BeginCommand
  <2>5. bres' \in [Backend -> BOOLEAN]
    BY <1>bres, <1>27 DEF BeginCommand
  <2>6. ack' \in [Backend -> {"none", "success", "failure", "lost"}]
    BY <1>ack, <1>27 DEF BeginCommand
  <2>7. BackendTypes'
    BY <1>0, <2>1, <2>2, <2>3, <2>4, <2>5, <2>6 DEF BackendTypes, bvars, dbvars
  <2>8. BackendControl'
    BY <1>27, <1>bpc, <1>bcmd DEF BeginCommand, ControlInv, BackendControl, InTransaction
  <2> QED
    BY <1>0, <2>1, <2>7, <2>8, Frames DEF TypeOK, ControlInv, lvars, tabvars, bvars, dbvars
<1>28. ASSUME NEW b \in Backend, QueueAdd(b)
       PROVE  TypeOK' /\ ControlInv'
  <2>1. UNCHANGED <<lvars, total_workers, tabvars, reader_pid, wvars, bcmd, lxid, ack,
                        dbstate, installed>>
    BY Zenon, <1>28 DEF QueueAdd, mqvars, bvars, dbvars
  <2>2. queue' \in Seq(Message)
    <3>1. bcmd[b] \in [cmd : Commands, db : Db]
      BY Zenon, <1>28 DEF QueueAdd, ControlInv, BackendControl, InTransaction
    <3>2. lxid[b] \in Nat
      BY <1>lxid, LauncherAssumption
    <3>3. [type |-> CommandMessage[bcmd[b].cmd], sender |-> b,
           db |-> bcmd[b].db, ack_dsm_handle |-> lxid[b]] \in Message
      BY <3>1, <3>2, MessageFacts
    <3>4. queue' = queue \/ \E m \in Message : queue' = Append(queue, m)
      BY <1>28, <3>3 DEF QueueAdd
    <3> QED
      BY <1>queue, <3>4, QueueSteps
  <2>3. Len(queue') <= QueueSize
    BY <1>qlen, <1>28, <1>queue, LauncherAssumption DEF QueueAdd
  <2>4. bpc' \in [Backend -> BackendPc]
    BY <1>bpc, <1>28 DEF QueueAdd, BackendPc
  <2>5. bres' \in [Backend -> BOOLEAN]
    BY <1>bres, <1>28 DEF QueueAdd
  <2>6. QueueTypes'
    BY <1>0, <2>1, <2>2, <2>3 DEF QueueTypes, mqvars
  <2>7. BackendTypes'
    BY <1>0, <2>1, <2>4, <2>5 DEF BackendTypes, bvars, dbvars
  <2>8. BackendControl'
    BY <1>28, <1>bpc, <1>bcmd DEF QueueAdd, ControlInv, BackendControl, InTransaction
  <2> QED
    BY <1>0, <2>1, <2>6, <2>7, <2>8, Frames DEF TypeOK, ControlInv, lvars, tabvars, bvars,
       dbvars
<1>29. ASSUME NEW b \in Backend, QueueCheckReader(b)
       PROVE  TypeOK' /\ ControlInv'
  <2>1. UNCHANGED <<lvars, total_workers, tabvars, mqvars, wvars, bcmd, lxid, ack, dbstate,
                        installed>>
    BY <1>29 DEF QueueCheckReader, bvars, dbvars
  <2>2. bpc' \in [Backend -> BackendPc]
    BY <1>bpc, <1>29 DEF QueueCheckReader, BackendPc
  <2>3. bres' \in [Backend -> BOOLEAN]
    BY <1>bres, <1>29, <1>reader_pid DEF QueueCheckReader
  <2>4. BackendTypes'
    BY <1>0, <2>1, <2>2, <2>3 DEF BackendTypes, bvars, dbvars
  <2>5. BackendControl'
    BY <1>29, <1>bpc, <1>bcmd DEF QueueCheckReader, ControlInv, BackendControl,
       InTransaction
  <2> QED
    BY <1>0, <2>1, <2>4, <2>5, Frames DEF TypeOK, ControlInv, lvars, tabvars, bvars, dbvars
<1>30. ASSUME NEW b \in Backend, QueueSetLatch(b)
       PROVE  TypeOK' /\ ControlInv'
  <2>1. UNCHANGED <<lvars, total_workers, tabvars, mqvars, wvars, bcmd, lxid, bres, ack,
                        dbstate, installed>>
    BY <1>30 DEF QueueSetLatch, bvars, dbvars
  <2>2. bpc' \in [Backend -> BackendPc]
    BY <1>bpc, <1>30 DEF QueueSetLatch, BackendPc
  <2>3. BackendTypes'
    BY <1>0, <2>1, <2>2 DEF BackendTypes, bvars, dbvars
  <2>4. BackendControl'
    BY <1>30, <1>bpc, <1>bcmd DEF QueueSetLatch, ControlInv, BackendControl, InTransaction
  <2> QED
    BY <1>0, <2>1, <2>3, <2>4, Frames DEF TypeOK, ControlInv, lvars, tabvars, bvars, dbvars
<1>31. CASE CrashRestart
  <2>1. UNCHANGED <<dbstate, installed>>
    BY <1>31 DEF CrashRestart, lvars, tabvars, mqvars, wvars, bvars, dbvars
  <2>2. lpc' \in LauncherPc
    BY <1>31 DEF CrashRestart, LauncherPc
  <2>3. ltodo' \subseteq Db
    BY <1>31 DEF CrashRestart
  <2>4. lcur' \in Db \cup {NoDb}
    BY <1>31 DEF CrashRestart
  <2>5. lmsg' \in Message \cup {NoMsg}
    BY <1>31 DEF CrashRestart
  <2>6. lvxid' \in Vxid
    BY <1>31, VxidFacts DEF CrashRestart
  <2>7. launches' \in 0..MaxLaunches
    BY <1>31, LauncherAssumption DEF CrashRestart
  <2>8. total_workers' \in 0..MaxWorkers
    BY <1>31, MaxWorkersAssumption DEF CrashRestart
  <2>9. state' \in [Db -> SchedulerState \cup {"absent"}]
    BY <1>31 DEF CrashRestart, SchedulerState
  <2>10. handle' \in [Db -> Worker \cup {NoWorker}]
    BY <1>31 DEF CrashRestart
  <2>11. vxid' \in [Db -> Vxid]
    BY <1>31, VxidFacts DEF CrashRestart
  <2>12. queue' \in Seq(Message)
    BY <1>31 DEF CrashRestart
  <2>13. Len(queue') <= QueueSize
    BY <1>31, <1>queue, LauncherAssumption DEF CrashRestart
  <2>14. reader_pid' \in BOOLEAN
    BY <1>31 DEF CrashRestart
  <2>15. wphase' \in [Worker -> WorkerPhase]
    BY <1>31 DEF CrashRestart, WorkerPhase
  <2>16. wdb' \in [Worker -> Db \cup {NoDb}]
    BY <1>31, <1>cur DEF CrashRestart
  <2>17. wvxid' \in [Worker -> Vxid]
    BY <1>31, VxidFacts, <1>vxid, <1>cur DEF CrashRestart
  <2>18. wterm' \in [Worker -> BOOLEAN]
    BY <1>31 DEF CrashRestart
  <2>19. reserved' \subseteq Worker \X Job
    BY <1>31 DEF CrashRestart
  <2>20. bpc' \in [Backend -> BackendPc]
    BY <1>31 DEF CrashRestart, BackendPc
  <2>21. bcmd' \in [Backend -> [cmd : Commands, db : Db] \cup {NoCmd}]
    BY Zenon, <1>31 DEF CrashRestart, NoCmd
  <2>22. lxid' \in [Backend -> 0..MaxTxn]
    BY <1>31, LauncherAssumption DEF CrashRestart
  <2>23. bres' \in [Backend -> BOOLEAN]
    BY <1>31 DEF CrashRestart
  <2>24. ack' \in [Backend -> {"none", "success", "failure", "lost"}]
    BY <1>31 DEF CrashRestart
  <2>25. LauncherTypes'
    BY <2>2, <2>3, <2>4, <2>5, <2>6, <2>7 DEF LauncherTypes
  <2>26. TableTypes'
    BY <2>8, <2>9, <2>10, <2>11 DEF TableTypes
  <2>27. QueueTypes'
    BY <2>12, <2>13, <2>14 DEF QueueTypes
  <2>28. WorkerTypes'
    BY <2>15, <2>16, <2>17, <2>18, <2>19 DEF WorkerTypes
  <2>29. BackendTypes'
    BY <1>0, <2>1, <2>20, <2>21, <2>22, <2>23, <2>24 DEF BackendTypes, bvars, dbvars
  <2>30. LauncherControl'
    BY <1>31, <1>state, MessageFacts DEF CrashRestart, ControlInv, LauncherControl, lvars,
       tabvars
  <2>31. BackendControl'
    BY <1>31, <1>bpc, <1>bcmd DEF CrashRestart, ControlInv, BackendControl, InTransaction
  <2> QED
    BY <1>0, <2>1, <2>25, <2>26, <2>27, <2>28, <2>29, <2>30, <2>31, Frames DEF TypeOK,
       ControlInv, lvars, tabvars, bvars, dbvars
<1>32. ASSUME NEW b \in Backend, AckReceived(b)
       PROVE  TypeOK' /\ ControlInv'
  <2>1. UNCHANGED <<lvars, total_workers, tabvars, mqvars, wvars, bcmd, lxid, ack, dbstate,
                        installed>>
    BY <1>32 DEF AckReceived, bvars, dbvars
  <2>2. bpc' \in [Backend -> BackendPc]
    BY <1>bpc, <1>32 DEF AckReceived, BackendPc
  <2>3. bres' \in [Backend -> BOOLEAN]
    BY <1>bres, <1>32 DEF AckReceived
  <2>4. BackendTypes'
    BY <1>0, <2>1, <2>2, <2>3 DEF BackendTypes, bvars, dbvars
  <2>5. BackendControl'
    BY <1>32, <1>bpc, <1>bcmd DEF AckReceived, ControlInv, BackendControl, InTransaction
  <2> QED
    BY <1>0, <2>1, <2>4, <2>5, Frames DEF TypeOK, ControlInv, lvars, tabvars, bvars, dbvars
<1>33. ASSUME NEW b \in Backend, AckReaderGone(b)
       PROVE  TypeOK' /\ ControlInv'
  <2>1. UNCHANGED <<lvars, total_workers, tabvars, mqvars, wvars, bcmd, lxid, ack, dbstate,
                        installed>>
    BY <1>33 DEF AckReaderGone, bvars, dbvars
  <2>2. bpc' \in [Backend -> BackendPc]
    BY <1>bpc, <1>33 DEF AckReaderGone, BackendPc
  <2>3. bres' \in [Backend -> BOOLEAN]
    BY <1>bres, <1>33 DEF AckReaderGone
  <2>4. BackendTypes'
    BY <1>0, <2>1, <2>2, <2>3 DEF BackendTypes, bvars, dbvars
  <2>5. BackendControl'
    BY <1>33, <1>bpc, <1>bcmd DEF AckReaderGone, ControlInv, BackendControl, InTransaction
  <2> QED
    BY <1>0, <2>1, <2>4, <2>5, Frames DEF TypeOK, ControlInv, lvars, tabvars, bvars, dbvars
<1>34. ASSUME NEW b \in Backend, AckTimeout(b)
       PROVE  TypeOK' /\ ControlInv'
  <2>1. UNCHANGED <<lvars, total_workers, tabvars, mqvars, wvars, bcmd, lxid, ack, dbstate,
                        installed>>
    BY <1>34 DEF AckTimeout, bvars, dbvars
  <2>2. bpc' \in [Backend -> BackendPc]
    BY <1>bpc, <1>34 DEF AckTimeout, BackendPc
  <2>3. bres' \in [Backend -> BOOLEAN]
    BY <1>bres, <1>34 DEF AckTimeout
  <2>4. BackendTypes'
    BY <1>0, <2>1, <2>2, <2>3 DEF BackendTypes, bvars, dbvars
  <2>5. BackendControl'
    BY <1>34, <1>bpc, <1>bcmd DEF AckTimeout, ControlInv, BackendControl, InTransaction
  <2> QED
    BY <1>0, <2>1, <2>4, <2>5, Frames DEF TypeOK, ControlInv, lvars, tabvars, bvars, dbvars
<1>35. ASSUME NEW b \in Backend, Commit(b)
       PROVE  TypeOK' /\ ControlInv'
  <2>1. UNCHANGED <<lvars, total_workers, tabvars, mqvars, wvars, bcmd, lxid, bres, ack>>
    BY <1>35 DEF Commit, bvars, dbvars
  <2>2. bpc' \in [Backend -> BackendPc]
    BY <1>bpc, <1>35 DEF Commit, BackendPc
  <2>3. dbstate' \in [Db -> {"none", "exists", "dropped"}]
    <3>1. bcmd[b] \in [cmd : Commands, db : Db]
      BY Zenon, <1>35 DEF Commit, ControlInv, BackendControl, InTransaction
    <3> QED
      BY Zenon, <1>35, <1>dbstate, <3>1, CommitTypes DEF Commit
  <2>4. installed' \subseteq Db
    <3>1. bcmd[b] \in [cmd : Commands, db : Db]
      BY <1>35 DEF Commit, ControlInv, BackendControl, InTransaction
    <3> QED
      BY Zenon, <1>35, <1>installed, <3>1, CommitTypes DEF Commit
  <2>5. BackendTypes'
    BY <1>0, <2>1, <2>2, <2>3, <2>4 DEF BackendTypes, bvars, dbvars
  <2>6. BackendControl'
    BY <1>35, <1>bpc, <1>bcmd DEF Commit, ControlInv, BackendControl, InTransaction
  <2> QED
    BY <1>0, <2>1, <2>5, <2>6, Frames DEF TypeOK, ControlInv, lvars, tabvars, bvars, dbvars
<1>36. ASSUME NEW b \in Backend, Abort(b)
       PROVE  TypeOK' /\ ControlInv'
  <2>1. UNCHANGED <<lvars, total_workers, tabvars, mqvars, wvars, bcmd, lxid, bres, ack,
                        dbstate, installed>>
    BY <1>36 DEF Abort, bvars, dbvars
  <2>2. bpc' \in [Backend -> BackendPc]
    BY <1>bpc, <1>36 DEF Abort, BackendPc
  <2>3. BackendTypes'
    BY <1>0, <2>1, <2>2 DEF BackendTypes, bvars, dbvars
  <2>4. BackendControl'
    BY <1>36, <1>bpc, <1>bcmd DEF Abort, ControlInv, BackendControl, InTransaction
  <2> QED
    BY <1>0, <2>1, <2>3, <2>4, Frames DEF TypeOK, ControlInv, lvars, tabvars, bvars, dbvars
<1>37. ASSUME NEW b \in Backend, BackendExits(b)
       PROVE  TypeOK' /\ ControlInv'
  <2>1. UNCHANGED <<lvars, total_workers, tabvars, mqvars, wvars, bcmd, lxid, bres, ack,
                        dbstate, installed>>
    BY <1>37 DEF BackendExits, bvars, dbvars
  <2>2. bpc' \in [Backend -> BackendPc]
    BY <1>bpc, <1>37 DEF BackendExits, BackendPc
  <2>3. BackendTypes'
    BY <1>0, <2>1, <2>2 DEF BackendTypes, bvars, dbvars
  <2>4. BackendControl'
    BY <1>37, <1>bpc, <1>bcmd DEF BackendExits, ControlInv, BackendControl, InTransaction
  <2> QED
    BY <1>0, <2>1, <2>3, <2>4, Frames DEF TypeOK, ControlInv, lvars, tabvars, bvars, dbvars
<1>38. ASSUME NEW d \in Db, CreateDatabase(d)
       PROVE  TypeOK' /\ ControlInv'
  <2>1. UNCHANGED <<lvars, total_workers, tabvars, mqvars, wvars, bpc, bcmd, lxid, bres,
                        ack, installed>>
    BY <1>38 DEF CreateDatabase, bvars, dbvars
  <2>2. dbstate' \in [Db -> {"none", "exists", "dropped"}]
    BY <1>dbstate, <1>38 DEF CreateDatabase
  <2>3. BackendTypes'
    BY <1>0, <2>1, <2>2 DEF BackendTypes, bvars, dbvars
  <2> QED
    BY <1>0, <2>1, <2>3, Frames DEF TypeOK, ControlInv, lvars, tabvars, bvars, dbvars
<1>39. CASE UNCHANGED vars
    BY <1>0, <1>39, Frames DEF vars, tabvars, bvars, dbvars, TypeOK, ControlInv
<1> QED
    BY <1>1, <1>2, <1>3, <1>4, <1>5, <1>6, <1>7, <1>8, <1>9, <1>10, <1>11, <1>12, <1>13,
       <1>14, <1>15, <1>16, <1>17, <1>18, <1>19, <1>20, <1>21, <1>22, <1>23, <1>24, <1>25,
       <1>26, <1>27, <1>28, <1>29, <1>30, <1>31, <1>32, <1>33, <1>34, <1>35, <1>36, <1>37,
       <1>38, <1>39
    DEF Next, Launcher, Scheduler, Client, Send, LauncherDecrementFails, LauncherDies, QueueSetLatchCrash

\* Every variable keeps its type, the counter stays within 0 .. the limit and
\* the queue within its capacity, launcher restarts and crashes included.
THEOREM TypeCorrect == Spec => []TypeOK
<1>1. Spec => [](TypeOK /\ ControlInv)
    BY TypeInit, TypeStep, PTL DEF Spec
<1> QED
    BY <1>1, PTL
=============================================================================
