--------------------------- MODULE ContinuousAggs ---------------------------
(***************************************************************************)
(* Continuous aggregates: how transactions that modify a hypertable leave  *)
(* invalidations (tsl/src/continuous_aggs/insert.c), and how each          *)
(* aggregate is materialized from them (materialize.c), also from within   *)
(* drop_chunks (src/chunk.c).                                              *)
(*                                                                         *)
(* A row is its time; whether it is there is all an aggregate depends on.  *)
(* The hypertable is the set of times with a row, and an aggregate is the  *)
(* set of the rows it was last computed from.  Times are integers of a     *)
(* bounded width, so that the ends of the range are within reach.          *)
(***************************************************************************)
EXTENDS Integers, FiniteSets, FiniteSetsExt

CONSTANTS
    IntMin, IntMax,  \* PG_INT64_MIN and PG_INT64_MAX
    Bucket,          \* bucket_width
    Point,           \* the times of rows
    Cagg,            \* continuous aggregates on the hypertable
    Lag,             \* refresh_lag of each
    Ignore,          \* ignore_invalidation_older_than of each
    MaxInterval,     \* max_interval_per_job
    Writer,          \* sessions that modify the hypertable
    Isolation,       \* isolation levels they use: "read", "snapshot"
    MaxTxn, MaxRows, \* bounds: transactions in all, rows of each
    Clock,           \* the times at which the clock is read
    OlderThan,       \* arguments of drop_chunks
    JobsFail         \* whether a materialization may fail

Int64 == IntMin .. IntMax

ASSUME ContinuousAggsAssumption ==
    /\ IntMin \in Int /\ IntMax \in Int /\ IntMin < 0 /\ 0 < IntMax
    /\ Bucket \in Nat \ {0} /\ IntMin % Bucket = 0
    /\ Point \subseteq Int64
    /\ Lag \in [Cagg -> Int64]
    /\ Ignore \in [Cagg -> 0 .. IntMax]
    /\ MaxInterval \in Bucket .. IntMax
    /\ Isolation \subseteq {"read", "snapshot"}
    /\ MaxTxn \in Nat /\ MaxRows \in Nat 
    /\ Clock \subseteq Int64 /\ Clock # {}
    /\ OlderThan \subseteq Int64
    /\ JobsFail \in BOOLEAN

VARIABLES
    now,        \* ts_get_now_internal
    raw,        \* times with a row in the hypertable
    dropped,    \* history: every time below has been dropped
    log,        \* continuous_aggs_hypertable_invalidation_log
    threshold,  \* continuous_aggs_invalidation_threshold, IntMin without a row
    mlog,       \* per aggregate: continuous_aggs_materialization_invalidation_log
    completed,  \* per aggregate: continuous_aggs_completed_threshold
    mat,        \* per aggregate: the rows its materialization was computed from
    excused,    \* history, per aggregate: rows it may differ in because they
                \* were too old when they changed
    tx,         \* per writer: its transaction
    txns,       \* transactions begun
    job,        \* per aggregate: its materialization
    drop        \* drop_chunks

vars == <<now, raw, dropped, log, threshold, mlog, completed, mat, excused, tx,
          txns, job, drop>>

-----------------------------------------------------------------------------
(* Arithmetic on 64-bit integers and time ranges [start, end). *)

Clamp(n) == IF n < IntMin THEN IntMin ELSE IF n > IntMax THEN IntMax ELSE n
int64_saturating_add(a, b) == Clamp(a + b)
int64_saturating_sub(a, b) == Clamp(a - b)
Wrap(n) == ((n - IntMin) % (IntMax - IntMin + 1)) + IntMin
int64_min(a, b) == IF a < b THEN a ELSE b

ts_time_bucket_by_type(t) == (t \div Bucket) * Bucket

TimeRange(start, end) == [start |-> start, end |-> end]
NoRange == TimeRange(0, 0)
InRange(t, r) == r.start <= t /\ t < r.end
range_length(r) == int64_saturating_sub(r.end, r.start)

range_clamp_end(r, end) ==
    IF end = IntMax THEN r
    ELSE IF end < r.start THEN TimeRange(end, end)
    ELSE TimeRange(r.start, int64_min(r.end, end))

\* The end moves to that of the entry, wherever it was, if the entry starts
\* before MaxEnd.
MaxEnd(start) == ts_time_bucket_by_type(int64_saturating_add(start, MaxInterval))
range_expand_right(start, cover) == TimeRange(start, int64_min(cover.end, MaxEnd(start)))

ranges_overlap(r, s) == ~(r.end < s.start \/ s.end < r.start)

\* range_check raises an error for a range that is not made of buckets.
range_check(r) ==
    /\ r.start <= r.end
    /\ \/ r.start = r.end
       \/ /\ r.start \in {IntMin, ts_time_bucket_by_type(r.start)}
          /\ r.end = ts_time_bucket_by_type(r.end)

\* The first time that is still invalidated by a modification made at mod.
ts_continuous_aggs_get_minimum_invalidation_time(mod, ignore) ==
    IF ignore = IntMax \/ ignore > mod THEN IntMin
    ELSE IF ignore = 0 THEN IntMax
    ELSE mod - ignore

ts_continuous_aggs_max_ignore_invalidation_older_than == Max({Ignore[c] : c \in Cagg})

-----------------------------------------------------------------------------
(* Initial states. *)

NoTx == [pc |-> "idle", iso |-> "read", rows |-> {}, mod |-> 0,
         lowest |-> IntMax, greatest |-> IntMin, append |-> FALSE]

NoJob == [pc |-> "idle", seen |-> {}, drained |-> {}, range |-> NoRange,
          new |-> FALSE, end |-> 0, saved |-> {}, mat |-> {}]

NoDrop == [pc |-> "idle", older |-> 0, todo |-> {}, drained |-> {},
           mlog |-> [c \in Cagg |-> {}], mat |-> [c \in Cagg |-> {}]]

Init ==
    /\ now = Min(Clock)
    /\ raw \in SUBSET Point
    /\ dropped = IntMin
    /\ log = {}
    /\ threshold = IntMin
    /\ mlog = [c \in Cagg |-> {}]
    /\ completed = [c \in Cagg |-> IntMin]
    /\ mat = [c \in Cagg |-> {}]
    /\ excused = [c \in Cagg |-> {}]
    /\ tx = [w \in Writer |-> NoTx]
    /\ txns = 0
    /\ job = [c \in Cagg |-> NoJob]
    /\ drop = NoDrop

Tick ==
    /\ \E n \in Clock : now < n /\ now' = n
    /\ UNCHANGED <<raw, dropped, log, threshold, mlog, completed, mat, excused, tx,
                   txns, job, drop>>

-----------------------------------------------------------------------------
(* Transactions that modify the hypertable. *)

update_cache_entry(x, t) ==
    IF t < ts_continuous_aggs_get_minimum_invalidation_time(
               x.mod, ts_continuous_aggs_max_ignore_invalidation_older_than)
    THEN x
    ELSE [x EXCEPT !.lowest = int64_min(t, @),
                   !.greatest = IF t > @ THEN t ELSE @]

\* Chunks that are being dropped are locked.
Locked(t) == drop.pc = "run" /\ t < drop.older

\* The row at t is inserted, or deleted if it is there, and the trigger runs.
\* The entry of the hypertable is made by the first row of the transaction.
continuous_agg_trigfn(w) ==
    \E t \in Point, iso \in Isolation :
        /\ \/ /\ tx[w].pc = "idle" /\ txns < MaxTxn
              /\ txns' = txns + 1
           \/ /\ tx[w].pc = "open" /\ iso = tx[w].iso
              /\ Cardinality(tx[w].rows) < MaxRows
              /\ UNCHANGED txns
        /\ ~Locked(t)
        /\ \A v \in Writer : t \notin tx[v].rows
        /\ LET entry == IF tx[w].pc = "open" THEN tx[w]
                        ELSE [NoTx EXCEPT !.pc = "open", !.iso = iso, !.mod = now]
           IN  tx' = [tx EXCEPT ![w] =
                         [update_cache_entry(entry, t) EXCEPT !.rows = @ \cup {t}]]
        /\ UNCHANGED <<now, raw, dropped, log, threshold, mlog, completed, mat, excused,
                       job, drop>>

\* Variant: an entry without a value counts as one.
value_is_set_always(x) == TRUE

value_is_set(x) == x.lowest <= x.greatest

\* The share lock on the threshold is held from here until the end of the
\* transaction.
cache_inval_htab_write(w) ==
    /\ tx[w].pc = "open"
    /\ tx' = [tx EXCEPT ![w].pc = "precommit",
                        ![w].append = /\ value_is_set(tx[w])
                                      /\ \/ tx[w].iso = "snapshot"
                                         \/ tx[w].lowest < threshold]
    /\ UNCHANGED <<now, raw, dropped, log, threshold, mlog, completed, mat, excused,
                   txns, job, drop>>

Entry(x) == [mod |-> x.mod, low |-> x.lowest, high |-> x.greatest]

Commit(w) ==
    /\ tx[w].pc = "precommit"
    /\ raw' = SymDiff(raw, tx[w].rows)
    /\ log' = IF tx[w].append THEN log \cup {Entry(tx[w])} ELSE log
    /\ excused' = [c \in Cagg |-> excused[c] \cup
           {t \in tx[w].rows :
               t < ts_continuous_aggs_get_minimum_invalidation_time(tx[w].mod, Ignore[c])}]
    /\ tx' = [tx EXCEPT ![w] = NoTx]
    /\ UNCHANGED <<now, dropped, threshold, mlog, completed, mat, txns, job, drop>>

Abort(w) ==
    /\ tx[w].pc # "idle"
    /\ tx' = [tx EXCEPT ![w] = NoTx]
    /\ UNCHANGED <<now, raw, dropped, log, threshold, mlog, completed, mat, excused,
                   txns, job, drop>>

-----------------------------------------------------------------------------
(* The steps a materialization is made of. *)

\* What an aggregate keeps of the entries drained from the hypertable's log.
insert_materialization_invalidation_logs(c, entries) ==
    LET min(e) == ts_continuous_aggs_get_minimum_invalidation_time(e.mod, Ignore[c])
    IN  {[low |-> IF e.low < min(e) THEN min(e) ELSE e.low, high |-> e.high] :
            e \in {d \in entries : d.high >= min(d)}}

\* The last bucket covers prior.
PriorBucketed(prior) ==
    LET b == ts_time_bucket_by_type(prior)
    IN  IF b = prior THEN b ELSE int64_saturating_add(b, Bucket)


\* The buckets of an entry that are materialized and before prior.
EntryRange(e, done, prior) ==
    LET r == range_clamp_end(
                 TimeRange(ts_time_bucket_by_type(e.low),
                       int64_saturating_add(ts_time_bucket_by_type(e.high), Bucket)), done)
    IN  IF prior = IntMax THEN r ELSE range_clamp_end(r, PriorBucketed(prior))

\* The ranges the scan can arrive at.  It starts at the first entry and is
\* expanded to the entries in the order of their lowest values, each of which
\* sets the end anew, so the last one that is within reach decides.  The index
\* does not order entries that start at the same value.
materialization_invalidation_log_get_range(entries, done, prior) ==
    LET rng(e) == EntryRange(e, done, prior)
        found == {e \in entries : /\ ts_time_bucket_by_type(e.low) < done
                                  /\ range_length(rng(e)) # 0}
        first == Min({rng(e).start : e \in found})
        near == {e \in found : MaxEnd(first) > rng(e).start}
        last == {e \in near : \A d \in near : d.low <= e.low}
    IN  IF found = {} THEN {NoRange} ELSE {range_expand_right(first, rng(e)) : e \in last}

\* range_cut_invalidation_entry_left raises an error for an entry that starts
\* before the range.
CanCut(entries, r, done) == \A e \in entries : e.low < done => r.start <= e.low

CutEntry(e, r, done) ==
    [low  |-> IF r.end <= e.low THEN e.low ELSE r.end,
     high |-> IF e.high >= done THEN int64_saturating_sub(done, 1) ELSE e.high]

materialization_invalidation_log_delete_or_cut(entries, r, done) ==
    LET kept == {e \in entries : e.low < done /\ r.end <= e.high}
    IN  {e \in {CutEntry(d, r, done) : d \in kept} : e.low <= e.high}

\* Variant: the bucket of the last row is left out.
EndPointWithoutLastBucket(c, seen, max, done) ==
    LET rows  == {t \in seen : t >= done}
        start == IF done = IntMin THEN Min(rows) ELSE done
        time  == IF Lag[c] < 0 /\ now >= IntMax + Lag[c] THEN IntMax + Lag[c] ELSE now
        lagged == ts_time_bucket_by_type(time - Lag[c])
        last  == ts_time_bucket_by_type(Max(rows))
        end   == IF Max(rows) < lagged THEN int64_min(last, lagged) ELSE lagged
        none  == [new |-> FALSE, end |-> done, truncated |-> FALSE]
    IN  IF rows = {} \/ (Lag[c] >= 0 /\ now <= IntMin + Lag[c]) THEN none
        ELSE IF lagged <= start THEN none
        ELSE IF Wrap(end - start) > max
             THEN [new |-> TRUE, end |-> ts_time_bucket_by_type(Wrap(start + max)),
                   truncated |-> TRUE]
        ELSE [new |-> TRUE, end |-> end, truncated |-> FALSE]

\* The end of the new range of an aggregate whose job sees the rows of seen,
\* may take max time units more, and has materialized up to done.
get_materialization_end_point_for_table(c, seen, max, done) ==
    LET rows  == {t \in seen : t >= done}
        start == IF done = IntMin THEN Min(rows) ELSE done
        time  == IF Lag[c] < 0 /\ now >= IntMax + Lag[c] THEN IntMax + Lag[c] ELSE now
        lagged == ts_time_bucket_by_type(time - Lag[c])
        last  == int64_saturating_add(ts_time_bucket_by_type(Max(rows)), Bucket)
        end   == IF Max(rows) < lagged THEN int64_min(last, lagged) ELSE lagged
        none  == [new |-> FALSE, end |-> done, truncated |-> FALSE]
    IN  IF rows = {} \/ (Lag[c] >= 0 /\ now <= IntMin + Lag[c]) THEN none
        ELSE IF lagged <= start THEN none
        ELSE IF Wrap(end - start) > max
             THEN [new |-> TRUE, end |-> ts_time_bucket_by_type(Wrap(start + max)),
                   truncated |-> TRUE]
        ELSE [new |-> TRUE, end |-> end, truncated |-> FALSE]

\* Rows of m outside r, and those of the hypertable in r.
spi_update_materializations(m, r) ==
    {t \in m : ~InRange(t, r)} \cup {t \in raw : InRange(t, r)}

-----------------------------------------------------------------------------
(* continuous_agg_materialize, as a policy job or REFRESH runs it. *)

\* Transaction 1 takes its snapshot and the locks that keep other
\* materializations of the aggregate out.
MaterializeStart(c) ==
    /\ job[c].pc = "idle" /\ drop.pc = "idle"
    /\ job' = [job EXCEPT ![c] = [NoJob EXCEPT !.pc = "drain", !.seen = raw]]
    /\ UNCHANGED <<now, raw, dropped, log, threshold, mlog, completed, mat, excused, tx,
                   txns, drop>>

\* Another transaction has taken entries of the log and not finished.
OtherDrain(c) == \E d \in Cagg \ {c} : job[d].drained # {}

\* The entries the other is deleting are visible, and deleting them waits.
DrainWait(c) ==
    /\ job[c].pc = "drain" /\ OtherDrain(c)
    /\ job' = [job EXCEPT ![c].pc = "wait"]
    /\ UNCHANGED <<now, raw, dropped, log, threshold, mlog, completed, mat, excused, tx,
                   txns, drop>>

drain_invalidation_log(c) ==
    /\ job[c].pc = "drain" /\ ~OtherDrain(c)
    /\ LET own == mlog[c] \cup insert_materialization_invalidation_logs(c, log)
       IN \E r \in materialization_invalidation_log_get_range(own, completed[c], IntMax) :
            LET point == IF range_length(r) >= MaxInterval
                         THEN [new |-> FALSE, end |-> completed[c], truncated |-> TRUE]
                         ELSE get_materialization_end_point_for_table(c, job[c].seen,
                                  MaxInterval - range_length(r), completed[c])
            IN  job' = [job EXCEPT ![c] = [NoJob EXCEPT !.pc = "threshold", !.drained = log,
                            !.range = r, !.new = point.new, !.end = point.end]]
    /\ log' = {}
    /\ UNCHANGED <<now, raw, dropped, threshold, mlog, completed, mat, excused, tx, txns,
                   drop>>

\* Variant: the lock does not conflict with that of the writers.
invalidation_threshold_set_unlocked(c) ==
    threshold' = IF job[c].new /\ job[c].end > threshold THEN job[c].end ELSE threshold

\* Variant: the threshold of another aggregate is overwritten.
invalidation_threshold_overwrite(c) ==
    /\ job[c].new => \A w \in Writer : tx[w].pc # "precommit"
    /\ threshold' = IF job[c].new THEN job[c].end ELSE threshold

\* Variant: a threshold that is there is not raised.
invalidation_threshold_set_once(c) ==
    /\ job[c].new => \A w \in Writer : tx[w].pc # "precommit"
    /\ threshold' = IF job[c].new /\ threshold = IntMin THEN job[c].end ELSE threshold

\* The exclusive lock waits for the transactions that hold the share lock.
invalidation_threshold_set(c) ==
    /\ job[c].new => \A w \in Writer : tx[w].pc # "precommit"
    /\ threshold' = IF job[c].new /\ job[c].end > threshold THEN job[c].end ELSE threshold

\* Those that wait for a drain fail when it commits, and go on when it aborts.
EndDrain(c, pc) ==
    [d \in Cagg |-> IF d # c /\ job[d].pc = "wait" /\ job[c].drained # {}
                    THEN IF pc = "idle" THEN NoJob ELSE [job[d] EXCEPT !.pc = pc]
                    ELSE job[d]]

\* The rest of transaction 1 and its commit.
CommitThreshold(c) ==
    /\ job[c].pc = "threshold"
    /\ invalidation_threshold_set(c)
    /\ mlog' = [d \in Cagg |-> mlog[d] \cup
                   insert_materialization_invalidation_logs(d, job[c].drained)]
    /\ job' = [EndDrain(c, "idle") EXCEPT ![c].pc = "cut", ![c].drained = {}]
    /\ UNCHANGED <<now, raw, dropped, log, completed, mat, excused, tx, txns, drop>>

\* The range of new rows, and whether invalidations are materialized apart.
NewRange(c) == TimeRange(completed[c], IF job[c].end < IntMax THEN job[c].end
                                       ELSE ts_time_bucket_by_type(job[c].end))
Separately(c) ==
    range_length(job[c].range) > 0 /\ ~ranges_overlap(job[c].range, NewRange(c))
Combined(c) ==
    IF range_length(job[c].range) = 0 \/ Separately(c) THEN NewRange(c)
    ELSE TimeRange(int64_min(job[c].range.start, completed[c]), NewRange(c).end)

\* Transaction 2: with nothing to materialize it ends here.
CutInvalidations(c) ==
    /\ job[c].pc = "cut"
    /\ CanCut(mlog[c], job[c].range, completed[c])
    /\ mlog' = [mlog EXCEPT ![c] =
                    materialization_invalidation_log_delete_or_cut(@, job[c].range, completed[c])]
    /\ job' = [job EXCEPT ![c] =
           IF ~job[c].new /\ range_length(job[c].range) = 0 THEN NoJob
           ELSE [job[c] EXCEPT !.pc = IF Separately(c) THEN "invalid" ELSE "new",
                               !.saved = mlog[c], !.mat = mat[c]]]
    /\ UNCHANGED <<now, raw, dropped, log, threshold, completed, mat, excused, tx, txns,
                   drop>>

UpdateInvalid(c) ==
    /\ job[c].pc = "invalid"
    /\ job' = [job EXCEPT ![c].pc = "new",
                          ![c].mat = spi_update_materializations(@, job[c].range)]
    /\ UNCHANGED <<now, raw, dropped, log, threshold, mlog, completed, mat, excused, tx,
                   txns, drop>>

UpdateNew(c) ==
    /\ job[c].pc = "new"
    /\ job' = [job EXCEPT ![c].pc = "completed",
                          ![c].mat = spi_update_materializations(@, Combined(c))]
    /\ UNCHANGED <<now, raw, dropped, log, threshold, mlog, completed, mat, excused, tx,
                   txns, drop>>

\* The completed threshold is set and transaction 2 commits.
continuous_aggs_completed_threshold_set(c) ==
    /\ job[c].pc = "completed"
    /\ completed' = [completed EXCEPT ![c] = NewRange(c).end]
    /\ mat' = [mat EXCEPT ![c] = job[c].mat]
    /\ excused' = [excused EXCEPT ![c] = @ \cap SymDiff(raw, job[c].mat)]
    /\ job' = [job EXCEPT ![c] = NoJob]
    /\ UNCHANGED <<now, raw, dropped, log, threshold, mlog, tx, txns, drop>>

\* The transaction of a job aborts.
Rollback(c) ==
    /\ log' = log \cup job[c].drained
    /\ mlog' = IF job[c].pc \notin {"invalid", "new", "completed"} THEN mlog
               ELSE [mlog EXCEPT ![c] = job[c].saved \cup
                        (@ \ materialization_invalidation_log_delete_or_cut(
                                 job[c].saved, job[c].range, completed[c]))]
    /\ job' = [EndDrain(c, "drain") EXCEPT ![c] = NoJob]
    /\ UNCHANGED <<now, raw, dropped, threshold, completed, mat, excused, tx, txns, drop>>

CutError(c) ==
    /\ job[c].pc = "cut"
    /\ ~CanCut(mlog[c], job[c].range, completed[c])
    /\ Rollback(c)

MaterializeFail(c) ==
    /\ JobsFail
    /\ job[c].pc # "idle"
    /\ Rollback(c)

-----------------------------------------------------------------------------
(* drop_chunks with cascade_to_materializations => FALSE. *)



\* The chunks are locked, which waits for those who modified them.  It also
\* waits for the materializations that run.
ts_chunk_drop_process_materialization(older) ==
    /\ drop.pc = "idle"
    /\ \A c \in Cagg : job[c].pc = "idle"
    /\ older <= ts_continuous_aggs_get_minimum_invalidation_time(
                    now, ts_continuous_aggs_max_ignore_invalidation_older_than)
    /\ \A c \in Cagg : older <= completed[c]
    /\ \A w \in Writer : \A t \in tx[w].rows : older <= t
    /\ drop' = [pc |-> "run", older |-> older, todo |-> Cagg, drained |-> {},
                mlog |-> mlog, mat |-> mat]
    /\ UNCHANGED <<now, raw, dropped, log, threshold, mlog, completed, mat, excused, tx,
                   txns, job>>

\* One round of continuous_agg_materialize in the transaction of drop_chunks,
\* for invalidations only.
DropMaterialize(c) ==
    /\ drop.pc = "run" /\ c \in drop.todo
    /\ LET all == [d \in Cagg |-> mlog[d] \cup insert_materialization_invalidation_logs(d, log)]
       IN \E r \in materialization_invalidation_log_get_range(all[c], completed[c], drop.older) :
            /\ CanCut(all[c], r, completed[c])
            /\ mlog' = [all EXCEPT ![c] =
                    materialization_invalidation_log_delete_or_cut(@, r, completed[c])]
            /\ mat' = [mat EXCEPT ![c] = spi_update_materializations(@, r)]
            /\ drop' = [drop EXCEPT !.drained = @ \cup log,
                           !.todo = IF range_length(r) >= MaxInterval THEN @ ELSE @ \ {c}]
    /\ log' = {}
    /\ UNCHANGED <<now, raw, dropped, threshold, completed, excused, tx, txns, job>>

ts_chunk_do_drop_chunks ==
    /\ drop.pc = "run" /\ drop.todo = {}
    /\ raw' = {t \in raw : drop.older <= t}
    /\ dropped' = IF drop.older > dropped THEN drop.older ELSE dropped
    /\ drop' = NoDrop
    /\ UNCHANGED <<now, log, threshold, mlog, completed, mat, excused, tx, txns, job>>

\* An error, such as that of a cut, or a cancelled query.
DropFail ==
    /\ drop.pc = "run"
    /\ log' = log \cup drop.drained
    /\ mlog' = drop.mlog
    /\ mat' = drop.mat
    /\ drop' = NoDrop
    /\ UNCHANGED <<now, raw, dropped, threshold, completed, excused, tx, txns, job>>

-----------------------------------------------------------------------------
(* Specification. *)

WriterNext(w) ==
    \/ continuous_agg_trigfn(w)
    \/ cache_inval_htab_write(w)
    \/ Commit(w)
    \/ Abort(w)

MaterializeStep(c) ==
    \/ MaterializeStart(c)
    \/ DrainWait(c)
    \/ drain_invalidation_log(c)
    \/ CommitThreshold(c)
    \/ CutInvalidations(c)
    \/ CutError(c)
    \/ UpdateInvalid(c)
    \/ UpdateNew(c)
    \/ continuous_aggs_completed_threshold_set(c)

DropNext ==
    \/ \E older \in OlderThan : ts_chunk_drop_process_materialization(older)
    \/ \E c \in Cagg : DropMaterialize(c)
    \/ ts_chunk_do_drop_chunks
    \/ DropFail

Next ==
    \/ Tick
    \/ \E w \in Writer : WriterNext(w)
    \/ \E c \in Cagg : MaterializeStep(c) \/ MaterializeFail(c)
    \/ DropNext

Spec == Init /\ [][Next]_vars

\* The clock runs, transactions end, and the policy job of each aggregate is
\* started again for ever.
Fairness ==
    /\ WF_vars(Tick)
    /\ \A w \in Writer : WF_vars(cache_inval_htab_write(w)) /\ WF_vars(Commit(w))
    /\ \A c \in Cagg : SF_vars(MaterializeStep(c))
    /\ WF_vars(DropFail \/ ts_chunk_do_drop_chunks)

FairSpec == Spec /\ Fairness

-----------------------------------------------------------------------------
(* Properties. *)

\* Every component of the state has its type.
TypeOK ==
    /\ now \in Int64 /\ threshold \in Int64 /\ dropped \in Int64 /\ txns \in 0 .. MaxTxn
    /\ raw \in SUBSET Point
    /\ \A e \in log : e.mod \in Int64 /\ e.low \in Point /\ e.high \in Point
    /\ \A c \in Cagg :
          /\ \A e \in mlog[c] : e.low \in Int64 /\ e.high \in Int64
          /\ completed[c] \in Int64
          /\ mat[c] \in SUBSET Point /\ excused[c] \in SUBSET Point
          /\ job[c].pc \in {"idle", "drain", "wait", "threshold", "cut", "invalid", "new",
                            "completed"}
          /\ job[c].end \in Int64
    /\ \A w \in Writer : tx[w].pc \in {"idle", "open", "precommit"}

\* What is committed of an aggregate while drop_chunks runs.
Materialized(c) == IF drop.pc = "run" THEN drop.mat[c] ELSE mat[c]

\* An invalidation of t is on its way to aggregate c.
Invalidated(c, t) ==
    \/ \E e \in log \cup drop.drained \cup UNION {job[d].drained : d \in Cagg} :
          /\ e.low <= t /\ t <= e.high
          /\ ts_continuous_aggs_get_minimum_invalidation_time(e.mod, Ignore[c]) <= t
    \/ \E e \in (IF drop.pc = "run" THEN drop.mlog[c] ELSE mlog[c] \cup job[c].saved) :
          e.low <= t /\ t <= e.high

\* No invalidation is lost: below its completed threshold an aggregate shows
\* what the hypertable holds, unless an invalidation is waiting for it, the
\* change was older than ignore_invalidation_older_than when it was made, or
\* the data was dropped.  (NOTE of invalidation_threshold_set.)
NoLostInvalidation ==
    \A c \in Cagg : \A t \in Point :
        /\ t < completed[c]
        /\ (t \in raw) # (t \in Materialized(c))
        /\ t \notin excused[c]
        /\ t >= dropped
        => Invalidated(c, t)

\* Writers invalidate every row that some aggregate has materialized: nothing
\* is materialized, or being materialized, past the invalidation threshold.
MaterializedBelowThreshold ==
    \A c \in Cagg :
        /\ completed[c] <= threshold
        /\ \A t \in mat[c] : t < completed[c]
        /\ job[c].pc \in {"new", "completed"} => job[c].end <= threshold


\* The watermarks only move forward.
WatermarksAdvance ==
    [][/\ threshold <= threshold'
       /\ \A c \in Cagg : completed[c] <= completed'[c]]_vars

\* When drop_chunks goes on to drop the chunks, the invalidations of their
\* region have been processed.  ("This will loop until all invalidations are
\* done", chunk.c:2853.)
DropProcessesInvalidations ==
    drop.pc = "run" /\ drop.todo = {} =>
        \A c \in Cagg : \A e \in mlog[c] \cup insert_materialization_invalidation_logs(c, log) :
            e.low >= drop.older


\* An aggregate catches up: up to the clock less its refresh_lag, and except
\* for what it may ignore, it comes to show what the hypertable holds.
Target(c) == ts_time_bucket_by_type(Max(Clock) - Lag[c])
Fresh(c) ==
    \A t \in Point : t < Target(c) /\ t \notin excused[c] /\ t >= dropped =>
        (t \in raw) = (t \in mat[c])
CatchesUp == \A c \in Cagg : <>[]Fresh(c)

=============================================================================
