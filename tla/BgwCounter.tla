----------------------------- MODULE BgwCounter -----------------------------
(***************************************************************************)
(* The shared worker counter of the loader (src/loader/bgw_counter.c): an  *)
(* integer in shared memory that every TimescaleDB background worker of    *)
(* the instance is counted in.  Each operation holds a spin lock for its   *)
(* whole body, so each is one atomic step.                                 *)
(***************************************************************************)
EXTENDS Integers

CONSTANT MaxWorkers        \* the GUC timescaledb.max_background_workers

VARIABLE total_workers

\* The GUC's range is 0 .. 1000; nothing here depends on the upper end.
ASSUME MaxWorkersAssumption == MaxWorkers \in Nat

ts_bgw_counter_reinit == total_workers' = 0

CanIncrement == total_workers + 1 <= MaxWorkers

\* Variant: the limit is not looked at.
IncrementUnchecked ==
    total_workers' = total_workers + 1

ts_bgw_total_workers_increment ==
    /\ CanIncrement
    /\ total_workers' = total_workers + 1

\* "Launcher is 1 worker", so a release that would reach 0 is a FATAL error.
CanDecrement == total_workers - 1 >= 1

ts_bgw_total_workers_decrement ==
    /\ CanDecrement
    /\ total_workers' = total_workers - 1
=============================================================================
