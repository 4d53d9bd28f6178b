----------------------------- MODULE WorkerPool -----------------------------
(***************************************************************************)
(* What the worker counter promises while one launcher process lives: a    *)
(* pool of Limit workers.  The launcher takes the first and keeps it; an   *)
(* owner holds at most one worker and takes it only when one is left.      *)
(***************************************************************************)
EXTENDS Naturals, FiniteSets

CONSTANTS Limit, Owner, LauncherOwner

VARIABLE held          \* the owners that hold a worker

Init == held = {}

Acquire(o) ==
    /\ o \notin held
    /\ o = LauncherOwner \/ LauncherOwner \in held
    /\ Cardinality(held) < Limit
    /\ held' = held \cup {o}

Release(o) ==
    /\ o \in held \ {LauncherOwner}
    /\ held' = held \ {o}

Next == \E o \in Owner : Acquire(o) \/ Release(o)

Spec == Init /\ [][Next]_held
=============================================================================
