----------------------------- MODULE TaskQueue -----------------------------
(***************************************************************************)
(* What a thread pool promises its users: every accepted task is started   *)
(* once, in the order of acceptance, and a pool that has started to shut   *)
(* down its threads holds no task and accepts none.                        *)
(***************************************************************************)
EXTENDS Sequences

CONSTANT Tasks

VARIABLES
    pending,    \* accepted, not started
    running,
    finished,
    drained     \* the pool has given up a thread

vars == <<pending, running, finished, drained>>

Known(t) == (\E i \in DOMAIN pending : pending[i] = t) \/ t \in running \cup finished

Init == pending = <<>> /\ running = {} /\ finished = {} /\ drained = FALSE

Submit(t) ==
    /\ ~drained
    /\ ~Known(t)
    /\ pending' = Append(pending, t)
    /\ UNCHANGED <<running, finished, drained>>

Start ==
    /\ pending # <<>>
    /\ running' = running \cup {Head(pending)}
    /\ pending' = Tail(pending)
    /\ UNCHANGED <<finished, drained>>

Finish(t) ==
    /\ t \in running
    /\ running' = running \ {t}
    /\ finished' = finished \cup {t}
    /\ UNCHANGED <<pending, drained>>

Drain ==
    /\ pending = <<>>
    /\ drained' = TRUE
    /\ UNCHANGED <<pending, running, finished>>

Next == Start \/ Drain \/ \E t \in Tasks : Submit(t) \/ Finish(t)

Spec == Init /\ [][Next]_vars
=============================================================================
