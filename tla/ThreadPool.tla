----------------------------- MODULE ThreadPool -----------------------------
(***************************************************************************)
(* mstd::ThreadPool: worker threads that wait on a condition variable for  *)
(* tasks, any number of threads that call enqueue, and the destructor.     *)
(*                                                                         *)
(* _tasks is guarded by _queueMutex.  _stop is an atomic that the          *)
(* destructor sets WITHOUT the mutex, so that a store of it can fall       *)
(* between any two steps of a thread that holds the mutex.                 *)
(***************************************************************************)
EXTENDS Sequences

CONSTANTS
    Workers,    \* _workers
    Tasks,      \* tasks; each is enqueued by a thread of its own
    None

ASSUME NamesAssumption ==
    /\ None \notin Workers \cup Tasks
    /\ Workers \cap Tasks = {}

VARIABLES
    _queueMutex,    \* the thread that holds it
    _tasks,
    _stop,
    wpc, cur,       \* workers: location, the task taken
    cpc,            \* callers of enqueue: location
    dpc,            \* the destructor: location
    finished        \* history: tasks that have run

vars == <<_queueMutex, _tasks, _stop, wpc, cur, cpc, dpc, finished>>

WorkerLocs == {"lock", "check", "doze", "asleep", "take", "run", "exited"}
CallerLocs == {"idle", "lock", "test", "push", "notify", "returned", "thrown"}
DtorLocs   == {"none", "store", "notify", "join", "destroyed"}

TypeOK ==
    /\ _queueMutex \in Workers \cup Tasks \cup {None}
    /\ _tasks \in Seq(Tasks)
    /\ _stop \in BOOLEAN
    /\ wpc \in [Workers -> WorkerLocs]
    /\ cur \in [Workers -> Tasks \cup {None}]
    /\ \A w \in Workers : wpc[w] = "run" => cur[w] \in Tasks
    /\ cpc \in [Tasks -> CallerLocs]
    /\ dpc \in DtorLocs
    /\ finished \subseteq Tasks

Init ==
    /\ _queueMutex = None
    /\ _tasks = <<>>
    /\ _stop = FALSE
    /\ wpc = [w \in Workers |-> "lock"]
    /\ cur = [w \in Workers |-> None]
    /\ cpc = [t \in Tasks |-> "idle"]
    /\ dpc = "none"
    /\ finished = {}

Acquire(i) == _queueMutex = None /\ _queueMutex' = i
Release(i) == _queueMutex = i /\ _queueMutex' = None
WGoto(w, l) == wpc' = [wpc EXCEPT ![w] = l]
CGoto(t, l) == cpc' = [cpc EXCEPT ![t] = l]

-----------------------------------------------------------------------------
(* A worker thread.                                                        *)

(* Entering the critical section, the first time or on return from wait.   *)
Lock(w) ==
    /\ wpc[w] = "lock"
    /\ Acquire(w)
    /\ WGoto(w, "check")
    /\ UNCHANGED <<_tasks, _stop, cur, cpc, dpc, finished>>

(* Mutant: the predicate of the wait ignores _stop.                        *)
CheckNoStop(w) ==
    /\ wpc[w] = "check"
    /\ WGoto(w, IF _tasks # <<>> THEN "take" ELSE "doze")
    /\ UNCHANGED <<_queueMutex, _tasks, _stop, cur, cpc, dpc, finished>>

(* The predicate of _condition.wait.                                       *)
Check(w) ==
    /\ wpc[w] = "check"
    /\ WGoto(w, IF _stop \/ _tasks # <<>> THEN "take" ELSE "doze")
    /\ UNCHANGED <<_queueMutex, _tasks, _stop, cur, cpc, dpc, finished>>

(* wait releases the mutex and blocks, in one step as far as notify can    *)
(* tell.  A notification sent before it is not for this thread.            *)
Doze(w) ==
    /\ wpc[w] = "doze"
    /\ Release(w)
    /\ WGoto(w, "asleep")
    /\ UNCHANGED <<_tasks, _stop, cur, cpc, dpc, finished>>

(* A condition variable may wake a thread for no reason.                   *)
SpuriousWakeup(w) ==
    /\ wpc[w] = "asleep"
    /\ WGoto(w, "lock")
    /\ UNCHANGED <<_queueMutex, _tasks, _stop, cur, cpc, dpc, finished>>

(* Mutant: a stopped pool drops what is still queued.                      *)
ExitAtOnce(w) ==
    /\ wpc[w] = "take"
    /\ _stop
    /\ Release(w)
    /\ WGoto(w, "exited")
    /\ UNCHANGED <<_tasks, _stop, cur, cpc, dpc, finished>>

Exit(w) ==
    /\ wpc[w] = "take"
    /\ _stop /\ _tasks = <<>>
    /\ Release(w)
    /\ WGoto(w, "exited")
    /\ UNCHANGED <<_tasks, _stop, cur, cpc, dpc, finished>>

(* Mutant: the task is popped but not moved out.                           *)
TakeNoMove(w) ==
    /\ wpc[w] = "take"
    /\ ~(_stop /\ _tasks = <<>>)
    /\ _tasks' = Tail(_tasks)
    /\ Release(w)
    /\ WGoto(w, "run")
    /\ UNCHANGED <<_stop, cur, cpc, dpc, finished>>

(* Mutant: the task is read but not popped.                                *)
TakeNoPop(w) ==
    /\ wpc[w] = "take"
    /\ ~(_stop /\ _tasks = <<>>)
    /\ cur' = [cur EXCEPT ![w] = Head(_tasks)]
    /\ Release(w)
    /\ WGoto(w, "run")
    /\ UNCHANGED <<_tasks, _stop, cpc, dpc, finished>>

Take(w) ==
    /\ wpc[w] = "take"
    /\ ~(_stop /\ _tasks = <<>>)
    /\ cur' = [cur EXCEPT ![w] = Head(_tasks)]
    /\ _tasks' = Tail(_tasks)
    /\ Release(w)
    /\ WGoto(w, "run")
    /\ UNCHANGED <<_stop, cpc, dpc, finished>>

(* Mutant: the thread leaves its loop after a task.                        *)
RunOnce(w) ==
    /\ wpc[w] = "run"
    /\ finished' = finished \cup {cur[w]}
    /\ WGoto(w, "exited")
    /\ UNCHANGED <<_queueMutex, _tasks, _stop, cur, cpc, dpc>>

(* The task; an exception stays in its packaged_task.                      *)
Run(w) ==
    /\ wpc[w] = "run"
    /\ finished' = finished \cup {cur[w]}
    /\ WGoto(w, "lock")
    /\ UNCHANGED <<_queueMutex, _tasks, _stop, cur, cpc, dpc>>

Worker(w) == Lock(w) \/ Check(w) \/ Doze(w) \/ Exit(w) \/ Take(w) \/ Run(w)

-----------------------------------------------------------------------------
(* enqueue, called for task t.                                             *)

Call(t) ==
    /\ cpc[t] = "idle" /\ dpc # "destroyed"
    /\ CGoto(t, "lock")
    /\ UNCHANGED <<_queueMutex, _tasks, _stop, wpc, cur, dpc, finished>>

EnqueueLock(t) ==
    /\ cpc[t] = "lock"
    /\ Acquire(t)
    /\ CGoto(t, "test")
    /\ UNCHANGED <<_tasks, _stop, wpc, cur, dpc, finished>>

(* A stopped pool throws, and the unwinding releases the mutex.            *)
EnqueueTest(t) ==
    /\ cpc[t] = "test"
    /\ IF _stop THEN Release(t) /\ CGoto(t, "thrown")
                ELSE UNCHANGED _queueMutex /\ CGoto(t, "push")
    /\ UNCHANGED <<_tasks, _stop, wpc, cur, dpc, finished>>

EnqueuePush(t) ==
    /\ cpc[t] = "push"
    /\ _tasks' = Append(_tasks, t)
    /\ Release(t)
    /\ CGoto(t, "notify")
    /\ UNCHANGED <<_stop, wpc, cur, dpc, finished>>

Asleep == {w \in Workers : wpc[w] = "asleep"}

(* Mutant: no notification.                                                *)
EnqueueNoNotify(t) ==
    /\ cpc[t] = "notify"
    /\ CGoto(t, "returned")
    /\ UNCHANGED <<_queueMutex, _tasks, _stop, wpc, cur, dpc, finished>>

(* notify_one.                                                             *)
EnqueueNotify(t) ==
    /\ cpc[t] = "notify"
    /\ IF Asleep = {} THEN UNCHANGED wpc
                      ELSE \E w \in Asleep : WGoto(w, "lock")
    /\ CGoto(t, "returned")
    /\ UNCHANGED <<_queueMutex, _tasks, _stop, cur, dpc, finished>>

Enqueue(t) == EnqueueLock(t) \/ EnqueueTest(t) \/ EnqueuePush(t) \/ EnqueueNotify(t)

-----------------------------------------------------------------------------
(* ~ThreadPool.                                                            *)

Destroy ==
    /\ dpc = "none"
    /\ dpc' = "store"
    /\ UNCHANGED <<_queueMutex, _tasks, _stop, wpc, cur, cpc, finished>>

StoreStop ==
    /\ dpc = "store"
    /\ _stop' = TRUE
    /\ dpc' = "notify"
    /\ UNCHANGED <<_queueMutex, _tasks, wpc, cur, cpc, finished>>

NotifyAll ==
    /\ dpc = "notify"
    /\ wpc' = [w \in Workers |-> IF wpc[w] = "asleep" THEN "lock" ELSE wpc[w]]
    /\ dpc' = "join"
    /\ UNCHANGED <<_queueMutex, _tasks, _stop, cur, cpc, finished>>

Join ==
    /\ dpc = "join"
    /\ \A w \in Workers : wpc[w] = "exited"
    /\ dpc' = "destroyed"
    /\ UNCHANGED <<_queueMutex, _tasks, _stop, wpc, cur, cpc, finished>>

Dtor == StoreStop \/ NotifyAll \/ Join

-----------------------------------------------------------------------------
Next ==
    \/ \E w \in Workers : Worker(w) \/ SpuriousWakeup(w)
    \/ \E t \in Tasks : Call(t) \/ Enqueue(t)
    \/ Destroy
    \/ Dtor

Spec == Init /\ [][Next]_vars

(* Threads are scheduled.  Nobody need call enqueue or the destructor, and *)
(* nobody relies on a spurious wakeup.                                     *)
Fairness ==
    /\ \A w \in Workers : WF_vars(Worker(w))
    /\ \A t \in Tasks : WF_vars(Enqueue(t))
    /\ WF_vars(Dtor)

FairSpec == Spec /\ Fairness

-----------------------------------------------------------------------------
(* Properties.                                                             *)

(* No accepted task is lost at shutdown: once a worker has left, nothing    *)
(* is queued and no enqueue that found the pool running has still to push,  *)
(* although _stop is set without the mutex.                                 *)
Drained ==
    \A w \in Workers : wpc[w] = "exited" =>
        _stop /\ _tasks = <<>> /\ \A t \in Tasks : cpc[t] # "push"

(* The pool keeps the promise of TaskQueue.                                *)
Queue == INSTANCE TaskQueue WITH
    pending  <- _tasks,
    running  <- {cur[w] : w \in {v \in Workers : wpc[v] = "run"}},
    finished <- finished,
    drained  <- (\E w \in Workers : wpc[w] = "exited")

RefinesQueue == Queue!Spec

(* A task whose enqueue has pushed it is run, whatever the destructor does. *)
AcceptedRuns == \A t \in Tasks : (cpc[t] = "notify") ~> (t \in finished)

(* A worker blocks in wait only when there is nothing to do, or somebody    *)
(* has still to notify: no wake-up for a task is lost.                      *)
NoTaskWakeupLost ==
    (\A w \in Workers : wpc[w] = "asleep") /\ _tasks # <<>> /\ Workers # {}
        => \E t \in Tasks : cpc[t] = "notify"

(* The destructor returns if, once it has notified, no worker is asleep or  *)
(* on its way there.  (One that tested _stop before the store and blocks    *)
(* after the notification sleeps on: the store is not under the mutex.)     *)
JoinReturns ==
    (dpc = "join" /\ \A w \in Workers : wpc[w] \notin {"doze", "asleep"})
        ~> (dpc = "destroyed")
=============================================================================
