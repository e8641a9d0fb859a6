-------------------------- MODULE ThreadPoolProofs --------------------------
(***************************************************************************)
(* Proofs about ThreadPool, for any number of workers and callers: its     *)
(* type invariant, that shutdown loses no accepted task, and that it       *)
(* implements TaskQueue.                                                   *)
(***************************************************************************)
EXTENDS ThreadPool, Integers, TLAPS

(* Whoever is inside a critical section holds the mutex.                   *)
Guarded ==
    /\ \A w \in Workers : wpc[w] \in {"check", "doze", "take"} => _queueMutex = w
    /\ \A t \in Tasks : cpc[t] \in {"test", "push"} => _queueMutex = t

(* A worker past the wait has something to do: the predicate it saw true   *)
(* cannot turn false while it holds the mutex.                             *)
Awake == \A w \in Workers : wpc[w] = "take" => _stop \/ _tasks # <<>>

IInv == TypeOK /\ Guarded /\ Awake /\ Drained

(* The initial state satisfies the inductive invariant.                    *)
LEMMA InitIInv == Init => IInv
<1> SUFFICES ASSUME Init
             PROVE  IInv
    OBVIOUS
<1>1. TypeOK
    <2>1. _stop \in BOOLEAN
        BY DEF Init
    <2>2. _tasks \in Seq(Tasks) /\ finished \subseteq Tasks /\ dpc \in DtorLocs
        BY DEF Init, DtorLocs
    <2>3. /\ wpc \in [Workers -> WorkerLocs]
          /\ cur \in [Workers -> Tasks \cup {None}]
          /\ \A w \in Workers : wpc[w] = "run" => cur[w] \in Tasks
          /\ cpc \in [Tasks -> CallerLocs]
        BY DEF Init, WorkerLocs, CallerLocs
    <2> QED
        BY <2>1, <2>2, <2>3 DEF Init, TypeOK
<1>2. Guarded /\ Awake /\ Drained
    BY DEF Init, Guarded, Awake, Drained
<1> QED
    BY <1>1, <1>2 DEF IInv

(* Every step of a worker, a caller or the destructor keeps it.            *)
LEMMA StepIInv == IInv /\ [Next]_vars => IInv'
<1> SUFFICES ASSUME IInv, [Next]_vars
             PROVE  IInv'
    OBVIOUS
<1> USE NamesAssumption DEF IInv, TypeOK, Guarded, Awake, Drained, WorkerLocs,
        CallerLocs, DtorLocs, WGoto, CGoto, Acquire, Release
<1>1. ASSUME NEW w \in Workers, Lock(w)           PROVE IInv'
    BY <1>1 DEF Lock
<1>2. ASSUME NEW w \in Workers, Check(w)          PROVE IInv'
    BY <1>2 DEF Check
<1>3. ASSUME NEW w \in Workers, Doze(w)           PROVE IInv'
    BY <1>3 DEF Doze
<1>4. ASSUME NEW w \in Workers, SpuriousWakeup(w) PROVE IInv'
    BY <1>4 DEF SpuriousWakeup
<1>5. ASSUME NEW w \in Workers, Exit(w)           PROVE IInv'
    BY <1>5 DEF Exit
<1>6. ASSUME NEW w \in Workers, Take(w)           PROVE IInv'
    <2>1. _tasks # <<>>
        BY <1>6 DEF Take
    <2>2. Head(_tasks) \in Tasks /\ Tail(_tasks) \in Seq(Tasks)
        BY <2>1
    <2>3. TypeOK' /\ Guarded' /\ Awake'
        BY <1>6, <2>2 DEF Take
    <2>4. Drained'
        BY <1>6, <2>1 DEF Take
    <2> QED
        BY <2>3, <2>4
<1>7. ASSUME NEW w \in Workers, Run(w)            PROVE IInv'
    BY <1>7 DEF Run
<1>8. ASSUME NEW t \in Tasks, Call(t)             PROVE IInv'
    BY <1>8 DEF Call
<1>9. ASSUME NEW t \in Tasks, EnqueueLock(t)      PROVE IInv'
    BY <1>9 DEF EnqueueLock
<1>10. ASSUME NEW t \in Tasks, EnqueueTest(t)     PROVE IInv'
    BY <1>10 DEF EnqueueTest
<1>11. ASSUME NEW t \in Tasks, EnqueuePush(t)     PROVE IInv'
    <2>1. Append(_tasks, t) \in Seq(Tasks) /\ Append(_tasks, t) # <<>>
        OBVIOUS
    <2>2. \A w \in Workers : wpc[w] # "exited"
        BY <1>11 DEF EnqueuePush
    <2> QED
        BY <1>11, <2>1, <2>2 DEF EnqueuePush
<1>12. ASSUME NEW t \in Tasks, EnqueueNotify(t)   PROVE IInv'
    BY <1>12 DEF EnqueueNotify, Asleep
<1>13. CASE Destroy
    BY <1>13 DEF Destroy
<1>14. CASE StoreStop
    BY <1>14 DEF StoreStop
<1>15. CASE NotifyAll
    BY <1>15 DEF NotifyAll
<1>16. CASE Join
    BY <1>16 DEF Join
<1>17. CASE UNCHANGED vars
    BY <1>17 DEF vars
<1> QED
    BY <1>1, <1>2, <1>3, <1>4, <1>5, <1>6, <1>7, <1>8, <1>9, <1>10, <1>11, <1>12,
       <1>13, <1>14, <1>15, <1>16, <1>17
       DEF Next, Worker, Enqueue, Dtor

(* The inductive invariant holds in every reachable state.                 *)
THEOREM Invariance == Spec => []IInv
BY InitIInv, StepIInv, PTL DEF Spec

(* Every variable keeps its type; in particular a worker that runs has     *)
(* taken a task, so front() is never called on an empty queue.             *)
THEOREM TypeCorrect == Spec => []TypeOK
BY Invariance, PTL DEF IInv

(* Shutdown loses no accepted task: once a worker has left, the queue is   *)
(* empty and stays so.                                                     *)
THEOREM NoTaskLost == Spec => []Drained
BY Invariance, PTL DEF IInv

-----------------------------------------------------------------------------
(* Wake-ups.                                                               *)

(* Who dozes off saw an empty queue under the mutex, and a task that waits *)
(* has a notification or an active worker to look forward to.              *)
WakeInv ==
    /\ \A w \in Workers : wpc[w] = "doze" => _tasks = <<>>
    /\ _tasks # <<>> /\ Workers # {} =>
          \/ \E t \in Tasks : cpc[t] = "notify"
          \/ \E w \in Workers : wpc[w] \in {"lock", "check", "take", "run"}

(* Every step preserves this, given the inductive invariant.               *)
LEMMA StepWake == IInv /\ WakeInv /\ [Next]_vars => WakeInv'
<1> SUFFICES ASSUME IInv, WakeInv, [Next]_vars
             PROVE  WakeInv'
    OBVIOUS
<1> USE NamesAssumption
        DEF IInv, TypeOK, Guarded, WakeInv, WorkerLocs, CallerLocs, WGoto, CGoto,
            Acquire, Release
<1>1. ASSUME NEW w \in Workers, Lock(w) \/ Check(w) \/ Run(w) \/ SpuriousWakeup(w)
      PROVE  WakeInv'
    BY <1>1 DEF Lock, Check, Run, SpuriousWakeup
<1>2. ASSUME NEW w \in Workers, Doze(w) \/ Exit(w)  PROVE WakeInv'
    BY <1>2 DEF Doze, Exit
<1>3. ASSUME NEW w \in Workers, Take(w)             PROVE WakeInv'
    <2>1. wpc'[w] = "run" /\ \A v \in Workers : wpc'[v] # "doze"
        BY <1>3 DEF Take
    <2> QED
        BY <2>1
<1>4. ASSUME NEW t \in Tasks, Call(t) \/ EnqueueLock(t) \/ EnqueueTest(t)
      PROVE  WakeInv'
    BY <1>4 DEF Call, EnqueueLock, EnqueueTest
<1>5. ASSUME NEW t \in Tasks, EnqueuePush(t)         PROVE WakeInv'
    <2>1. cpc'[t] = "notify" /\ \A v \in Workers : wpc'[v] # "doze"
        BY <1>5 DEF EnqueuePush
    <2> QED
        BY <2>1
<1>6. ASSUME NEW t \in Tasks, EnqueueNotify(t)       PROVE WakeInv'
    <2>1. CASE Asleep = {}
        BY <1>6, <2>1 DEF EnqueueNotify, Asleep, Drained
    <2>2. CASE Asleep # {}
        BY <1>6, <2>2 DEF EnqueueNotify, Asleep
    <2> QED
        BY <2>1, <2>2
<1>7. ASSUME Destroy \/ StoreStop \/ Join \/ UNCHANGED vars  PROVE WakeInv'
    BY <1>7 DEF Destroy, StoreStop, Join, vars
<1>8. CASE NotifyAll
    BY <1>8 DEF NotifyAll
<1> QED
    BY <1>1, <1>2, <1>3, <1>4, <1>5, <1>6, <1>7, <1>8 DEF Next, Worker, Enqueue, Dtor

(* No wake-up for a task is lost: never do all workers sleep beside a      *)
(* queued task without a notification under way.                           *)
THEOREM WakeupsKept == Spec => []NoTaskWakeupLost
<1>1. Init => WakeInv
    BY DEF Init, WakeInv
<1>2. WakeInv => NoTaskWakeupLost
    BY DEF WakeInv, NoTaskWakeupLost
<1> QED
    BY <1>1, <1>2, InitIInv, StepIInv, StepWake, PTL DEF Spec

-----------------------------------------------------------------------------
(* Refinement.                                                             *)

Queued(t) == \E i \in DOMAIN _tasks : _tasks[i] = t

(* A task is in one place at a time, and only after its enqueue pushed it. *)
Unique ==
    /\ \A i, j \in DOMAIN _tasks : _tasks[i] = _tasks[j] => i = j
    /\ \A w \in Workers : wpc[w] = "run" => ~Queued(cur[w]) /\ cur[w] \notin finished
    /\ \A v, w \in Workers : wpc[v] = "run" /\ wpc[w] = "run" /\ cur[v] = cur[w] => v = w
    /\ \A w \in Workers : wpc[w] = "run" => cpc[cur[w]] \in {"notify", "returned"}
    /\ \A t \in Tasks : Queued(t) \/ t \in finished => cpc[t] \in {"notify", "returned"}
    /\ \A t \in finished : ~Queued(t)

(* Steps that leave queue, runners and finished tasks alone keep Unique.   *)
LEMMA UniqueFrame ==
    ASSUME IInv, Unique, UNCHANGED <<_tasks, cur, finished>>,
           \A w \in Workers : wpc'[w] = "run" => wpc[w] = "run",
           \A t \in Tasks : cpc[t] \in {"notify", "returned"} => cpc'[t] \in {"notify", "returned"}
    PROVE  Unique'
BY DEF Unique, Queued, IInv, TypeOK

(* Uniqueness is preserved by every step, given the inductive invariant.   *)
LEMMA StepUnique == IInv /\ Unique /\ [Next]_vars => Unique'
<1> SUFFICES ASSUME IInv, Unique, [Next]_vars
             PROVE  Unique'
    OBVIOUS
<1> USE DEF WGoto, CGoto, Acquire, Release
<1>t. /\ wpc \in [Workers -> WorkerLocs] /\ cpc \in [Tasks -> CallerLocs]
      /\ cur \in [Workers -> Tasks \cup {None}] /\ _tasks \in Seq(Tasks)
      /\ finished \subseteq Tasks
      /\ \A w \in Workers : wpc[w] = "run" => cur[w] \in Tasks
    BY DEF IInv, TypeOK
<1>1. ASSUME NEW w \in Workers, Lock(w) \/ Check(w) \/ Doze(w) \/ SpuriousWakeup(w) \/ Exit(w)
      PROVE  Unique'
    BY <1>1, <1>t, UniqueFrame DEF Lock, Check, Doze, SpuriousWakeup, Exit
<1>2. ASSUME NEW w \in Workers, Take(w)           PROVE Unique'
    <2>1. _tasks # <<>>
        BY <1>2 DEF Take, IInv, Awake
    <2>2. /\ DOMAIN Tail(_tasks) = 1 .. (Len(_tasks) - 1)
          /\ \A i \in DOMAIN Tail(_tasks) : /\ i + 1 \in DOMAIN _tasks
                                           /\ Tail(_tasks)[i] = _tasks[i + 1]
          /\ 1 \in DOMAIN _tasks /\ Head(_tasks) = _tasks[1]
          /\ Head(_tasks) \in Tasks
        BY <2>1, <1>t
    <2>3. \A t : Queued(t)' => Queued(t) /\ t # Head(_tasks)
        BY <2>2, <1>2, <1>t DEF Take, Queued, Unique
    <2>4. Queued(Head(_tasks))
        BY <2>2 DEF Queued
    <2>5. /\ wpc' = [wpc EXCEPT ![w] = "run"] /\ cur' = [cur EXCEPT ![w] = Head(_tasks)]
          /\ _tasks' = Tail(_tasks) /\ finished' = finished /\ cpc' = cpc
        BY <1>2 DEF Take
    <2>6. \A i, j \in DOMAIN _tasks' : _tasks'[i] = _tasks'[j] => i = j
        BY <2>2, <2>5, <1>t DEF Unique
    <2>7. \A v \in Workers : wpc'[v] = "run" =>
              \/ v = w /\ cur'[v] = Head(_tasks)
              \/ v # w /\ wpc[v] = "run" /\ cur'[v] = cur[v]
        BY <2>5, <1>t
    <2> QED
        BY <2>2, <2>3, <2>4, <2>5, <2>6, <2>7 DEF Unique
<1>3. ASSUME NEW w \in Workers, Run(w)            PROVE Unique'
    BY <1>3, <1>t DEF Run, Unique, Queued
<1>4. ASSUME NEW t \in Tasks, Call(t) \/ EnqueueLock(t) \/ EnqueueTest(t) \/ EnqueueNotify(t)
      PROVE  Unique'
    <2>1. UNCHANGED <<_tasks, cur, finished>>
        BY <1>4 DEF Call, EnqueueLock, EnqueueTest, EnqueueNotify
    <2>2. \A w \in Workers : wpc'[w] = "run" => wpc[w] = "run"
        BY <1>4, <1>t DEF Call, EnqueueLock, EnqueueTest, EnqueueNotify, Asleep
    <2>3. \A u \in Tasks : cpc[u] \in {"notify", "returned"} => cpc'[u] \in {"notify", "returned"}
        BY <1>4, <1>t DEF Call, EnqueueLock, EnqueueTest, EnqueueNotify
    <2> QED
        BY <2>1, <2>2, <2>3, UniqueFrame
<1>5. ASSUME NEW t \in Tasks, EnqueuePush(t)      PROVE Unique'
    <2>1. ~Queued(t) /\ t \notin finished /\ \A w \in Workers : wpc[w] = "run" => cur[w] # t
        BY <1>5, <1>t DEF EnqueuePush, Unique
    <2>2. /\ DOMAIN Append(_tasks, t) = 1 .. (Len(_tasks) + 1)
          /\ \A i \in DOMAIN _tasks : i \in 1 .. Len(_tasks) /\ Append(_tasks, t)[i] = _tasks[i]
          /\ Append(_tasks, t)[Len(_tasks) + 1] = t
          /\ DOMAIN _tasks = 1 .. Len(_tasks) /\ Len(_tasks) \in Nat
        BY <1>t
    <2>3. /\ _tasks' = Append(_tasks, t) /\ UNCHANGED <<wpc, cur, finished>>
          /\ cpc' = [cpc EXCEPT ![t] = "notify"]
        BY <1>5 DEF EnqueuePush
    <2>4. \A u : Queued(u)' => Queued(u) \/ u = t
        BY <2>2, <2>3 DEF Queued
    <2>5. \A i, j \in DOMAIN _tasks' : _tasks'[i] = _tasks'[j] => i = j
        BY <2>1, <2>2, <2>3 DEF Unique, Queued
    <2> QED
        BY <2>1, <2>3, <2>4, <2>5, <1>t DEF Unique
<1>6. ASSUME Destroy \/ StoreStop \/ NotifyAll \/ Join \/ UNCHANGED vars
      PROVE  Unique'
    BY <1>6, <1>t, UniqueFrame DEF Destroy, StoreStop, NotifyAll, Join, vars
<1> QED
    BY <1>1, <1>2, <1>3, <1>4, <1>5, <1>6 DEF Next, Worker, Enqueue, Dtor

(* Both invariants together, from the start.                               *)
LEMMA UniqueInvariance == Spec => [](IInv /\ Unique)
<1>1. Init => Unique
    BY DEF Init, Unique, Queued
<1> QED
    BY <1>1, InitIInv, StepIInv, StepUnique, PTL DEF Spec

Running == {cur[w] : w \in {v \in Workers : wpc[v] = "run"}}
HasExited == \E w \in Workers : wpc[w] = "exited"

(* A step that leaves queue, running and finished tasks alone, and lets no *)
(* worker leave, is invisible to the users of the pool.                    *)
LEMMA Invisible ==
    ASSUME TypeOK, UNCHANGED <<_tasks, cur, finished>>,
           \A w \in Workers : wpc'[w] = "run" <=> wpc[w] = "run",
           \A w \in Workers : wpc'[w] = "exited" <=> wpc[w] = "exited"
    PROVE  UNCHANGED Queue!vars
BY DEF Queue!vars

(* Every step of the pool is a step of the abstract queue, or invisible.   *)
LEMMA StepRefines == IInv /\ Unique /\ [Next]_vars => [Queue!Next]_(Queue!vars)
<1> SUFFICES ASSUME IInv, Unique, [Next]_vars
             PROVE  [Queue!Next]_(Queue!vars)
    OBVIOUS
<1> USE DEF WGoto, CGoto, Acquire, Release
<1>t. /\ TypeOK
      /\ wpc \in [Workers -> WorkerLocs] /\ cpc \in [Tasks -> CallerLocs]
      /\ cur \in [Workers -> Tasks \cup {None}] /\ _tasks \in Seq(Tasks)
      /\ \A w \in Workers : wpc[w] = "run" => cur[w] \in Tasks
    BY DEF IInv, TypeOK
<1>1. ASSUME NEW w \in Workers, Lock(w) \/ Check(w) \/ Doze(w) \/ SpuriousWakeup(w)
      PROVE  UNCHANGED Queue!vars
    BY <1>1, <1>t, Invisible DEF Lock, Check, Doze, SpuriousWakeup
<1>2. ASSUME NEW w \in Workers, Exit(w)  PROVE Queue!Next
    <2>1. Running' = Running
        BY <1>2, <1>t DEF Exit, Running
    <2>2. HasExited' = TRUE
        BY <1>2, <1>t DEF Exit, HasExited
    <2>4. Queue!Drain
        BY <1>2, <2>1, <2>2 DEF Exit, Queue!Drain, Running, HasExited
    <2> QED
        BY <2>4 DEF Queue!Next
<1>3. ASSUME NEW w \in Workers, Take(w)  PROVE Queue!Next
    <2>1. _tasks # <<>>
        BY <1>3 DEF Take, IInv, Awake
    <2>2. Running' = Running \cup {Head(_tasks)}
        BY <1>3, <1>t DEF Take, Running
    <2>3. HasExited' = HasExited
        BY <1>3, <1>t DEF Take, HasExited
    <2>4. Queue!Start
        BY <1>3, <2>1, <2>2, <2>3 DEF Take, Queue!Start, Running, HasExited
    <2> QED
        BY <2>4 DEF Queue!Next
<1>4. ASSUME NEW w \in Workers, Run(w)   PROVE Queue!Next
    <2>0. PICK t \in Tasks : t = cur[w]
        BY <1>4, <1>t DEF Run
    <2>1. t \in Running
        BY <1>4, <1>t, <2>0 DEF Run, Running
    <2>2. Running' = Running \ {t}
        BY <1>4, <1>t, <2>0 DEF Run, Running, Unique
    <2>3. HasExited' = HasExited
        BY <1>4, <1>t DEF Run, HasExited
    <2>4. Queue!Finish(t)
        BY <1>4, <2>0, <2>1, <2>2, <2>3 DEF Run, Queue!Finish, Running, HasExited
    <2> QED
        BY <2>4 DEF Queue!Next
<1>5. ASSUME NEW t \in Tasks, Call(t) \/ EnqueueLock(t) \/ EnqueueTest(t) \/ EnqueueNotify(t)
      PROVE  UNCHANGED Queue!vars
    <2>1. UNCHANGED <<_tasks, cur, finished>>
        BY <1>5 DEF Call, EnqueueLock, EnqueueTest, EnqueueNotify
    <2>2. \A w \in Workers : wpc'[w] # wpc[w] => wpc[w] = "asleep" /\ wpc'[w] = "lock"
        BY <1>5, <1>t DEF Call, EnqueueLock, EnqueueTest, EnqueueNotify, Asleep
    <2> QED
        BY <2>1, <2>2, <1>t, Invisible
<1>6. ASSUME NEW t \in Tasks, EnqueuePush(t)  PROVE Queue!Next
    <2>1. ~HasExited
        BY <1>6 DEF EnqueuePush, IInv, Drained, HasExited
    <2>2. ~Queued(t) /\ t \notin finished /\ t \notin Running
        BY <1>6, <1>t DEF EnqueuePush, Unique, Running
    <2>3. Running' = Running /\ HasExited' = HasExited
        BY <1>6 DEF EnqueuePush, Running, HasExited
    <2>4. Queue!Submit(t)
        BY <1>6, <2>1, <2>2, <2>3
           DEF EnqueuePush, Queue!Submit, Queue!Known, Queued, Running, HasExited
    <2> QED
        BY <2>4 DEF Queue!Next
<1>7. ASSUME Destroy \/ StoreStop \/ NotifyAll \/ Join \/ UNCHANGED vars
      PROVE  UNCHANGED Queue!vars
    BY <1>7, <1>t, Invisible DEF Destroy, StoreStop, NotifyAll, Join, vars
<1> QED
    BY <1>1, <1>2, <1>3, <1>4, <1>5, <1>6, <1>7
       DEF Next, Worker, Enqueue, Dtor

(* The thread pool implements the task queue: accepted tasks start once,   *)
(* in order, and none is left behind when the threads leave.               *)
THEOREM Refinement == Spec => RefinesQueue
<1>1. Init => Queue!Init
    BY DEF Init, Queue!Init
<1> QED
    BY <1>1, UniqueInvariance, StepRefines, PTL DEF Spec, Queue!Spec, RefinesQueue
=============================================================================
