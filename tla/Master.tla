------------------------------- MODULE Master -------------------------------
(***************************************************************************)
(* The master process: main of SOK.cpp with the ForkManager it uses, the   *)
(* SIGCHLD and SIGINT handlers that interrupt it, and the process table of *)
(* the kernel, whose numbers other processes use as well.                  *)
(*                                                                         *)
(* The master has one thread.  While a handler runs, main does not move;   *)
(* the handlers are installed with signal(), so that a system call they    *)
(* interrupt is restarted and SIGCHLD is held back during its own handler. *)
(***************************************************************************)
EXTENDS Integers, Sequences, SequencesExt

CONSTANTS
    Pids,       \* process numbers
    cpu_cores   \* children per generation

ASSUME CoresAssumption == cpu_cores \in Nat

VARIABLES
    proc,           \* process table: what a number stands for
    child_pids,     \* ForkManager: numbers of the children
    running,
    mpc, ret,       \* main: location, and where the present call returns to
    i, todo, pid,   \* main: loop index, forks to do, result of fork
    pending,        \* SIGCHLD is pending
    hpc,            \* sigchld_handler: location, "off" outside
    logger          \* who holds the Logger's mutex_

table == <<proc, pending>>
local == <<i, todo, pid>>
vars  == <<table, child_pids, running, mpc, ret, local, hpc, logger>>

(* "child" lives, "term" has been sent SIGTERM, "zombie" is dead and not    *)
(* reaped; "other" is no child of the master.                               *)
Status == {"free", "child", "term", "zombie", "other"}
Locs   == {"fork", "push", "loop", "prompt", "log", "logged", "kill", "wait", "setlog",
           "reload", "monitor", "exited"}

TypeOK ==
    /\ proc \in [Pids -> Status]
    /\ child_pids \in Seq(Pids)
    /\ running \in BOOLEAN /\ pending \in BOOLEAN
    /\ mpc \in Locs /\ ret \in Locs
    /\ i \in 1 .. Len(child_pids) + 1
    /\ todo \in 0 .. cpu_cores
    /\ pid \in Pids \cup {0}
    /\ mpc = "wait" => i <= Len(child_pids)
    /\ mpc = "push" => pid \in Pids /\ todo > 0
    /\ hpc \in {"off", "reap", "log"}
    /\ logger \in {"nobody", "main"}

Init ==
    /\ proc = [p \in Pids |-> "free"]
    /\ child_pids = <<>>
    /\ running = TRUE
    /\ mpc = "fork" /\ ret = "loop"
    /\ i = 1 /\ todo = cpu_cores /\ pid = 0
    /\ pending = FALSE
    /\ hpc = "off"
    /\ logger = "nobody"

-----------------------------------------------------------------------------
(* The rest of the machine (external).                                     *)

StartOther(p) ==
    /\ proc[p] = "free"
    /\ proc' = [proc EXCEPT ![p] = "other"]
    /\ UNCHANGED <<pending, child_pids, running, mpc, ret, local, hpc, logger>>

EndOther(p) ==
    /\ proc[p] = "other"
    /\ proc' = [proc EXCEPT ![p] = "free"]
    /\ UNCHANGED <<pending, child_pids, running, mpc, ret, local, hpc, logger>>

(* A child dies, of SIGTERM or by itself, and SIGCHLD becomes pending.     *)
Die(p) ==
    /\ proc' = [proc EXCEPT ![p] = "zombie"]
    /\ pending' = TRUE
    /\ UNCHANGED <<child_pids, running, mpc, ret, local, hpc, logger>>
ChildCrashes(p) == proc[p] = "child" /\ Die(p)
ChildTerminates(p) == proc[p] = "term" /\ Die(p)

-----------------------------------------------------------------------------
(* Signal handlers.                                                        *)

DeliverChld ==
    /\ pending /\ hpc = "off" /\ mpc # "exited"
    /\ pending' = FALSE
    /\ hpc' = "reap"
    /\ UNCHANGED <<proc, child_pids, running, mpc, ret, local, logger>>

(* Mutant: the handler reaps one child and returns.                        *)
ReapOne ==
    /\ hpc = "reap"
    /\ IF \E p \in Pids : proc[p] = "zombie"
       THEN \E p \in Pids : proc[p] = "zombie" /\ proc' = [proc EXCEPT ![p] = "free"]
       ELSE UNCHANGED proc
    /\ hpc' = "off"
    /\ UNCHANGED <<pending, child_pids, running, mpc, ret, local, logger>>

(* waitpid(-1, WNOHANG), until there is nobody left to reap.               *)
Reap ==
    /\ hpc = "reap"
    /\ \/ \E p \in Pids :
            /\ proc[p] = "zombie"
            /\ proc' = [proc EXCEPT ![p] = "free"]
            /\ hpc' = "log"
       \/ /\ \A p \in Pids : proc[p] # "zombie"
          /\ hpc' = "off"
          /\ UNCHANGED proc
    /\ UNCHANGED <<pending, child_pids, running, mpc, ret, local, logger>>

(* SOK_LOG_ERROR in the handler waits for the Logger's mutex, for ever if  *)
(* it is main, underneath, that holds it.                                  *)
HandlerLog ==
    /\ hpc = "log" /\ logger = "nobody"
    /\ hpc' = "reap"
    /\ UNCHANGED <<table, child_pids, running, mpc, ret, local, logger>>

signalHandler ==
    /\ mpc # "exited"
    /\ running' = FALSE
    /\ UNCHANGED <<table, child_pids, mpc, ret, local, hpc, logger>>

-----------------------------------------------------------------------------
(* ForkManager.                                                            *)

At(l) == mpc = l /\ hpc = "off"
Goto(l) == mpc' = l

(* createChildProcess, in the parent; fork may fail.                       *)
Fork ==
    /\ At("fork") /\ todo > 0
    /\ \/ \E p \in Pids :
            /\ proc[p] = "free"
            /\ proc' = [proc EXCEPT ![p] = "child"]
            /\ pid' = p
            /\ Goto("push")
            /\ UNCHANGED todo
       \/ todo' = todo - 1 /\ UNCHANGED <<proc, pid, mpc>>
    /\ UNCHANGED <<pending, child_pids, running, ret, i, hpc, logger>>

PushPid ==
    /\ At("push")
    /\ child_pids' = Append(child_pids, pid)
    /\ todo' = todo - 1 /\ pid' = 0
    /\ Goto("fork")
    /\ UNCHANGED <<table, running, ret, i, hpc, logger>>

Forked ==
    /\ At("fork") /\ todo = 0
    /\ Goto(ret) /\ i' = 1
    /\ UNCHANGED <<table, child_pids, running, ret, todo, pid, hpc, logger>>

(* terminateAll.  The signal reaches whoever has the number by now.        *)
Kill ==
    /\ At("kill") /\ i <= Len(child_pids)
    /\ LET p == child_pids[i] IN
       proc' = [proc EXCEPT ![p] = CASE @ = "child" -> "term"
                                     [] @ = "other" -> "free"
                                     [] OTHER -> @]
    /\ Goto("wait")
    /\ UNCHANGED <<pending, child_pids, running, ret, local, hpc, logger>>

(* Mutant: waitpid does not block.                                         *)
WaitNoHang ==
    /\ At("wait")
    /\ LET p == child_pids[i] IN
       proc' = [proc EXCEPT ![p] = IF @ = "zombie" THEN "free" ELSE @]
    /\ i' = i + 1
    /\ Goto("kill")
    /\ UNCHANGED <<pending, child_pids, running, ret, todo, pid, hpc, logger>>

(* Mutant: waitpid is repeated until it reaps the child.                   *)
WaitForReap ==
    /\ At("wait")
    /\ LET p == child_pids[i] IN
       /\ proc[p] = "zombie"
       /\ proc' = [proc EXCEPT ![p] = "free"]
    /\ i' = i + 1
    /\ Goto("kill")
    /\ UNCHANGED <<pending, child_pids, running, ret, todo, pid, hpc, logger>>

(* waitpid(pid) blocks while the child lives, and fails if there is no     *)
(* such child (any more).                                                  *)
Wait ==
    /\ At("wait")
    /\ LET p == child_pids[i] IN
       /\ proc[p] \notin {"child", "term"}
       /\ proc' = [proc EXCEPT ![p] = IF @ = "zombie" THEN "free" ELSE @]
    /\ i' = i + 1
    /\ Goto("kill")
    /\ UNCHANGED <<pending, child_pids, running, ret, todo, pid, hpc, logger>>

Killed ==
    /\ At("kill") /\ i > Len(child_pids)
    /\ child_pids' = <<>> /\ i' = 1
    /\ Goto(ret)
    /\ UNCHANGED <<table, running, ret, todo, pid, hpc, logger>>

(* Mutant: the iterator moves on after an erase.                           *)
MonitorSkips ==
    /\ At("monitor") /\ i <= Len(child_pids)
    /\ LET p == child_pids[i] IN
       IF proc[p] = "zombie"
       THEN proc' = [proc EXCEPT ![p] = "free"] /\ child_pids' = RemoveAt(child_pids, i)
       ELSE UNCHANGED <<proc, child_pids>>
    /\ i' = i + 1
    /\ UNCHANGED <<pending, running, mpc, ret, todo, pid, hpc, logger>>

(* Mutant: a result of 0, a child that still runs, counts as its end.      *)
MonitorDropsLive ==
    /\ At("monitor") /\ i <= Len(child_pids)
    /\ LET p == child_pids[i] IN
       IF proc[p] \in {"zombie", "child"}
       THEN /\ proc' = [proc EXCEPT ![p] = IF @ = "zombie" THEN "free" ELSE @]
            /\ child_pids' = RemoveAt(child_pids, i)
            /\ UNCHANGED i
       ELSE i' = i + 1 /\ UNCHANGED <<proc, child_pids>>
    /\ UNCHANGED <<pending, running, mpc, ret, todo, pid, hpc, logger>>

(* monitorChildren, one turn: waitpid(pid, WNOHANG) > 0 only for a child   *)
(* that is dead and that the handler has not reaped.                       *)
Monitor ==
    /\ At("monitor") /\ i <= Len(child_pids)
    /\ LET p == child_pids[i] IN
       IF proc[p] = "zombie"
       THEN /\ proc' = [proc EXCEPT ![p] = "free"]
            /\ child_pids' = RemoveAt(child_pids, i)
            /\ UNCHANGED i
       ELSE i' = i + 1 /\ UNCHANGED <<proc, child_pids>>
    /\ UNCHANGED <<pending, running, mpc, ret, todo, pid, hpc, logger>>

Monitored ==
    /\ At("monitor") /\ i > Len(child_pids)
    /\ Goto("loop") /\ i' = 1
    /\ UNCHANGED <<table, child_pids, running, ret, todo, pid, hpc, logger>>

-----------------------------------------------------------------------------
(* main.                                                                   *)

Loop ==
    /\ At("loop")
    /\ IF running THEN Goto("prompt") /\ UNCHANGED ret
                  ELSE Goto("kill") /\ ret' = "exited"
    /\ UNCHANGED <<table, child_pids, running, local, hpc, logger>>

(* std::cin >> command.  It waits for input, whatever signals arrive.      *)
Command(command) ==
    /\ At("prompt")
    /\ Goto(IF command = "restart" THEN "log" ELSE "monitor")
    /\ running' = (running /\ command # "exit")
    /\ UNCHANGED <<table, child_pids, ret, local, hpc, logger>>

(* The two calls of the Logger on the way to a restart: SOK_LOG_INFO before *)
(* terminateAll, set_logfile after it.                                      *)
LogLock(at, to) ==
    /\ At(at) /\ logger = "nobody"
    /\ logger' = "main"
    /\ Goto(to)
    /\ UNCHANGED <<table, child_pids, running, ret, local, hpc>>

LogRestart == LogLock("log", "logged")
SetLogfile == LogLock("setlog", "reload")

TerminateForRestart ==
    /\ At("logged")
    /\ logger' = "nobody"
    /\ Goto("kill") /\ ret' = "setlog"
    /\ UNCHANGED <<table, child_pids, running, local, hpc>>

(* The configuration is loaded again; the list of ports and cpu_cores stay. *)
(* If that throws, nobody catches it: it ends the master, which has no      *)
(* children any more and forks none.                                        *)
Reload ==
    /\ At("reload")
    /\ logger' = "nobody"
    /\ \/ todo' = cpu_cores /\ Goto("fork") /\ ret' = "monitor"
       \/ Goto("exited") /\ UNCHANGED <<todo, ret>>
    /\ UNCHANGED <<table, child_pids, running, i, pid, hpc>>

-----------------------------------------------------------------------------
Handler == DeliverChld \/ Reap \/ HandlerLog

Main ==
    \/ Fork \/ PushPid \/ Forked
    \/ Kill \/ Wait \/ Killed
    \/ Monitor \/ Monitored
    \/ Loop \/ LogRestart \/ TerminateForRestart \/ SetLogfile \/ Reload

Next ==
    \/ Main
    \/ Handler
    \/ signalHandler
    \/ \E command \in {"restart", "exit", "other"} : Command(command)
    \/ \E p \in Pids : StartOther(p) \/ EndOther(p) \/ ChildCrashes(p) \/ ChildTerminates(p)

Spec == Init /\ [][Next]_vars

(* The master is scheduled, signals are delivered, SIGTERM kills.  Nobody  *)
(* need type a command.                                                    *)
FairSpec ==
    /\ Spec
    /\ WF_vars(Main)
    /\ WF_vars(Handler)
    /\ \A p \in Pids : WF_vars(ChildTerminates(p))

-----------------------------------------------------------------------------
(* Properties.                                                             *)

Alive == {p \in Pids : proc[p] \in {"child", "term"}}
Recorded == {child_pids[k] : k \in DOMAIN child_pids}

(* The master loses track of no child that lives: it is in child_pids, or   *)
(* has just been forked.                                                    *)
ChildrenTracked ==
    \A p \in Alive : p \in Recorded \/ (mpc = "push" /\ pid = p)

(* terminateAll terminates: no child survives into the next generation of   *)
(* a restart, or the end of the master.                                     *)
AllTerminated == mpc \in {"setlog", "reload", "exited"} => Alive = {}

(* The handler waits for a mutex that main, which it interrupts, holds.     *)
Deadlocked == hpc = "log" /\ logger = "main"

(* Once the master is told to end and has read its input, it does, unless   *)
(* the handler deadlocks with main over the Logger.                         *)
ExitServed == (~running /\ mpc # "prompt") ~> (mpc = "exited" \/ Deadlocked)

(* No child stays a zombie, although one pending SIGCHLD may stand for      *)
(* several deaths.                                                          *)
ZombiesReaped ==
    \A p \in Pids :
        (proc[p] = "zombie" /\ mpc # "exited")
            ~> (proc[p] # "zombie" \/ Deadlocked \/ mpc = "exited")

(* terminateAll signals children of the master only.                       *)
OnlyChildrenKilled == [][Kill => proc[child_pids[i]] # "other"]_vars
=============================================================================
