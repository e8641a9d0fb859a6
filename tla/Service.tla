------------------------------ MODULE Service -------------------------------
(***************************************************************************)
(* Startup with the Logger: main opens the log at the start and in each    *)
(* restart, a child inherits main's stream when it is forked, both write   *)
(* to the file and rotate it, and a child may be ended in the middle of    *)
(* that.  A process that is in log does nothing else, but for a child that *)
(* serves, which has threads for it.  The children of a generation are all *)
(* in the log; in Startup they share the fate of one.                      *)
(***************************************************************************)
EXTENDS Startup, Logger

CONSTANT LogDocs    \* bound: documents with which processes write logs

ASSUME ServiceAssumption == {"main", "child"} \subseteq Procs

vars == <<bootVars, logVars>>

Init == BootInit /\ LogInit

Children == Procs \ {"main"}

Quiet(p) == LogAt(p, "out")
Alive(p) == IF p = "main" THEN mpc \notin {"start", "aborted"} ELSE cpc \notin {"none", "dead"}

MainStep ==
    \/ OpenLog /\ set_logfile("main")
    \/ (LoadConfig \/ ReadPorts) /\ Quiet("main") /\ UNCHANGED logVars
    \/ Fork /\ Inherit("main", Children)

Restart == Terminate /\ Quiet("main") /\ End(Children)

ChildStep ==
    /\ Prepare \/ Listen \/ Watch \/ Begin
    /\ Quiet("child")
    /\ IF cpc' = "dead" THEN End(Children) ELSE UNCHANGED logVars

Request ==
    /\ \E f \in watched : \E root \in {""} \cup {v.s : v \in Range(cconfig)} : Serve(f, root)
    /\ UNCHANGED logVars

InLog(p) == (Rename(p) \/ Reopen(p) \/ Write(p)) /\ UNCHANGED bootVars
Log(p)   == Alive(p) /\ loaded \in LogDocs /\ Check(p) /\ UNCHANGED bootVars

Outside ==
    \/ \E d \in Edits : Edit(d) /\ UNCHANGED logVars
    \/ Tick /\ UNCHANGED bootVars

Next ==
    \/ MainStep \/ Restart \/ ChildStep \/ Request \/ Outside
    \/ \E p \in Procs : Log(p) \/ InLog(p)

Spec == Init /\ [][Next]_vars

(* Threads are scheduled; restarts, edits, requests and calls of log are   *)
(* not owed.                                                               *)
FairSpec ==
    /\ Spec
    /\ WF_vars(MainStep) /\ WF_vars(ChildStep)
    /\ \A p \in Procs : WF_vars(InLog(p))
=============================================================================
