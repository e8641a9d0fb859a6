---------------------------- MODULE MasterProofs ----------------------------
(***************************************************************************)
(* Proofs about Master, for any set of process numbers and any number of   *)
(* cores.                                                                  *)
(***************************************************************************)
EXTENDS Master, SequenceTheorems, TLAPS

-----------------------------------------------------------------------------
(* child_pids.                                                             *)

(* Erasing one place of a sequence keeps what the other places hold.       *)
LEMMA RemoveAtFacts ==
    ASSUME NEW S, NEW s \in Seq(S), NEW n \in 1 .. Len(s)
    PROVE  /\ RemoveAt(s, n) \in Seq(S)
           /\ Len(RemoveAt(s, n)) = Len(s) - 1
           /\ \A k \in DOMAIN s : s[k] # s[n] =>
                 \E j \in DOMAIN RemoveAt(s, n) : RemoveAt(s, n)[j] = s[k]
<1> DEFINE a == SubSeq(s, 1, n - 1)
           b == SubSeq(s, n + 1, Len(s))
<1>1. Len(s) \in Nat /\ n \in 1 .. Len(s) /\ \A k \in 1 .. Len(s) : s[k] \in S
    OBVIOUS
<1>2. /\ a \in Seq(S) /\ Len(a) = n - 1
      /\ \A k \in 1 .. n - 1 : a[k] = s[k]
    <2>1. \A k \in 1 .. n - 1 : s[k] \in S
        BY <1>1
    <2> QED
        BY <1>1, <2>1, SubSeqProperties
<1>3. /\ b \in Seq(S) /\ Len(b) = Len(s) - n
      /\ \A k \in 1 .. Len(s) - n : b[k] = s[n + k]
    <2>1. \A k \in n + 1 .. Len(s) : s[k] \in S
        BY <1>1
    <2> QED
        BY <1>1, <2>1, SubSeqProperties
<1> DEFINE r == a \o b
<1>4. RemoveAt(s, n) = r
    BY DEF RemoveAt
<1> HIDE DEF a, b
<1>5. /\ r \in Seq(S) /\ Len(r) = Len(s) - 1
      /\ \A k \in 1 .. n - 1 : r[k] = s[k]
      /\ \A k \in n .. Len(s) - 1 : r[k] = s[k + 1]
    <2>1. /\ r \in Seq(S) /\ Len(r) = Len(s) - 1
          /\ \A k \in 1 .. Len(s) - 1 : r[k] = IF k <= n - 1 THEN a[k] ELSE b[k - (n - 1)]
        <3>1. /\ r \in Seq(S) /\ Len(r) = Len(a) + Len(b)
              /\ \A k \in 1 .. Len(a) + Len(b) :
                    r[k] = IF k <= Len(a) THEN a[k] ELSE b[k - Len(a)]
            BY <1>2, <1>3, ConcatProperties
        <3> HIDE DEF r
        <3> QED
            BY <3>1, <1>1, <1>2, <1>3
    <2> HIDE DEF r
    <2>2. \A k \in n .. Len(s) - 1 : r[k] = s[k + 1]
        <3>1. SUFFICES ASSUME NEW k \in n .. Len(s) - 1
                       PROVE  r[k] = s[k + 1]
            OBVIOUS
        <3>2. /\ k - (n - 1) \in 1 .. Len(s) - n /\ n + (k - (n - 1)) = k + 1
              /\ k \in 1 .. Len(s) - 1 /\ ~(k <= n - 1)
            BY <1>1
        <3> QED
            BY <1>3, <2>1, <3>2
    <2>3. \A k \in 1 .. n - 1 : r[k] = s[k]
        <3>1. SUFFICES ASSUME NEW k \in 1 .. n - 1
                       PROVE  r[k] = s[k]
            OBVIOUS
        <3>2. k \in 1 .. Len(s) - 1 /\ k <= n - 1
            BY <1>1
        <3> QED
            BY <1>2, <2>1, <3>2
    <2> QED
        BY <2>1, <2>2, <2>3
<1> HIDE DEF r
<1>6. ASSUME NEW k \in DOMAIN s, s[k] # s[n]
      PROVE  \E j \in DOMAIN r : r[j] = s[k]
    <2>1. CASE k < n
        <3>1. k \in DOMAIN r /\ r[k] = s[k]
            BY <1>1, <1>5, <2>1
        <3> QED
            BY <3>1
    <2>2. CASE k > n
        <3>1. k - 1 \in DOMAIN r /\ r[k - 1] = s[k]
            BY <1>1, <1>5, <2>2
        <3> QED
            BY <3>1
    <2> QED
        BY <1>1, <1>6, <2>1, <2>2
<1> QED
    BY <1>4, <1>5, <1>6

(* Appending to a sequence.                                                *)
LEMMA AppendFacts ==
    ASSUME NEW S, NEW s \in Seq(S), NEW e \in S
    PROVE  /\ Append(s, e) \in Seq(S) /\ Len(Append(s, e)) = Len(s) + 1
           /\ \A k \in DOMAIN s : k \in DOMAIN Append(s, e) /\ Append(s, e)[k] = s[k]
           /\ Len(s) + 1 \in DOMAIN Append(s, e) /\ Append(s, e)[Len(s) + 1] = e
OBVIOUS

-----------------------------------------------------------------------------
(* The invariant.                                                          *)

(* The loop index starts over, and terminateAll has passed only dead       *)
(* children.                                                               *)
IndexInv == mpc \notin {"monitor", "kill", "wait"} => i = 1

(* Where the calls of terminateAll and of the forks return to.             *)
ReturnInv ==
    /\ mpc \in {"fork", "push"} => ret \in {"loop", "monitor"}
    /\ mpc \in {"kill", "wait"} => ret \in {"setlog", "exited"}

(* terminateAll has left no child behind its index.                        *)
KillInv ==
    mpc \in {"kill", "wait"} =>
        \A p \in Alive : \E k \in DOMAIN child_pids : k >= i /\ child_pids[k] = p

MasterInv ==
    TypeOK /\ IndexInv /\ ReturnInv /\ KillInv /\ ChildrenTracked /\ AllTerminated

(* The initial state satisfies it.                                         *)
LEMMA InitInv == Init => MasterInv
<1> SUFFICES ASSUME Init
             PROVE  MasterInv
    OBVIOUS
<1> USE CoresAssumption DEF Init
<1>1. TypeOK
    <2>1. running \in BOOLEAN /\ pending \in BOOLEAN
        OBVIOUS
    <2>2. child_pids \in Seq(Pids) /\ i \in 1 .. Len(child_pids) + 1
        OBVIOUS
    <2> QED
        BY <2>1, <2>2 DEF TypeOK, Status, Locs
<1>2. Alive = {}
    BY DEF Alive
<1> QED
    BY <1>1, <1>2
       DEF MasterInv, IndexInv, ReturnInv, KillInv, ChildrenTracked, AllTerminated

-----------------------------------------------------------------------------
(* Steps.                                                                  *)

(* Every step keeps the types.                                             *)
LEMMA StepType == TypeOK /\ ReturnInv /\ [Next]_vars => TypeOK'
<1> SUFFICES ASSUME TypeOK, ReturnInv, [Next]_vars
             PROVE  TypeOK'
    OBVIOUS
<1> USE DEF TypeOK, Status, Locs, At, Goto, table, local
<1>1. CASE \E p \in Pids : StartOther(p) \/ EndOther(p) \/ ChildCrashes(p) \/ ChildTerminates(p)
    <2>1. CASE \E p \in Pids : StartOther(p)
        BY <2>1 DEF StartOther
    <2>2. CASE \E p \in Pids : EndOther(p)
        BY <2>2 DEF EndOther
    <2>3. CASE \E p \in Pids : ChildCrashes(p) \/ ChildTerminates(p)
        BY <2>3 DEF ChildCrashes, ChildTerminates, Die
    <2> QED
        BY <1>1, <2>1, <2>2, <2>3
<1>2. CASE Handler \/ signalHandler
    <2>1. CASE DeliverChld
        BY <2>1 DEF DeliverChld
    <2>2. CASE Reap
        <3>1. /\ proc' \in [Pids -> Status] /\ hpc' \in {"log", "off"}
              /\ UNCHANGED <<pending, child_pids, running, mpc, ret, local, logger>>
            BY <2>2 DEF Reap
        <3> QED
            BY <3>1
    <2>3. CASE HandlerLog \/ signalHandler
        BY <2>3 DEF HandlerLog, signalHandler
    <2> QED
        BY <1>2, <2>1, <2>2, <2>3 DEF Handler
<1>3. CASE \E command \in {"restart", "exit", "other"} : Command(command)
    BY <1>3 DEF Command
<1>4. CASE Fork \/ Forked
    BY <1>4, CoresAssumption DEF Fork, Forked, ReturnInv
<1>5. CASE PushPid
    <2>1. /\ child_pids \in Seq(Pids) /\ pid \in Pids
          /\ child_pids' = Append(child_pids, pid)
        BY <1>5 DEF PushPid
    <2>2. child_pids' \in Seq(Pids) /\ Len(child_pids') = Len(child_pids) + 1
        BY <2>1, AppendFacts
    <2> QED
        BY <1>5, <2>2, CoresAssumption DEF PushPid
<1>6. CASE Kill \/ Wait
    <2>1. child_pids \in Seq(Pids) /\ i \in 1 .. Len(child_pids) /\ child_pids[i] \in Pids
        BY <1>6 DEF Kill, Wait
    <2>2. CASE Kill
        <3>1. proc' \in [Pids -> Status]
            BY <2>1, <2>2 DEF Kill
        <3> QED
            BY <2>1, <2>2, <3>1 DEF Kill
    <2>3. CASE Wait
        BY <2>1, <2>3 DEF Wait
    <2> QED
        BY <1>6, <2>2, <2>3
<1>7. CASE Killed
    BY <1>7 DEF Killed, ReturnInv
<1>8. CASE Monitor
    <2>1. child_pids \in Seq(Pids) /\ i \in 1 .. Len(child_pids) /\ child_pids[i] \in Pids
        BY <1>8 DEF Monitor
    <2>2. /\ RemoveAt(child_pids, i) \in Seq(Pids)
          /\ Len(RemoveAt(child_pids, i)) = Len(child_pids) - 1
        BY <2>1, RemoveAtFacts
    <2> QED
        BY <1>8, <2>1, <2>2 DEF Monitor
<1>9. CASE Monitored \/ Loop \/ LogRestart \/ TerminateForRestart \/ SetLogfile \/ Reload
    BY <1>9, CoresAssumption
       DEF Monitored, Loop, LogRestart, TerminateForRestart, SetLogfile, Reload, LogLock
<1>10. CASE UNCHANGED vars
    BY <1>10 DEF vars
<1> QED
    BY <1>1, <1>2, <1>3, <1>4, <1>5, <1>6, <1>7, <1>8, <1>9, <1>10 DEF Next, Main

(* Every step keeps the index and the return addresses.                    *)
LEMMA StepControl == MasterInv /\ [Next]_vars => IndexInv' /\ ReturnInv'
<1> SUFFICES ASSUME IndexInv, ReturnInv, [Next]_vars
             PROVE  IndexInv' /\ ReturnInv'
    BY DEF MasterInv
<1> USE DEF IndexInv, ReturnInv, At, Goto, table, local
<1>1. CASE \E p \in Pids : StartOther(p) \/ EndOther(p) \/ ChildCrashes(p) \/ ChildTerminates(p)
    BY <1>1 DEF StartOther, EndOther, ChildCrashes, ChildTerminates, Die
<1>2. CASE Handler \/ signalHandler \/ UNCHANGED vars
    BY <1>2 DEF Handler, DeliverChld, Reap, HandlerLog, signalHandler, vars
<1>3. CASE Main \/ \E command \in {"restart", "exit", "other"} : Command(command)
    BY <1>3 DEF Main, Fork, PushPid, Forked, Kill, Wait, Killed, Monitor, Monitored, Loop,
       LogRestart, TerminateForRestart, SetLogfile, Reload, LogLock, Command
<1> QED
    BY <1>1, <1>2, <1>3 DEF Next

(* Children are born of fork only.                                         *)
LEMMA AliveShrinks ==
    ASSUME TypeOK, [Next]_vars, ~Fork
    PROVE  Alive' \subseteq Alive
<1> SUFFICES ASSUME NEW p \in Pids, proc'[p] \in {"child", "term"}
             PROVE  proc[p] \in {"child", "term"}
    BY DEF Alive
<1> USE DEF TypeOK, Status, table
<1>1. CASE \E q \in Pids : StartOther(q) \/ EndOther(q) \/ ChildCrashes(q) \/ ChildTerminates(q)
    BY <1>1 DEF StartOther, EndOther, ChildCrashes, ChildTerminates, Die
<1>2. CASE Handler \/ signalHandler \/ UNCHANGED vars
    BY <1>2 DEF Handler, DeliverChld, Reap, HandlerLog, signalHandler, vars
<1>3. CASE Kill \/ Wait \/ Monitor
    <2>1. child_pids[i] \in Pids
        BY <1>3 DEF Kill, Wait, Monitor, At
    <2> QED
        BY <1>3, <2>1 DEF Kill, Wait, Monitor
<1>4. CASE PushPid \/ Forked \/ Killed \/ Monitored \/ Loop \/ LogRestart
           \/ TerminateForRestart \/ SetLogfile \/ Reload
           \/ \E command \in {"restart", "exit", "other"} : Command(command)
    BY <1>4 DEF PushPid, Forked, Killed, Monitored, Loop, LogRestart,
       TerminateForRestart, SetLogfile, Reload, LogLock, Command
<1> QED
    BY <1>1, <1>2, <1>3, <1>4 DEF Next, Main

(* The steps that touch child_pids, the index or the location.             *)
LEMMA OtherSteps ==
    ASSUME [Next]_vars
    PROVE  \/ UNCHANGED <<child_pids, mpc, i, pid>> /\ ~Fork
           \/ Main
           \/ \E command \in {"restart", "exit", "other"} : Command(command)
<1>1. CASE \E p \in Pids : StartOther(p) \/ EndOther(p) \/ ChildCrashes(p) \/ ChildTerminates(p)
    BY <1>1 DEF Main, StartOther, EndOther, ChildCrashes, ChildTerminates, Die, local
<1>2. CASE Handler \/ signalHandler \/ UNCHANGED vars
    BY <1>2 DEF Main, Handler, DeliverChld, Reap, HandlerLog, signalHandler, vars, local
<1> QED
    BY <1>1, <1>2 DEF Next

(* Every step keeps the living children among those terminateAll has yet   *)
(* to meet.                                                                *)
LEMMA StepKill == MasterInv /\ [Next]_vars => KillInv'
<1> SUFFICES ASSUME MasterInv, [Next]_vars, mpc' \in {"kill", "wait"}, NEW p \in Alive'
             PROVE  \E k \in DOMAIN child_pids' : k >= i' /\ child_pids'[k] = p
    BY DEF KillInv
<1> USE DEF At, Goto
<1>0. /\ TypeOK /\ KillInv /\ ChildrenTracked /\ IndexInv /\ ReturnInv
      /\ child_pids \in Seq(Pids) /\ i \in 1 .. Len(child_pids) + 1
    BY DEF MasterInv, TypeOK
<1>1. CASE UNCHANGED <<child_pids, mpc, i, pid>> /\ ~Fork
    <2>1. p \in Alive
        BY <1>0, <1>1, AliveShrinks
    <2> QED
        BY <2>1, <1>0, <1>1 DEF KillInv
<1>2. CASE Loop \/ TerminateForRestart
    <2>1. /\ p \in Alive /\ mpc \in {"loop", "logged"} /\ UNCHANGED <<child_pids, i>>
        BY <1>0, <1>2, AliveShrinks DEF Loop, TerminateForRestart, Fork, local
    <2>2. p \in Recorded /\ i = 1
        BY <2>1, <1>0 DEF ChildrenTracked, IndexInv
    <2> QED
        BY <2>1, <2>2, <1>0 DEF Recorded
<1>3. CASE Kill
    <2>1. p \in Alive /\ mpc = "kill" /\ UNCHANGED <<child_pids, i>>
        BY <1>0, <1>3, AliveShrinks DEF Kill, Fork, local
    <2> QED
        BY <2>1, <1>0 DEF KillInv
<1>4. CASE Wait
    <2>1. p \in Alive /\ mpc = "wait" /\ UNCHANGED child_pids /\ i' = i + 1
        BY <1>0, <1>4, AliveShrinks DEF Wait, Fork
    <2>2. p # child_pids[i]
        BY <2>1, <1>4 DEF Wait, Alive
    <2>3. PICK k \in DOMAIN child_pids : k >= i /\ child_pids[k] = p
        BY <2>1, <1>0 DEF KillInv
    <2>4. k >= i + 1
        BY <2>2, <2>3, <1>0
    <2> QED
        BY <2>1, <2>3, <2>4
<1>5. CASE Fork \/ PushPid \/ Forked \/ Killed \/ Monitor \/ Monitored \/ LogRestart
           \/ SetLogfile \/ Reload
           \/ \E command \in {"restart", "exit", "other"} : Command(command)
    BY <1>0, <1>5 DEF Fork, PushPid, Forked, Killed, Monitor, Monitored, LogRestart,
       SetLogfile, Reload, LogLock, Command, ReturnInv
<1> QED
    BY <1>1, <1>2, <1>3, <1>4, <1>5, OtherSteps DEF Main

(* Every step keeps track of the living children.                          *)
LEMMA StepTracked == MasterInv /\ [Next]_vars => ChildrenTracked'
<1> SUFFICES ASSUME MasterInv, [Next]_vars, NEW p \in Alive'
             PROVE  p \in Recorded' \/ (mpc' = "push" /\ pid' = p)
    BY DEF ChildrenTracked
<1> USE DEF At, Goto
<1>0. /\ TypeOK /\ KillInv /\ ChildrenTracked
      /\ child_pids \in Seq(Pids) /\ i \in 1 .. Len(child_pids) + 1
    BY DEF MasterInv, TypeOK
<1>1. ASSUME p \in Alive, mpc # "push", UNCHANGED child_pids
      PROVE  p \in Recorded'
    BY <1>1, <1>0 DEF ChildrenTracked, Recorded
<1>2. CASE UNCHANGED <<child_pids, mpc, i, pid>> /\ ~Fork
    BY <1>0, <1>2, AliveShrinks DEF ChildrenTracked, Recorded
<1>3. CASE Fork
    <2>1. CASE p \in Alive
        BY <2>1, <1>1, <1>3 DEF Fork
    <2>2. CASE p \notin Alive
        BY <2>2, <1>0, <1>3 DEF Fork, Alive, TypeOK
    <2> QED
        BY <2>1, <2>2
<1>4. CASE PushPid
    <2>1. /\ p \in Alive /\ mpc = "push" /\ pid \in Pids
          /\ child_pids' = Append(child_pids, pid)
        BY <1>0, <1>4, AliveShrinks DEF PushPid, Fork, TypeOK
    <2>2. /\ \A k \in DOMAIN child_pids : k \in DOMAIN child_pids'
                                          /\ child_pids'[k] = child_pids[k]
          /\ \E k \in DOMAIN child_pids' : child_pids'[k] = pid
        BY <2>1, <1>0, AppendFacts
    <2>3. Recorded \subseteq Recorded' /\ pid \in Recorded'
        BY <2>2 DEF Recorded
    <2> QED
        BY <2>1, <2>3, <1>0 DEF ChildrenTracked
<1>5. CASE Killed
    <2>1. p \in Alive /\ mpc = "kill" /\ i > Len(child_pids)
        BY <1>0, <1>5, AliveShrinks DEF Killed, Fork
    <2>2. PICK k \in DOMAIN child_pids : k >= i
        BY <2>1, <1>0 DEF KillInv
    <2> QED
        BY <2>1, <2>2, <1>0
<1>6. CASE Monitor
    <2>1. p \in Alive /\ mpc = "monitor" /\ i \in 1 .. Len(child_pids)
        BY <1>0, <1>6, AliveShrinks DEF Monitor, Fork
    <2>2. CASE UNCHANGED child_pids
        BY <2>1, <2>2, <1>1
    <2>3. CASE proc[child_pids[i]] = "zombie" /\ child_pids' = RemoveAt(child_pids, i)
        <3>1. p # child_pids[i]
            BY <2>1, <2>3 DEF Alive
        <3>2. PICK k \in DOMAIN child_pids : child_pids[k] = p
            BY <2>1, <1>0 DEF ChildrenTracked, Recorded
        <3>3. \E j \in DOMAIN child_pids' : child_pids'[j] = p
            BY <2>1, <2>3, <3>1, <3>2, <1>0, RemoveAtFacts
        <3> QED
            BY <3>3 DEF Recorded
    <2> QED
        BY <2>2, <2>3, <1>6 DEF Monitor
<1>7. CASE Forked \/ Kill \/ Wait \/ Monitored \/ Loop \/ LogRestart \/ TerminateForRestart
           \/ SetLogfile \/ Reload
           \/ \E command \in {"restart", "exit", "other"} : Command(command)
    <2>1. mpc # "push" /\ UNCHANGED child_pids /\ ~Fork
        BY <1>7 DEF Fork, Forked, Kill, Wait, Monitored, Loop, LogRestart,
           TerminateForRestart, SetLogfile, Reload, LogLock, Command
    <2> QED
        BY <2>1, <1>0, <1>1, AliveShrinks
<1> QED
    BY <1>2, <1>3, <1>4, <1>5, <1>6, <1>7, OtherSteps DEF Main

(* Every step keeps the generations apart.                                 *)
LEMMA StepTerminated == MasterInv /\ [Next]_vars => AllTerminated'
<1> SUFFICES ASSUME MasterInv, [Next]_vars, mpc' \in {"setlog", "reload", "exited"}
             PROVE  Alive' = {}
    BY DEF AllTerminated
<1> USE DEF At, Goto
<1>0. /\ TypeOK /\ KillInv /\ AllTerminated /\ ReturnInv
      /\ child_pids \in Seq(Pids) /\ i \in 1 .. Len(child_pids) + 1
    BY DEF MasterInv, TypeOK
<1>1. CASE Killed
    <2>1. mpc = "kill" /\ i > Len(child_pids) /\ Alive' \subseteq Alive
        BY <1>0, <1>1, AliveShrinks DEF Killed, Fork
    <2>2. ASSUME NEW p \in Alive  PROVE FALSE
        <3>1. PICK k \in DOMAIN child_pids : k >= i
            BY <2>1, <1>0 DEF KillInv
        <3> QED
            BY <2>1, <3>1, <1>0
    <2> QED
        BY <2>1, <2>2
<1>2. CASE ~Killed
    <2>1. mpc \in {"setlog", "reload", "exited"} /\ ~Fork
        BY <1>0, <1>2, OtherSteps
           DEF Main, Fork, PushPid, Forked, Kill, Wait, Monitor, Monitored, Loop, LogRestart,
               TerminateForRestart, SetLogfile, Reload, LogLock, Command, ReturnInv
    <2> QED
        BY <2>1, <1>0, AliveShrinks DEF AllTerminated
<1> QED
    BY <1>1, <1>2

-----------------------------------------------------------------------------
(* Results.                                                                *)

(* The invariant holds always.                                             *)
LEMMA Invariant == Spec => []MasterInv
<1>1. MasterInv /\ [Next]_vars => MasterInv'
    BY StepType, StepControl, StepKill, StepTracked, StepTerminated DEF MasterInv
<1> QED
    BY <1>1, InitInv, PTL DEF Spec

(* The variables of the master hold what they are declared to hold; the    *)
(* index never leaves child_pids, although monitorChildren erases from it  *)
(* on the way.                                                             *)
THEOREM TypeCorrect == Spec => []TypeOK
<1>1. MasterInv => TypeOK
    BY DEF MasterInv
<1> QED
    BY <1>1, Invariant, PTL

(* The master never loses track of a living child, although numbers are    *)
(* recycled and both the handler and monitorChildren reap.                 *)
THEOREM Tracked == Spec => []ChildrenTracked
<1>1. MasterInv => ChildrenTracked
    BY DEF MasterInv
<1> QED
    BY <1>1, Invariant, PTL

(* No child lives on into the next generation, or after the master.        *)
THEOREM NoSurvivor == Spec => []AllTerminated
<1>1. MasterInv => AllTerminated
    BY DEF MasterInv
<1> QED
    BY <1>1, Invariant, PTL
=============================================================================
