---------------------------- MODULE LoggerProofs -----------------------------
(* No log file outgrows its limit by more than a line for each other       *)
(* process and each refused rename, and no line is lost, for any number of *)
(* processes, lines, seconds, refused opens and renames.                   *)
EXTENDS Service, FiniteSetTheorems, TLAPS

-----------------------------------------------------------------------------
(* The inductive invariant.                                                *)

LogTypes ==
    /\ files \in Seq(Nat)
    /\ names \in [0 .. MaxTime -> 0 .. Len(files)]
    /\ ofs_ \in [Procs -> 0 .. Len(files)]
    /\ lpc \in [Procs -> {"out", "rename", "open", "write"}]
    /\ stamp \in [Procs -> 0 .. MaxTime]
    /\ now \in 1 .. MaxTime /\ kept \in Nat
    /\ \A p \in Procs : lpc[p] = "rename" => stamp[p] # 0

(* A stream is inherited by a process that is not in log.                  *)
Unborn ==
    /\ mpc # "prompt" => cpc = "none"
    /\ cpc = "none" => \A p \in Children : lpc[p] = "out"

(* Those who may yet write to f without having seen how full it is: they   *)
(* have passed the test, or are about to open the log under its own name.  *)
Writers(f) ==
    {p \in Procs : \/ lpc[p] = "write" /\ ofs_[p] = f
                   \/ lpc[p] = "open" /\ names[0] = f}

(* A full file gains such a process by a refused rename only, and loses    *)
(* one with every line.                                                    *)
Room(f) ==
    files[f] >= MaxSize =>
        files[f] + Cardinality(Writers(f)) <= MaxSize + Cardinality(Procs) - 1 + kept

Rooms  == \A f \in DOMAIN files : Room(f)
LogInv == LogTypes /\ Unborn /\ Rooms

-----------------------------------------------------------------------------
(* Counting.                                                               *)

(* Cardinalities of sets of processes are natural numbers, and monotonic.  *)
LEMMA Counts ==
    ASSUME NEW S \in SUBSET Procs, NEW T \in SUBSET S
    PROVE  /\ IsFiniteSet(S) /\ Cardinality(S) \in Nat
           /\ IsFiniteSet(T) /\ Cardinality(T) \in Nat
           /\ Cardinality(T) <= Cardinality(S)
<1>1. IsFiniteSet(Procs)
  BY LoggerAssumption
<1>2. IsFiniteSet(S)
  BY <1>1, FS_Subset
<1>3. IsFiniteSet(T) /\ Cardinality(T) <= Cardinality(S)
  BY <1>2, FS_Subset
<1> QED
  BY <1>2, <1>3, FS_CardinalityType

(* A file keeps its room when it gets neither lines nor writers.           *)
LEMMA RoomKept ==
    ASSUME LogTypes, LogTypes', NEW f \in DOMAIN files, Room(f), f \in DOMAIN files',
           files'[f] = files[f], Writers(f)' \subseteq Writers(f), kept' = kept
    PROVE  Room(f)'
<1>1. Writers(f) \in SUBSET Procs /\ Writers(f)' \in SUBSET Writers(f)
  BY DEF Writers
<1>2. /\ Cardinality(Writers(f)) \in Nat /\ Cardinality(Writers(f)') \in Nat
      /\ Cardinality(Writers(f)') <= Cardinality(Writers(f))
  BY <1>1, Counts
<1>3. Cardinality(Procs) \in Nat /\ kept' = kept
  BY Counts
<1>4. MaxSize \in Nat /\ files[f] \in Nat /\ kept \in Nat
  <2>1. MaxSize \in Nat
    BY LoggerAssumption
  <2>2. files \in Seq(Nat) /\ kept \in Nat
    BY DEF LogTypes
  <2> QED
    BY <2>1, <2>2
<1>5. SUFFICES ASSUME files[f] >= MaxSize
               PROVE  files[f] + Cardinality(Writers(f)') <= MaxSize + Cardinality(Procs) - 1 + kept
  BY DEF Room
<1>6. files[f] + Cardinality(Writers(f)) <= MaxSize + Cardinality(Procs) - 1 + kept
  BY <1>5 DEF Room
<1> QED
  BY <1>2, <1>3, <1>4, <1>6

(* So do all, when no stream is opened and no line written.                *)
LEMMA RoomsKept ==
    ASSUME LogTypes, LogTypes', Rooms, UNCHANGED files,
           \A f \in DOMAIN files : Writers(f)' \subseteq Writers(f), kept' = kept
    PROVE  Rooms'
  BY RoomKept DEF Rooms

-----------------------------------------------------------------------------
(* The operations.                                                         *)

(* A stream is opened on what is called server.log, or on a new file.      *)
LEMMA Opened ==
    ASSUME LogTypes, NEW p \in Procs, Open(p)
    PROVE  /\ files' \in Seq(Nat) /\ Len(files') >= Len(files)
           /\ names' \in [0 .. MaxTime -> 0 .. Len(files')]
           /\ ofs_' \in [Procs -> 0 .. Len(files')]
           /\ \A q \in Procs \ {p} : ofs_'[q] = ofs_[q]
           /\ \A f \in DOMAIN files :
                /\ f \in DOMAIN files' /\ files'[f] = files[f]
                /\ names'[0] = f => names[0] = f
                /\ ofs_'[p] = f => names[0] = f
           /\ \A f \in DOMAIN files' \ DOMAIN files : files'[f] = 0
<1> USE LoggerAssumption DEF LogTypes
<1>1. CASE names[0] # 0 /\ ofs_' = [ofs_ EXCEPT ![p] = names[0]] /\ UNCHANGED <<disk, refused>>
  BY <1>1 DEF disk
<1>2. CASE /\ names[0] = 0 /\ files' = Append(files, 0)
           /\ names' = [names EXCEPT ![0] = Len(files) + 1]
           /\ ofs_' = [ofs_ EXCEPT ![p] = Len(files) + 1]
  BY <1>2
<1>3. CASE ofs_' = [ofs_ EXCEPT ![p] = 0] /\ UNCHANGED disk
  BY <1>3 DEF disk
<1> QED
  BY <1>1, <1>2, <1>3 DEF Open

(* Whatever is opened so, old files keep their room, and a new one is empty.*)
LEMMA OpenedRooms ==
    ASSUME LogTypes, LogTypes', Rooms, NEW p \in Procs, Open(p),
           \A f \in DOMAIN files : Writers(f)' \subseteq Writers(f), kept' = kept
    PROVE  Rooms'
<1> SUFFICES ASSUME NEW f \in DOMAIN files' PROVE Room(f)'
  BY DEF Rooms
<1>1. CASE f \in DOMAIN files
  BY <1>1, Opened, RoomKept DEF Rooms
<1>2. CASE f \notin DOMAIN files
  <2>1. files'[f] = 0
    BY <1>2, Opened
  <2> QED
    BY <2>1, LoggerAssumption DEF Room
<1> QED
  BY <1>1, <1>2

(* set_logfile takes a process's stream from one file to another, ...      *)
LEMMA SetLogfileKeeps ==
    ASSUME LogTypes, Rooms, NEW p \in Procs, set_logfile(p)
    PROVE  LogTypes' /\ Rooms'
<1>1. LogTypes'
  BY Opened DEF set_logfile, LogTypes, past
<1>2. ASSUME NEW f \in DOMAIN files PROVE Writers(f)' \subseteq Writers(f)
  BY Opened DEF set_logfile, LogAt, Writers, LogTypes
<1> QED
  BY <1>1, <1>2, OpenedRooms DEF set_logfile, past

(* ... and so does the end of a rotation.                                  *)
LEMMA ReopenKeeps ==
    ASSUME LogTypes, Rooms, NEW p \in Procs, Reopen(p)
    PROVE  LogTypes' /\ Rooms'
<1>1. LogTypes'
  <2>1. /\ lpc' = [lpc EXCEPT ![p] = "write"]
        /\ stamp' = [stamp EXCEPT ![p] = 0]
        /\ now' = now
    BY DEF Reopen, LogGoto
  <2>2. /\ lpc' \in [Procs -> {"out", "rename", "open", "write"}]
        /\ stamp' \in [Procs -> 0 .. MaxTime]
        /\ now' \in 1 .. MaxTime
    BY <2>1, LoggerAssumption DEF LogTypes
  <2>3. \A q \in Procs : lpc'[q] = "rename" => stamp'[q] # 0
    BY <2>1 DEF LogTypes
  <2> QED
    BY <2>2, <2>3, Opened DEF Reopen, LogTypes, past
<1>2. ASSUME NEW f \in DOMAIN files PROVE Writers(f)' \subseteq Writers(f)
  <2>1. /\ \A q \in Procs \ {p} : ofs_'[q] = ofs_[q] /\ lpc'[q] = lpc[q]
        /\ lpc[p] = "open" /\ lpc'[p] = "write"
    BY Opened DEF Reopen, LogAt, LogGoto, LogTypes
  <2>2. (names'[0] = f => names[0] = f) /\ (ofs_'[p] = f => names[0] = f)
    BY Opened DEF Reopen
  <2> QED
    BY <2>1, <2>2 DEF Writers
<1> QED
  BY <1>1, <1>2, OpenedRooms DEF Reopen, past

(* A child that is forked is not in log, so it adds no writer.             *)
LEMMA InheritKeeps ==
    ASSUME LogTypes, Rooms, NEW q \in Procs, Inherit(q, Children),
           \A p \in Children : lpc[p] = "out"
    PROVE  LogTypes' /\ Rooms'
<1>1. LogTypes'
  BY DEF Inherit, LogTypes, disk, past
<1>2. ASSUME NEW f \in DOMAIN files PROVE Writers(f)' \subseteq Writers(f)
  BY DEF Inherit, Writers, LogTypes, disk
<1> QED
  BY <1>1, <1>2, RoomsKept DEF Inherit, disk, past

(* Children that end take their streams with them.                         *)
LEMMA EndKeeps ==
    ASSUME LogTypes, Rooms, End(Children)
    PROVE  LogTypes' /\ Rooms' /\ \A p \in Children : lpc'[p] = "out"
<1>1. LogTypes'
  BY LoggerAssumption DEF End, LogTypes, disk, past
<1>2. ASSUME NEW f \in DOMAIN files PROVE Writers(f)' \subseteq Writers(f)
  BY DEF End, Writers, LogTypes, disk
<1> QED
  BY <1>1, <1>2, RoomsKept DEF End, Children, disk, past

(* The test lets a process write to a file that is not full; that one has  *)
(* room, and the others have no new writer.                                *)
LEMMA CheckKeeps ==
    ASSUME LogTypes, Rooms, NEW p \in Procs, Check(p)
    PROVE  LogTypes' /\ Rooms'
<1>1. LogTypes'
  <2>1. CASE ofs_[p] # 0 /\ files[ofs_[p]] >= MaxSize
    <3>1. /\ lpc' = [lpc EXCEPT ![p] = "rename"]
          /\ stamp' = [stamp EXCEPT ![p] = now]
          /\ UNCHANGED <<disk, ofs_, now, kept>>
      BY <2>1 DEF Check, LogGoto, past
    <3>2. now \in 0 .. MaxTime /\ now # 0
      BY LoggerAssumption DEF LogTypes
    <3> QED
      BY <3>1, <3>2 DEF LogTypes, disk
  <2>2. CASE ~(ofs_[p] # 0 /\ files[ofs_[p]] >= MaxSize)
    BY <2>2 DEF Check, LogGoto, LogTypes, disk, past
  <2> QED
    BY <2>1, <2>2
<1>2. ASSUME NEW f \in DOMAIN files, files[f] >= MaxSize
      PROVE  Writers(f)' \subseteq Writers(f)
  <2>1. CASE ofs_[p] # 0 /\ files[ofs_[p]] >= MaxSize
    BY <2>1 DEF Check, LogAt, LogGoto, Writers, LogTypes, disk
  <2>2. CASE ~(ofs_[p] # 0 /\ files[ofs_[p]] >= MaxSize)
    <3>1. ofs_[p] # f
      BY <1>2, <2>2 DEF LogTypes
    <3> QED
      BY <2>2, <3>1 DEF Check, LogAt, LogGoto, Writers, LogTypes, disk
  <2> QED
    BY <2>1, <2>2
<1>3. ASSUME NEW f \in DOMAIN files PROVE Room(f)'
  <2>1. UNCHANGED <<files, kept>>
    BY DEF Check, disk, past
  <2>2. CASE files[f] >= MaxSize
    BY <1>1, <1>2, <2>1, <2>2, RoomKept DEF Rooms
  <2>3. CASE ~(files[f] >= MaxSize)
    BY <2>1, <2>3 DEF Room
  <2> QED
    BY <2>2, <2>3
<1> QED
  BY <1>1, <1>3 DEF Rooms, Check, disk

(* A rename moves the file, or is refused.                                 *)
Moves(p) ==
    /\ names' = IF names[0] = 0 THEN names
                ELSE [names EXCEPT ![0] = 0, ![stamp[p]] = names[0]]
    /\ rotations' = [rotations EXCEPT ![stamp[p]] = @ + 1]
    /\ kept' = kept

LEMMA Renamed ==
    ASSUME LogTypes, NEW p \in Procs, Rename(p)
    PROVE  /\ lpc[p] = "rename" /\ stamp[p] \in 1 .. MaxTime
           /\ lpc' = [lpc EXCEPT ![p] = "open"]
           /\ UNCHANGED <<files, ofs_, stamp, now, refused, finished>>
           /\ Moves(p) \/ (UNCHANGED <<names, rotations>> /\ kept' = kept + 1)
  BY LoggerAssumption DEF Rename, LogAt, LogGoto, LogTypes, Moves

(* A rename changes names, and the writers stay with the file; a refused   *)
(* one makes its process a writer, and is counted.                         *)
LEMMA RenameKeeps ==
    ASSUME LogTypes, Rooms, NEW p \in Procs, Rename(p)
    PROVE  LogTypes' /\ Rooms'
<1>1. /\ lpc[p] = "rename" /\ stamp[p] \in 1 .. MaxTime
      /\ lpc' = [lpc EXCEPT ![p] = "open"]
      /\ UNCHANGED <<files, ofs_, stamp, now>>
  BY Renamed
<1>2. ASSUME names' \in [0 .. MaxTime -> 0 .. Len(files)], kept' \in Nat PROVE LogTypes'
  BY <1>1, <1>2 DEF LogTypes
<1>3. CASE Moves(p)
  <2>1. names' \in [0 .. MaxTime -> 0 .. Len(files)] /\ names'[0] = 0
    BY <1>1, <1>3, LoggerAssumption DEF LogTypes, Moves
  <2>2. LogTypes' /\ kept' = kept
    BY <1>2, <1>3, <2>1 DEF LogTypes, Moves
  <2>3. ASSUME NEW f \in DOMAIN files PROVE Writers(f)' \subseteq Writers(f)
    BY <1>1, <2>1 DEF Writers, LogTypes
  <2> QED
    BY <1>1, <2>2, <2>3, RoomsKept
<1>4. CASE UNCHANGED <<names, rotations>> /\ kept' = kept + 1
  <2>1. LogTypes' /\ kept \in Nat /\ DOMAIN files' = DOMAIN files
    BY <1>1, <1>2, <1>4 DEF LogTypes
  <2>2. ASSUME NEW f \in DOMAIN files, files[f] >= MaxSize
        PROVE  files[f] + Cardinality(Writers(f)') <= MaxSize + Cardinality(Procs) - 1 + kept'
    <3>1. Writers(f)' \subseteq Writers(f) \cup {p}
      BY <1>1, <1>4 DEF Writers, LogTypes
    <3>2. Writers(f) \cup {p} \in SUBSET Procs /\ Writers(f) \in SUBSET Procs
      BY DEF Writers
    <3>3. /\ Cardinality(Writers(f)') \in Nat
          /\ Cardinality(Writers(f)') <= Cardinality(Writers(f) \cup {p})
          /\ Cardinality(Writers(f)) \in Nat /\ Cardinality(Procs) \in Nat
          /\ IsFiniteSet(Writers(f))
      BY <3>1, <3>2, Counts
    <3>4. Cardinality(Writers(f) \cup {p}) <= Cardinality(Writers(f)) + 1
      BY <3>3, FS_AddElement
    <3>5. files[f] \in Nat /\ MaxSize \in Nat
      BY LoggerAssumption DEF LogTypes
    <3>6. files[f] + Cardinality(Writers(f)) <= MaxSize + Cardinality(Procs) - 1 + kept
      BY <2>2 DEF Rooms, Room
    <3>7. Cardinality(Writers(f) \cup {p}) \in Nat
      BY <3>2, Counts
    <3> QED
      BY <1>4, <2>1, <3>3, <3>4, <3>5, <3>6, <3>7
  <2> QED
    BY <1>1, <2>1, <2>2 DEF Rooms, Room
<1> QED
  BY <1>3, <1>4, Renamed

(* A line takes its writer's place.                                        *)
LEMMA WriteKeeps ==
    ASSUME LogTypes, Rooms, NEW p \in Procs, Write(p)
    PROVE  LogTypes' /\ Rooms'
<1>1. LogTypes'
  BY DEF Write, LogGoto, LogTypes
<1>2. DOMAIN files' = DOMAIN files /\ kept' = kept /\ kept \in Nat
  BY DEF Write, LogTypes
<1>3. ASSUME NEW f \in DOMAIN files PROVE Writers(f)' = Writers(f) \ {q \in {p} : ofs_[p] = f}
  BY DEF Write, LogAt, LogGoto, Writers, LogTypes
<1>4. ASSUME NEW f \in DOMAIN files, ofs_[p] # f PROVE Room(f)'
  <2>1. files'[f] = files[f]
    BY <1>4 DEF Write, LogTypes
  <2> QED
    BY <1>1, <1>2, <1>3, <1>4, <2>1, RoomKept DEF Rooms
<1>5. ASSUME NEW f \in DOMAIN files, ofs_[p] = f PROVE Room(f)'
  <2>1. files'[f] = files[f] + 1 /\ files[f] \in Nat
    BY <1>5 DEF Write, LogTypes
  <2>2. p \in Writers(f) /\ Writers(f)' = Writers(f) \ {p}
    BY <1>3, <1>5 DEF Write, LogAt, Writers
  <2>3. Writers(f) \in SUBSET Procs /\ IsFiniteSet(Writers(f))
    BY Counts DEF Writers
  <2>4. Cardinality(Writers(f)') = Cardinality(Writers(f)) - 1
    BY <2>2, <2>3, FS_RemoveElement
  <2>5. /\ Cardinality(Writers(f)) \in Nat /\ Cardinality(Procs) \in Nat
        /\ Cardinality(Writers(f)) <= Cardinality(Procs)
    BY <2>3, Counts
  <2>6. MaxSize \in Nat
    BY LoggerAssumption
  <2> QED
    BY <1>2, <2>1, <2>4, <2>5, <2>6 DEF Room, Rooms
<1> QED
  BY <1>1, <1>2, <1>4, <1>5 DEF Rooms

-----------------------------------------------------------------------------
(* The specification.                                                      *)

LEMMA LogInvInit == Init => LogInv
<1> SUFFICES ASSUME Init PROVE LogInv
  OBVIOUS
<1>1. LogTypes
  BY LoggerAssumption DEF Init, LogInit, LogTypes
<1>2. Unborn
  BY DEF Init, BootInit, LogInit, Unborn, Children
<1> QED
  BY <1>1, <1>2 DEF Init, LogInit, Rooms, LogInv

(* Every step keeps the bound.                                             *)
LEMMA LogInvStep == LogInv /\ [Next]_vars => LogInv'
<1> SUFFICES ASSUME LogInv, [Next]_vars PROVE LogInv'
  OBVIOUS
<1> USE ServiceAssumption
<1>0. LogTypes /\ Unborn /\ Rooms
  BY DEF LogInv
<1>1. ASSUME UNCHANGED logVars PROVE LogTypes' /\ Rooms' /\ UNCHANGED lpc
  BY <1>0, <1>1 DEF logVars, LogTypes, Rooms, Room, Writers
<1>2. ASSUME OpenLog, set_logfile("main") PROVE LogInv'
  <2>1. Unborn'
    BY <1>0, <1>2 DEF Unborn, OpenLog, set_logfile, child, image, sockets
  <2> QED
    BY <1>0, <1>2, <2>1, SetLogfileKeeps DEF LogInv
<1>3. ASSUME LoadConfig \/ ReadPorts, UNCHANGED logVars PROVE LogInv'
  <2>1. Unborn'
    BY <1>0, <1>3, <1>1 DEF Unborn, LoadConfig, ReadPorts, child
  <2> QED
    BY <1>1, <1>3, <2>1 DEF LogInv
<1>4. ASSUME Fork, Inherit("main", Children) PROVE LogInv'
  <2>1. \A p \in Children : lpc[p] = "out"
    BY <1>0, <1>4 DEF Unborn, Fork
  <2>2. Unborn'
    BY <1>4 DEF Unborn, Fork
  <2> QED
    BY <1>0, <1>4, <2>1, <2>2, InheritKeeps DEF LogInv
<1>5. ASSUME Restart PROVE LogInv'
  <2>1. LogTypes' /\ Rooms' /\ \A p \in Children : lpc'[p] = "out"
    BY <1>0, <1>5, EndKeeps DEF Restart
  <2>2. Unborn'
    BY <1>0, <1>5, <2>1 DEF Unborn, Restart, Terminate, LogTypes
  <2> QED
    BY <2>1, <2>2 DEF LogInv
<1>6. ASSUME ChildStep PROVE LogInv'
  <2>1. cpc # "none" /\ cpc' # "none" /\ UNCHANGED main
    BY <1>6 DEF ChildStep, Prepare, Listen, Watch, Begin, Die
  <2>2. Unborn'
    BY <1>0, <2>1 DEF Unborn, main
  <2>3. CASE UNCHANGED logVars
    BY <1>1, <2>2, <2>3 DEF LogInv
  <2>4. CASE End(Children)
    BY <1>0, <2>2, <2>4, EndKeeps DEF LogInv
  <2> QED
    BY <1>6, <2>3, <2>4 DEF ChildStep
<1>7. ASSUME UNCHANGED <<main, child>>, UNCHANGED logVars PROVE LogInv'
  BY <1>0, <1>1, <1>7 DEF LogInv, Unborn, main, child
<1>8. ASSUME Tick, UNCHANGED bootVars PROVE LogInv'
  <2>1. LogTypes'
    BY <1>0, <1>8, LoggerAssumption DEF Tick, disk, past, LogTypes
  <2>2. Rooms'
    BY <1>0, <1>8 DEF Tick, disk, past, Rooms, Room, Writers
  <2> QED
    BY <1>0, <1>8, <2>1, <2>2 DEF LogInv, Unborn, Tick, bootVars, main, child
<1>9. ASSUME NEW p \in Procs, Log(p) PROVE LogInv'
  <2>1. LogTypes' /\ Rooms'
    BY <1>0, <1>9, CheckKeeps DEF Log
  <2>2. cpc = "none" => p \notin Children
    BY <1>9 DEF Log, Alive, Children
  <2>3. \A q \in Children : lpc'[q] = lpc[q] \/ q = p
    BY <1>0, <1>9 DEF Log, Check, LogGoto, Children, LogTypes
  <2>4. Unborn'
    BY <1>0, <1>9, <2>2, <2>3 DEF Log, Unborn, bootVars, main, child
  <2> QED
    BY <2>1, <2>4 DEF LogInv
<1>10. ASSUME NEW p \in Procs, InLog(p) PROVE LogInv'
  <2>1. LogTypes' /\ Rooms'
    BY <1>0, <1>10, RenameKeeps, ReopenKeeps, WriteKeeps DEF InLog
  <2>2. cpc = "none" => p \notin Children
    BY <1>0, <1>10 DEF InLog, Rename, Reopen, Write, LogAt, Unborn
  <2>3. \A q \in Children : lpc'[q] = lpc[q] \/ q = p
    BY <1>0, <1>10 DEF InLog, Rename, Reopen, Write, LogGoto, Children, LogTypes
  <2>4. Unborn'
    BY <1>0, <1>10, <2>2, <2>3 DEF InLog, Unborn, bootVars, main, child
  <2> QED
    BY <2>1, <2>4 DEF LogInv
<1>11. CASE UNCHANGED vars
  BY <1>7, <1>11 DEF vars, bootVars
<1>12. CASE MainStep
  BY <1>2, <1>3, <1>4, <1>12 DEF MainStep
<1>13. CASE Request
  BY <1>7, <1>13 DEF Request, Serve
<1>14. CASE Outside
  BY <1>7, <1>8, <1>14 DEF Outside, Edit
<1> QED
  BY <1>5, <1>6, <1>9, <1>10, <1>11, <1>12, <1>13, <1>14 DEF Next

(* SizeBounded: a log file has at most one line beyond its limit for each  *)
(* process but the one that filled it, and one for each rename that failed *)
(* unnoticed (Logger.hpp:105), although the test of its size and the       *)
(* writing are not one step, and streams are opened on files others have   *)
(* filled.                                                                 *)
THEOREM LogBounded == Spec => []SizeBounded
<1>1. LogInv => SizeBounded
  <2> SUFFICES ASSUME LogInv, NEW f \in DOMAIN files
               PROVE  files[f] <= MaxSize + Cardinality(Procs) - 1 + kept
    BY DEF SizeBounded
  <2>1. files[f] \in Nat /\ Room(f) /\ kept \in Nat
    BY DEF LogInv, LogTypes, Rooms
  <2>2. /\ Writers(f) \in SUBSET Procs /\ Cardinality(Writers(f)) \in Nat
        /\ Cardinality(Procs) \in Nat /\ MaxSize \in Nat
    BY Counts, LoggerAssumption DEF Writers
  <2>3. Cardinality(Procs) >= 1
    <3>1. Cardinality({"main"}) = 1
      BY FS_Singleton
    <3> QED
      BY <3>1, Counts, ServiceAssumption
  <2> QED
    BY <2>1, <2>2, <2>3 DEF Room
<1> QED
  BY <1>1, LogInvInit, LogInvStep, PTL DEF Spec

-----------------------------------------------------------------------------
(* No line is lost.  While no second has seen two rotations and no open    *)
(* has failed, every file has a name, a second without a rotation has none,*)
(* whoever is in log has a stream, and the lines that were written are     *)
(* those in the files.                                                     *)

Regularly == (\A t \in 1 .. MaxTime : rotations[t] <= 1) /\ refused = 0

Named   == DOMAIN files \subseteq Range(names)
Vacant  == \A t \in 1 .. MaxTime : rotations[t] = 0 => names[t] = 0
Streams == \A p \in Procs : Alive(p) \/ lpc[p] # "out" => ofs_[p] # 0
Written == UNION {{f} \X (1 .. files[f]) : f \in DOMAIN files}
Counted == IsFiniteSet(Written) /\ finished = Cardinality(Written)

Past    == rotations \in [1 .. MaxTime -> Nat] /\ refused \in Nat
KeptInv == Past /\ (Regularly => Named /\ Vacant /\ Streams /\ Counted)

(* A pair is a line written, if the file has as many.                      *)
LEMMA InWritten ==
    ASSUME NEW x
    PROVE  x \in Written <=> \E f \in DOMAIN files : \E k \in 1 .. files[f] : x = <<f, k>>
  BY DEF Written

(* When every file has a name, the lines written can all be found.         *)
LEMMA AllFound ==
    ASSUME LogTypes, Named
    PROVE  Lines = Written
<1>1. DOMAIN files = 1 .. Len(files) /\ Len(files) \in Nat
  BY DEF LogTypes
<1>2. Range(names) \subseteq 0 .. Len(files)
  BY DEF LogTypes, Range
<1>3. Range(names) \ {0} = DOMAIN files
  BY <1>1, <1>2 DEF Named
<1> QED
  BY <1>3 DEF Lines, Written

(* Opening the log gives a stream, leaves every file a name, and writes    *)
(* nothing.                                                                *)
LEMMA OpenedKept ==
    ASSUME LogTypes, Named, Vacant, NEW p \in Procs, Open(p), refused \in Nat, refused' = 0,
           rotations' = rotations
    PROVE  Named' /\ Vacant' /\ Written' = Written /\ ofs_'[p] # 0
<1>1. CASE names[0] # 0 /\ ofs_' = [ofs_ EXCEPT ![p] = names[0]] /\ UNCHANGED <<disk, refused>>
  BY <1>1 DEF disk, Named, Vacant, Written, LogTypes
<1>2. CASE /\ names[0] = 0 /\ files' = Append(files, 0)
           /\ names' = [names EXCEPT ![0] = Len(files) + 1]
           /\ ofs_' = [ofs_ EXCEPT ![p] = Len(files) + 1]
  <2>1. /\ DOMAIN files' = DOMAIN files \cup {Len(files) + 1}
        /\ Len(files) \in Nat
        /\ \A f \in DOMAIN files : files'[f] = files[f] /\ f # 0 /\ f # Len(files) + 1
        /\ files'[Len(files) + 1] = 0
    BY <1>2 DEF LogTypes
  <2>2. /\ DOMAIN names' = DOMAIN names /\ 0 \in DOMAIN names
        /\ names'[0] = Len(files) + 1
        /\ \A t \in DOMAIN names \ {0} : names'[t] = names[t]
    BY <1>2, LoggerAssumption DEF LogTypes
  <2>3. Named'
    <3>1. ASSUME NEW f \in DOMAIN files PROVE f \in Range(names)'
      <4>1. PICK t \in DOMAIN names : names[t] = f
        BY DEF Named, Range
      <4>2. t # 0
        BY <1>2, <2>1, <4>1
      <4> QED
        BY <2>2, <4>1, <4>2 DEF Range
    <3>2. Len(files) + 1 \in Range(names)'
      BY <2>2 DEF Range
    <3> QED
      BY <2>1, <3>1, <3>2 DEF Named
  <2>4. Vacant'
    BY <2>2, LoggerAssumption DEF Vacant, LogTypes
  <2>5. Written' = Written
    <3>1. 1 .. files'[Len(files) + 1] = {}
      BY <2>1
    <3> QED
      BY <2>1, <3>1 DEF Written
  <2> QED
    BY <1>2, <2>1, <2>3, <2>4, <2>5 DEF LogTypes
<1>3. CASE refused < MaxOpens /\ refused' = refused + 1
  BY <1>3
<1> QED
  BY <1>1, <1>2, <1>3 DEF Open

(* A rotation gives the file a name that nothing had, or leaves it its own.*)
LEMMA RenamedKept ==
    ASSUME LogTypes, Past, Named, Vacant, NEW p \in Procs, Rename(p), Regularly'
    PROVE  Named' /\ Vacant'
<1> DEFINE t == stamp[p]
<1>0. CASE UNCHANGED <<names, rotations, files>>
  BY <1>0 DEF Named, Vacant, Range
<1> SUFFICES ASSUME Moves(p) PROVE Named' /\ Vacant'
  BY <1>0, Renamed
<1>1. t \in 1 .. MaxTime /\ files' = files
  BY Renamed
<1>2. rotations[t] = 0 /\ rotations'[t] = 1
  BY <1>1 DEF Moves, Past, Regularly
<1>3. names[t] = 0 /\ t # 0 /\ {0, t} \subseteq DOMAIN names
  BY <1>1, <1>2, LoggerAssumption DEF Vacant, LogTypes
<1> HIDE DEF t
<1>4. \A u \in 1 .. MaxTime : u # t => rotations'[u] = rotations[u]
  BY DEF Moves, Past, t
<1>5. CASE names[0] = 0
  <2>1. names' = names /\ files' = files
    BY <1>1, <1>5 DEF Moves
  <2> QED
    BY <1>2, <1>4, <2>1 DEF Named, Vacant
<1>6. CASE names[0] # 0
  <2>1. /\ DOMAIN names' = DOMAIN names /\ files' = files
        /\ names'[t] = names[0]
        /\ \A u \in DOMAIN names \ {0, t} : names'[u] = names[u]
    BY <1>1, <1>3, <1>6 DEF Moves, LogTypes, t
  <2>2. ASSUME NEW f \in DOMAIN files PROVE f \in Range(names)'
    <3>1. PICK u \in DOMAIN names : names[u] = f
      BY DEF Named, Range
    <3>2. f # 0
      BY DEF LogTypes
    <3>3. u # t
      BY <1>3, <3>1, <3>2
    <3> QED
      BY <1>3, <2>1, <3>1, <3>3 DEF Range
  <2>3. ASSUME NEW u \in 1 .. MaxTime, rotations'[u] = 0 PROVE names'[u] = 0
    <3>1. u # t /\ rotations[u] = 0
      BY <1>2, <1>4, <2>3
    <3>2. u \in DOMAIN names \ {0, t}
      BY <3>1, LoggerAssumption DEF LogTypes
    <3> QED
      BY <2>1, <3>1, <3>2 DEF Vacant
  <2> QED
    BY <2>1, <2>2, <2>3 DEF Named, Vacant
<1> QED
  BY <1>5, <1>6

(* A call of log that returns has written its line.                        *)
LEMMA WrittenOnce ==
    ASSUME LogTypes, Counted, NEW p \in Procs, Write(p), ofs_[p] # 0
    PROVE  Counted' /\ DOMAIN files' = DOMAIN files
<1> DEFINE f == ofs_[p]
           x == <<f, files[f] + 1>>
<1>1. f \in DOMAIN files /\ files[f] \in Nat
  BY DEF LogTypes
<1>2. /\ DOMAIN files' = DOMAIN files
      /\ files'[f] = files[f] + 1
      /\ \A g \in DOMAIN files : g # f => files'[g] = files[g]
  BY <1>1 DEF Write, LogTypes
<1>3. finished' = finished + 1
  BY DEF Write
<1> HIDE DEF f
<1>4. 1 .. files'[f] = (1 .. files[f]) \cup {files[f] + 1}
  BY <1>1, <1>2
<1>5. Written' = Written \cup {x} /\ x \notin Written
  BY <1>1, <1>2, <1>4 DEF Written
<1>6. /\ IsFiniteSet(Written \cup {x})
      /\ Cardinality(Written \cup {x}) = Cardinality(Written) + 1
  BY <1>5, FS_AddElement DEF Counted
<1> QED
  BY <1>2, <1>3, <1>5, <1>6 DEF Counted

(* In the beginning there is one log file at most, with its name.          *)
LEMMA KeptInvInit == Init => KeptInv
<1> SUFFICES ASSUME Init PROVE KeptInv
  OBVIOUS
<1>1. Past /\ Named /\ Vacant
  BY DEF Init, LogInit, Past, Named, Vacant
<1>2. Streams
  BY DEF Init, BootInit, LogInit, Streams, Alive
<1>3. Counted
  <2>1. Written = {}
    BY DEF Init, LogInit, Written
  <2> QED
    BY <2>1, FS_EmptySet DEF Init, LogInit, Counted
<1> QED
  BY <1>1, <1>2, <1>3 DEF KeptInv

(* Rotations and failures are counted for ever.                            *)
LEMMA PastGrows ==
    ASSUME LogTypes, Past, [Next]_vars
    PROVE  Past' /\ (Regularly' => Regularly)
<1>1. CASE UNCHANGED <<rotations, refused>>
  BY <1>1 DEF Past, Regularly
<1>2. ASSUME NEW p \in Procs, Open(p), UNCHANGED rotations PROVE Past' /\ (Regularly' => Regularly)
  <2>1. refused' \in {refused, refused + 1}
    BY <1>2 DEF Open, disk
  <2> QED
    BY <1>2, <2>1 DEF Past, Regularly
<1>3. ASSUME NEW p \in Procs, Rename(p) PROVE Past' /\ (Regularly' => Regularly)
  <2>1. CASE UNCHANGED <<rotations, refused>>
    BY <1>1, <2>1
  <2>2. CASE Moves(p)
    <3>1. stamp[p] \in 1 .. MaxTime /\ refused' = refused
      BY <1>3, Renamed
    <3>2. Past'
      BY <2>2, <3>1 DEF Moves, Past
    <3>3. \A t \in 1 .. MaxTime : rotations'[t] <= 1 => rotations[t] <= 1
      BY <2>2, <3>1 DEF Moves, Past
    <3> QED
      BY <3>1, <3>2, <3>3 DEF Regularly
  <2> QED
    BY <1>3, <2>1, <2>2, Renamed
<1> USE ServiceAssumption
<1>4. CASE MainStep
  <2>1. CASE OpenLog /\ set_logfile("main")
    BY <1>2, <2>1 DEF set_logfile, past
  <2>2. CASE ~(OpenLog /\ set_logfile("main"))
    BY <1>1, <1>4, <2>2 DEF MainStep, Inherit, logVars, past
  <2> QED
    BY <2>1, <2>2
<1>5. CASE Restart \/ ChildStep \/ Request \/ Outside
  BY <1>1, <1>5 DEF Restart, ChildStep, Request, Outside, End, Tick, logVars, past
<1>6. ASSUME NEW p \in Procs, Log(p) \/ InLog(p) PROVE Past' /\ (Regularly' => Regularly)
  <2>1. CASE Log(p) \/ Write(p)
    BY <1>1, <2>1 DEF Log, Check, Write, past
  <2>2. CASE Reopen(p)
    BY <1>2, <2>2 DEF Reopen, past
  <2> QED
    BY <1>3, <1>6, <2>1, <2>2 DEF InLog
<1>7. CASE UNCHANGED vars
  BY <1>1, <1>7 DEF vars, logVars
<1> QED
  BY <1>4, <1>5, <1>6, <1>7 DEF Next

(* What becomes of the streams when the files are left alone.              *)
LEMMA DiskKept ==
    ASSUME UNCHANGED <<names, files, rotations, finished>>, Named, Vacant, Counted
    PROVE  Named' /\ Vacant' /\ Counted'
  BY DEF Named, Vacant, Counted, Written, Range

(* Who had a stream, and neither begins nor closes one, has it.            *)
LEMMA StreamsKept ==
    ASSUME Streams, \A p \in Procs : Alive(p)' \/ lpc'[p] # "out" =>
                        (Alive(p) \/ lpc[p] # "out") /\ ofs_'[p] = ofs_[p]
    PROVE  Streams'
  BY DEF Streams

(* Every step keeps all lines under some name.                             *)
LEMMA KeptInvStep == LogInv /\ KeptInv /\ [Next]_vars => KeptInv'
<1> SUFFICES ASSUME LogInv, KeptInv, [Next]_vars, Regularly'
             PROVE  Named' /\ Vacant' /\ Streams' /\ Counted'
  BY PastGrows DEF KeptInv, LogInv
<1> DEFINE Goal == Named' /\ Vacant' /\ Streams' /\ Counted'
<1> USE ServiceAssumption
<1>0. LogTypes /\ Past /\ Regularly /\ Named /\ Vacant /\ Streams /\ Counted
  BY PastGrows DEF LogInv, KeptInv
<1>1. ASSUME UNCHANGED logVars, \A p \in Procs : Alive(p)' => Alive(p) PROVE Goal
  <2>1. Streams'
    BY <1>0, <1>1, StreamsKept DEF logVars
  <2> QED
    BY <1>0, <1>1, <2>1, DiskKept DEF logVars
<1>2. CASE OpenLog /\ set_logfile("main")
  <2>1. Open("main") /\ UNCHANGED <<lpc, rotations, finished>>
    BY <1>2 DEF set_logfile, past
  <2>2. Named' /\ Vacant' /\ Written' = Written /\ ofs_'["main"] # 0
    BY <1>0, <2>1, OpenedKept DEF Past, Regularly
  <2>3. \A p \in Procs \ {"main"} : ofs_'[p] = ofs_[p] /\ Alive(p)' = Alive(p)
    BY <1>0, <1>2, <2>1, Opened DEF OpenLog, child, Alive
  <2>4. Streams'
    BY <1>0, <2>1, <2>2, <2>3 DEF Streams
  <2> QED
    BY <1>0, <2>1, <2>2, <2>4 DEF Counted
<1>3. CASE (LoadConfig \/ ReadPorts) /\ UNCHANGED logVars
  <2>1. \A p \in Procs : Alive(p)' => Alive(p)
    BY <1>3 DEF LoadConfig, ReadPorts, child, Alive
  <2> QED
    BY <1>1, <1>3, <2>1
<1>4. CASE Fork /\ Inherit("main", Children)
  <2>1. ofs_["main"] # 0
    BY <1>0, <1>4 DEF Fork, Alive, Streams
  <2>2. UNCHANGED <<names, files, rotations, finished, lpc>>
    BY <1>4 DEF Inherit, disk, past
  <2>3. \A p \in Procs : ofs_'[p] = ofs_[IF p \in Children THEN "main" ELSE p]
    BY <1>4 DEF Inherit
  <2>4. Alive("main")
    BY <1>4 DEF Fork, Alive
  <2>5. Streams'
    BY <1>0, <2>1, <2>2, <2>3, <2>4 DEF Streams, Children
  <2> QED
    BY <1>0, <2>2, <2>5, DiskKept
<1>5. ASSUME End(Children), \A p \in Children : ~Alive(p)',
             Alive("main")' \/ lpc["main"] # "out" => Alive("main") \/ lpc["main"] # "out"
      PROVE  Goal
  <2>1. UNCHANGED <<names, files, rotations, finished>>
    BY <1>5 DEF End, disk, past
  <2>2. /\ \A p \in Children : lpc'[p] = "out"
        /\ ofs_'["main"] = ofs_["main"] /\ lpc'["main"] = lpc["main"]
    BY <1>5 DEF End, Children
  <2>3. Streams'
    BY <1>0, <1>5, <2>2 DEF Streams, Children
  <2> QED
    BY <1>0, <2>1, <2>3, DiskKept
<1>6. CASE Restart
  BY <1>5, <1>6 DEF Restart, Terminate, Alive, Children
<1>7. CASE ChildStep
  <2>1. cpc \notin {"none", "dead"} /\ UNCHANGED main
    BY <1>7 DEF ChildStep, Prepare, Listen, Watch, Begin
  <2>2. CASE cpc' = "dead"
    <3>1. /\ \A p \in Children : ~Alive(p)'
          /\ Alive("main")' = Alive("main")
      BY <2>1, <2>2 DEF Alive, Children, main
    <3> QED
      BY <1>5, <1>7, <2>2, <3>1 DEF ChildStep
  <2>3. CASE cpc' # "dead"
    <3>1. \A p \in Procs : Alive(p)' => Alive(p)
      BY <2>1 DEF Alive, main
    <3> QED
      BY <1>1, <1>7, <2>3, <3>1 DEF ChildStep
  <2> QED
    BY <2>2, <2>3
<1>8. CASE Request
  <2>1. UNCHANGED logVars /\ \A p \in Procs : Alive(p)' => Alive(p)
    BY <1>8 DEF Request, Serve, main, child, Alive
  <2> QED
    BY <1>1, <2>1
<1>9. CASE Outside
  <2>1. /\ UNCHANGED <<names, files, rotations, finished, ofs_, lpc>>
        /\ UNCHANGED <<mpc, cpc>>
    BY <1>9 DEF Outside, Edit, Tick, logVars, disk, past, bootVars, main, child
  <2>2. \A p \in Procs : Alive(p)' = Alive(p)
    BY <2>1 DEF Alive
  <2>3. Streams'
    BY <1>0, <2>1, <2>2, StreamsKept
  <2> QED
    BY <1>0, <2>1, <2>3, DiskKept
<1>10. ASSUME NEW p \in Procs, Log(p) PROVE Goal
  <2>1. /\ UNCHANGED <<names, files, rotations, finished, ofs_>>
        /\ \A q \in Procs \ {p} : lpc'[q] = lpc[q]
        /\ Alive(p)
    BY <1>0, <1>10 DEF Log, Check, LogGoto, disk, past, LogTypes
  <2>2. \A q \in Procs : Alive(q)' = Alive(q)
    BY <1>10 DEF Log, bootVars, main, child, Alive
  <2>3. Streams'
    BY <1>0, <2>1, <2>2 DEF Streams
  <2> QED
    BY <1>0, <2>1, <2>3, DiskKept
<1>11. ASSUME NEW p \in Procs, InLog(p) PROVE Goal
  <2>1. \A q \in Procs : Alive(q)' = Alive(q)
    BY <1>11 DEF InLog, bootVars, main, child, Alive
  <2>2. lpc[p] # "out" /\ ofs_[p] # 0
    BY <1>0, <1>11 DEF InLog, Rename, Reopen, Write, LogAt, Streams
  <2>3. \A q \in Procs \ {p} : lpc'[q] = lpc[q]
    BY <1>0, <1>11 DEF InLog, Rename, Reopen, Write, LogGoto, LogTypes
  <2>4. CASE Rename(p)
    <3>1. Named' /\ Vacant'
      BY <1>0, <2>4, RenamedKept
    <3>2. UNCHANGED <<files, finished, ofs_>>
      BY <2>4 DEF Rename
    <3>3. Streams'
      BY <1>0, <2>1, <2>2, <2>3, <3>2 DEF Streams
    <3> QED
      BY <1>0, <3>1, <3>2, <3>3 DEF Counted, Written
  <2>5. CASE Reopen(p)
    <3>1. Open(p) /\ UNCHANGED <<rotations, finished>>
      BY <2>5 DEF Reopen, past
    <3>2. Named' /\ Vacant' /\ Written' = Written /\ ofs_'[p] # 0
      BY <1>0, <3>1, OpenedKept DEF Past, Regularly
    <3>3. \A q \in Procs \ {p} : ofs_'[q] = ofs_[q]
      BY <1>0, <3>1, Opened
    <3>4. Streams'
      BY <1>0, <2>1, <2>3, <3>2, <3>3 DEF Streams
    <3> QED
      BY <1>0, <3>1, <3>2, <3>4 DEF Counted
  <2>6. CASE Write(p)
    <3>1. Counted' /\ DOMAIN files' = DOMAIN files
      BY <1>0, <2>2, <2>6, WrittenOnce
    <3>2. UNCHANGED <<names, ofs_, rotations>>
      BY <2>6 DEF Write
    <3>3. Named' /\ Vacant'
      BY <1>0, <3>1, <3>2 DEF Named, Vacant, Range
    <3>4. Streams'
      BY <1>0, <2>1, <2>2, <2>3, <3>2 DEF Streams
    <3> QED
      BY <3>1, <3>3, <3>4
  <2> QED
    BY <1>11, <2>4, <2>5, <2>6 DEF InLog
<1>12. CASE UNCHANGED vars
  <2>1. UNCHANGED logVars /\ \A p \in Procs : Alive(p)' => Alive(p)
    BY <1>12 DEF vars, bootVars, main, child, Alive
  <2> QED
    BY <1>1, <2>1
<1> QED
  BY <1>2, <1>3, <1>4, <1>6, <1>7, <1>8, <1>9, <1>10, <1>11, <1>12 DEF Next, MainStep

(* LinesKept: every line that was logged can be found under some name, as  *)
(* long as no second has seen two rotations and no open has failed,        *)
(* whatever processes rotate, fork, log or are killed in between.          *)
THEOREM NoLineLost == Spec => []LinesKept
<1>1. LogInv /\ KeptInv => LinesKept
  BY AllFound DEF LogInv, KeptInv, Regularly, Counted, LinesKept
<1> QED
  BY <1>1, LogInvInit, LogInvStep, KeptInvInit, KeptInvStep, PTL DEF Spec
=============================================================================
