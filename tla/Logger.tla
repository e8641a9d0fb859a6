------------------------------- MODULE Logger -------------------------------
(***************************************************************************)
(* SOK::Logger in several processes that share one log file: a child       *)
(* inherits the stream of its parent, and every process rotates the file   *)
(* by itself when the one it writes to is full.  Sizes are in lines; a     *)
(* rotated file is named after the second.                                 *)
(***************************************************************************)
EXTENDS Naturals, Sequences, SequencesExt, FiniteSetsExt

CONSTANTS
    Procs,
    MaxSize,    \* max_filesize_, in lines
    MaxTime,    \* bound: seconds
    MaxLines,   \* bound: calls of log
    MaxOpens,   \* bound: calls of open that fail
    MaxRenames  \* bound: calls of rename that fail

ASSUME LoggerAssumption ==
    /\ IsFiniteSet(Procs)
    /\ MaxSize \in Nat \ {0} /\ MaxTime \in Nat \ {0}

VARIABLES
    names,      \* directory: 0 for server.log, t for the file rotated at t
    files,      \* their lengths; a file is an index, 0 no file
    ofs_,       \* a process's stream: an index, or 0 when it is closed
    lpc, stamp, \* a process in log: location; the time it took for the name
    now, lines, refused,    \* clock; calls of log, and of open that failed
    finished,   \* history: calls of log that returned
    rotations,  \* history: renames, by their second
    kept        \* history: renames that failed

logVars == <<names, files, ofs_, lpc, stamp, now, lines, refused, finished, rotations, kept>>
disk    == <<names, files>>
past    == <<finished, rotations, kept>>

LogInit ==
    /\ names = [t \in 0 .. MaxTime |-> 0] /\ files = <<>>
    /\ ofs_ = [p \in Procs |-> 0]
    /\ lpc = [p \in Procs |-> "out"] /\ stamp = [p \in Procs |-> 0]
    /\ now = 1 /\ lines = 0 /\ refused = 0
    /\ finished = 0 /\ rotations = [t \in 1 .. MaxTime |-> 0] /\ kept = 0

LogAt(p, l) == lpc[p] = l
LogGoto(p, l) == lpc' = [lpc EXCEPT ![p] = l]

(* open(server.log, app) creates the file when there is none.              *)
Open(p) ==
    \/ /\ names[0] # 0
       /\ ofs_' = [ofs_ EXCEPT ![p] = names[0]]
       /\ UNCHANGED <<disk, refused>>
    \/ /\ names[0] = 0
       /\ files' = Append(files, 0)
       /\ names' = [names EXCEPT ![0] = Len(files) + 1]
       /\ ofs_' = [ofs_ EXCEPT ![p] = Len(files) + 1]
       /\ UNCHANGED refused
    \/ /\ refused < MaxOpens
       /\ refused' = refused + 1
       /\ ofs_' = [ofs_ EXCEPT ![p] = 0]
       /\ UNCHANGED disk

set_logfile(p) ==
    /\ LogAt(p, "out")
    /\ Open(p)
    /\ UNCHANGED <<lpc, stamp, now, lines, past>>

(* The forks, and the end of those processes.                              *)
Inherit(parent, children) ==
    /\ LogAt(parent, "out")
    /\ ofs_' = [p \in Procs |-> ofs_[IF p \in children THEN parent ELSE p]]
    /\ UNCHANGED <<disk, lpc, stamp, now, lines, refused, past>>
End(children) ==
    /\ ofs_' = [p \in Procs |-> IF p \in children THEN 0 ELSE ofs_[p]]
    /\ lpc' = [p \in Procs |-> IF p \in children THEN "out" ELSE lpc[p]]
    /\ stamp' = [p \in Procs |-> IF p \in children THEN 0 ELSE stamp[p]]
    /\ UNCHANGED <<disk, now, lines, refused, past>>

(* Mutant: the size is tested with > instead of >=.                        *)
CheckLate(p) ==
    /\ LogAt(p, "out") /\ lines < MaxLines
    /\ lines' = lines + 1
    /\ IF ofs_[p] # 0 /\ files[ofs_[p]] > MaxSize
       THEN LogGoto(p, "rename") /\ stamp' = [stamp EXCEPT ![p] = now]
       ELSE LogGoto(p, "write") /\ UNCHANGED stamp
    /\ UNCHANGED <<disk, ofs_, now, refused, past>>

(* log and check_and_rotate: seekp, tellp; the second is taken for the new *)
(* name of a full file.                                                    *)
Check(p) ==
    /\ LogAt(p, "out") /\ lines < MaxLines
    /\ lines' = lines + 1
    /\ IF ofs_[p] # 0 /\ files[ofs_[p]] >= MaxSize
       THEN LogGoto(p, "rename") /\ stamp' = [stamp EXCEPT ![p] = now]
       ELSE LogGoto(p, "write") /\ UNCHANGED stamp
    /\ UNCHANGED <<disk, ofs_, now, refused, past>>

(* Mutant: there is one name for the old log.                              *)
RenameOver(p) ==
    /\ LogAt(p, "rename")
    /\ LogGoto(p, "open")
    /\ names' = IF names[0] = 0 THEN names
                ELSE [names EXCEPT ![0] = 0, ![1] = names[0]]
    /\ rotations' = [rotations EXCEPT ![stamp[p]] = @ + 1]
    /\ UNCHANGED <<files, ofs_, stamp, now, lines, refused, finished, kept>>

(* rename of whatever is called server.log by now; it replaces a file that *)
(* has the new name.  When it fails the full file keeps its name, and is   *)
(* opened again.                                                           *)
Rename(p) ==
    /\ LogAt(p, "rename")
    /\ LogGoto(p, "open")
    /\ \/ /\ names' = IF names[0] = 0 THEN names
                      ELSE [names EXCEPT ![0] = 0, ![stamp[p]] = names[0]]
          /\ rotations' = [rotations EXCEPT ![stamp[p]] = @ + 1]
          /\ UNCHANGED kept
       \/ /\ names[0] # 0 /\ kept < MaxRenames
          /\ kept' = kept + 1
          /\ UNCHANGED <<names, rotations>>
    /\ UNCHANGED <<files, ofs_, stamp, now, lines, refused, finished>>

Reopen(p) ==
    /\ LogAt(p, "open")
    /\ LogGoto(p, "write") /\ stamp' = [stamp EXCEPT ![p] = 0]
    /\ Open(p)
    /\ UNCHANGED <<now, lines, past>>

(* A line is appended to the stream's file, whatever its name is by now.   *)
Write(p) ==
    /\ LogAt(p, "write")
    /\ LogGoto(p, "out")
    /\ files' = IF ofs_[p] = 0 THEN files ELSE [files EXCEPT ![ofs_[p]] = @ + 1]
    /\ finished' = finished + 1
    /\ UNCHANGED <<names, ofs_, stamp, now, lines, refused, rotations, kept>>

Tick ==
    /\ now < MaxTime
    /\ now' = now + 1
    /\ UNCHANGED <<disk, ofs_, lpc, stamp, lines, refused, past>>

-----------------------------------------------------------------------------
(* A file outgrows its limit by one line for every other process, and one  *)
(* for every rename that failed: the test and the write are not one step,  *)
(* a stream may be opened on a file that others have filled, and the result*)
(* of rename is ignored (Logger.hpp:44-48, :94-106).  Where no rename      *)
(* succeeds the file grows with every line.                                *)
SizeBounded ==
    \A f \in DOMAIN files : files[f] <= MaxSize + Cardinality(Procs) - 1 + kept

(* The lines that can be found under some name.                            *)
Lines == UNION {{f} \X (1 .. files[f]) : f \in Range(names) \ {0}}

(* Every line that was logged is in one of the files, unless two rotations *)
(* fell into one second, the later of which replaces the file of the       *)
(* earlier, or the log could not be opened (Logger.hpp:97-106).            *)
LinesKept ==
    (\A t \in 1 .. MaxTime : rotations[t] <= 1) /\ refused = 0 =>
        finished = Cardinality(Lines)
=============================================================================
