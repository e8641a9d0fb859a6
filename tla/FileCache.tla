----------------------------- MODULE FileCache -----------------------------
(***************************************************************************)
(* mstd::FileCache, the LRU cache of static files of handle_http and       *)
(* handle_https, and the file system under it, which others change while   *)
(* get runs.                                                               *)
(*                                                                         *)
(* get holds mutex_ from beginning to end, so two calls never interleave;  *)
(* what does interleave is the file system, with each of the system calls  *)
(* of get a step of its own.  Contents are versions (a file that takes long *)
(* to write in place is written several times); mtime has the resolution   *)
(* of the clock, in seconds, which may stand still while files are written, *)
(* and a copy that keeps its times, or a rename, brings an older one.      *)
(***************************************************************************)
EXTENDS Integers, Sequences, FiniteSets, SequencesExt

CONSTANTS
    Threads,
    Files,
    Sizes,      \* sizes a file may have
    Limits,     \* values of max_size_; the cache starts with any of them
    MaxTime,    \* bound: seconds the clock may advance to
    MaxVersion, \* bound: writes
    None

File   == [ver : Nat, size : Sizes, mtime : Nat]
Stream == [ver : Nat, size : Nat, linked : BOOLEAN]
Entry  == [ver : Nat, file_size : Nat, last_modified : Nat]

(* The ver of contents that are no version of the file: cut off, or filled *)
(* up with zero bytes.  Versions start at 1.                               *)
Torn == 0

ASSUME FileCacheAssumption ==
    /\ Sizes \subseteq Nat
    /\ Limits \subseteq Nat
    /\ MaxTime \in Nat \ {0}
    /\ MaxVersion \in Nat
    /\ None \notin Threads \cup Files \cup File \cup Stream \cup Entry

VARIABLES
    disk,           \* path -> [ver, size, mtime], or None
    now, version,   \* clock, number of writes so far
    mutex_,         \* the thread that holds it
    cache_,         \* path -> [ver, file_size, last_modified], or None
    lru_list_,      \* paths, most recently used first
    current_size_, max_size_,
    pc, path, new_file,     \* a thread's location and locals
    file,           \* load_file's stream: what it would read now, and whether
                    \*   the path still leads to the file it has opened
    recent,         \* history: paths by their last use, latest first
    raced           \* history: paths changed while load_file was at work on
                    \*   them, or to an mtime no newer than the one recorded

fs     == <<disk, now, version>>
lookup == <<cache_, lru_list_, current_size_>>
locals == <<path, new_file, file>>
vars   == <<fs, lookup, mutex_, max_size_, pc, locals, recent, raced>>

Locs  == {"idle", "lookup", "open", "size", "read", "mtime", "evict"}

TypeOK ==
    /\ disk \in [Files -> File \cup {None}]
    /\ now \in 1..MaxTime /\ version \in 0..MaxVersion
    /\ mutex_ \in Threads \cup {None}
    /\ cache_ \in [Files -> Entry \cup {None}]
    /\ lru_list_ \in Seq(Files)
    /\ current_size_ \in Nat        \* size_t: it never wraps below zero
    /\ max_size_ \in Limits
    /\ pc \in [Threads -> Locs]
    /\ path \in [Threads -> Files \cup {None}]
    /\ new_file \in [Threads -> Entry \cup {None}]
    /\ file \in [Threads -> Stream \cup {None}]
    /\ recent \in Seq(Files)
    /\ raced \subseteq Files

Init ==
    /\ disk = [f \in Files |-> None]
    /\ now = 1 /\ version = 0
    /\ mutex_ = None
    /\ cache_ = [f \in Files |-> None]
    /\ lru_list_ = <<>>
    /\ current_size_ = 0
    /\ max_size_ \in Limits
    /\ pc = [t \in Threads |-> "idle"]
    /\ path = [t \in Threads |-> None]
    /\ new_file = [t \in Threads |-> None]
    /\ file = [t \in Threads |-> None]
    /\ recent = <<>>
    /\ raced = {}

-----------------------------------------------------------------------------
(* The file system (external).                                             *)

mtime(f) == IF disk[f] = None THEN 0 ELSE disk[f].mtime
size(f)  == IF disk[f] = None THEN 0 ELSE disk[f].size

Tick == now < MaxTime /\ now' = now + 1
        /\ UNCHANGED <<disk, version, lookup, mutex_, max_size_, pc, locals, recent, raced>>

(* load_file has opened f and not yet taken its mtime, or f is cached with *)
(* an mtime no older than m.                                               *)
Unnoticed(f, m) ==
    \/ \E t \in Threads : path[t] = f /\ pc[t] \in {"size", "read", "mtime"}
    \/ cache_[f] # None /\ cache_[f].last_modified >= m

(* A stream follows its file if that is written in place, and keeps what   *)
(* it has opened if the path is given to another file or removed.          *)
Linked(t, f) == path[t] = f /\ file[t] # None /\ file[t].linked
Rewritten(f, v, s) ==
    [t \in Threads |-> IF Linked(t, f) THEN [ver |-> v, size |-> s, linked |-> TRUE] ELSE file[t]]
Unlinked(f) ==
    [t \in Threads |-> IF Linked(t, f) THEN [file[t] EXCEPT !.linked = FALSE] ELSE file[t]]

(* A file is written, in place or as another that takes its path; its mtime *)
(* is now, or older if that of the original is kept.                       *)
Write(f, s, m) ==
    /\ version < MaxVersion
    /\ version' = version + 1
    /\ disk' = [disk EXCEPT ![f] = [ver |-> version + 1, size |-> s, mtime |-> m]]
    /\ file' = Rewritten(f, version + 1, s) \/ file' = Unlinked(f)
    /\ raced' = IF Unnoticed(f, m) THEN raced \cup {f} ELSE raced
    /\ UNCHANGED <<now, lookup, mutex_, max_size_, pc, path, new_file, recent>>

Delete(f) ==
    /\ disk[f] # None
    /\ disk' = [disk EXCEPT ![f] = None]
    /\ file' = Unlinked(f)
    /\ UNCHANGED <<now, version, lookup, mutex_, max_size_, pc, path, new_file, recent, raced>>

-----------------------------------------------------------------------------
(* get.                                                                    *)

Goto(t, l) == pc' = [pc EXCEPT ![t] = l]
ToFront(s, f) == <<f>> \o RemoveFirst(s, f)

(* A return ends the life of the locals and of the lock.                   *)
Return(t) ==
    /\ Goto(t, "idle")
    /\ mutex_' = None
    /\ path' = [path EXCEPT ![t] = None]
    /\ new_file' = [new_file EXCEPT ![t] = None]
    /\ file' = [file EXCEPT ![t] = None]

Get(t, f) ==
    /\ pc[t] = "idle" /\ mutex_ = None
    /\ mutex_' = t
    /\ path' = [path EXCEPT ![t] = f]
    /\ Goto(t, "lookup")
    /\ UNCHANGED <<fs, lookup, max_size_, new_file, file, recent, raced>>

(* Mutant: an mtime that is a second newer does not count.                 *)
ModifiedLate(f, cached_time) == mtime(f) > cached_time + 1

is_file_modified(f, cached_time) == mtime(f) > cached_time

Miss(t) ==
    /\ pc[t] = "lookup" /\ cache_[path[t]] = None
    /\ Goto(t, "open")
    /\ UNCHANGED <<fs, lookup, mutex_, max_size_, locals, recent, raced>>

(* Mutant: the size of the file on disk is subtracted, not the entry's.    *)
InvalidateDiskSize(t) ==
    LET f == path[t] IN
    /\ pc[t] = "lookup" /\ cache_[f] # None
    /\ is_file_modified(f, cache_[f].last_modified)
    /\ current_size_' = current_size_ - size(f)
    /\ lru_list_' = RemoveFirst(lru_list_, f)
    /\ cache_' = [cache_ EXCEPT ![f] = None]
    /\ raced' = raced \ {f}
    /\ Goto(t, "open")
    /\ UNCHANGED <<fs, mutex_, max_size_, locals, recent>>

(* Mutant: the stale entry stays in the list.                              *)
InvalidateKeepsList(t) ==
    LET f == path[t] IN
    /\ pc[t] = "lookup" /\ cache_[f] # None
    /\ is_file_modified(f, cache_[f].last_modified)
    /\ current_size_' = current_size_ - cache_[f].file_size
    /\ cache_' = [cache_ EXCEPT ![f] = None]
    /\ raced' = raced \ {f}
    /\ Goto(t, "open")
    /\ UNCHANGED <<fs, lru_list_, mutex_, max_size_, locals, recent>>

(* The file has changed: its entry goes, and the file is loaded again.     *)
Invalidate(t) ==
    LET f == path[t] IN
    /\ pc[t] = "lookup" /\ cache_[f] # None
    /\ is_file_modified(f, cache_[f].last_modified)
    /\ current_size_' = current_size_ - cache_[f].file_size
    /\ lru_list_' = RemoveFirst(lru_list_, f)
    /\ cache_' = [cache_ EXCEPT ![f] = None]
    /\ raced' = raced \ {f}
    /\ Goto(t, "open")
    /\ UNCHANGED <<fs, mutex_, max_size_, locals, recent>>

(* Mutant: a hit does not move the path to the front.                      *)
HitNoMove(t) ==
    LET f == path[t] IN
    /\ pc[t] = "lookup" /\ cache_[f] # None
    /\ ~is_file_modified(f, cache_[f].last_modified)
    /\ recent' = ToFront(recent, f)
    /\ Return(t)
    /\ UNCHANGED <<fs, lookup, max_size_, raced>>

Hit(t) ==
    LET f == path[t] IN
    /\ pc[t] = "lookup" /\ cache_[f] # None
    /\ ~is_file_modified(f, cache_[f].last_modified)
    /\ lru_list_' = ToFront(lru_list_, f)
    /\ recent' = ToFront(recent, f)
    /\ Return(t)
    /\ UNCHANGED <<fs, cache_, current_size_, max_size_, raced>>

(* load_file.  It fails on a file that cannot be opened, ...               *)
Open(t) ==
    LET f == path[t] IN
    /\ pc[t] = "open"
    /\ IF disk[f] = None
       THEN Return(t) /\ UNCHANGED raced
       ELSE /\ file' = [file EXCEPT ![t] =
                  [ver |-> disk[f].ver, size |-> disk[f].size, linked |-> TRUE]]
            /\ raced' = raced \ {f}
            /\ Goto(t, "size")
            /\ UNCHANGED <<mutex_, path, new_file>>
    /\ UNCHANGED <<fs, lookup, max_size_, recent>>

(* ... and on one whose size is, or cannot be told from, zero.  The size is *)
(* that of the file the path leads to by now.                              *)
StatSize(t) ==
    /\ pc[t] = "size"
    /\ IF size(path[t]) = 0
       THEN Return(t)
       ELSE /\ new_file' = [new_file EXCEPT ![t] =
                  [ver |-> Torn, file_size |-> size(path[t]), last_modified |-> 0]]
            /\ Goto(t, "read")
            /\ UNCHANGED <<mutex_, path, file>>
    /\ UNCHANGED <<fs, lookup, max_size_, recent, raced>>

(* As many bytes as that are read, or fewer; nobody counts them.           *)
Read(t) ==
    LET whole == file[t].size = new_file[t].file_size IN
    /\ pc[t] = "read"
    /\ new_file' = [new_file EXCEPT ![t].ver = IF whole THEN file[t].ver ELSE Torn]
    /\ file' = [file EXCEPT ![t] = None]
    /\ Goto(t, "mtime")
    /\ UNCHANGED <<fs, lookup, mutex_, max_size_, path, recent, raced>>

(* The mtime is taken, the entry is added, and get goes on to evict.       *)
Insert(t) ==
    LET f == path[t]
        e == [new_file[t] EXCEPT !.last_modified = mtime(f)]
    IN  /\ pc[t] = "mtime"
        /\ new_file' = [new_file EXCEPT ![t] = e]
        /\ cache_' = [cache_ EXCEPT ![f] = e]
        /\ lru_list_' = <<f>> \o lru_list_
        /\ current_size_' = current_size_ + e.file_size
        /\ recent' = ToFront(recent, f)
        /\ Goto(t, "evict")
        /\ UNCHANGED <<fs, mutex_, max_size_, path, file, raced>>

(* Mutant: the size of an evicted entry is not given back.                 *)
EvictKeepsSize(t) ==
    /\ pc[t] = "evict" /\ current_size_ > max_size_
    /\ lru_list_ # <<>>
    /\ cache_' = [cache_ EXCEPT ![Last(lru_list_)] = None]
    /\ lru_list_' = Front(lru_list_)
    /\ UNCHANGED <<fs, current_size_, mutex_, max_size_, pc, locals, recent, raced>>

(* One turn of the eviction loop of get and set_max_size.  On an empty list *)
(* evict does nothing, and the loop would turn for ever.                   *)
Evict(t) ==
    /\ pc[t] = "evict" /\ current_size_ > max_size_
    /\ lru_list_ # <<>>
    /\ LET f == Last(lru_list_) IN
       /\ current_size_' = IF cache_[f] = None THEN current_size_
                           ELSE current_size_ - cache_[f].file_size
       /\ cache_' = [cache_ EXCEPT ![f] = None]
       /\ lru_list_' = Front(lru_list_)
    /\ UNCHANGED <<fs, mutex_, max_size_, pc, locals, recent, raced>>

Evicted(t) ==
    /\ pc[t] = "evict" /\ current_size_ <= max_size_
    /\ Return(t)
    /\ UNCHANGED <<fs, lookup, max_size_, recent, raced>>

set_max_size(t, limit) ==
    /\ pc[t] = "idle" /\ mutex_ = None
    /\ mutex_' = t
    /\ max_size_' = limit
    /\ Goto(t, "evict")
    /\ UNCHANGED <<fs, lookup, locals, recent, raced>>

Step(t) == Miss(t) \/ Invalidate(t) \/ Hit(t) \/ Open(t) \/ StatSize(t) \/ Read(t)
           \/ Insert(t) \/ Evict(t) \/ Evicted(t)

Next ==
    \/ Tick
    \/ \E f \in Files : Delete(f) \/ \E s \in Sizes, m \in 1..now : Write(f, s, m)
    \/ \E t \in Threads :
          \/ Step(t)
          \/ \E f \in Files : Get(t, f)
          \/ \E limit \in Limits : set_max_size(t, limit)

Spec == Init /\ [][Next]_vars

(* A thread that has entered get or set_max_size is scheduled.             *)
FairSpec == Spec /\ \A t \in Threads : WF_vars(Step(t))

-----------------------------------------------------------------------------
(* Properties.                                                             *)

Cached == {f \in Files : cache_[f] # None}

(* The bytes the entries hold, by their number in their file.              *)
Bytes == UNION {{f} \X (1 .. cache_[f].file_size) : f \in Cached}

(* x has a place before one of y.                                          *)
Before(s, x, y) == \E i, j \in DOMAIN s : i < j /\ s[i] = x /\ s[j] = y

(* The list and the map hold the same paths, each once: no iterator lru_it *)
(* dangles and no entry escapes eviction.                                  *)
ListMatchesMap ==
    /\ ToSet(lru_list_) = Cached
    /\ Len(lru_list_) = Cardinality(Cached)

(* current_size_ is the number of bytes the entries hold, whatever         *)
(* happened to the files meanwhile, and within the limit when no call is   *)
(* under way.                                                              *)
Accounting ==
    /\ current_size_ = Cardinality(Bytes)
    /\ mutex_ = None => current_size_ <= max_size_

(* The list, from whose end entries are evicted, has the entries in the    *)
(* order of their last use.                                                *)
LeastRecentlyUsed ==
    \A f, g \in Cached : Before(lru_list_, f, g) <=> Before(recent, f, g)

(* What is cached of a file is what the file holds, or the next get loads   *)
(* it anew (its mtime is newer), unless a change fell between the opening   *)
(* of the file and the reading of its mtime, where it may also leave        *)
(* contents that never were the file's, or brought an mtime no newer than   *)
(* the recorded one (the same second, or an older file in its place).       *)
ChangesNoticed ==
    \A f \in Cached :
        disk[f] # None /\ disk[f].ver # cache_[f].ver /\ f \notin raced
            => is_file_modified(f, cache_[f].last_modified)

(* What get serves from the cache is the file as it is on disk, if there   *)
(* is one.                                                                 *)
HitIsFresh ==
    [][\A t \in Threads : Hit(t) =>
           disk[path[t]] = None \/ disk[path[t]].ver = cache_[path[t]].ver]_vars

(* The path a call of get has still to serve or to insert.                 *)
Asked == IF mutex_ = None \/ pc[mutex_] = "evict" THEN None ELSE path[mutex_]

(* The cache keeps the promise of LruCache: whatever the file system does  *)
(* in the middle of get, entries come and go as they are asked for, and no *)
(* more is evicted than has to be, least recently used first.              *)
Lru == INSTANCE LruCache WITH
    Keys    <- Files,
    entries <- [f \in Cached |-> cache_[f]],
    newer   <- {p \in Cached \X Cached : Before(recent, p[1], p[2])},
    asked   <- Asked,
    limit   <- max_size_

RefinesLru == Lru!Spec

(* A call that has the mutex gives it back: the eviction loop ends.        *)
CallReturns == \A t \in Threads : (mutex_ = t) ~> (mutex_ # t)
=============================================================================
