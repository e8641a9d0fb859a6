# A TLA+ development of SOK

SOK is a small multi-process web server: a master forks one child per core,
every child watches all listening ports with epoll, and a thread pool in every
child answers HTTP and HTTPS requests from a site directory chosen by the port.
This directory models the parts of it whose correctness depends on the order in
which several actors move, checks them with TLC, and proves the most important
facts with TLAPS.

Run everything from this directory:

    tlc -workers 2 -config MCEpollWorker_safety.cfg MCEpollWorker
    tlc -workers 2 -config MCExchange.cfg MCExchange
    tlapm ExchangeProofs.tla

## 1. The system

| component | source | state | operations |
|---|---|---|---|
| epoll worker | `Core/mstd/EpollManager.hpp` | `client_map_port` (fd to port), `working_fds` (fds some task works on), the batch of events, the interest list | wait for events, accept, mark, look up, queue a task; in the task: call the handler, free the `SSL*`, unwatch, close, unmap, unmark |
| protocol dispatch | `Core/utils/ProtocolDispatcher.hpp` | none | peek and choose a handler |
| HTTP, HTTPS handlers | `Core/protocols/http.hpp`, `https.hpp` | a local request buffer; `ssl_map` (fd to `SSL*`); the opened or mapped file | read a request, hand-shake, answer with a header and a text or a file, say whether the connection stays |
| thread pool | `Core/mstd/threadPool.hpp` | `_tasks`, `_queueMutex`, `_condition`, `_stop` | worker loop, `enqueue`, destructor |
| file cache | `Core/mstd/fileCache.hpp` | `cache_`, `lru_list_`, `current_size_`, `max_size_` | `get`, `set_max_size` |
| master | `SOK.cpp` | `running`, the command loop | fork, restart, exit, SIGCHLD and SIGINT handlers |
| fork manager | `Core/utils/ForkManager.hpp` | `child_pids` | fork, terminate all, monitor |
| logger | `Core/utils/Logger.hpp` | a mutex, the stream `ofs_`, the log files | `set_logfile`, `log` with `check_and_rotate` |
| sockets, registry | `Core/utils/SocketUtils.hpp` | `fd_port` | set up a listening socket, record its port |
| configuration and sites | `Core/utils/Config.hpp`, `SiteConfig.hpp` | the parsed file, a copy in each process | load, look up the site of a port |
| YAML reader | `Core/mstd/yaml.hpp` | the tree, the stack of pointers into it, the open lists | `parseFile`, `getValue`, `getArray` |
| containers, lock-free queue | `Core/mstd/vector.hpp`, `string.hpp`, `function.hpp`, `iterator.hpp`, `lockFreeQueue.hpp` | | not part of the running program, except `Function` as a holder of a callable |

How they interact. In a child, the main thread runs `epoll_worker` and passes
`(fd, port)` to the thread pool. The pool's threads run `handle_connection`,
that is `dispatch_protocol` and one of the handlers, each with a `FileCache` of
its own that all threads share. The main thread and the pool's threads meet in
four places: `client_map_port` and `working_fds` (under a mutex each), `ssl_map`
(under a mutex, mostly) and, through the kernel, the descriptor table. The
master talks to its children with signals and learns of their end by SIGCHLD
and `waitpid`.

What is hard. Descriptor *numbers* are the keys of all tables, and a number may
be reissued while a task for its previous connection cleans up. epoll is
level-triggered and reports a descriptor again while a task is busy with it, so
events go stale within a batch. `_stop` of the pool is stored without the mutex.
Files change under the cache, and contents, size and modification time are read
by separate system calls. In the master, a signal handler reaps children behind
the back of the list of pids, and logs under a mutex that the code it has
interrupted may hold. Sockets are non-blocking, so every write of a response may
find the buffer full; the header promises a length that was cached and the body
comes from the file as it is now. Children share the log file but rotate it each
for itself. A restart reads the configuration again, but not the ports.
`PROJECT.json` lists each of these under `hazards`, at its
line, with the properties that watch it, or with a note that the code suffers it:
a property whose condition sets the case aside bounds the damage and does not
catch it, and the note says which.

What makes each component correct.

* Epoll worker: no mark without an owner, no descriptor that is open but
  unwatched and unowned, one task per descriptor, answers from the site of the
  port, a TLS session is used with the client it was made with, input is
  eventually read, kept-alive connections are kept.
* Thread pool: each accepted task runs once, in order, also during shutdown; no
  lost wake-up; the destructor returns.
* File cache: list, map and size agree; the eviction loop ends; eviction is LRU;
  changed files are noticed.
* Master: every living child is tracked, none survives a restart or the end, no
  zombie stays, only children are signalled, an order to end is obeyed.
* Handlers, towards a client: one answer to a request, in order, whole, and as
  long as announced; the handler comes back whatever the client does.
* YAML reader: the tree is what the document means.
* Configuration, sockets, registry: a child listens on the ports of its
  configuration and answers each from the site of that port, as long as the port
  has one; with a complete
  configuration the server comes to work, after a restart again.
* Logger: no line is lost, and no file grows beyond its limit by more than the
  processes, and the renames that fail, account for.

## 2. The modules

| module | what it is |
|---|---|
| `EpollWorker` | one child process: main thread, pool threads running tasks, kernel, clients |
| `MCEpollWorker` | instances of it: ports and scripts of the clients |
| `EpollWorkerProofs` | its types, working marks, descriptors, one task per descriptor, sites, TLS sessions, for all values of the constants |
| `TaskQueue` | what a thread pool promises |
| `ThreadPool` | the pool, with mutex and condition variable |
| `ThreadPoolProofs` | types, shutdown, wake-ups, and that it implements `TaskQueue` |
| `LruCache` | what a cache promises that forgets the least recently used |
| `FileCache` | the cache and the file system under it |
| `FileCacheProofs` | its list, map, size, eviction order and freshness, and that it implements `LruCache` |
| `Master` | master process, fork manager, signal handlers, process table |
| `MasterProofs` | that no child is lost and none survives |
| `Exchange` | one connection as its client sees it: requests, answers, socket buffer, file |
| `MCExchange` | an instance of it: the scripts of the clients |
| `ExchangeProofs` | order, completeness and length of the answers, for all values of the constants |
| `Yaml` | the configuration reader as a recursive function over lines, and the meaning of a document |
| `YamlProofs` | that the reader makes of every regular document what it means |
| `Startup` | config, ports, child set-up, registry, choice of the site, restart (extends `Yaml`) |
| `Logger` | several processes that write to one log file and rotate it |
| `Service` | composition of `Startup` and `Logger`: main and child, with the log they share |
| `MCService` | an instance of it: the documents |
| `LoggerProofs` | the bound on the log files, and that no line is lost, proved of `Service` |
| `ServiceProofs` | sockets, registry, ports and sites, proved of `Service` |

Every module follows the code's names. A variable that has no counterpart in the
source is a program counter (`mpc`, `wpc`, `pc`, ...), a piece of the outside
world (`fdTab`, `inbox`, `disk`, `proc`, ...), or a history variable, so marked.
A definition called *Mutant* in its comment is no part of the model: it is a
plausible bug, there to show that a property would notice it.

### EpollWorker

One action is one system call or one critical section. The main thread goes
through `next` (between events), `map`, `add` (after an accept), `check`,
`lookup`, `enqueue` (for a client's event). A pool thread goes through `peek`,
then `recv`, `reply`, perhaps `spin` (`handle_http`) or `tls_get`, `tls_accept`,
`tls_read`, `tls_reply`, `tls_free` (`handle_https`), then `clean`, `del`,
`close`, `unmap` (when the handler returned false) and `unmark`.

* The kernel's descriptor table `fdTab` says which connection a number names;
  `accept` takes the lowest free number. `watched` is the interest list, `batch`
  the events `epoll_wait` returned that the loop has not reached. The order of
  the events of a batch is left open.
* Contents of a connection are segments: the two flights of a handshake, a whole
  request with or without keep-alive, and a request cut in two (`head`, `rest`).
  That is all the handlers tell apart. A POST, a malformed request and a missing
  file are answered like the rest and are not distinguished.
* A response is one step, recorded in `replies` with the site it came from and
  whether it promised keep-alive, or it does not end: the `sendfile` loop turns
  at the end of a file that was shortened, and its thread stays at `spin`
  (`Spins`). It comes out when the file has grown again (`SpinEnds`), which
  nobody owes it; a TLS response from such a file may end the process. What a
  response looks like, and what happens when the socket's buffer is full, is the
  subject of `Exchange`.
* `EPOLL_CTL_ADD` may fail (`WatchClient`): on a number that was closed meanwhile,
  and on an open one for want of memory or of watches. The result is ignored, so
  the connection stays open and mapped and is never served; `refused` remembers
  it. `WatchedOrInTransit` says that nothing else leaks.
* `SiteInfo` may throw for the ports in `MayThrow` (a configuration it cannot
  search); the dispatcher then gives up the connection (`Peek`).
* The data race on `ssl_map` (`https.hpp:153` and the lines like it) is undefined
  behaviour: `TlsCrash` may end the process there, or the step goes on as
  written. The use of an `SSL*` another thread has freed is treated likewise.
  When a step runs after a free, the model continues with the freed session's
  state, which is one of the outcomes a build can produce.
* `recycled` records that `accept` has returned a number for which a task was
  still outstanding. It is the condition under which the code's protection by
  `working_fds` breaks (finding `OwnSite`), and the antecedent of the properties
  that hold otherwise. The antecedent is not vacuous: the mutants of those
  properties are found in behaviours where it is false.

### ThreadPool and TaskQueue

The critical sections of the source are split into steps (`lock`, `check`,
`doze`, `take` and so on), because `_stop` is stored without the mutex and so may
change between any two of them. `notify_one` wakes any one sleeper; wake-ups may
be spurious. Each task is enqueued by a caller of its own. `TaskQueue` is the
abstract specification; the mapping is `pending <- _tasks`, `running <-` the
tasks of the threads at `run`, `drained <-` some thread has left.

### FileCache and LruCache

`get` holds `mutex_` throughout, so calls do not interleave with each other but
do with `Write`, `Delete` and `Tick` of the file system. Contents are version
numbers; the clock counts seconds and may stand still. `recent` records the
order of uses and `raced` the files changed in a way the code cannot notice:
while `load_file` is at work on them, or with a modification time that is no newer
than the one recorded. A file may be written in place or replaced by another, and
its time is the clock's or an older one (a rename, a copy that keeps times).

`load_file` opens the path, takes the size by a `stat` of the *path*, reads that
many bytes and does not count them. `file` is the stream of a thread: it follows a
file that is written in place (`Rewritten`) and keeps what it opened when the path
goes to another file or is removed (`Unlinked`). Where the size of the stream is
not the one that `stat` gave, what is cached is cut off or filled up with zeros:
`Torn`, which is the contents of no version.

`LruCache` is what the callers of a cache may rely on, without list, counter and
files: entries, the order of their uses, the key a call has asked for, the limit.
The call uses the entry (`Use`), or discards it as out of date and adds another
or fails (`Discard`, `Add`, `Fail`); entries that exceed the limit go before the
next call, the one unused for longest first, and no more than have to (`Evict`).
The mapping is `entries <- cache_`, `asked <-` the path of the call that holds
the mutex until it is served or inserted (`Asked`), `limit <- max_size_`, and
`newer <-` the order of `recent`. That order is the history of uses and not
`lru_list_`: mapped to the list, the refinement would say only that the end of
the list is evicted.

### Master

The process table says what a number stands for: nobody, a living child, one
that was sent SIGTERM, a zombie, or a process that is none of ours. Signal
handlers run while main stands still; SIGCHLD is one bit. `waitpid` fails when
there is no such child (any more), and `kill` reaches whoever has the number.
The logger is reduced to its mutex; its file is in `Logger`. `Reload` ends main
when `Config::load` throws: the children are terminated already, and none is
forked.

### Exchange

`EpollWorker` shows that, but for a recycled number, one thread at a time works
on a connection (`Exclusive`, proved). `Exchange` takes that for granted and
looks at one connection closely, with one location `pc`: `idle` (between
events), `read`, `answer`, `head`, `open`, `file`, `text`.

* A request is one or several *pieces*: a whole request of some method, a GET cut
  in two (`start`, `rest`), a body. The client sends segments of pieces. On a
  plain connection what has arrived runs together, as in a socket; a TLS record
  stays by itself. `recv` takes all there is, so requests behind the first are
  dropped with it, which is what the code does.
* Bytes are units: a header or a text is one, a file any number. `room` is what
  the socket buffer still takes, and the client empties it when it likes, or
  never. `Write` lists the outcomes of one `write` or `SSL_write`: sent, full,
  failed, and `old`, when OpenSSL sends the record it could not write before.
* The file may be overwritten in place, replaced or removed at any time. `cached`
  is the size the `FileCache` reports: a hit, which may be stale, or a load. The
  header announces it; `sendfile` stops at it, while `mmap` takes the file as it
  is now.
* `out` is a history of the answers, each with what it announced (`due`), what
  went out (`head`, `sent`), and why it may be wrong (`why`): `full` (a write
  found the buffer full), `changed` (the file was not, or no longer, what the
  cache said), `shrunk` (it was shortened while it was open) and `gone` (the
  client closed). The properties say that nothing else goes wrong.
* Every answer without a file body is allowed to announce bytes that do not come:
  the code sends a body for GET only, so the answers to POST, PUT and HEAD end
  with the header. `WholeUnlessExcused` is about GET and malformed requests.
* At the end of a file that was shortened, `sendfile` returns 0 and the loop of
  `handle_http` does not end (`Spinning`); `HandlerReturns` says that this and
  the SIGBUS of a mapped file are the only ways for a handler not to return.
* An answer counts as given when its header was sent (`Answered`). When the header
  finds the buffer full the handler returns and keeps the connection: the client
  waits for an answer that never comes. `AllAnswered` says that this (`CutOff`) is
  the only way for a patient client's request to go without.
* `open`, `lseek` and `mmap` are one step (`OpenFile`), for the reason given there:
  a change of the file between them has the outcome of one before or after.

### Yaml

A document is given by its fields, its sites and the width of an indentation
step. `Render` writes it as lines; `parseFile` is the program, with the stack of
pointers, the open lists, and the moment `push_back` moves the elements of a
vector and leaves pointers dangling; `Meaning` is what the document says.
A list that is assigned again, or lies below what is, is destroyed although
`array_stack` still points to it; pushing into it is undefined behaviour (`ok` of
an open list). `Documents` are all documents, of any length; `Regular` names those
for which reader and meaning agree (`LoadedRight`, and `ReadRight` of
`YamlProofs`). What is misread otherwise, as the model shows:

* the first key of a list item is kept as a string, so an item that begins with
  `port: 80` has no port;
* an item with a single key leaves the level of the next one wrong;
* with four columns a step, a section within an item leaves the stack short;
* a key with nothing behind it becomes a map, and what follows goes into it; a
  key given twice keeps its first value; a line without a colon throws;
* the type of a value is guessed from its letters (`Refused`, `Converted`): digits
  are an `int`, and `stoi` throws when they are beyond it; digits and dots are a
  `double`, so that `127.0.0.1` becomes 127, and `stod` throws when there are only
  dots; a negative number stays a string.

`Literal` names the values that are read as they are written, and `Regular` asks
for these.

`Regular` asks for steps of two columns at least. With one column a step the
stack would be left by one level for two steps back; no document of that kind is
in the instance, and it was the proof that asked for the condition.

### Startup and Service

`Startup` goes from the file to an answer. `main` loads, reads the ports once
and forks; a child creates its epoll instance and its TLS context (`Prepare`),
listens (`Listen`), records the port of each descriptor (`Recorded`), and
watches it (`Watch`); `Serve` answers from the site that `SiteInfo` finds for
the recorded port in the child's copy of the configuration. Any system call of
the set-up may fail. `Terminate` begins a restart. `fdTab` and `fd_port` are
partial functions, as the kernel's table and the `std::map` are, so a port 0 or
65536 is a port like others. The children of a generation start alike, and one
stands for them. `RootFor` is "" when `SiteInfo` finds no site: the handlers put
it before the path as it is, so a port whose site an edit has removed serves the
whole file system (`http.hpp:151`, `https.hpp:199`), against README.md:11 of the
repository. `OwnSiteUnlessStrayed` is about ports that have a site and does not
say that this is right. In the log each writes for itself (`Children`), and they
end together: the end of one is no different from its keeping silent. `Service`
joins this with `Logger`: `main` opens the log at the start and in a restart,
the child inherits its stream, both log and rotate, and a restart may end the
child between two steps of `log`.

Two things the instance shows without being wrong by any promise of the
repository: after one process has rotated the log, the others still write to the
old file, find it full and rotate in their turn, so that the processes write to
different files; and a restart whose new configuration cannot be read or is
incomplete ends `main` when the old children are terminated already.

### Logger

Sizes are in lines. `names` is the directory (`server.log`, and a name for each
second), `files` the lengths of the files, `ofs_` the file of each process's
stream, which may have lost its name. `log` is three steps or four: the size and
the second for the new name (`Check`), `Rename`, `Reopen`, `Write`. `rename` may
fail (`kept` counts how often); its result is ignored, and the full file is opened
and written on. Where no rename ever succeeds the file grows with every line;
`SizeBounded` says that it grows by no more than one line for each failure, and
one for each other process.

## 3. The runs

| run | question | outcome |
|---|---|---|
| `epoll_safety` | types, marks, descriptors, one task per descriptor, right site, right session | holds |
| `epoll_live` | input is read or the connection closed; marks are taken back | holds |
| `epoll_keepalive` | is a kept-alive connection kept? | violated: stale event |
| `epoll_ownsite` | does a port serve its own site only? | violated: closed before unmapped |
| `epoll_split` | is a request that arrives in two segments answered? | violated: the first part is forgotten |
| `threadpool` | tasks, wake-ups, destructor, refinement of `TaskQueue` | holds |
| `filecache` | list, map, size, LRU, staleness, refinement of `LruCache`, termination of `get` | holds |
| `filecache_fresh` | does a hit return the file as it is? | violated: mtime taken after the contents, whole seconds |
| `master` | children, zombies, end of the master | holds |
| `master_stray` | are only children killed? | violated: pids the handler has reaped stay listed |
| `exchange` | answers in order, whole, not too long, one for each patient request; crashes; does the handler return? | holds, with the causes named |
| `service` | is a regular document read as it is meant, do ports and sites belong together, does the server come to work, are log lines kept and log files bounded? | holds, with the causes named |

The violated properties state what a comment or the README of the repository
promises; `PROJECT.json` quotes it under `findings`.

Deadlock is not checked: a server without clients, a pool without callers and a
master without commands wait, and the clients' scripts are finite.

Bounds, and why they are enough.

* `epoll_safety`: two clients (one of them TLS, with a handshake in two flights
  and a request), two ports, two descriptor numbers, two threads. Two events of
  one descriptor, a stale event in a batch, and a number reissued during a
  cleanup all need two clients and two threads, and no more. The threads are
  interchangeable, hence the symmetry set; the run checks no liveness.
* `epoll_live`: one descriptor number for two clients, so that `accept` fails and
  numbers are reissued all the time; the request in two segments makes threads
  give up and return. `MaxEvents` is 2. A client makes at most one thing
  ready, its listening socket before the accept and its descriptor after it, so
  with two clients a batch always has room for all. The kernel takes ready
  descriptors in turn when there is no room, and the model's choice of a batch
  does not; the instance avoids the starvation that would come of that alone.
* `epoll_ownsite`: three clients, because the port of a third connection has to
  be recorded for a number between the close and the unmapping by the second.
  It is also where more than `MaxEvents` things may be ready.
* `MayThrow` is all ports in the runs whose properties hold and in
  `epoll_keepalive`, and none in `epoll_ownsite` and `epoll_split`, which need no
  help to find what they find.
* `threadpool`: two workers and three tasks: both may sleep, both may run while a
  third task is queued, and `notify_one` has a choice.
* `filecache`: two files, sizes 0 to 2, limits 1 and 2: a file may fit, may fill
  the cache, and may be larger than it; size 0 is the case `load_file` refuses.
  Two seconds (`MaxTime`) and three writes (`MaxVersion`) are enough for a write
  in the same second, in a later second, with an older time, and between any two
  system calls.
* `master`: three numbers for two children, so that a stranger can take one.
* `exchange`: five scripts: pipelined requests in segments of their own, two
  requests in one segment, a request cut in two, a POST with its body in the same
  segment and in the next. A buffer of three units (`Cap`) holds a header and a
  file of two units exactly, so it is full after an answer, within one, or never;
  the client may not drain it. File sizes 0 to 2, and two changes (`MaxChanges`):
  one before and one after the file is opened. With and without TLS, with a
  client that waits for its answers and one that does not.
* `service`: documents that are complete, with a missing or zero number, with a
  port twice, with a port beyond 16 bits, misread in each of the ways above,
  with a number beyond `int` (`IntMax` is 70000 here, above the ports and below
  that number), no list, no file; and the regular ones of a family of sites with
  and without sections, in both widths, up to three sites, which is where
  `push_back` moves elements twice. One restart with an edit that moves the
  ports, removes the file, or takes out settings and a site and adds a number
  beyond `int`; one failing system call (`MaxFaults`); three descriptor numbers.
  The log: limit of one line, three calls, two seconds, one refused open, one
  refused rename, so that both processes can be past the test of the size at
  once and rotate in the same second or in different ones. Processes log in the
  generations of one document only (`LogDocs`), since nothing of the log depends
  on which.

Fairness. The clients, the callers of `enqueue`, the owner of the pool, the file
system, unrelated processes and the person at the terminal owe nothing. Threads
are scheduled: each main thread, pool thread and caller that can move does so
eventually (weak fairness of the thread as a whole), which is what the operating
system gives. In `ThreadPool` no fairness is assumed of the order in which the
mutex is granted, and spurious wake-ups are not relied upon. In `Master`,
signals are delivered, and SIGTERM ends a child (it installs no handler for it).
Nobody owes a shortened file that it grows again: `SpinEnds` is not fair.
In `Exchange` the thread that handles the connection is scheduled; in `Service`
`main`, the child, and a process within `log` are. Nobody need drain a buffer,
edit a file, restart the server, send a request or call `log`.

Conditions in the liveness properties name what the code does not guarantee:
`JoinReturns` excludes a worker that tests `_stop` before the store and blocks
after the notification, `ExitServed` and `ZombiesReaped` exclude the deadlock of
the handler with main over the logger, `ExitServed` starts when the prompt has
been answered, because SIGINT does not interrupt the reading of it, and
`MarksClear` and `InputConsumedUnlessRecycled` exclude the crash and what is
`Stuck`: a descriptor whose thread spins, and everything when all threads do;
the latter also excludes connections that epoll refused to watch.
`HandlerReturns` excludes the endless `sendfile` loop. `ComesToWork` is about
configurations that are complete, in which a document with a number beyond `int`
is not, and executions in which no call fails. The hazards these conditions name
are real: `PROJECT.json` lists them with a note that the code suffers them, not
as caught.

Conditions in the safety properties do the same. `OwnSiteUnlessStrayed` excludes
a failed EPOLL_CTL_ADD (its descriptor number is reissued, and `addFdPort` keeps
the old port), ports beyond 16 bits, and ports that have no site any more;
`ListensUnlessEdited` excludes ports that were edited since the start;
`LinesKept` excludes two rotations in one second and a log that cannot be
opened; `ChangesNoticed` excludes `raced` files. For each, the mutants of the
property are found where the condition holds.

## 4. The proofs

All theorems hold for every value of the constants that satisfies the module's
assumption: any finite or infinite set of clients, ports, descriptors and
threads (`EpollWorker`), of workers and tasks (`ThreadPool`), of threads and
files, with any sizes and limits (`FileCache`); any process numbers, children and
restarts (`Master`); any scripts, file sizes, buffer and number of changes
(`Exchange`); any finite set of processes, and any documents, edits, descriptors,
limits and bounds (`Service`); any document (`Yaml`).

The assumptions are about types (`Sizes` are natural numbers, `None` is none of
the files, and so on). `DocsAssumption` of `Startup` says no more than that a
configuration file is a document, or not there; what the reader makes of it is
proved.

`ThreadPoolProofs`. The inductive invariant `IInv` adds to the types `Guarded`
(a thread inside its critical section holds the mutex, so only one is inside)
and `Awake` (a worker that has passed the wait has `_stop` or a task to take).
Shutdown (`Drained`: once a worker has left, `_stop` is set and the queue is
empty for good) is inductive with these, since a push is refused under the mutex
once `_stop` is set, and `_stop` never goes back. `NoTaskWakeupLost` needs
`WakeInv` besides: a worker about to sleep has seen an empty queue no one has
touched since, and while a task is queued a notification is under way or a
worker is active. `Refinement` maps `EnqueuePush` to `Submit`, `Take` to
`Start`, `Run` to `Finish`, the first `Exit` to `Drain` and every other step to
a stutter; it needs `Unique`: a task is at one place, its caller, the queue,
one worker, or done. The theorem is about the safety part of `TaskQueue`.

`EpollWorkerProofs`. The types are inductive by themselves; they contain what
makes the rest well defined: outside `next` the main thread has a descriptor, at
`map` and `enqueue` a port (no task is queued without one, though events are
stale), a busy pool thread has a task, and one inside `handle_https` has an
`SSL*`. There is a lemma for each handler step that is not immediate.

`MarkHasOwner` and `WatchedOrInTransit` are inductive
together with the types. The second allows for the connections in `refused`, and
for no others. The first one is stated with the main thread's local
`skip`: a thread that found the mark taken owns nothing, the outstanding task
does. Between taking a task and finishing it a pool thread changes
neither queue nor marks (`InTaskKeeps`), which leaves five actions to consider.

`OneTask` (`Exclusive`) is about the code's whole protocol of marking, looking
up and unmapping, and says that it keeps two tasks off one descriptor although
the main thread consults stale events and checks mark and port in two separate
critical sections. `Exclusive` alone is not inductive; `ExclInv` adds, under
`~recycled`, that a descriptor with a task is marked or has lost its port
(`MarkedOrUnmapped`: after the unmarking no task is left, before it the mark or
the missing port stops the main thread), that the port stays until the task is
past its cleanup (`MappedTillUnmark`), and that the main thread, wherever it
could still queue a task, holds a descriptor that has none (`MainHolds`). The
order of the last two critical sections of a task, unmap before unmark, is what
makes it work: a stale event that finds the mark gone finds the port gone, too.

`SiteUnlessRecycled` and `SessionOwned` use `Exclusive`. `SiteInv` follows a
port on its way from `map` through the main thread's local and the queue into a
task (`PortsRight`): wherever it is, if its descriptor is open it is the port of
the connection that is open there. A number that is reissued while a port is
still under way breaks this, and `recycled` notes it. `SessionInv` adds to
`SessionUnlessRecycled` that the `SSL*` of a descriptor is gone from `ssl_map`
before the descriptor is closed (`SessionGone`), so that the next connection
there finds none; since no two tasks have one descriptor, the freeing by one is
no use after free by another.

`ExchangeProofs`. The inductive invariant `ExchangeInv` has four ideas. `Places`
and `Underway` say what a handler at a location has: an answer under way is for
the first piece of `request`, and its header is out unless something is noted in
`why`. The clause that carries the excuses is: as long as the file has still to
be opened, either `disk` is what was announced or `changed` is noted; `Overwrite`
and `Replace` keep it by noting, `Answer` by comparing. `Sending` continues it
for the opened file: what is mapped is what was announced or `changed` is noted,
and it is no longer than the file or `shrunk` is noted. `Ordered` is about the
numbers of pieces: those answered come before those in `request`, these before
those in `inbox`, segment by segment, and all up to `count`; a segment that joins
the one before it (`Send`), moves to `request` (`Read`) or is dropped with it
keeps the order, and an answer moves the first number of `request` behind those
in `out`. `Given` collects what holds of the answers. All returns of a handler
share the lemma `Returned`.

`EachAnswered` (`AllAnswered`) needs more than the order: that nothing a patient
client sent is read away unseen, and that an answer without a header has found
the buffer full (`Noted`). `PatientInv` says that at most one of its requests is
neither answered nor cut off (`Unanswered`), and that this one is, on an open
connection, among the pieces that have arrived (`Held`); that its segments are
one request, or a request and its body (`Simple`); and that a handler that goes
on reading has not seen the end of a request. On a plain connection there is one
segment at a time, as what arrives runs together; on TLS a record may be all a
handler reads, and the next one stays for the handler's next call.

`FileCacheProofs`. `CacheInv` has five parts besides the types. `CallInv`: the
thread in `get` holds the mutex; a call that loads a file has not found it, and
the size is within the limit except while it evicts. `ListInv` (the list is
without repetition and has the files that are cached), `SizeInv` (the size is
the number of bytes cached) and `OrderInv` (the list is in the order of the last
uses) hold between any two steps, also within an eviction. The size is the
cardinality of a set of pairs instead of a sum, because a sum over a set is a
fold, and every fact about it an induction, while the theorems on finite sets
say what adding or removing a file's bytes does. `FreshInv` is about the files
that are not `raced`: what `load_file` has opened, and then what it has read, is
what is on disk still, or the file is gone, and the size it was told is that of
the stream (`LoadInv`). From the insertion on it is `ChangesNoticed`: an entry
is the file's contents, or the file is newer or gone. What the operators on
sequences do (`RemoveFirst`, moving to the front) is stated in lemmas at the
beginning.

`Refinement` maps every step to one of `LruCache` or to a stutter: `Get` to
`Ask`, `Hit` to `Use`, `Invalidate` to `Discard`, `Insert` to `Add`, an `Open` or
`StatSize` that fails to `Fail`, `Evict` to `Evict`, `set_max_size` to `Resize`,
and the rest to nothing, the file system included. What makes it work is
`CacheInv`. `LruCache` evicts while the bytes of the entries exceed the limit, and
the code while `current_size_` does: `SizeInv` says it is the same. `LruCache`
evicts the entry that was really used least recently, and the code the last of
its list: `ListInv` and `OrderInv` say it is the same, and that there is one.
`LruCache` hands out nothing while too much is cached: `CallInv`. (`SameCount`
says that the cardinality `LruCache` uses is that of `FileCache`: an instance
brings a copy of the operators its module extends.)

`MasterProofs`. `ChildrenTracked` and `AllTerminated` become inductive with
`KillInv`: in `terminateAll` every child that is still alive is at or behind the
place the loop has reached, although the SIGCHLD handler reaps children meanwhile
and numbers are reissued to strangers. `IndexInv` says where the loop begins, and
`ReturnInv` where it returns to. Removing one place from `child_pids`
(`monitorChildren`) loses no other process (`RemoveAtFacts`).

`LoggerProofs`. `SizeBounded` is not inductive: a file may receive lines from
processes that saw it when it was shorter. `Room` counts them: a file that has
reached `MaxSize` lines, with its `Writers` (who have passed the test with their
stream on this file, or are about to open it under the name `server.log`), does
not exceed `MaxSize + |Procs| - 1 + kept`. A file that reaches its limit does so
by the line of a process that is no longer a writer, so at most `|Procs| - 1`
are left; after that the test sends the others to `Rename`, and only a rename
that fails makes one of them a writer again, which `kept` pays for. `Unborn` is
needed for `Inherit`: a process about to be forked is not in `log`. The theorem
is about `Service`, so restarts and the ends of children in the middle of `log`
are included.

`NoLineLost` (`LinesKept`) holds under a condition on the past (`Regularly`: no
second with two rotations, no refused open), and so does what makes it inductive
(`KeptInv`): every file has a name (`Named`), a second without a rotation has no
file (`Vacant`, so that a rename replaces nothing), and whoever is alive or in
`log` has a stream (`Streams`, so that no line goes nowhere). A file that loses
the name `server.log` gets another, and the processes that still write to it are
none the wiser, but their lines are kept.

`ServiceProofs`. `BootInv` says of the configuration which document it is from
(`ReadInv`), of `main` that it has ports when it forks (`MainInv`), of a child
that all open sockets are watched and recorded but for the one just opened
(`SocketInv`), and, while no EPOLL_CTL_ADD has failed in its generation, that the
registry has exactly the open sockets, each with the port it was asked to bind,
and with the ports still to come makes up the list of `main` (`BoundInv`). It is
`BoundInv` that a failed EPOLL_CTL_ADD breaks: the closed number stays recorded.
`Listens` and `OwnSite` follow with facts about documents: the ports of a complete
one have 16 bits (`PortsFit`), and in the tree that `Meaning` builds each field of
a site is found under its path and nowhere else (`SiteValue`, `SiteList`), so that
the search of `SiteInfo` ends at the site that the document has first for the
port (`RootRight`). That the tree is that of `Meaning` is `ReadRight` of
`YamlProofs`, from which `ConfigRight` (`LoadedRight`) follows at once; that a list
has a number as its length, so that `getArray` has elements to look at, is
`ReadCounted`.
`OwnSite` therefore reaches from the text of the file to the root directory a
request is answered from, for the ports that have a site in it, under no
hypothesis but the assumption on types.

`YamlProofs`. `ReadRight` says of every regular document, with any number of
fields, sections and sites and any width of two or more, that `parseFile` makes
of its lines the tree that `Meaning` gives, without failing. Regular documents
have literal values only, so no conversion changes or refuses one; the theorem
claims nothing of the others. The library's
induction theorems take an operator as a parameter and cannot be used here; but
that a set of numbers has a least element can (`WFMin`, `NatLessThanWellFounded`),
and induction for a *set* of numbers follows (`Induction`). Each induction of the
module is on a set of that kind: of the lines read so far (`Reading`,
`ReadCounted`), of the parts of a flattened text (`Flattening`, `HoldsParts`), of
the fields of a section (`SubsRead`), the fields of a map (`EntriesRead`), the
sites (`SitesRead`). The argument has three strands.

* *Where the text is.* `Holds(lines, i, text)`: the text stands in the lines
  from `i + 1` on. What is written of a document is cut into the parts before,
  at, in and after the list of sites (`Quarters`), these into sites and fields,
  these into lines.
* *Where the reader is.* After a field it may be deeper than the next line is:
  the map of a section, or of an item, is still on the stack. `Level` says that a
  line of a certain indentation finds it back at a certain stack and list. That
  the reader leaves levels by twos of columns, whatever their width, makes it a
  fact to be proved, and `Regular` the condition under which it can be: with two
  columns a step each level is left by itself; with more the stack would be left
  too often, which only the outermost map forgives (`LevelBack`, `LevelAfter`,
  `SiteLeft`). `ItemStep` shows that `push_back` moves no element to which there
  is a pointer: when an item begins, the stack is at the outermost map.
* *What it has.* `IsTree(data, N)`: the tree consists of the nodes `N`, one to a
  path. An assignment adds a node where the path is `Free`, with nothing at it or
  below; that different keys, items and sites have paths of which none begins
  another (`Apart`, `ChildApart`, `Heads`) keeps the paths to come free.

`SectionRead`, `PlainRead` and `SiteRead` join the three, and `DocRead` the parts
of the document. `ReadCounted` is about every document, regular or not: a list
that is open and has not been destroyed is in the tree, with a number of elements
(`Counted`), whatever lines come.

What stays with TLC: liveness (TLAPS has no rule for ENABLED here), and all
counterexamples. Every safety property of the passing runs is a theorem.

## 5. Not modelled, and the plan

Not modelled, and why:

* The lock-free queue: no file includes it, so the program has none.
* `mstd::vector` and `mstd::string`: nothing uses them. `Function` holds a
  callable for the fork and for a task, and has no behaviour of its own.
* Operations nothing calls: `set_max_filesize`, `FdPortRegistry::removeFd`,
  `YamlReader::getObject`.
* The text of headers and log lines, MIME types, quotes and comments in YAML: no
  property is about them.

Considered and left out:

* A composition of `EpollWorker` with `TaskQueue`. The queue of `EpollWorker` is
  what `TaskQueue` promises, with `tasks` for `pending`: `EnqueueTask` appends as
  `Submit` does, `TakeTask` takes the first as `Start` does, `UnmarkClient` ends
  a task as `Finish` does. A child never destroys its pool (it leaves by a signal
  or with the process), so nothing is refused or drained, and a composition would
  add no behaviour to the two modules.
* Liveness of `LruCache`: that a call returns is `CallReturns`, checked of
  `FileCache` itself.
