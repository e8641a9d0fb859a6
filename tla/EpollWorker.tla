---------------------------- MODULE EpollWorker ----------------------------
(***************************************************************************)
(* One child process of the server: the thread that runs epoll_worker, the *)
(* pool threads that run handle_connection and the cleanup that follows    *)
(* it, and the kernel objects they share (descriptor table, epoll interest *)
(* list, sockets).                                                         *)
(*                                                                         *)
(* A step is one system call or one critical section.  The mutexes of the  *)
(* source (client_map_port_mtx, working_fds_mtx, ssl_map_mtx) protect      *)
(* single critical sections, so each section is one atomic step; only the  *)
(* main thread nests two of them, which excludes a lock cycle.             *)
(*                                                                         *)
(* Descriptor numbers are recycled the way POSIX prescribes: accept        *)
(* returns the lowest number that is free.                                 *)
(***************************************************************************)
EXTENDS Integers, Sequences, FiniteSets

CONSTANTS
    Conns,      \* client connections
    Ports,      \* listened-to ports; a port stands for its server_fd too
    Fds,        \* descriptor numbers accept may return
    Workers,    \* threads of the pool
    MaxEvents,  \* per_process_max_events
    PortOf,     \* the port a connection arrives on
    Script,     \* the segments the client of a connection sends, in order
    Tls,        \* the connections that speak TLS
    MayThrow,   \* ports for which the look-up of the site may throw
    None

(***************************************************************************)
(* What a segment holds, as far as the handlers tell segments apart:       *)
(*   "hello", "fin"  the client's two flights of a TLS handshake           *)
(*   "ka"    a complete request asking for keep-alive                      *)
(*   "bye"   a complete request not asking for it                          *)
(*   "head"  the request line of a "ka" request whose rest is delayed      *)
(*   "rest"  that rest, the header fields; no request starts like it       *)
(* On a TLS connection the last four are application records.              *)
(***************************************************************************)
Segments == {"hello", "fin", "ka", "bye", "head", "rest"}

ASSUME ConstAssumption ==
    /\ Fds \subseteq Nat
    /\ MaxEvents \in Nat \ {0}
    /\ PortOf \in [Conns -> Ports]
    /\ Script \in [Conns -> Seq(Segments)]
    /\ Tls \subseteq Conns
    /\ MayThrow \subseteq Ports
    /\ Ports \cap Fds = {}
    /\ None \notin Conns \cup Ports \cup Fds

VARIABLES
    fdTab,              \* descriptor table: the connection a number names
    watched,            \* client descriptors in the epoll interest list
    phase,              \* where a connection is
    inbox,              \* received segments no one has read
    sent,               \* how much of its script a client has sent
    peerFin,            \* the client closed its side
    client_map_port,    \* fd -> port
    working_fds,        \* descriptors some task is working on
    ssl_map,            \* fd -> SSL*, named by the connection it was made for
    hs,                 \* handshake flights a connection's SSL* has consumed
    mpc, batch, cur, skip, mport,   \* main thread: location, events, locals
    tasks,              \* thread_pool: queued [fd, port]
    wpc, task, req, ssl,            \* pool threads: location and locals
    replies,            \* history: [site, keep] of the responses to a connection
    recycled,           \* history: accept returned a number a task still uses
    refused,            \* history: connections epoll refused to watch
    crashed             \* the process died in TlsCrash

kernel   == <<fdTab, watched>>
net      == <<phase, inbox, sent, peerFin>>
tables   == <<client_map_port, working_fds, ssl_map, hs>>
mainVars == <<mpc, batch, cur, skip, mport>>
poolVars == <<wpc, task, req, ssl>>
history  == <<replies, recycled, refused>>
vars     == <<kernel, net, tables, mainVars, tasks, poolVars, history, crashed>>

MainLocs == {"next", "map", "add", "check", "lookup", "enqueue"}
TlsLocs  == {"tls_accept", "tls_read", "tls_reply", "tls_free"}
DropLocs == {"clean", "del", "close"}
DoneLocs == {"unmap", "unmark"}
WorkLocs == {"peek", "recv", "reply", "spin", "tls_get"} \cup TlsLocs \cup DropLocs \cup DoneLocs

Task == [fd : Fds, port : Ports]

KernelOK ==
    /\ fdTab \in [Fds -> Conns \cup {None}]
    /\ watched \subseteq Fds

NetOK ==
    /\ phase \in [Conns -> {"out", "backlog", "open", "closed"}]
    /\ inbox \in [Conns -> Seq(Segments)]
    /\ sent \in [Conns -> Nat]
    /\ peerFin \in [Conns -> BOOLEAN]

TablesOK ==
    /\ client_map_port \in [Fds -> Ports \cup {None}]
    /\ working_fds \subseteq Fds
    /\ ssl_map \in [Fds -> Conns \cup {None}]
    /\ hs \in [Conns -> 0..2]

MainOK ==
    /\ mpc \in MainLocs
    /\ batch \subseteq Ports \cup Fds
    /\ cur \in Fds \cup {None}
    /\ mpc # "next" => cur \in Fds
    /\ skip \in BOOLEAN
    /\ mport \in Ports \cup {None}
    /\ mpc \in {"map", "enqueue"} => mport \in Ports

PoolOK ==
    /\ tasks \in Seq(Task)
    /\ wpc \in [Workers -> {"idle"} \cup WorkLocs]
    /\ task \in [Workers -> Task \cup {None}]
    /\ \A w \in Workers : wpc[w] # "idle" => task[w] \in Task
    /\ req \in [Workers -> Seq(Segments)]
    /\ ssl \in [Workers -> Conns \cup {None}]
    /\ \A w \in Workers : wpc[w] \in TlsLocs => ssl[w] \in Conns

HistoryOK ==
    /\ replies \in [Conns -> Seq([site : Ports, keep : BOOLEAN])]
    /\ recycled \in BOOLEAN
    /\ refused \subseteq Conns
    /\ crashed \in BOOLEAN

TypeOK == KernelOK /\ NetOK /\ TablesOK /\ MainOK /\ PoolOK /\ HistoryOK

Init ==
    /\ fdTab = [n \in Fds |-> None]
    /\ watched = {}
    /\ phase = [c \in Conns |-> "out"]
    /\ inbox = [c \in Conns |-> <<>>]
    /\ sent = [c \in Conns |-> 0]
    /\ peerFin = [c \in Conns |-> FALSE]
    /\ client_map_port = [n \in Fds |-> None]
    /\ working_fds = {}
    /\ ssl_map = [n \in Fds |-> None]
    /\ hs = [c \in Conns |-> 0]
    /\ mpc = "next" /\ batch = {} /\ cur = None /\ skip = FALSE /\ mport = None
    /\ tasks = <<>>
    /\ wpc = [w \in Workers |-> "idle"]
    /\ task = [w \in Workers |-> None]
    /\ req = [w \in Workers |-> <<>>]
    /\ ssl = [w \in Workers |-> None]
    /\ replies = [c \in Conns |-> <<>>]
    /\ recycled = FALSE
    /\ refused = {}
    /\ crashed = FALSE

-----------------------------------------------------------------------------
(* Clients and network (external).                                         *)

Connect(c) ==
    /\ phase[c] = "out"
    /\ phase' = [phase EXCEPT ![c] = "backlog"]
    /\ UNCHANGED <<kernel, inbox, sent, peerFin, tables, mainVars, tasks, poolVars,
                   history, crashed>>

Send(c) ==
    /\ phase[c] \in {"backlog", "open"}
    /\ ~peerFin[c]
    /\ sent[c] < Len(Script[c])
    /\ sent' = [sent EXCEPT ![c] = @ + 1]
    /\ inbox' = [inbox EXCEPT ![c] = Append(@, Script[c][sent[c] + 1])]
    /\ UNCHANGED <<kernel, phase, peerFin, tables, mainVars, tasks, poolVars, history,
                   crashed>>

ClientClose(c) ==
    /\ phase[c] \in {"backlog", "open"}
    /\ ~peerFin[c]
    /\ peerFin' = [peerFin EXCEPT ![c] = TRUE]
    /\ UNCHANGED <<kernel, phase, inbox, sent, tables, mainVars, tasks, poolVars,
                   history, crashed>>

-----------------------------------------------------------------------------
(* The main thread: epoll_worker's loop.                                   *)

MainAt(l) == ~crashed /\ mpc = l
MainGoto(l) == mpc' = l

Readable(c) == c # None /\ (inbox[c] # <<>> \/ peerFin[c])
Waiting(p)  == {c \in Conns : phase[c] = "backlog" /\ PortOf[c] = p}
Ready == {n \in watched : Readable(fdTab[n])} \cup {p \in Ports : Waiting(p) # {}}

(* epoll_wait returns what is ready, at most MaxEvents of it; the order in *)
(* which the loop meets the events is left open.                           *)
EpollWait ==
    /\ MainAt("next") /\ batch = {}
    /\ Ready # {}
    /\ batch' \in SUBSET Ready
    /\ Cardinality(batch') = IF Cardinality(Ready) <= MaxEvents
                             THEN Cardinality(Ready) ELSE MaxEvents
    /\ UNCHANGED <<kernel, net, tables, mpc, cur, skip, mport, tasks, poolVars, history,
                   crashed>>

FreeFds == {n \in Fds : fdTab[n] = None}

(* Some task for descriptor n is queued or has not run to its end.         *)
Outstanding(n) ==
    \/ \E i \in DOMAIN tasks : tasks[i].fd = n
    \/ \E w \in Workers : wpc[w] # "idle" /\ task[w].fd = n

(* An event of a listening socket: accept, on the lowest free number.      *)
Accept(p) ==
    /\ MainAt("next") /\ p \in batch
    /\ batch' = batch \ {p}
    /\ \E c \in Waiting(p), n \in FreeFds :
          /\ \A m \in FreeFds : n <= m
          /\ fdTab' = [fdTab EXCEPT ![n] = c]
          /\ phase' = [phase EXCEPT ![c] = "open"]
          /\ cur' = n /\ mport' = p
          /\ recycled' = (recycled \/ Outstanding(n))
    /\ MainGoto("map")
    /\ UNCHANGED <<watched, inbox, sent, peerFin, tables, skip, tasks, poolVars, replies,
                   refused, crashed>>

(* accept fails for want of a descriptor; the event is dropped and the     *)
(* next epoll_wait reports it again.                                       *)
AcceptFails(p) ==
    /\ MainAt("next") /\ p \in batch
    /\ FreeFds = {}
    /\ batch' = batch \ {p}
    /\ UNCHANGED <<kernel, net, tables, mpc, cur, skip, mport, tasks, poolVars, history,
                   crashed>>

MapClient ==
    /\ MainAt("map")
    /\ client_map_port' = [client_map_port EXCEPT ![cur] = mport]
    /\ MainGoto("add")
    /\ UNCHANGED <<kernel, net, working_fds, ssl_map, hs, batch, cur, skip, mport, tasks,
                   poolVars, history, crashed>>

(* EPOLL_CTL_ADD.  It fails on a number that is no longer open and, when   *)
(* the kernel lacks memory or watches, on an open one too; the result is   *)
(* ignored, so that connection stays open and mapped, and is never watched.*)
WatchClient ==
    /\ MainAt("add")
    /\ \/ fdTab[cur] # None /\ watched' = watched \cup {cur} /\ UNCHANGED refused
       \/ refused' = refused \cup ({fdTab[cur]} \ {None}) /\ UNCHANGED watched
    /\ MainGoto("next")
    /\ UNCHANGED <<fdTab, net, tables, batch, cur, skip, mport, tasks, poolVars, replies,
                   recycled, crashed>>

(* Mutant: a descriptor that is being worked on is not skipped.            *)
MarkClientNoSkip(n) ==
    /\ MainAt("next") /\ n \in batch
    /\ batch' = batch \ {n}
    /\ cur' = n
    /\ skip' = FALSE
    /\ working_fds' = working_fds \cup {n}
    /\ MainGoto("check")
    /\ UNCHANGED <<kernel, net, client_map_port, ssl_map, hs, mport, tasks, poolVars,
                   history, crashed>>

(* An event of a client: take the working mark, or note that it is taken.  *)
MarkClient(n) ==
    /\ MainAt("next") /\ n \in batch
    /\ batch' = batch \ {n}
    /\ cur' = n
    /\ skip' = (n \in working_fds)
    /\ working_fds' = working_fds \cup {n}
    /\ MainGoto("check")
    /\ UNCHANGED <<kernel, net, client_map_port, ssl_map, hs, mport, tasks, poolVars,
                   history, crashed>>

(* Mutant: the mark of a number without a port is kept.                    *)
CheckClientKeepsMark ==
    /\ MainAt("check")
    /\ MainGoto(IF client_map_port[cur] = None \/ skip THEN "next" ELSE "lookup")
    /\ UNCHANGED <<kernel, net, tables, batch, cur, skip, mport, tasks, poolVars, history,
                   crashed>>

(* Mutant: the port is used without a test that there is one.              *)
CheckClientNoTest ==
    /\ MainAt("check")
    /\ mport' = client_map_port[cur]
    /\ MainGoto(IF skip THEN "next" ELSE "enqueue")
    /\ UNCHANGED <<kernel, net, tables, batch, cur, skip, tasks, poolVars, history, crashed>>

(* A number without a port loses its mark, whoever set it, and is skipped. *)
CheckClient ==
    /\ MainAt("check")
    /\ IF client_map_port[cur] = None
       THEN working_fds' = working_fds \ {cur} /\ MainGoto("next")
       ELSE UNCHANGED working_fds /\ MainGoto(IF skip THEN "next" ELSE "lookup")
    /\ UNCHANGED <<kernel, net, client_map_port, ssl_map, hs, batch, cur, skip, mport,
                   tasks, poolVars, history, crashed>>

(* Mutant: the port left over from the last accept is used.                *)
LookupPortLeftover ==
    /\ MainAt("lookup")
    /\ IF client_map_port[cur] = None
       THEN working_fds' = working_fds \ {cur} /\ MainGoto("next")
       ELSE UNCHANGED working_fds /\ MainGoto("enqueue")
    /\ UNCHANGED <<kernel, net, client_map_port, ssl_map, hs, batch, cur, skip, mport,
                   tasks, poolVars, history, crashed>>

LookupPort ==
    /\ MainAt("lookup")
    /\ IF client_map_port[cur] = None
       THEN working_fds' = working_fds \ {cur} /\ MainGoto("next") /\ UNCHANGED mport
       ELSE UNCHANGED working_fds /\ MainGoto("enqueue") /\ mport' = client_map_port[cur]
    /\ UNCHANGED <<kernel, net, client_map_port, ssl_map, hs, batch, cur, skip, tasks,
                   poolVars, history, crashed>>

EnqueueTask ==
    /\ MainAt("enqueue")
    /\ tasks' = Append(tasks, [fd |-> cur, port |-> mport])
    /\ MainGoto("next")
    /\ UNCHANGED <<kernel, net, tables, batch, cur, skip, mport, poolVars, history, crashed>>

Main ==
    \/ EpollWait
    \/ \E p \in Ports : Accept(p) \/ AcceptFails(p)
    \/ MapClient
    \/ WatchClient
    \/ \E n \in Fds : MarkClient(n)
    \/ CheckClient
    \/ LookupPort
    \/ EnqueueTask

-----------------------------------------------------------------------------
(* A pool thread: the task epoll_worker enqueues, that is handle_connection *)
(* (dispatch_protocol, then handle_http or handle_https) and the cleanup.   *)
(* "return true" of the handlers is a jump to "unmark", "return false" one  *)
(* to "clean".                                                              *)

At(w, l) == ~crashed /\ wpc[w] = l
Goto(w, l) == wpc' = [wpc EXCEPT ![w] = l]
ConnOf(w) == fdTab[task[w].fd]

(* The thread pool hands the oldest task to a thread that is free.         *)
TakeTask(w) ==
    /\ At(w, "idle") /\ tasks # <<>>
    /\ task' = [task EXCEPT ![w] = Head(tasks)]
    /\ tasks' = Tail(tasks)
    /\ req' = [req EXCEPT ![w] = <<>>]
    /\ ssl' = [ssl EXCEPT ![w] = None]
    /\ Goto(w, "peek")
    /\ UNCHANGED <<kernel, net, tables, mainVars, history, crashed>>

(* What a read on the descriptor finds: bytes, or nothing yet (EAGAIN);    *)
(* otherwise it meets the end of file or an error.                         *)
HasData(c) == c # None /\ inbox[c] # <<>>
Blocked(c) == c # None /\ inbox[c] = <<>> /\ ~peerFin[c]

(* The bytes start with a request line.                                    *)
Asks(r) == r # <<>> /\ Head(r) \in {"ka", "bye", "head"}

(* dispatch_protocol: recv(MSG_PEEK) and the choice of a handler.  A peek   *)
(* that yields nothing (end of file, EAGAIN or a closed number) and data of *)
(* no known protocol both end the connection, and so does an exception of   *)
(* SiteInfo, which reads the name and the root of the task's port.          *)
Peek(w) ==
    /\ At(w, "peek")
    /\ LET c == ConnOf(w) IN
       \/ Goto(w, IF ~HasData(c) THEN "clean"
                  ELSE IF c \in Tls THEN "tls_get"
                  ELSE IF Asks(inbox[c]) THEN "recv" ELSE "clean")
       \/ HasData(c) /\ task[w].port \in MayThrow /\ Goto(w, "clean")
    /\ UNCHANGED <<kernel, net, tables, mainVars, tasks, task, req, ssl, history, crashed>>

(* The request buffer holds the end of a header.                           *)
Complete(r) == \E i \in DOMAIN r : r[i] \in {"ka", "bye", "rest"}

(* The first request in the buffer is whole and asks for keep-alive.       *)
KeepAlive(r) == Complete(r) /\ Head(r) \in {"ka", "head"}

(* One turn of a receive loop: it moves got from the inbox to the request. *)
ReadSome(w, got, left, done, more) ==
    /\ inbox' = [inbox EXCEPT ![ConnOf(w)] = left]
    /\ req' = [req EXCEPT ![w] = @ \o got]
    /\ Goto(w, IF Complete(req[w] \o got) THEN done ELSE more)
    /\ UNCHANGED <<phase, sent, peerFin>>

(* handle_http's receive loop; recv takes all that has arrived.  EAGAIN    *)
(* gives up the call, and with it the part of the request already read.    *)
(* After end of file or an error the request is answered as far as it was  *)
(* read.                                                                   *)
Recv(w) ==
    /\ At(w, "recv")
    /\ LET c == ConnOf(w) IN
       \/ HasData(c) /\ ReadSome(w, inbox[c], <<>>, "reply", "recv")
       \/ Blocked(c) /\ Goto(w, "unmark") /\ UNCHANGED <<net, req>>
       \/ ~HasData(c) /\ ~Blocked(c) /\ Goto(w, "reply") /\ UNCHANGED <<net, req>>
    /\ UNCHANGED <<kernel, tables, mainVars, tasks, task, ssl, history, crashed>>

Answer(c, site, keep) ==
    replies' = [replies EXCEPT ![c] = Append(@, [site |-> site, keep |-> keep])]

(* Send the response of the site of the task's port to whatever connection *)
(* the number names by now.  A write to a client that has closed may fail, *)
(* one to a closed number does; either counts as a broken pipe.            *)
Respond(w, kept, dropped) ==
    LET c == ConnOf(w)
        keep == KeepAlive(req[w])
    IN  IF c = None
        THEN Goto(w, dropped) /\ UNCHANGED replies
        ELSE /\ Answer(c, task[w].port, keep)
             /\ \/ Goto(w, IF keep THEN kept ELSE dropped)
                \/ peerFin[c] /\ Goto(w, dropped)

(* The sendfile loop of a plain response turns at a file that has become   *)
(* shorter than announced: sendfile then returns 0, for ever.              *)
Spins(w) ==
    /\ ConnOf(w) # None /\ Asks(req[w])
    /\ Answer(ConnOf(w), task[w].port, KeepAlive(req[w]))
    /\ Goto(w, "spin")

Reply(w) ==
    /\ At(w, "reply")
    /\ Respond(w, "unmark", "clean") \/ Spins(w)
    /\ UNCHANGED <<kernel, net, tables, mainVars, tasks, task, req, ssl, recycled, refused,
                   crashed>>

(* The loop ends if somebody lengthens the file again or the number is     *)
(* closed; neither has to happen.                                          *)
SpinEnds(w) ==
    /\ At(w, "spin")
    /\ Goto(w, IF KeepAlive(req[w]) THEN "unmark" ELSE "clean")
    /\ UNCHANGED <<kernel, net, tables, mainVars, tasks, task, req, ssl, history, crashed>>

(* An exception while the response is made: handle_http answers 500,       *)
(* handle_https nothing; both end the connection, the SSL* is left to the  *)
(* cleanup.                                                                *)
Throw(w) ==
    /\ At(w, "reply") \/ At(w, "tls_reply")
    /\ LET c == ConnOf(w) IN
       IF wpc[w] = "reply" /\ c # None THEN Answer(c, task[w].port, FALSE)
                                       ELSE UNCHANGED replies
    /\ Goto(w, "clean")
    /\ UNCHANGED <<kernel, net, tables, mainVars, tasks, task, req, ssl, recycled, refused,
                   crashed>>

(* handle_https, critical section: find the SSL* of the number or, if the  *)
(* first byte is that of a handshake, make one.                            *)
TlsGet(w) ==
    /\ At(w, "tls_get")
    /\ LET n == task[w].fd
           c == ConnOf(w)
       IN  IF ssl_map[n] # None
           THEN /\ ssl' = [ssl EXCEPT ![w] = ssl_map[n]]
                /\ Goto(w, "tls_accept")
                /\ UNCHANGED <<ssl_map, hs>>
           ELSE IF HasData(c) /\ Head(inbox[c]) = "hello"
           THEN /\ ssl_map' = [ssl_map EXCEPT ![n] = c]
                /\ hs' = [hs EXCEPT ![c] = 0]
                /\ ssl' = [ssl EXCEPT ![w] = c]
                /\ Goto(w, "tls_accept")
           ELSE Goto(w, "clean") /\ UNCHANGED <<ssl_map, hs, ssl>>
    /\ UNCHANGED <<kernel, net, client_map_port, working_fds, mainVars, tasks, task, req,
                   history, crashed>>

(* The client's flight that a handshake at stage k waits for.              *)
Flight(k) == IF k = 0 THEN "hello" ELSE "fin"

(* The bytes at the number continue the handshake of the SSL* s; one that  *)
(* has read nothing takes the hello of anybody.                            *)
Continues(c, s) ==
    HasData(c) /\ Head(inbox[c]) = Flight(hs[s]) /\ (c = s \/ hs[s] = 0)

(* SSL_accept: consume one flight (the SSL* then belongs to the connection *)
(* it came from), or report success, WANT_READ (the call returns true) or  *)
(* a failure (it returns false, leaving the SSL* to the cleanup).          *)
TlsAccept(w) ==
    /\ At(w, "tls_accept")
    /\ LET n == task[w].fd
           c == ConnOf(w)
           s == ssl[w]
       IN  \/ /\ hs[s] = 2
              /\ Goto(w, "tls_read")
              /\ UNCHANGED <<inbox, hs, ssl, ssl_map>>
           \/ /\ hs[s] < 2 /\ Continues(c, s)
              /\ inbox' = [inbox EXCEPT ![c] = Tail(@)]
              /\ hs' = [hs EXCEPT ![c] = hs[s] + 1]
              /\ ssl' = [ssl EXCEPT ![w] = c]
              /\ ssl_map' = [ssl_map EXCEPT ![n] = IF @ = s THEN c ELSE @]
              /\ UNCHANGED wpc
           \/ /\ hs[s] < 2 /\ ~Continues(c, s)
              /\ Goto(w, IF Blocked(c) THEN "unmark" ELSE "clean")
              /\ UNCHANGED <<inbox, hs, ssl, ssl_map>>
    /\ UNCHANGED <<kernel, phase, sent, peerFin, client_map_port, working_fds, mainVars,
                   tasks, task, req, history, crashed>>

(* handle_https's SSL_read loop; SSL_read takes one record.  WANT_READ     *)
(* gives up the call.  The end of the stream (0) frees the SSL* at once;   *)
(* any other failure (a cut stream, another connection's bytes) goes on to *)
(* answer what was read.                                                   *)
TlsRead(w) ==
    /\ At(w, "tls_read")
    /\ LET c == ConnOf(w)
           good == HasData(c) /\ c = ssl[w]
       IN  \/ good /\ ReadSome(w, <<Head(inbox[c])>>, Tail(inbox[c]), "tls_reply", "tls_read")
           \/ Blocked(c) /\ Goto(w, "unmark") /\ UNCHANGED <<net, req>>
           \/ /\ ~good /\ ~Blocked(c)
              /\ Goto(w, "tls_free") \/ Goto(w, "tls_reply")
              /\ UNCHANGED <<net, req>>
    /\ UNCHANGED <<kernel, tables, mainVars, tasks, task, ssl, history, crashed>>

TlsReply(w) ==
    /\ At(w, "tls_reply")
    /\ Respond(w, "unmark", "tls_free")
    /\ UNCHANGED <<kernel, net, tables, mainVars, tasks, task, req, ssl, recycled, refused,
                   crashed>>

(* SSL_free and ssl_map.erase in handle_https, without the mutex.          *)
TlsFree(w) ==
    /\ At(w, "tls_free")
    /\ ssl_map' = [ssl_map EXCEPT ![task[w].fd] = None]
    /\ Goto(w, "clean")
    /\ UNCHANGED <<kernel, net, client_map_port, working_fds, hs, mainVars, tasks, task,
                   req, ssl, history, crashed>>

(* What may kill the process: the unlocked erase beside another thread's    *)
(* access to the map and the use of an SSL* that another thread has freed,  *)
(* which are undefined behaviour (otherwise the thread goes on as if        *)
(* nothing happened), and a response from a mapped file that is truncated.  *)
Racing(w) == \E v \in Workers \ {w} : wpc[v] \in {"tls_get", "tls_free", "clean"}
Freed(w) == ssl_map[task[w].fd] # ssl[w]

TlsCrash(w) ==
    /\ ~crashed /\ wpc[w] \in TlsLocs
    /\ Freed(w) \/ wpc[w] = "tls_reply" \/ (wpc[w] = "tls_free" /\ Racing(w))
    /\ crashed' = TRUE
    /\ UNCHANGED <<kernel, net, tables, mainVars, tasks, poolVars, history>>

(* Mutant: the cleanup forgets the SSL*.                                   *)
CleanSslMissing(w) ==
    /\ At(w, "clean")
    /\ Goto(w, "del")
    /\ UNCHANGED <<kernel, net, tables, mainVars, tasks, task, req, ssl, history, crashed>>

(* The cleanup of the task, under the respective mutex where the source    *)
(* takes one; its two exception handlers run the same steps.               *)
CleanSsl(w) ==
    /\ At(w, "clean")
    /\ ssl_map' = [ssl_map EXCEPT ![task[w].fd] = None]
    /\ Goto(w, "del")
    /\ UNCHANGED <<kernel, net, client_map_port, working_fds, hs, mainVars, tasks, task,
                   req, ssl, history, crashed>>

(* Mutant: the close after EPOLL_CTL_DEL is missing.                       *)
UnwatchNoClose(w) ==
    /\ At(w, "del")
    /\ watched' = watched \ {task[w].fd}
    /\ Goto(w, "unmap")
    /\ UNCHANGED <<fdTab, net, tables, mainVars, tasks, task, req, ssl, history, crashed>>

Unwatch(w) ==
    /\ At(w, "del")
    /\ watched' = watched \ {task[w].fd}
    /\ Goto(w, "close")
    /\ UNCHANGED <<fdTab, net, tables, mainVars, tasks, task, req, ssl, history, crashed>>

(* close: it frees the number, and takes it out of the interest list if it *)
(* is there.                                                               *)
CloseFd(w) ==
    /\ At(w, "close")
    /\ LET n == task[w].fd
           c == fdTab[n]
       IN  /\ fdTab' = [fdTab EXCEPT ![n] = None]
           /\ watched' = watched \ {n}
           /\ phase' = IF c = None THEN phase ELSE [phase EXCEPT ![c] = "closed"]
    /\ Goto(w, "unmap")
    /\ UNCHANGED <<inbox, sent, peerFin, tables, mainVars, tasks, task, req, ssl, history,
                   crashed>>

UnmapClient(w) ==
    /\ At(w, "unmap")
    /\ client_map_port' = [client_map_port EXCEPT ![task[w].fd] = None]
    /\ Goto(w, "unmark")
    /\ UNCHANGED <<kernel, net, working_fds, ssl_map, hs, mainVars, tasks, task, req, ssl,
                   history, crashed>>

(* Mutant: the task ends without taking its mark back.                     *)
UnmarkClientMissing(w) ==
    /\ At(w, "unmark")
    /\ Goto(w, "idle")
    /\ UNCHANGED <<kernel, net, tables, mainVars, tasks, task, req, ssl, history, crashed>>

UnmarkClient(w) ==
    /\ At(w, "unmark")
    /\ working_fds' = working_fds \ {task[w].fd}
    /\ Goto(w, "idle")
    /\ UNCHANGED <<kernel, net, client_map_port, ssl_map, hs, mainVars, tasks, task, req,
                   ssl, history, crashed>>

Worker(w) ==
    \/ TakeTask(w)
    \/ Peek(w)
    \/ Recv(w)
    \/ Reply(w)
    \/ Throw(w)
    \/ TlsGet(w)
    \/ TlsAccept(w)
    \/ TlsRead(w)
    \/ TlsReply(w)
    \/ TlsFree(w)
    \/ TlsCrash(w)
    \/ CleanSsl(w)
    \/ Unwatch(w)
    \/ CloseFd(w)
    \/ UnmapClient(w)
    \/ UnmarkClient(w)

-----------------------------------------------------------------------------
Client(c) == Connect(c) \/ Send(c) \/ ClientClose(c)

Next ==
    \/ Main
    \/ \E w \in Workers : Worker(w) \/ SpinEnds(w)
    \/ \E c \in Conns : Client(c)

Spec == Init /\ [][Next]_vars

(* The threads of the process are scheduled: none that can take a step is  *)
(* left waiting for ever.  Nothing is assumed of the clients, nor that a   *)
(* shortened file grows again.                                             *)
Fairness == WF_vars(Main) /\ \A w \in Workers : WF_vars(Worker(w))

FairSpec == Spec /\ Fairness

-----------------------------------------------------------------------------
(* Properties.                                                             *)

(* A descriptor stays marked in working_fds only while the main thread,     *)
(* which marked it, is deciding about it, or a task for it is queued or     *)
(* running: a mark without an owner would make the main thread skip the     *)
(* connection for ever.                                                     *)
MarkHasOwner ==
    \A n \in working_fds :
        \/ mpc \in {"check", "lookup", "enqueue"} /\ cur = n /\ ~skip
        \/ Outstanding(n)

(* No descriptor leaks but by a refused EPOLL_CTL_ADD, which nobody notices *)
(* (that leak is real, and of exactly the refused connections): any other   *)
(* open one is in the interest list, or on its way into it, or a task is    *)
(* about to close it.                                                       *)
WatchedOrInTransit ==
    \A n \in Fds :
        fdTab[n] # None =>
            \/ n \in watched
            \/ fdTab[n] \in refused
            \/ mpc \in {"map", "add"} /\ cur = n
            \/ \E w \in Workers : wpc[w] = "close" /\ task[w].fd = n

(* Unless accept reissues a number during the cleanup of its previous       *)
(* connection, no two tasks share a descriptor (what working_fds is for).   *)
OneTaskPerFd ==
    /\ \A i, j \in DOMAIN tasks : tasks[i].fd = tasks[j].fd => i = j
    /\ \A i \in DOMAIN tasks, w \in Workers : wpc[w] # "idle" => task[w].fd # tasks[i].fd
    /\ \A v, w \in Workers :
          wpc[v] # "idle" /\ wpc[w] # "idle" /\ task[v].fd = task[w].fd => v = w
Exclusive == ~recycled => OneTaskPerFd

(* A response comes from the site of the port the client connected to.     *)
OwnSite == \A c \in Conns : \A i \in DOMAIN replies[c] : replies[c][i].site = PortOf[c]

(* The same, as long as no number is reissued during a cleanup.            *)
OwnSiteUnlessRecycled == ~recycled => OwnSite

(* An SSL* in use is the one ssl_map holds (it has not been freed) and was  *)
(* made for the connection that is open under the number: nobody talks to   *)
(* a client with the session of another, or through freed memory.           *)
SessionOfConn ==
    /\ \A n \in Fds : ssl_map[n] # None => ssl_map[n] = fdTab[n]
    /\ \A w \in Workers : wpc[w] \in TlsLocs => ssl_map[task[w].fd] = ssl[w]
SessionUnlessRecycled == ~recycled => SessionOfConn

(* A client that was promised keep-alive and has not hung up keeps its      *)
(* connection, unless what it sent next is no request.                      *)
KeepAliveHonoured ==
    \A w \in Workers :
        LET c == ConnOf(w) IN
        wpc[w] = "close" /\ c # None =>
            \/ peerFin[c]
            \/ replies[c] = <<>>
            \/ ~replies[c][Len(replies[c])].keep
            \/ inbox[c] # <<>> /\ Head(inbox[c]) = "rest"

(* A client of which a whole request has arrived, in however many segments, *)
(* and that has not hung up, is answered before the dispatcher gives it up. *)
RequestAnswered ==
    [][\A w \in Workers :
          LET c == ConnOf(w) IN
          Peek(w) /\ wpc'[w] = "clean" /\ c # None =>
              \/ peerFin[c]
              \/ ~Complete(SubSeq(Script[c], 1, sent[c]))
              \/ replies[c] # <<>>]_vars

(* Nobody is left to work on descriptor n: its task, or every thread of the *)
(* pool, is in the sendfile loop that a shortened file keeps turning.       *)
Stuck(n) ==
    \/ \E w \in Workers : wpc[w] = "spin" /\ task[w].fd = n
    \/ \A w \in Workers : wpc[w] = "spin"

(* What an open connection that epoll watches has sent is eventually read,  *)
(* or the connection is closed, or the pool is stuck with it, in a process  *)
(* that neither crashes nor reissues a number during a cleanup.             *)
InputConsumed ==
    \A c \in Conns :
        (phase[c] = "open" /\ inbox[c] # <<>>) ~>
            \/ phase[c] = "closed" \/ inbox[c] = <<>>
            \/ c \in refused
            \/ \E n \in Fds : fdTab[n] = c /\ Stuck(n)
InputConsumedUnlessRecycled == [](~recycled /\ ~crashed) => InputConsumed

(* Every mark is eventually taken back, unless the threads of the pool that *)
(* could do it turn in the sendfile loop.                                   *)
MarksClear ==
    []~crashed => \A n \in Fds : n \in working_fds ~> (n \notin working_fds \/ Stuck(n))
=============================================================================
