------------------------- MODULE EpollWorkerProofs -------------------------
(***************************************************************************)
(* Proofs about EpollWorker, for any set of connections, ports,            *)
(* descriptors and pool threads.                                           *)
(***************************************************************************)
EXTENDS EpollWorker, TLAPS

-----------------------------------------------------------------------------
(* Types.                                                                  *)

(* The initial state is well typed.                                        *)
LEMMA InitType == Init => TypeOK
<1> SUFFICES ASSUME Init
             PROVE  TypeOK
    OBVIOUS
<1> USE ConstAssumption DEF Init
<1>1. KernelOK /\ TablesOK
    BY DEF KernelOK, TablesOK
<1>2. NetOK
    BY DEF NetOK
<1>3. MainOK
    <2>1. skip \in BOOLEAN
        OBVIOUS
    <2> QED
        BY <2>1 DEF MainOK, MainLocs
<1>4. PoolOK
    BY DEF PoolOK, Task, TlsLocs
<1>5. HistoryOK
    <2>1. recycled \in BOOLEAN /\ crashed \in BOOLEAN
        OBVIOUS
    <2> QED
        BY <2>1 DEF HistoryOK
<1> QED
    BY <1>1, <1>2, <1>3, <1>4, <1>5 DEF TypeOK

(* A part of the state that a step leaves alone keeps its types.           *)
LEMMA FrameType ==
    ASSUME TypeOK
    PROVE  /\ UNCHANGED kernel => KernelOK'
           /\ UNCHANGED net => NetOK'
           /\ UNCHANGED tables => TablesOK'
           /\ UNCHANGED mainVars => MainOK'
           /\ UNCHANGED <<tasks, poolVars>> => PoolOK'
           /\ UNCHANGED <<history, crashed>> => HistoryOK'
<1> USE DEF TypeOK, kernel, net, tables, mainVars, poolVars, history
<1>1. UNCHANGED kernel => KernelOK'
    BY DEF KernelOK
<1>2. UNCHANGED net => NetOK'
    BY DEF NetOK
<1>3. UNCHANGED tables => TablesOK'
    BY DEF TablesOK
<1>4. UNCHANGED mainVars => MainOK'
    BY DEF MainOK
<1>5. UNCHANGED <<tasks, poolVars>> => PoolOK'
    BY DEF PoolOK
<1>6. UNCHANGED <<history, crashed>> => HistoryOK'
    BY DEF HistoryOK
<1> QED
    BY <1>1, <1>2, <1>3, <1>4, <1>5, <1>6

(* What is known of a busy thread's task.                                  *)
LEMMA TaskFacts ==
    ASSUME TypeOK, NEW w \in Workers, wpc[w] # "idle"
    PROVE  /\ task[w] \in Task /\ task[w].fd \in Fds /\ task[w].port \in Ports
           /\ ConnOf(w) \in Conns \cup {None}
BY DEF TypeOK, PoolOK, KernelOK, Task, ConnOf

(* A busy thread that moves on keeps the types of the pool's state.        *)
LEMMA MoveType ==
    ASSUME TypeOK, NEW w \in Workers, wpc[w] # "idle",
           NEW l \in {"idle"} \cup WorkLocs, Goto(w, l),
           l \in TlsLocs => ssl'[w] \in Conns,
           UNCHANGED <<tasks, task>>,
           req' \in [Workers -> Seq(Segments)],
           ssl' \in [Workers -> Conns \cup {None}],
           \A v \in Workers \ {w} : ssl'[v] = ssl[v]
    PROVE  PoolOK'
BY DEF TypeOK, PoolOK, Goto

(* The same of one turn of a receive loop, which also changes an inbox.    *)
LEMMA ReadType ==
    ASSUME TypeOK, NEW w \in Workers, wpc[w] # "idle", ConnOf(w) \in Conns,
           NEW got \in Seq(Segments), NEW left \in Seq(Segments),
           NEW done \in WorkLocs, NEW more \in WorkLocs,
           done \in TlsLocs \/ more \in TlsLocs => ssl[w] \in Conns,
           ReadSome(w, got, left, done, more), UNCHANGED <<tasks, task, ssl>>
    PROVE  NetOK' /\ PoolOK'
<1>1. NetOK'
    BY DEF TypeOK, NetOK, ReadSome
<1>2. req' \in [Workers -> Seq(Segments)]
    <2>1. req[w] \o got \in Seq(Segments)
        BY DEF TypeOK, PoolOK
    <2> QED
        BY <2>1 DEF TypeOK, PoolOK, ReadSome
<1>3. PICK l \in {done, more} : Goto(w, l)
    BY DEF ReadSome
<1>4. ssl' \in [Workers -> Conns \cup {None}] /\ ssl' = ssl
    BY DEF TypeOK, PoolOK
<1> QED
    BY <1>1, <1>2, <1>3, <1>4, MoveType

(* A response is well formed.                                              *)
LEMMA AnswerType ==
    ASSUME TypeOK, NEW c \in Conns, NEW site \in Ports, NEW keep \in BOOLEAN,
           Answer(c, site, keep)
    PROVE  replies' \in [Conns -> Seq([site : Ports, keep : BOOLEAN])]
<1> DEFINE Responses == [site : Ports, keep : BOOLEAN]
           r == [site |-> site, keep |-> keep]
<1>1. r \in Responses
    OBVIOUS
<1>2. replies \in [Conns -> Seq(Responses)]
    BY DEF TypeOK, HistoryOK
<1>3. replies' = [replies EXCEPT ![c] = Append(@, r)]
    BY DEF Answer
<1> HIDE DEF Responses, r
<1>4. replies' \in [Conns -> Seq(Responses)]
    BY <1>1, <1>2, <1>3
<1> QED
    BY <1>4 DEF Responses

(* Sending a response keeps the types of the pool and the history.         *)
LEMMA RespondType ==
    ASSUME TypeOK, NEW w \in Workers, wpc[w] # "idle",
           NEW kept \in WorkLocs \ TlsLocs, NEW dropped \in WorkLocs,
           dropped \in TlsLocs => ssl[w] \in Conns,
           Respond(w, kept, dropped),
           UNCHANGED <<tasks, task, req, ssl, recycled, refused, crashed>>
    PROVE  PoolOK' /\ HistoryOK'
<1>1. PICK l \in {kept, dropped} : Goto(w, l)
    BY DEF Respond
<1>2. /\ ssl' \in [Workers -> Conns \cup {None}] /\ ssl' = ssl
      /\ req' \in [Workers -> Seq(Segments)]
    BY DEF TypeOK, PoolOK
<1>3. PoolOK'
    BY <1>1, <1>2, MoveType
<1>4. KeepAlive(req[w]) \in BOOLEAN
    BY DEF KeepAlive
<1>5. replies' \in [Conns -> Seq([site : Ports, keep : BOOLEAN])]
    <2>1. CASE ConnOf(w) = None
        BY <2>1 DEF Respond, TypeOK, HistoryOK
    <2>2. CASE ConnOf(w) # None
        BY <2>2, <1>4, TaskFacts, AnswerType DEF Respond
    <2> QED
        BY <2>1, <2>2
<1> QED
    BY <1>3, <1>5 DEF TypeOK, HistoryOK

(* So does the header of a response whose file has become too short.       *)
LEMMA SpinsType ==
    ASSUME TypeOK, NEW w \in Workers, wpc[w] # "idle", Spins(w),
           UNCHANGED <<tasks, task, req, ssl, recycled, refused, crashed>>
    PROVE  PoolOK' /\ HistoryOK'
<1>1. "spin" \in WorkLocs \ TlsLocs
    BY DEF WorkLocs, TlsLocs
<1>2. /\ ssl' \in [Workers -> Conns \cup {None}] /\ ssl' = ssl
      /\ req' \in [Workers -> Seq(Segments)]
    BY DEF TypeOK, PoolOK
<1>3. PoolOK'
    BY <1>1, <1>2, MoveType DEF Spins
<1>4. KeepAlive(req[w]) \in BOOLEAN
    BY DEF KeepAlive
<1>5. replies' \in [Conns -> Seq([site : Ports, keep : BOOLEAN])]
    BY <1>4, TaskFacts, AnswerType DEF Spins
<1> QED
    BY <1>3, <1>5 DEF TypeOK, HistoryOK

(* Taking a task from the queue keeps the types.                           *)
LEMMA TakeTaskType == ASSUME TypeOK, NEW w \in Workers, TakeTask(w)  PROVE TypeOK'
<1>1. Head(tasks) \in Task /\ Tail(tasks) \in Seq(Task)
    BY DEF TypeOK, PoolOK, TakeTask
<1>2. PoolOK'
    BY <1>1 DEF TypeOK, PoolOK, TakeTask, Goto, WorkLocs, TlsLocs, DropLocs, DoneLocs
<1> QED
    BY <1>2, FrameType DEF TypeOK, TakeTask

(* handle_http's receive loop keeps the types.                             *)
LEMMA RecvType == ASSUME TypeOK, NEW w \in Workers, Recv(w)  PROVE TypeOK'
<1>0. wpc[w] # "idle" /\ {"recv", "reply", "unmark"} \subseteq WorkLocs \ TlsLocs
    BY DEF Recv, At, WorkLocs, TlsLocs, DoneLocs
<1>1. UNCHANGED <<kernel, tables, mainVars, tasks, task, ssl, history, crashed>>
    BY DEF Recv
<1>2. NetOK' /\ PoolOK'
    <2>1. CASE HasData(ConnOf(w)) /\ ReadSome(w, inbox[ConnOf(w)], <<>>, "reply", "recv")
        <3>1. ConnOf(w) \in Conns /\ inbox[ConnOf(w)] \in Seq(Segments)
            BY <1>0, <2>1, TaskFacts DEF HasData, TypeOK, NetOK
        <3>2. <<>> \in Seq(Segments)
            OBVIOUS
        <3> QED
            BY <1>0, <1>1, <2>1, <3>1, <3>2, ReadType
    <2>2. ASSUME NEW l \in {"unmark", "reply"}, Goto(w, l), UNCHANGED <<net, req>>
          PROVE  NetOK' /\ PoolOK'
        <3>1. /\ ssl' \in [Workers -> Conns \cup {None}] /\ ssl' = ssl
              /\ req' \in [Workers -> Seq(Segments)]
            BY <1>1, <2>2 DEF TypeOK, PoolOK
        <3> QED
            BY <1>0, <1>1, <2>2, <3>1, MoveType, FrameType
    <2> QED
        BY <2>1, <2>2 DEF Recv
<1> QED
    BY <1>1, <1>2, FrameType DEF TypeOK

(* So does sending a response of either protocol,                          *)
LEMMA ReplyType ==
    ASSUME TypeOK, NEW w \in Workers, Reply(w) \/ TlsReply(w)  PROVE TypeOK'
<1>1. /\ wpc[w] # "idle"
      /\ wpc[w] = "tls_reply" => ssl[w] \in Conns
      /\ "unmark" \in WorkLocs \ TlsLocs
      /\ {"clean", "tls_free"} \subseteq WorkLocs /\ "clean" \notin TlsLocs
    BY DEF Reply, TlsReply, At, TypeOK, PoolOK, WorkLocs, TlsLocs, DropLocs, DoneLocs
<1>2. UNCHANGED <<kernel, net, tables, mainVars, tasks, task, req, ssl, recycled, refused,
                  crashed>>
    BY DEF Reply, TlsReply
<1>3. PoolOK' /\ HistoryOK'
    <2>1. CASE Respond(w, "unmark", "clean")
        BY <2>1, <1>1, <1>2, RespondType
    <2>1a. CASE Spins(w)
        BY <2>1a, <1>1, <1>2, SpinsType
    <2>2. CASE TlsReply(w)
        BY <2>2, <1>1, <1>2, RespondType DEF TlsReply, At
    <2> QED
        BY <2>1, <2>1a, <2>2 DEF Reply
<1> QED
    BY <1>2, <1>3, FrameType DEF TypeOK

(* the end of a sendfile loop that could not go on,                        *)
LEMMA SpinEndsType == ASSUME TypeOK, NEW w \in Workers, SpinEnds(w)  PROVE TypeOK'
<1>1. wpc[w] # "idle" /\ {"unmark", "clean"} \subseteq WorkLocs \ TlsLocs
    BY DEF SpinEnds, At, WorkLocs, TlsLocs, DropLocs, DoneLocs
<1>2. PICK l \in {"unmark", "clean"} : Goto(w, l)
    BY DEF SpinEnds
<1>3. UNCHANGED <<kernel, net, tables, mainVars, tasks, task, req, ssl, history, crashed>>
    BY DEF SpinEnds
<1>4. /\ ssl' \in [Workers -> Conns \cup {None}] /\ ssl' = ssl
      /\ req' \in [Workers -> Seq(Segments)]
    BY <1>3 DEF TypeOK, PoolOK
<1>5. PoolOK'
    BY <1>1, <1>2, <1>3, <1>4, MoveType
<1> QED
    BY <1>3, <1>5, FrameType DEF TypeOK

(* an exception on the way,                                                *)
LEMMA ThrowType == ASSUME TypeOK, NEW w \in Workers, Throw(w)  PROVE TypeOK'
<1>1. wpc[w] # "idle" /\ "clean" \in WorkLocs \ TlsLocs
    BY DEF Throw, At, WorkLocs, TlsLocs, DropLocs
<1>2. UNCHANGED <<kernel, net, tables, mainVars, tasks, task, req, ssl, recycled, refused,
                  crashed>>
    BY DEF Throw
<1>3. PoolOK'
    <2>1. /\ ssl' \in [Workers -> Conns \cup {None}] /\ ssl' = ssl
          /\ req' \in [Workers -> Seq(Segments)]
        BY <1>2 DEF TypeOK, PoolOK
    <2> QED
        BY <1>1, <1>2, <2>1, MoveType DEF Throw
<1>4. replies' \in [Conns -> Seq([site : Ports, keep : BOOLEAN])]
    <2>1. CASE UNCHANGED replies
        BY <2>1 DEF TypeOK, HistoryOK
    <2>2. CASE ConnOf(w) # None /\ Answer(ConnOf(w), task[w].port, FALSE)
        <3>1. FALSE \in BOOLEAN
            OBVIOUS
        <3> QED
            BY <2>2, <1>1, <3>1, TaskFacts, AnswerType
    <2> QED
        BY <2>1, <2>2 DEF Throw
<1> QED
    BY <1>2, <1>3, <1>4, FrameType DEF TypeOK, HistoryOK

(* looking up or making an SSL*,                                           *)
LEMMA TlsGetType == ASSUME TypeOK, NEW w \in Workers, TlsGet(w)  PROVE TypeOK'
<1>1. wpc[w] # "idle" /\ {"tls_accept", "clean"} \subseteq WorkLocs /\ "clean" \notin TlsLocs
    BY DEF TlsGet, At, WorkLocs, TlsLocs, DropLocs
<1>2. UNCHANGED <<kernel, net, client_map_port, working_fds, mainVars, tasks, task, req,
                  history, crashed>>
    BY DEF TlsGet
<1>3. task[w].fd \in Fds /\ ConnOf(w) \in Conns \cup {None}
    BY <1>1, TaskFacts
<1>4. TablesOK'
    BY <1>2, <1>3 DEF TlsGet, HasData, TypeOK, TablesOK
<1>5. PoolOK'
    <2>1. req' \in [Workers -> Seq(Segments)]
        BY <1>2 DEF TypeOK, PoolOK
    <2>2. CASE Goto(w, "clean") /\ UNCHANGED ssl
        BY <2>1, <2>2, <1>1, <1>2, MoveType DEF TypeOK, PoolOK
    <2>3. ASSUME NEW c \in Conns, Goto(w, "tls_accept"), ssl' = [ssl EXCEPT ![w] = c]
          PROVE  PoolOK'
        <3>1. /\ ssl' \in [Workers -> Conns \cup {None}] /\ ssl'[w] \in Conns
              /\ \A v \in Workers \ {w} : ssl'[v] = ssl[v]
            BY <2>3 DEF TypeOK, PoolOK
        <3> QED
            BY <2>1, <2>3, <3>1, <1>1, <1>2, MoveType
    <2>4. ssl_map[task[w].fd] \in Conns \cup {None}
        BY <1>3 DEF TypeOK, TablesOK
    <2> QED
        BY <2>2, <2>3, <2>4, <1>3 DEF TlsGet, HasData
<1> QED
    BY <1>2, <1>4, <1>5, FrameType DEF TypeOK

(* the handshake,                                                          *)
LEMMA TlsAcceptType == ASSUME TypeOK, NEW w \in Workers, TlsAccept(w)  PROVE TypeOK'
<1>1. /\ wpc[w] # "idle" /\ ssl[w] \in Conns
      /\ {"tls_accept", "tls_read", "unmark", "clean"} \subseteq WorkLocs
      /\ {"unmark", "clean"} \cap TlsLocs = {}
    BY DEF TlsAccept, At, TypeOK, PoolOK, WorkLocs, TlsLocs, DropLocs, DoneLocs
<1>2. UNCHANGED <<kernel, phase, sent, peerFin, client_map_port, working_fds, mainVars,
                  tasks, task, req, history, crashed>>
    BY DEF TlsAccept
<1>3. task[w].fd \in Fds /\ ConnOf(w) \in Conns \cup {None}
    BY <1>1, TaskFacts
<1>4. req' \in [Workers -> Seq(Segments)]
    BY <1>2 DEF TypeOK, PoolOK
<1>5. CASE UNCHANGED <<inbox, hs, ssl, ssl_map>>
    <2>1. UNCHANGED net /\ UNCHANGED tables /\ ssl' \in [Workers -> Conns \cup {None}]
        BY <1>2, <1>5 DEF net, tables, TypeOK, PoolOK
    <2>2. wpc' = wpc \/ \E l \in {"tls_read", "unmark", "clean"} : Goto(w, l)
        BY DEF TlsAccept
    <2>3. PoolOK'
        <3>1. CASE wpc' = wpc
            BY <3>1, <1>2, <1>5 DEF TypeOK, PoolOK
        <3>2. CASE \E l \in {"tls_read", "unmark", "clean"} : Goto(w, l)
            BY <3>2, <2>1, <1>1, <1>2, <1>4, <1>5, MoveType
        <3> QED
            BY <2>2, <3>1, <3>2
    <2> QED
        BY <1>2, <2>1, <2>3, FrameType DEF TypeOK
<1>6. ASSUME NEW c \in Conns, c = ConnOf(w), hs[ssl[w]] < 2, inbox[c] # <<>>,
             inbox' = [inbox EXCEPT ![c] = Tail(@)],
             hs' = [hs EXCEPT ![c] = hs[ssl[w]] + 1],
             ssl' = [ssl EXCEPT ![w] = c],
             ssl_map' = [ssl_map EXCEPT ![task[w].fd] = IF @ = ssl[w] THEN c ELSE @],
             wpc' = wpc
      PROVE  TypeOK'
    <2>1. Tail(inbox[c]) \in Seq(Segments)
        BY <1>6 DEF TypeOK, NetOK
    <2>2. NetOK'
        BY <1>2, <1>6, <2>1 DEF TypeOK, NetOK
    <2>3. hs[ssl[w]] + 1 \in 0..2
        BY <1>1, <1>6 DEF TypeOK, TablesOK
    <2>4. TablesOK'
        BY <1>2, <1>3, <1>6, <2>3 DEF TypeOK, TablesOK
    <2>5. PoolOK'
        BY <1>2, <1>6 DEF TypeOK, PoolOK
    <2> QED
        BY <1>2, <2>2, <2>4, <2>5, FrameType DEF TypeOK
<1> QED
    BY <1>3, <1>5, <1>6 DEF TlsAccept, Continues, HasData

(* and the TLS receive loop.                                               *)
LEMMA TlsReadType == ASSUME TypeOK, NEW w \in Workers, TlsRead(w)  PROVE TypeOK'
<1>0. /\ wpc[w] # "idle" /\ ssl[w] \in Conns
      /\ {"tls_read", "tls_reply", "tls_free", "unmark"} \subseteq WorkLocs
    BY DEF TlsRead, At, TypeOK, PoolOK, WorkLocs, TlsLocs, DoneLocs
<1>1. UNCHANGED <<kernel, tables, mainVars, tasks, task, ssl, history, crashed>>
    BY DEF TlsRead
<1>2. NetOK' /\ PoolOK'
    <2>1. ASSUME NEW c \in Conns, c = ConnOf(w), inbox[c] # <<>>,
                 ReadSome(w, <<Head(inbox[c])>>, Tail(inbox[c]), "tls_reply", "tls_read")
          PROVE  NetOK' /\ PoolOK'
        <3>1. <<Head(inbox[c])>> \in Seq(Segments) /\ Tail(inbox[c]) \in Seq(Segments)
            BY <2>1 DEF TypeOK, NetOK
        <3> QED
            BY <1>0, <1>1, <2>1, <3>1, ReadType
    <2>2. ASSUME NEW l \in {"unmark", "tls_free", "tls_reply"}, Goto(w, l), UNCHANGED <<net, req>>
          PROVE  NetOK' /\ PoolOK'
        <3>1. /\ ssl' \in [Workers -> Conns \cup {None}] /\ ssl' = ssl
              /\ req' \in [Workers -> Seq(Segments)]
            BY <1>1, <2>2 DEF TypeOK, PoolOK
        <3> QED
            BY <1>0, <1>1, <2>2, <3>1, MoveType, FrameType
    <2>3. ConnOf(w) \in Conns \cup {None}
        BY <1>0, TaskFacts
    <2> QED
        BY <2>1, <2>2, <2>3 DEF TlsRead, HasData
<1> QED
    BY <1>1, <1>2, FrameType DEF TypeOK

(* Every step keeps the types.                                             *)
LEMMA StepType == TypeOK /\ [Next]_vars => TypeOK'
<1> SUFFICES ASSUME TypeOK, [Next]_vars
             PROVE  TypeOK'
    OBVIOUS
<1> USE ConstAssumption
        DEF TypeOK, kernel, net, tables, mainVars, poolVars, history, MainAt, MainGoto,
            At, Goto
<1>1. CASE EpollWait
    <2>1. KernelOK' /\ NetOK' /\ TablesOK' /\ PoolOK' /\ HistoryOK'
        BY <1>1, FrameType DEF EpollWait, Ready
    <2>2. MainOK'
        BY <1>1 DEF EpollWait, Ready, MainOK, MainLocs, KernelOK
    <2> QED
        BY <2>1, <2>2
<1>2. CASE MapClient
    <2>1. KernelOK' /\ NetOK' /\ PoolOK' /\ HistoryOK'
        BY <1>2, FrameType DEF MapClient
    <2>2. TablesOK'
        BY <1>2 DEF MapClient, TablesOK, MainOK, MainLocs
    <2>3. MainOK'
        BY <1>2 DEF MapClient, MainOK, MainLocs
    <2> QED
        BY <2>1, <2>2, <2>3
<1>3. CASE WatchClient
    <2>1. NetOK' /\ TablesOK' /\ PoolOK'
        BY <1>3, FrameType DEF WatchClient
    <2>2. cur \in Fds /\ fdTab[cur] \in Conns \cup {None}
        BY <1>3 DEF WatchClient, MainAt, KernelOK, MainOK, MainLocs
    <2>3. KernelOK'
        BY <1>3, <2>2 DEF WatchClient, KernelOK
    <2>4. MainOK'
        BY <1>3 DEF WatchClient, MainGoto, MainOK, MainLocs
    <2>5. HistoryOK'
        BY <1>3, <2>2 DEF WatchClient, HistoryOK
    <2> QED
        BY <2>1, <2>3, <2>4, <2>5
<1>4. CASE CheckClient
    <2>1. KernelOK' /\ NetOK' /\ PoolOK' /\ HistoryOK'
        BY <1>4, FrameType DEF CheckClient
    <2>2. TablesOK'
        BY <1>4 DEF CheckClient, TablesOK, MainOK, MainLocs
    <2>3. MainOK'
        BY <1>4 DEF CheckClient, MainOK, MainLocs
    <2> QED
        BY <2>1, <2>2, <2>3
<1>5. CASE LookupPort
    <2>1. KernelOK' /\ NetOK' /\ PoolOK' /\ HistoryOK'
        BY <1>5, FrameType DEF LookupPort
    <2>2. TablesOK'
        BY <1>5 DEF LookupPort, TablesOK, MainOK, MainLocs
    <2>3. MainOK'
        BY <1>5 DEF LookupPort, MainOK, MainLocs, TablesOK
    <2> QED
        BY <2>1, <2>2, <2>3
<1>6. CASE EnqueueTask
    <2>1. KernelOK' /\ NetOK' /\ TablesOK' /\ HistoryOK'
        BY <1>6, FrameType DEF EnqueueTask
    <2>2. MainOK'
        BY <1>6 DEF EnqueueTask, MainOK, MainLocs
    <2>3. PoolOK'
        BY <1>6 DEF EnqueueTask, PoolOK, Task, WorkLocs, TlsLocs, DropLocs, DoneLocs, MainOK, MainLocs
    <2> QED
        BY <2>1, <2>2, <2>3
<1>7. ASSUME NEW p \in Ports, Accept(p)  PROVE TypeOK'
    <2>1. TablesOK' /\ PoolOK'
        BY <1>7, FrameType DEF Accept, Waiting, FreeFds
    <2>2. KernelOK'
        BY <1>7 DEF Accept, Waiting, FreeFds, KernelOK
    <2>3. NetOK'
        BY <1>7 DEF Accept, Waiting, FreeFds, NetOK
    <2>4. MainOK'
        BY <1>7 DEF Accept, Waiting, FreeFds, MainOK, MainLocs
    <2>5. HistoryOK'
        BY <1>7 DEF Accept, Waiting, FreeFds, HistoryOK
    <2> QED
        BY <2>1, <2>2, <2>3, <2>4, <2>5
<1>8. ASSUME NEW p \in Ports, AcceptFails(p)  PROVE TypeOK'
    <2>1. KernelOK' /\ NetOK' /\ TablesOK' /\ PoolOK' /\ HistoryOK'
        BY <1>8, FrameType DEF AcceptFails
    <2>2. MainOK'
        BY <1>8 DEF AcceptFails, MainOK, MainLocs
    <2> QED
        BY <2>1, <2>2
<1>9. ASSUME NEW n \in Fds, MarkClient(n)  PROVE TypeOK'
    <2>1. KernelOK' /\ NetOK' /\ PoolOK' /\ HistoryOK'
        BY <1>9, FrameType DEF MarkClient
    <2>2. TablesOK'
        BY <1>9 DEF MarkClient, TablesOK
    <2>3. MainOK'
        BY <1>9 DEF MarkClient, MainOK, MainLocs
    <2> QED
        BY <2>1, <2>2, <2>3
<1>10. ASSUME NEW w \in Workers, TakeTask(w)  PROVE TypeOK'
    BY <1>10, TakeTaskType
<1>11. ASSUME NEW w \in Workers, Peek(w)  PROVE TypeOK'
    <2>1. KernelOK' /\ NetOK' /\ TablesOK' /\ MainOK' /\ HistoryOK'
        BY <1>11, FrameType DEF Peek, ConnOf, HasData
    <2>2. PoolOK'
        BY <1>11 DEF Peek, ConnOf, HasData, PoolOK, Task, WorkLocs, TlsLocs, DropLocs, DoneLocs
    <2> QED
        BY <2>1, <2>2
<1>12. ASSUME NEW w \in Workers, Recv(w)  PROVE TypeOK'
    BY <1>12, RecvType
<1>13. ASSUME NEW w \in Workers, Reply(w)  PROVE TypeOK'
    BY <1>13, ReplyType
<1>13a. ASSUME NEW w \in Workers, SpinEnds(w)  PROVE TypeOK'
    BY <1>13a, SpinEndsType
<1>14. ASSUME NEW w \in Workers, Throw(w)  PROVE TypeOK'
    BY <1>14, ThrowType
<1>15. ASSUME NEW w \in Workers, TlsGet(w)  PROVE TypeOK'
    BY <1>15, TlsGetType
<1>16. ASSUME NEW w \in Workers, TlsAccept(w)  PROVE TypeOK'
    BY <1>16, TlsAcceptType
<1>17. ASSUME NEW w \in Workers, TlsRead(w)  PROVE TypeOK'
    BY <1>17, TlsReadType
<1>18. ASSUME NEW w \in Workers, TlsReply(w)  PROVE TypeOK'
    BY <1>18, ReplyType
<1>19. ASSUME NEW w \in Workers, TlsFree(w)  PROVE TypeOK'
    <2>1. KernelOK' /\ NetOK' /\ MainOK' /\ HistoryOK'
        BY <1>19, FrameType DEF TlsFree
    <2>2. TablesOK'
        BY <1>19 DEF TlsFree, TablesOK
    <2>3. PoolOK'
        BY <1>19 DEF TlsFree, PoolOK, Task, WorkLocs, TlsLocs, DropLocs, DoneLocs
    <2> QED
        BY <2>1, <2>2, <2>3
<1>20. ASSUME NEW w \in Workers, TlsCrash(w)  PROVE TypeOK'
    <2>1. KernelOK' /\ NetOK' /\ TablesOK' /\ MainOK' /\ PoolOK'
        BY <1>20, FrameType DEF TlsCrash
    <2>2. HistoryOK'
        BY <1>20 DEF TlsCrash, HistoryOK
    <2> QED
        BY <2>1, <2>2
<1>21. ASSUME NEW w \in Workers, CleanSsl(w)  PROVE TypeOK'
    <2>1. KernelOK' /\ NetOK' /\ MainOK' /\ HistoryOK'
        BY <1>21, FrameType DEF CleanSsl
    <2>2. TablesOK'
        BY <1>21 DEF CleanSsl, TablesOK
    <2>3. PoolOK'
        BY <1>21 DEF CleanSsl, PoolOK, Task, WorkLocs, TlsLocs, DropLocs, DoneLocs
    <2> QED
        BY <2>1, <2>2, <2>3
<1>22. ASSUME NEW w \in Workers, Unwatch(w)  PROVE TypeOK'
    <2>1. NetOK' /\ TablesOK' /\ MainOK' /\ HistoryOK'
        BY <1>22, FrameType DEF Unwatch
    <2>2. KernelOK'
        BY <1>22 DEF Unwatch, KernelOK
    <2>3. PoolOK'
        BY <1>22 DEF Unwatch, PoolOK, Task, WorkLocs, TlsLocs, DropLocs, DoneLocs
    <2> QED
        BY <2>1, <2>2, <2>3
<1>23. ASSUME NEW w \in Workers, CloseFd(w)  PROVE TypeOK'
    <2>1. TablesOK' /\ MainOK' /\ HistoryOK'
        BY <1>23, FrameType DEF CloseFd
    <2>2. KernelOK'
        BY <1>23 DEF CloseFd, KernelOK, PoolOK, Task, WorkLocs, TlsLocs, DropLocs, DoneLocs
    <2>3. NetOK'
        BY <1>23 DEF CloseFd, NetOK, KernelOK, PoolOK, Task, WorkLocs, TlsLocs, DropLocs, DoneLocs
    <2>4. PoolOK'
        BY <1>23 DEF CloseFd, PoolOK, Task, WorkLocs, TlsLocs, DropLocs, DoneLocs
    <2> QED
        BY <2>1, <2>2, <2>3, <2>4
<1>24. ASSUME NEW w \in Workers, UnmapClient(w)  PROVE TypeOK'
    <2>1. KernelOK' /\ NetOK' /\ MainOK' /\ HistoryOK'
        BY <1>24, FrameType DEF UnmapClient
    <2>2. TablesOK'
        BY <1>24 DEF UnmapClient, TablesOK
    <2>3. PoolOK'
        BY <1>24 DEF UnmapClient, PoolOK, Task, WorkLocs, TlsLocs, DropLocs, DoneLocs
    <2> QED
        BY <2>1, <2>2, <2>3
<1>25. ASSUME NEW w \in Workers, UnmarkClient(w)  PROVE TypeOK'
    <2>1. KernelOK' /\ NetOK' /\ MainOK' /\ HistoryOK'
        BY <1>25, FrameType DEF UnmarkClient
    <2>2. TablesOK'
        BY <1>25 DEF UnmarkClient, TablesOK
    <2>3. PoolOK'
        BY <1>25 DEF UnmarkClient, PoolOK, Task, WorkLocs, TlsLocs, DropLocs, DoneLocs
    <2> QED
        BY <2>1, <2>2, <2>3
<1>26. ASSUME NEW c \in Conns, Connect(c)  PROVE TypeOK'
    <2>1. KernelOK' /\ TablesOK' /\ MainOK' /\ PoolOK' /\ HistoryOK'
        BY <1>26, FrameType DEF Connect
    <2>2. NetOK'
        BY <1>26 DEF Connect, NetOK
    <2> QED
        BY <2>1, <2>2
<1>27. ASSUME NEW c \in Conns, Send(c)  PROVE TypeOK'
    <2>1. KernelOK' /\ TablesOK' /\ MainOK' /\ PoolOK' /\ HistoryOK'
        BY <1>27, FrameType DEF Send
    <2>2. NetOK'
        BY <1>27 DEF Send, NetOK
    <2> QED
        BY <2>1, <2>2
<1>28. ASSUME NEW c \in Conns, ClientClose(c)  PROVE TypeOK'
    <2>1. KernelOK' /\ TablesOK' /\ MainOK' /\ PoolOK' /\ HistoryOK'
        BY <1>28, FrameType DEF ClientClose
    <2>2. NetOK'
        BY <1>28 DEF ClientClose, NetOK
    <2> QED
        BY <2>1, <2>2
<1>29. CASE UNCHANGED vars
    BY <1>29, FrameType DEF vars
<1> QED
    BY <1>1, <1>2, <1>3, <1>4, <1>5, <1>6, <1>7, <1>8, <1>9, <1>10, <1>11, <1>12, <1>13,
       <1>13a, <1>14, <1>15, <1>16, <1>17, <1>18, <1>19, <1>20, <1>21, <1>22, <1>23, <1>24, <1>25, <1>26,
       <1>27, <1>28, <1>29
       DEF Next, Main, Worker, Client

(* Every variable keeps its type: no event, however stale, makes the loop  *)
(* or a handler use a port, a descriptor or an SSL* that is not one.       *)
THEOREM TypeCorrect == Spec => []TypeOK
BY InitType, StepType, PTL DEF Spec

-----------------------------------------------------------------------------
(* The working marks, the descriptors, the tasks, the sites and the TLS    *)
(* sessions.  Marks and descriptors are inductive together with the types; *)
(* tasks, sites and sessions need a strengthening each.                    *)

(* The steps of a pool thread between taking a task and finishing it.      *)

InTask(w) == (Worker(w) \/ SpinEnds(w)) /\ ~TakeTask(w) /\ ~UnmarkClient(w)

(* Such a step keeps the thread busy with its task, and leaves the queue,  *)
(* the working marks and the main thread alone.                            *)
LEMMA InTaskKeeps ==
    ASSUME TypeOK, NEW w \in Workers, InTask(w)
    PROVE  /\ UNCHANGED <<tasks, task, working_fds, mainVars>>
           /\ \A v \in Workers : wpc[v] # "idle" => wpc'[v] # "idle"
           /\ \A v \in Workers \ {w} : wpc'[v] = wpc[v]
<1> USE DEF At, Goto, TypeOK, PoolOK
<1>1. CASE Peek(w) \/ Recv(w) \/ Reply(w) \/ SpinEnds(w) \/ Throw(w)
    BY <1>1 DEF Peek, Recv, ReadSome, Reply, Spins, SpinEnds, Respond, Throw, tables, mainVars
<1>2. CASE TlsGet(w) \/ TlsAccept(w) \/ TlsRead(w) \/ TlsReply(w)
    BY <1>2 DEF TlsGet, TlsAccept, TlsRead, ReadSome, TlsReply, Respond, tables, mainVars
<1>3. CASE TlsFree(w) \/ TlsCrash(w)
    BY <1>3 DEF TlsFree, TlsCrash, tables, mainVars, poolVars
<1>4. CASE CleanSsl(w) \/ Unwatch(w) \/ CloseFd(w) \/ UnmapClient(w)
    BY <1>4 DEF CleanSsl, Unwatch, CloseFd, UnmapClient, tables, mainVars
<1> QED
    BY <1>1, <1>2, <1>3, <1>4 DEF InTask, Worker

(* A task stays outstanding as long as its place in the queue or its       *)
(* thread does.                                                            *)
LEMMA OutstandingKept ==
    ASSUME NEW n \in Fds, Outstanding(n), UNCHANGED <<tasks, task>>,
           \A v \in Workers : wpc[v] # "idle" /\ task[v].fd = n => wpc'[v] # "idle"
    PROVE  Outstanding(n)'
BY DEF Outstanding

(* Taking a task moves it from the queue to a thread.                      *)
LEMMA OutstandingTaken ==
    ASSUME TypeOK, NEW w \in Workers, TakeTask(w), NEW n \in Fds, Outstanding(n)
    PROVE  Outstanding(n)'
<1>1. /\ tasks \in Seq(Task) /\ tasks # <<>> /\ wpc[w] = "idle"
      /\ tasks' = Tail(tasks) /\ task'[w] = tasks[1] /\ wpc'[w] = "peek"
      /\ \A v \in Workers \ {w} : task'[v] = task[v] /\ wpc'[v] = wpc[v]
    BY DEF TypeOK, PoolOK, TakeTask, At, Goto
<1>2. ASSUME NEW i \in DOMAIN tasks, tasks[i].fd = n  PROVE Outstanding(n)'
    <2>1. CASE i = 1
        BY <1>1, <1>2, <2>1 DEF Outstanding
    <2>2. CASE i # 1
        <3>1. i - 1 \in DOMAIN Tail(tasks) /\ Tail(tasks)[i - 1] = tasks[i]
            BY <1>1, <2>2
        <3> QED
            BY <1>1, <1>2, <3>1 DEF Outstanding
    <2> QED
        BY <2>1, <2>2
<1>3. ASSUME NEW v \in Workers, wpc[v] # "idle", task[v].fd = n  PROVE Outstanding(n)'
    BY <1>1, <1>3 DEF Outstanding
<1> QED
    BY <1>2, <1>3 DEF Outstanding

-----------------------------------------------------------------------------
(* Working marks.                                                          *)

(* Every step keeps an owner for every mark.                               *)
LEMMA StepMark == TypeOK /\ MarkHasOwner /\ [Next]_vars => MarkHasOwner'
<1> SUFFICES ASSUME TypeOK, MarkHasOwner, [Next]_vars
             PROVE  MarkHasOwner'
    OBVIOUS
<1> SUFFICES ASSUME NEW n \in working_fds'
             PROVE  (\/ mpc \in {"check", "lookup", "enqueue"} /\ cur = n /\ ~skip
                     \/ Outstanding(n))'
    BY DEF MarkHasOwner
<1>0. n \in Fds
    BY StepType DEF TypeOK, TablesOK
<1>1. ASSUME UNCHANGED <<tasks, poolVars>>, Outstanding(n)
      PROVE  Outstanding(n)'
    BY <1>0, <1>1, OutstandingKept DEF poolVars
<1>2. CASE EpollWait \/ (\E p \in Ports : AcceptFails(p))
    <2>1. UNCHANGED <<working_fds, mpc, cur, skip, tasks, poolVars>>
        BY <1>2 DEF EpollWait, AcceptFails, tables
    <2> QED
        BY <2>1, <1>1 DEF MarkHasOwner
<1>3. CASE (\E p \in Ports : Accept(p)) \/ MapClient \/ WatchClient
    <2>1. UNCHANGED <<working_fds, tasks, poolVars>> /\ mpc \in {"next", "map", "add"}
        BY <1>3 DEF Accept, MapClient, WatchClient, tables, MainAt
    <2> QED
        BY <2>1, <1>1 DEF MarkHasOwner
<1>4. CASE \E m \in Fds : MarkClient(m)
    <2>1. PICK m \in Fds : MarkClient(m)
        BY <1>4
    <2>2. /\ mpc = "next" /\ mpc' = "check" /\ cur' = m /\ skip' = (m \in working_fds)
          /\ working_fds' = working_fds \cup {m} /\ UNCHANGED <<tasks, poolVars>>
        BY <2>1 DEF MarkClient, MainAt, MainGoto
    <2> QED
        BY <2>2, <1>1 DEF MarkHasOwner
<1>5. CASE CheckClient \/ LookupPort
    <2>1. UNCHANGED <<cur, skip, tasks, poolVars>>
        BY <1>5 DEF CheckClient, LookupPort
    <2>2. \/ working_fds' = working_fds \ {cur}
          \/ /\ working_fds' = working_fds
             /\ mpc' \in {"lookup", "enqueue"} \/ skip
        BY <1>5 DEF CheckClient, LookupPort, MainGoto
    <2> QED
        BY <2>1, <2>2, <1>1 DEF MarkHasOwner
<1>6. CASE EnqueueTask
    <2>1. /\ tasks \in Seq(Task) /\ [fd |-> cur, port |-> mport] \in Task
          /\ tasks' = Append(tasks, [fd |-> cur, port |-> mport])
          /\ UNCHANGED <<working_fds, poolVars>>
        BY <1>6 DEF EnqueueTask, MainAt, TypeOK, MainOK, PoolOK, Task, tables
    <2>2. ASSUME Outstanding(n)  PROVE Outstanding(n)'
        BY <2>1, <2>2 DEF Outstanding, poolVars
    <2>3. ASSUME cur = n  PROVE Outstanding(n)'
        <3>1. Len(tasks) + 1 \in DOMAIN tasks' /\ tasks'[Len(tasks) + 1].fd = n
            BY <2>1, <2>3
        <3> QED
            BY <3>1 DEF Outstanding
    <2> QED
        BY <2>1, <2>2, <2>3 DEF MarkHasOwner
<1>7. CASE \E w \in Workers : TakeTask(w)
    <2>1. PICK w \in Workers : TakeTask(w)
        BY <1>7
    <2>2. UNCHANGED <<working_fds, mpc, cur, skip>>
        BY <2>1 DEF TakeTask, tables, mainVars
    <2> QED
        BY <2>1, <2>2, <1>0, OutstandingTaken DEF MarkHasOwner
<1>8. CASE \E w \in Workers : InTask(w)
    <2>1. PICK w \in Workers : InTask(w)
        BY <1>8
    <2>2. UNCHANGED <<working_fds, mpc, cur, skip>>
        BY <2>1, InTaskKeeps DEF mainVars
    <2> QED
        BY <2>1, <2>2, <1>0, InTaskKeeps, OutstandingKept DEF MarkHasOwner
<1>9. CASE \E w \in Workers : UnmarkClient(w)
    <2>1. PICK w \in Workers : UnmarkClient(w)
        BY <1>9
    <2>2. /\ UNCHANGED <<mpc, cur, skip, tasks, task>>
          /\ working_fds' = working_fds \ {task[w].fd} /\ n # task[w].fd
          /\ \A v \in Workers \ {w} : wpc'[v] = wpc[v]
        BY <2>1 DEF UnmarkClient, mainVars, Goto, TypeOK, PoolOK
    <2> QED
        BY <2>2, <1>0, OutstandingKept DEF MarkHasOwner
<1>10. CASE (\E c \in Conns : Client(c)) \/ UNCHANGED vars
    <2>1. UNCHANGED <<working_fds, mpc, cur, skip, tasks, poolVars>>
        BY <1>10 DEF Client, Connect, Send, ClientClose, vars, tables, mainVars
    <2> QED
        BY <2>1, <1>1 DEF MarkHasOwner
<1> QED
    BY <1>2, <1>3, <1>4, <1>5, <1>6, <1>7, <1>8, <1>9, <1>10 DEF Next, Main, Worker, InTask

(* The main thread never skips a descriptor on account of a mark that      *)
(* nobody will take back.                                                  *)
THEOREM MarksOwned == Spec => []MarkHasOwner
<1>1. Init => MarkHasOwner
    BY DEF Init, MarkHasOwner
<1> QED
    BY <1>1, StepMark, TypeCorrect, PTL DEF Spec

-----------------------------------------------------------------------------
(* Descriptors.                                                            *)

(* Between taking a task and closing its descriptor a pool thread opens,   *)
(* watches and unwatches nothing.                                          *)
LEMMA KernelKept ==
    ASSUME TypeOK, NEW w \in Workers, InTask(w), ~Unwatch(w), ~CloseFd(w)
    PROVE  UNCHANGED kernel /\ wpc[w] # "close"
BY DEF InTask, Worker, Peek, Recv, Reply, SpinEnds, Throw, TlsGet, TlsAccept, TlsRead, TlsReply,
       TlsFree, TlsCrash, CleanSsl, UnmapClient, At, TlsLocs

(* No task asks epoll to watch anything.                                   *)
LEMMA InTaskRefused ==
    ASSUME NEW w \in Workers, InTask(w)
    PROVE  UNCHANGED refused
BY DEF InTask, Worker, Peek, Recv, Reply, SpinEnds, Throw, TlsGet, TlsAccept, TlsRead, TlsReply,
       TlsFree, TlsCrash, CleanSsl, Unwatch, CloseFd, UnmapClient, history

(* Every step keeps the open descriptors watched or in transit.            *)
LEMMA StepWatched == TypeOK /\ WatchedOrInTransit /\ [Next]_vars => WatchedOrInTransit'
<1> SUFFICES ASSUME TypeOK, WatchedOrInTransit, [Next]_vars,
                    NEW n \in Fds, fdTab'[n] # None
             PROVE  \/ n \in watched' \/ fdTab'[n] \in refused'
                    \/ mpc' \in {"map", "add"} /\ cur' = n
                    \/ \E w \in Workers : wpc'[w] = "close" /\ task'[w].fd = n
    BY DEF WatchedOrInTransit
<1> DEFINE Held == \/ n \in watched \/ fdTab[n] \in refused
                   \/ \E w \in Workers : wpc[w] = "close" /\ task[w].fd = n
<1>0. fdTab[n] # None => Held \/ (mpc \in {"map", "add"} /\ cur = n)
    BY DEF WatchedOrInTransit
<1>1. ASSUME watched \subseteq watched', refused \subseteq refused', fdTab'[n] = fdTab[n],
             UNCHANGED <<wpc, task>>, Held
      PROVE  Held'
    BY <1>1
<1>2. CASE EpollWait \/ (\E p \in Ports : AcceptFails(p))
    <2>1. UNCHANGED <<kernel, mpc, cur, poolVars, refused>>
        BY <1>2 DEF EpollWait, AcceptFails, history
    <2> QED
        BY <2>1, <1>0, <1>1 DEF kernel, poolVars
<1>3. CASE \E p \in Ports : Accept(p)
    <2>1. /\ mpc = "next" /\ mpc' = "map" /\ UNCHANGED <<watched, poolVars, refused>>
          /\ fdTab'[n] = fdTab[n] \/ cur' = n
        BY <1>3 DEF Accept, MainAt, MainGoto, TypeOK, KernelOK
    <2> QED
        BY <2>1, <1>0, <1>1 DEF poolVars
<1>4. CASE MapClient
    <2>1. mpc' = "add" /\ UNCHANGED <<kernel, cur, poolVars, refused>>
        BY <1>4 DEF MapClient, MainGoto, history
    <2> QED
        BY <2>1, <1>0, <1>1 DEF kernel, poolVars
<1>5. CASE WatchClient
    <2>1. /\ UNCHANGED <<fdTab, poolVars>>
          /\ watched \subseteq watched' /\ refused \subseteq refused'
          /\ fdTab[cur] # None => cur \in watched' \/ fdTab[cur] \in refused'
        BY <1>5 DEF WatchClient
    <2> QED
        BY <2>1, <1>0, <1>1 DEF poolVars
<1>6. CASE (\E m \in Fds : MarkClient(m)) \/ CheckClient \/ LookupPort \/ EnqueueTask
    <2>1. mpc \notin {"map", "add"} /\ UNCHANGED <<kernel, poolVars, refused>>
        BY <1>6 DEF MarkClient, CheckClient, LookupPort, EnqueueTask, MainAt, history
    <2> QED
        BY <2>1, <1>0, <1>1 DEF kernel, poolVars
<1>7. CASE \E w \in Workers : TakeTask(w) \/ UnmarkClient(w)
    <2>1. PICK w \in Workers : TakeTask(w) \/ UnmarkClient(w)
        BY <1>7
    <2>2. /\ UNCHANGED <<kernel, mpc, cur, refused>> /\ wpc[w] # "close"
          /\ \A v \in Workers \ {w} : wpc'[v] = wpc[v] /\ task'[v] = task[v]
        BY <2>1 DEF TakeTask, UnmarkClient, At, Goto, mainVars, TypeOK, PoolOK, history
    <2> QED
        BY <2>2, <1>0 DEF kernel
<1>8. CASE \E w \in Workers : InTask(w)
    <2>1. PICK w \in Workers : InTask(w)
        BY <1>8
    <2>2. UNCHANGED <<mpc, cur, task, refused>>
        BY <2>1, InTaskKeeps, InTaskRefused DEF mainVars
    <2>3. \A v \in Workers \ {w} : wpc'[v] = wpc[v]
        BY <2>1, InTaskKeeps
    <2>4. CASE Unwatch(w)
        <3>1. /\ fdTab' = fdTab /\ watched' = watched \ {task[w].fd}
              /\ wpc[w] = "del" /\ wpc'[w] = "close"
            BY <2>4 DEF Unwatch, At, Goto, TypeOK, PoolOK
        <3> QED
            BY <3>1, <2>2, <2>3, <1>0
    <2>5. CASE CloseFd(w)
        <3>1. /\ n # task[w].fd /\ fdTab'[n] = fdTab[n]
              /\ watched' = watched \ {task[w].fd}
            BY <2>5 DEF CloseFd, TypeOK, KernelOK
        <3> QED
            BY <3>1, <2>2, <2>3, <1>0
    <2>6. CASE ~Unwatch(w) /\ ~CloseFd(w)
        BY <2>6, <2>1, <2>2, <2>3, <1>0, KernelKept DEF kernel
    <2> QED
        BY <2>4, <2>5, <2>6
<1>9. CASE (\E c \in Conns : Client(c)) \/ UNCHANGED vars
    <2>1. UNCHANGED <<kernel, mpc, cur, poolVars, refused>>
        BY <1>9 DEF Client, Connect, Send, ClientClose, vars, mainVars, history
    <2> QED
        BY <2>1, <1>0, <1>1 DEF kernel, poolVars
<1> QED
    BY <1>2, <1>3, <1>4, <1>5, <1>6, <1>7, <1>8, <1>9 DEF Next, Main, Worker, InTask

(* No descriptor leaks but those epoll refused to watch: whatever thread is *)
(* between whichever two calls, any other open one is watched, about to    *)
(* be, or about to be closed.                                              *)
THEOREM NoLeak == Spec => []WatchedOrInTransit
<1>1. Init => WatchedOrInTransit
    BY DEF Init, WatchedOrInTransit
<1> QED
    BY <1>1, StepWatched, TypeCorrect, PTL DEF Spec

-----------------------------------------------------------------------------
(* One task per descriptor.                                                *)

(* Why no second task is started, as long as no number is reissued during  *)
(* a cleanup.  A descriptor with a task is marked, or has lost its port.   *)
(* It has its port until its task is about to end.  The main thread holds  *)
(* no descriptor with a task where it could start another.                 *)
MarkedOrUnmapped ==
    \A n \in Fds : Outstanding(n) => n \in working_fds \/ client_map_port[n] = None

MappedTillUnmark ==
    /\ \A i \in DOMAIN tasks : client_map_port[tasks[i].fd] # None
    /\ \A w \in Workers :
          wpc[w] \notin {"idle", "unmark"} => client_map_port[task[w].fd] # None

MainHolds ==
    /\ mpc \in {"map", "add"} => ~Outstanding(cur)
    /\ mpc = "check" /\ ~skip =>
          client_map_port[cur] = None \/ (~Outstanding(cur) /\ cur \in working_fds)
    /\ mpc \in {"lookup", "enqueue"} => ~Outstanding(cur) /\ cur \in working_fds
    /\ mpc = "enqueue" => client_map_port[cur] # None

ExclInv ==
    ~recycled => OneTaskPerFd /\ MarkedOrUnmapped /\ MappedTillUnmark /\ MainHolds

(* What a step of a task can do to the marks and the ports: it may give up *)
(* its own descriptor's port, on the way to its end.                       *)
LEMMA InTaskPorts ==
    ASSUME TypeOK, NEW w \in Workers, InTask(w)
    PROVE  /\ wpc[w] \notin {"idle", "unmark"} /\ wpc'[w] # "idle"
           /\ UNCHANGED recycled
           /\ \/ UNCHANGED client_map_port
              \/ /\ client_map_port' = [client_map_port EXCEPT ![task[w].fd] = None]
                 /\ wpc'[w] = "unmark"
<1> USE DEF At, Goto, TypeOK, PoolOK
<1>1. CASE Peek(w) \/ Recv(w) \/ Reply(w) \/ SpinEnds(w) \/ Throw(w)
    BY <1>1 DEF Peek, Recv, ReadSome, Reply, Spins, SpinEnds, Respond, Throw, tables, history
<1>2. CASE TlsGet(w) \/ TlsAccept(w) \/ TlsRead(w) \/ TlsReply(w)
    BY <1>2 DEF TlsGet, TlsAccept, TlsRead, ReadSome, TlsReply, Respond, tables, history
<1>3. CASE TlsFree(w) \/ TlsCrash(w)
    BY <1>3 DEF TlsFree, TlsCrash, TlsLocs, tables, history, poolVars
<1>4. CASE CleanSsl(w) \/ Unwatch(w) \/ CloseFd(w) \/ UnmapClient(w)
    BY <1>4 DEF CleanSsl, Unwatch, CloseFd, UnmapClient, tables, history
<1> QED
    BY <1>1, <1>2, <1>3, <1>4 DEF InTask, Worker

(* The descriptor and port of a queued task.                               *)
LEMMA QueueFacts ==
    ASSUME TypeOK, NEW i \in DOMAIN tasks
    PROVE  tasks[i] \in Task /\ tasks[i].fd \in Fds
<1>1. tasks[i] \in Task
    BY DEF TypeOK, PoolOK
<1> QED
    BY <1>1 DEF Task

(* Which descriptors have a task, after a step that neither starts one nor *)
(* ends one.                                                               *)
LEMMA SameOutstanding ==
    ASSUME UNCHANGED <<tasks, task>>,
           \A v \in Workers : wpc'[v] = "idle" <=> wpc[v] = "idle"
    PROVE  /\ \A n : Outstanding(n)' <=> Outstanding(n)
           /\ OneTaskPerFd => OneTaskPerFd'
BY DEF Outstanding, OneTaskPerFd

(* The steps that touch neither tasks nor tables.                          *)
LEMMA ExclFrame ==
    ASSUME ExclInv, UNCHANGED <<tasks, task, wpc, working_fds, client_map_port, recycled>>,
           \/ UNCHANGED <<mpc, cur, skip>>
           \/ mpc' = "next"
           \/ mpc = "map" /\ mpc' = "add" /\ UNCHANGED cur
    PROVE  ExclInv'
<1>1. /\ \A n : Outstanding(n)' <=> Outstanding(n)
      /\ OneTaskPerFd => OneTaskPerFd'
    BY SameOutstanding
<1>2. SUFFICES ASSUME ~recycled, OneTaskPerFd, MarkedOrUnmapped, MappedTillUnmark, MainHolds
               PROVE  ExclInv'
    BY DEF ExclInv
<1>3. MarkedOrUnmapped' /\ MappedTillUnmark'
    BY <1>1, <1>2 DEF MarkedOrUnmapped, MappedTillUnmark
<1>4. MainHolds'
    BY <1>1, <1>2 DEF MainHolds
<1> QED
    BY <1>1, <1>2, <1>3, <1>4 DEF ExclInv

(* The main thread's steps.                                                *)
LEMMA MainExcl == TypeOK /\ ExclInv /\ Main => ExclInv'
<1> SUFFICES ASSUME TypeOK, ExclInv, Main, ~recycled'
             PROVE  (OneTaskPerFd /\ MarkedOrUnmapped /\ MappedTillUnmark /\ MainHolds)'
    BY DEF ExclInv
<1> USE DEF MainAt, MainGoto
<1>1. CASE EpollWait \/ (\E p \in Ports : AcceptFails(p)) \/ WatchClient
    <2>1. UNCHANGED <<tasks, task, wpc, working_fds, client_map_port, recycled>>
        BY <1>1 DEF EpollWait, AcceptFails, WatchClient, tables, poolVars, history
    <2>2. UNCHANGED <<mpc, cur, skip>> \/ mpc' = "next"
        BY <1>1 DEF EpollWait, AcceptFails, WatchClient
    <2> QED
        BY <2>1, <2>2, ExclFrame DEF ExclInv
<1>2. ~recycled
    BY DEF Main, EpollWait, Accept, AcceptFails, MapClient, WatchClient, MarkClient,
           CheckClient, LookupPort, EnqueueTask, history
<1>3. OneTaskPerFd /\ MarkedOrUnmapped /\ MappedTillUnmark /\ MainHolds
    BY <1>2 DEF ExclInv
<1>4. ASSUME UNCHANGED <<tasks, poolVars>>
      PROVE  OneTaskPerFd' /\ \A n : Outstanding(n)' <=> Outstanding(n)
    BY <1>3, <1>4, SameOutstanding DEF poolVars
<1>5. ASSUME NEW p \in Ports, Accept(p)
      PROVE  (OneTaskPerFd /\ MarkedOrUnmapped /\ MappedTillUnmark /\ MainHolds)'
    <2>1. /\ mpc' = "map" /\ ~Outstanding(cur')
          /\ UNCHANGED <<tasks, poolVars, working_fds, client_map_port>>
        BY <1>5 DEF Accept, tables
    <2> QED
        BY <2>1, <1>3, <1>4 DEF MarkedOrUnmapped, MappedTillUnmark, MainHolds, poolVars
<1>6. CASE MapClient
    <2>1. /\ mpc = "map" /\ mpc' = "add" /\ mport # None /\ cur \in Fds
          /\ client_map_port' = [client_map_port EXCEPT ![cur] = mport]
          /\ client_map_port \in [Fds -> Ports \cup {None}]
          /\ UNCHANGED <<tasks, poolVars, working_fds, cur>>
        BY <1>6, ConstAssumption DEF MapClient, TypeOK, MainOK, TablesOK
    <2>2. \A n \in Fds : n # cur => client_map_port'[n] = client_map_port[n]
        BY <2>1
    <2>3. client_map_port'[cur] # None
        BY <2>1
    <2>4. MarkedOrUnmapped'
        BY <2>1, <2>2, <1>3, <1>4 DEF MarkedOrUnmapped, MainHolds
    <2>5. MappedTillUnmark'
        <3>1. \A i \in DOMAIN tasks : tasks[i].fd \in Fds
            BY QueueFacts
        <3>2. \A w \in Workers : wpc[w] # "idle" => task[w].fd \in Fds
            BY TaskFacts
        <3> QED
            BY <2>1, <2>2, <2>3, <3>1, <3>2, <1>3 DEF MappedTillUnmark, poolVars
    <2>6. MainHolds'
        BY <2>1, <1>3, <1>4 DEF MainHolds
    <2> QED
        BY <2>1, <2>4, <2>5, <2>6, <1>4
<1>7. ASSUME NEW n \in Fds, MarkClient(n)
      PROVE  (OneTaskPerFd /\ MarkedOrUnmapped /\ MappedTillUnmark /\ MainHolds)'
    <2>1. /\ mpc' = "check" /\ cur' = n /\ skip' = (n \in working_fds)
          /\ working_fds' = working_fds \cup {n}
          /\ UNCHANGED <<tasks, poolVars, client_map_port>>
        BY <1>7 DEF MarkClient
    <2> QED
        BY <2>1, <1>3, <1>4 DEF MarkedOrUnmapped, MappedTillUnmark, MainHolds, poolVars
<1>8. CASE CheckClient
    <2>1. /\ mpc = "check" /\ UNCHANGED <<tasks, poolVars, client_map_port, cur, skip>>
          /\ IF client_map_port[cur] = None
             THEN working_fds' = working_fds \ {cur} /\ mpc' = "next"
             ELSE working_fds' = working_fds /\ mpc' = IF skip THEN "next" ELSE "lookup"
        BY <1>8 DEF CheckClient
    <2> QED
        BY <2>1, <1>3, <1>4 DEF MarkedOrUnmapped, MappedTillUnmark, MainHolds, poolVars
<1>9. CASE LookupPort
    <2>1. /\ mpc = "lookup" /\ UNCHANGED <<tasks, poolVars, client_map_port, cur>>
          /\ IF client_map_port[cur] = None
             THEN working_fds' = working_fds \ {cur} /\ mpc' = "next"
             ELSE working_fds' = working_fds /\ mpc' = "enqueue"
        BY <1>9 DEF LookupPort
    <2> QED
        BY <2>1, <1>3, <1>4 DEF MarkedOrUnmapped, MappedTillUnmark, MainHolds, poolVars
<1>10. CASE EnqueueTask
    <2> DEFINE e == [fd |-> cur, port |-> mport]
    <2>1. /\ mpc = "enqueue" /\ mpc' = "next"
          /\ tasks \in Seq(Task) /\ tasks' = Append(tasks, e) /\ e.fd = cur
          /\ UNCHANGED <<task, wpc, working_fds, client_map_port, cur>>
        BY <1>10 DEF EnqueueTask, TypeOK, PoolOK, tables, poolVars
    <2> HIDE DEF e
    <2>2. /\ \A i \in DOMAIN tasks' : \/ i \in DOMAIN tasks /\ tasks'[i] = tasks[i]
                                      \/ i = Len(tasks) + 1 /\ tasks'[i] = e
          /\ Len(tasks) + 1 \notin DOMAIN tasks
        BY <2>1
    <2>3. \A n : Outstanding(n)' => Outstanding(n) \/ n = cur
        BY <2>1, <2>2 DEF Outstanding
    <2>4. ~Outstanding(cur) /\ cur \in working_fds /\ client_map_port[cur] # None
        BY <2>1, <1>3 DEF MainHolds
    <2>5. /\ \A i \in DOMAIN tasks : tasks[i].fd # cur
          /\ \A w \in Workers : wpc[w] # "idle" => task[w].fd # cur
        BY <2>4 DEF Outstanding
    <2>6. OneTaskPerFd'
        BY <2>1, <2>2, <2>5, <1>3 DEF OneTaskPerFd
    <2>7. MarkedOrUnmapped' /\ MappedTillUnmark' /\ MainHolds'
        BY <2>1, <2>2, <2>3, <2>4, <1>3 DEF MarkedOrUnmapped, MappedTillUnmark, MainHolds
    <2> QED
        BY <2>6, <2>7
<1> QED
    BY <1>1, <1>5, <1>6, <1>7, <1>8, <1>9, <1>10 DEF Main

(* The steps of the pool's threads.                                        *)
LEMMA WorkerExcl ==
    ASSUME TypeOK, ExclInv, NEW w \in Workers, Worker(w) \/ SpinEnds(w)
    PROVE  ExclInv'
<1>1. SUFFICES ASSUME ~recycled'
               PROVE  (OneTaskPerFd /\ MarkedOrUnmapped /\ MappedTillUnmark /\ MainHolds)'
    BY DEF ExclInv
<1>2. CASE TakeTask(w)
    <2>1. /\ UNCHANGED <<working_fds, client_map_port, recycled, mpc, cur, skip>>
          /\ tasks \in Seq(Task) /\ tasks # <<>> /\ tasks' = Tail(tasks)
          /\ wpc[w] = "idle" /\ wpc'[w] = "peek" /\ task'[w] = Head(tasks)
          /\ \A v \in Workers \ {w} : task'[v] = task[v] /\ wpc'[v] = wpc[v]
        BY <1>2 DEF TakeTask, At, Goto, tables, mainVars, history, TypeOK, PoolOK
    <2>2. OneTaskPerFd /\ MarkedOrUnmapped /\ MappedTillUnmark /\ MainHolds
        BY <1>1, <2>1 DEF ExclInv
    <2>3. /\ 1 \in DOMAIN tasks /\ Head(tasks) = tasks[1]
          /\ \A i \in DOMAIN tasks' : /\ i + 1 \in DOMAIN tasks /\ i + 1 # 1
                                      /\ tasks'[i] = tasks[i + 1]
        BY <2>1
    <2>4. \A n : Outstanding(n)' => Outstanding(n)
        BY <2>1, <2>3 DEF Outstanding
    <2>5. OneTaskPerFd'
        <3>1. \A i, j \in DOMAIN tasks' : tasks'[i].fd = tasks'[j].fd => i = j
            <4>1. SUFFICES ASSUME NEW i \in DOMAIN tasks', NEW j \in DOMAIN tasks',
                                  tasks'[i].fd = tasks'[j].fd
                           PROVE  i = j
                OBVIOUS
            <4>2. i + 1 = j + 1
                BY <4>1, <2>2, <2>3 DEF OneTaskPerFd
            <4>3. i \in Nat /\ j \in Nat
                BY <2>1
            <4> QED
                BY <4>2, <4>3
        <3>2. \A i \in DOMAIN tasks', v \in Workers :
                  wpc'[v] # "idle" => task'[v].fd # tasks'[i].fd
            <4>1. SUFFICES ASSUME NEW i \in DOMAIN tasks', NEW v \in Workers, wpc'[v] # "idle"
                           PROVE  task'[v].fd # tasks'[i].fd
                OBVIOUS
            <4>2. CASE v = w
                BY <4>1, <4>2, <2>1, <2>2, <2>3 DEF OneTaskPerFd
            <4>3. CASE v # w
                BY <4>1, <4>3, <2>1, <2>2, <2>3 DEF OneTaskPerFd
            <4> QED
                BY <4>2, <4>3
        <3>3. \A u, v \in Workers :
                  wpc'[u] # "idle" /\ wpc'[v] # "idle" /\ task'[u].fd = task'[v].fd => u = v
            BY <2>1, <2>2, <2>3 DEF OneTaskPerFd
        <3> QED
            BY <3>1, <3>2, <3>3 DEF OneTaskPerFd
    <2>6. MarkedOrUnmapped' /\ MainHolds'
        BY <2>1, <2>2, <2>4 DEF MarkedOrUnmapped, MainHolds
    <2>7. MappedTillUnmark'
        BY <2>1, <2>2, <2>3 DEF MappedTillUnmark
    <2> QED
        BY <2>5, <2>6, <2>7
<1>3. CASE InTask(w)
    <2>1. /\ UNCHANGED <<tasks, task, working_fds, recycled, mpc, cur, skip>>
          /\ wpc[w] \notin {"idle", "unmark"} /\ wpc'[w] # "idle"
          /\ \A v \in Workers \ {w} : wpc'[v] = wpc[v]
        BY <1>3, InTaskKeeps, InTaskPorts DEF mainVars
    <2>2. OneTaskPerFd /\ MarkedOrUnmapped /\ MappedTillUnmark /\ MainHolds
        BY <1>1, <2>1 DEF ExclInv
    <2>3. OneTaskPerFd' /\ \A n : Outstanding(n)' <=> Outstanding(n)
        BY <2>1, <2>2, SameOutstanding
    <2>4. CASE UNCHANGED client_map_port
        BY <2>1, <2>2, <2>3, <2>4 DEF MarkedOrUnmapped, MappedTillUnmark, MainHolds
    <2>5. CASE /\ client_map_port' = [client_map_port EXCEPT ![task[w].fd] = None]
               /\ wpc'[w] = "unmark"
        <3> DEFINE n == task[w].fd
        <3>1. /\ n \in Fds /\ Outstanding(n)
              /\ \A i \in DOMAIN tasks : tasks[i].fd \in Fds /\ tasks[i].fd # n
              /\ \A v \in Workers \ {w} :
                    wpc[v] # "idle" => task[v].fd \in Fds /\ task[v].fd # n
            BY <2>1, <2>2, QueueFacts, TaskFacts DEF OneTaskPerFd, Outstanding
        <3>2. /\ client_map_port'[n] = None
              /\ \A m \in Fds \ {n} : client_map_port'[m] = client_map_port[m]
              /\ cur = n \/ client_map_port'[cur] = client_map_port[cur]
            BY <2>5, <3>1 DEF TypeOK, TablesOK
        <3> HIDE DEF n
        <3>3. MarkedOrUnmapped'
            BY <2>1, <2>2, <2>3, <3>2 DEF MarkedOrUnmapped
        <3>4. MappedTillUnmark'
            BY <2>1, <2>2, <2>5, <3>1, <3>2 DEF MappedTillUnmark
        <3>5. MainHolds'
            BY <2>1, <2>2, <2>3, <3>1, <3>2 DEF MainHolds
        <3> QED
            BY <2>3, <3>3, <3>4, <3>5
    <2> QED
        BY <2>4, <2>5, <1>3, InTaskPorts
<1>4. CASE UnmarkClient(w)
    <2> DEFINE n == task[w].fd
    <2>1. /\ UNCHANGED <<tasks, task, client_map_port, recycled, mpc, cur, skip>>
          /\ wpc[w] # "idle" /\ wpc'[w] = "idle" /\ working_fds' = working_fds \ {n}
          /\ \A v \in Workers \ {w} : wpc'[v] = wpc[v]
        BY <1>4 DEF UnmarkClient, At, Goto, mainVars, history, TypeOK, PoolOK
    <2>2. OneTaskPerFd /\ MarkedOrUnmapped /\ MappedTillUnmark /\ MainHolds
        BY <1>1, <2>1 DEF ExclInv
    <2>3. \A m : Outstanding(m)' => Outstanding(m) /\ m # n
        BY <2>1, <2>2 DEF Outstanding, OneTaskPerFd
    <2>3a. \A m : ~Outstanding(m) => m # n /\ ~Outstanding(m)'
        BY <2>1, <2>3 DEF Outstanding
    <2>4. OneTaskPerFd' /\ MappedTillUnmark'
        BY <2>1, <2>2 DEF OneTaskPerFd, MappedTillUnmark
    <2> HIDE DEF n
    <2>5. MarkedOrUnmapped'
        BY <2>1, <2>2, <2>3 DEF MarkedOrUnmapped
    <2>6. MainHolds'
        BY <2>1, <2>2, <2>3a DEF MainHolds
    <2> QED
        BY <2>4, <2>5, <2>6
<1> QED
    BY <1>2, <1>3, <1>4 DEF InTask

(* Every step keeps it.                                                    *)
LEMMA StepExcl == TypeOK /\ ExclInv /\ [Next]_vars => ExclInv'
<1> SUFFICES ASSUME TypeOK, ExclInv, [Next]_vars
             PROVE  ExclInv'
    OBVIOUS
<1>1. CASE (\E c \in Conns : Client(c)) \/ UNCHANGED vars
    <2>1. UNCHANGED <<tasks, task, wpc, working_fds, client_map_port, recycled, mpc, cur, skip>>
        BY <1>1 DEF Client, Connect, Send, ClientClose, vars, tables, mainVars, poolVars,
                    history
    <2> QED
        BY <2>1, ExclFrame
<1> QED
    BY <1>1, MainExcl, WorkerExcl DEF Next

(* Unless a number is reissued during the cleanup of its previous          *)
(* connection, no two tasks work on a descriptor, however often epoll      *)
(* reports it and however stale the events of a batch are.                 *)
THEOREM OneTask == Spec => []Exclusive
<1>1. Init => ExclInv
    BY DEF Init, ExclInv, OneTaskPerFd, MarkedOrUnmapped, MappedTillUnmark, MainHolds,
           Outstanding
<1>2. ExclInv => Exclusive
    BY DEF ExclInv, Exclusive
<1> QED
    BY <1>1, <1>2, StepExcl, TypeCorrect, PTL DEF Spec

-----------------------------------------------------------------------------
(* Sites and sessions.                                                     *)

(* Why a response comes from the site of the connection's own port: the    *)
(* port kept for an open descriptor is the port of the connection under    *)
(* it, wherever the port is: in the map, in the main thread's local, in a  *)
(* queued task or in a running one.                                        *)
PortsRight ==
    /\ \A n \in Fds :
          ~(mpc = "map" /\ cur = n) /\ fdTab[n] # None /\ client_map_port[n] # None
              => client_map_port[n] = PortOf[fdTab[n]]
    /\ mpc \in {"map", "enqueue"} /\ fdTab[cur] # None => mport = PortOf[fdTab[cur]]
    /\ \A i \in DOMAIN tasks :
          fdTab[tasks[i].fd] # None => tasks[i].port = PortOf[fdTab[tasks[i].fd]]
    /\ \A w \in Workers :
          wpc[w] # "idle" /\ fdTab[task[w].fd] # None
              => task[w].port = PortOf[fdTab[task[w].fd]]

SiteInv == ~recycled => PortsRight /\ OwnSite

(* Neither closing descriptors nor forgetting ports makes a port wrong.    *)
LEMMA PortsFrame ==
    ASSUME TypeOK, PortsRight, UNCHANGED <<tasks, task, cur, mport>>,
           \/ mpc' = mpc
           \/ mpc # "map" /\ mpc' \notin {"map", "enqueue"},
           \A w \in Workers : wpc'[w] # "idle" => wpc[w] # "idle",
           \A n \in Fds : fdTab'[n] \in {fdTab[n], None},
           \A n \in Fds : client_map_port'[n] \in {client_map_port[n], None}
    PROVE  PortsRight'
<1>1. ASSUME NEW n \in Fds, ~(mpc' = "map" /\ cur' = n), fdTab'[n] # None,
             client_map_port'[n] # None
      PROVE  client_map_port'[n] = PortOf[fdTab'[n]]
    BY <1>1 DEF PortsRight
<1>2. ASSUME mpc' \in {"map", "enqueue"}, fdTab'[cur'] # None
      PROVE  mport' = PortOf[fdTab'[cur']]
    <2>1. cur \in Fds
        BY <1>2 DEF TypeOK, MainOK
    <2> QED
        BY <1>2, <2>1 DEF PortsRight
<1>3. ASSUME NEW i \in DOMAIN tasks', fdTab'[tasks'[i].fd] # None
      PROVE  tasks'[i].port = PortOf[fdTab'[tasks'[i].fd]]
    <2>1. i \in DOMAIN tasks /\ tasks[i].fd \in Fds
        BY QueueFacts
    <2> QED
        BY <1>3, <2>1 DEF PortsRight
<1>4. ASSUME NEW w \in Workers, wpc'[w] # "idle", fdTab'[task'[w].fd] # None
      PROVE  task'[w].port = PortOf[fdTab'[task'[w].fd]]
    <2>1. wpc[w] # "idle" /\ task[w].fd \in Fds
        BY <1>4, TaskFacts
    <2> QED
        BY <1>4, <2>1 DEF PortsRight
<1> QED
    BY <1>1, <1>2, <1>3, <1>4 DEF PortsRight

(* What a step of a task can do to descriptors: close its own.             *)
LEMMA InTaskFds ==
    ASSUME TypeOK, NEW w \in Workers, InTask(w)
    PROVE  \A n \in Fds : fdTab'[n] \in {fdTab[n], None}
<1>1. CASE CloseFd(w)
    BY <1>1 DEF CloseFd, TypeOK, KernelOK
<1>2. CASE Unwatch(w)
    BY <1>2 DEF Unwatch
<1>3. CASE ~CloseFd(w) /\ ~Unwatch(w)
    BY <1>3, KernelKept DEF kernel
<1> QED
    BY <1>1, <1>2, <1>3

(* ... and to the responses: add one of the site of its port, to the       *)
(* connection under its number.                                            *)
LEMMA InTaskReplies ==
    ASSUME TypeOK, NEW w \in Workers, InTask(w)
    PROVE  \/ UNCHANGED replies
           \/ \E keep \in BOOLEAN :
                 ConnOf(w) # None /\ Answer(ConnOf(w), task[w].port, keep)
<1>1. CASE Peek(w) \/ Recv(w) \/ SpinEnds(w) \/ TlsGet(w) \/ TlsAccept(w) \/ TlsRead(w)
    BY <1>1 DEF Peek, Recv, TlsGet, TlsAccept, TlsRead, SpinEnds, history
<1>2. CASE Reply(w) \/ TlsReply(w)
    <2>1. KeepAlive(req[w]) \in BOOLEAN
        BY DEF KeepAlive
    <2> QED
        BY <1>2, <2>1 DEF Reply, TlsReply, Respond, Spins
<1>3. CASE Throw(w)
    <2>1. UNCHANGED replies \/ (ConnOf(w) # None /\ Answer(ConnOf(w), task[w].port, FALSE))
        BY <1>3 DEF Throw
    <2>2. FALSE \in BOOLEAN
        OBVIOUS
    <2> QED
        BY <2>1, <2>2
<1>4. CASE TlsFree(w) \/ TlsCrash(w) \/ CleanSsl(w) \/ Unwatch(w) \/ CloseFd(w)
           \/ UnmapClient(w)
    BY <1>4 DEF TlsFree, TlsCrash, CleanSsl, Unwatch, CloseFd, UnmapClient, history
<1> QED
    BY <1>1, <1>2, <1>3, <1>4 DEF InTask, Worker

(* A response from the site of a connection's own port.                    *)
LEMMA AnswerSite ==
    ASSUME TypeOK, OwnSite, NEW c \in Conns, NEW keep \in BOOLEAN,
           Answer(c, PortOf[c], keep)
    PROVE  OwnSite'
<1> DEFINE r == [site |-> PortOf[c], keep |-> keep]
           Responses == [site : Ports, keep : BOOLEAN]
<1>1. r \in Responses /\ r.site = PortOf[c]
    BY ConstAssumption
<1>2. replies \in [Conns -> Seq(Responses)] /\ replies' = [replies EXCEPT ![c] = Append(@, r)]
    BY DEF TypeOK, HistoryOK, Answer
<1> HIDE DEF r, Responses
<1>3. \A d \in Conns : \A i \in DOMAIN replies'[d] :
          \/ i \in DOMAIN replies[d] /\ replies'[d][i] = replies[d][i]
          \/ d = c /\ replies'[d][i] = r
    <2>1. SUFFICES ASSUME NEW d \in Conns, NEW i \in DOMAIN replies'[d]
                   PROVE  \/ i \in DOMAIN replies[d] /\ replies'[d][i] = replies[d][i]
                          \/ d = c /\ replies'[d][i] = r
        OBVIOUS
    <2>2. CASE d = c
        BY <2>1, <2>2, <1>1, <1>2
    <2>3. CASE d # c
        BY <2>1, <2>3, <1>1, <1>2
    <2> QED
        BY <2>2, <2>3
<1> QED
    BY <1>1, <1>3 DEF OwnSite

(* The main thread's steps.                                                *)
LEMMA MainSite == TypeOK /\ SiteInv /\ Main => SiteInv'
<1> SUFFICES ASSUME TypeOK, SiteInv, Main, ~recycled'
             PROVE  PortsRight' /\ OwnSite'
    BY DEF SiteInv
<1> USE DEF MainAt, MainGoto
<1>1. ~recycled /\ UNCHANGED replies
    <2>1. ~recycled
        BY DEF Main, EpollWait, Accept, AcceptFails, MapClient, WatchClient, MarkClient,
               CheckClient, LookupPort, EnqueueTask, history
    <2>2. UNCHANGED replies
        BY DEF Main, EpollWait, Accept, AcceptFails, MapClient, WatchClient, MarkClient,
               CheckClient, LookupPort, EnqueueTask, history
    <2> QED
        BY <2>1, <2>2
<1>2. PortsRight /\ OwnSite /\ OwnSite'
    BY <1>1 DEF SiteInv, OwnSite
<1>3. CASE EpollWait \/ (\E p \in Ports : AcceptFails(p)) \/ WatchClient \/ CheckClient
    <2>1. /\ UNCHANGED <<tasks, poolVars, cur, mport, fdTab, client_map_port>>
          /\ mpc' = mpc \/ (mpc # "map" /\ mpc' \notin {"map", "enqueue"})
        BY <1>3 DEF EpollWait, AcceptFails, WatchClient, CheckClient, kernel, tables
    <2> QED
        BY <2>1, <1>2, PortsFrame DEF poolVars
<1>4. ASSUME NEW p \in Ports, Accept(p)
      PROVE  PortsRight'
    <2>1. PICK c \in Waiting(p), n \in FreeFds :
              /\ fdTab' = [fdTab EXCEPT ![n] = c] /\ cur' = n /\ mport' = p
              /\ mpc' = "map" /\ ~Outstanding(n) /\ mpc = "next"
              /\ UNCHANGED <<tasks, poolVars, client_map_port>>
        BY <1>4 DEF Accept, tables
    <2>2. /\ c \in Conns /\ PortOf[c] = p /\ n \in Fds /\ fdTab'[n] = c
          /\ \A m \in Fds \ {n} : fdTab'[m] = fdTab[m]
        BY <2>1 DEF Waiting, FreeFds, TypeOK, KernelOK
    <2>3. /\ \A i \in DOMAIN tasks : tasks[i].fd \in Fds \ {n}
          /\ \A w \in Workers : wpc[w] # "idle" => task[w].fd \in Fds \ {n}
        BY <2>1, QueueFacts, TaskFacts DEF Outstanding
    <2> QED
        BY <2>1, <2>2, <2>3, <1>2 DEF PortsRight, poolVars
<1>5. CASE MapClient
    <2>1. /\ mpc = "map" /\ mpc' = "add" /\ cur \in Fds
          /\ UNCHANGED <<fdTab, tasks, poolVars, cur, mport>>
          /\ client_map_port'[cur] = mport
          /\ \A n \in Fds \ {cur} : client_map_port'[n] = client_map_port[n]
        BY <1>5 DEF MapClient, kernel, TypeOK, MainOK, TablesOK
    <2> QED
        BY <2>1, <1>2 DEF PortsRight, poolVars
<1>6. CASE \E n \in Fds : MarkClient(n)
    <2>1. /\ mpc = "next" /\ mpc' = "check"
          /\ UNCHANGED <<fdTab, tasks, poolVars, client_map_port>>
        BY <1>6 DEF MarkClient, kernel
    <2> QED
        BY <2>1, <1>2 DEF PortsRight, poolVars
<1>7. CASE LookupPort
    <2>1. /\ mpc = "lookup" /\ cur \in Fds
          /\ UNCHANGED <<fdTab, tasks, poolVars, client_map_port, cur>>
          /\ \/ mpc' = "next"
             \/ mpc' = "enqueue" /\ client_map_port[cur] # None /\ mport' = client_map_port[cur]
        BY <1>7 DEF LookupPort, kernel, TypeOK, MainOK
    <2> QED
        BY <2>1, <1>2 DEF PortsRight, poolVars
<1>8. CASE EnqueueTask
    <2> DEFINE e == [fd |-> cur, port |-> mport]
    <2>1. /\ mpc = "enqueue" /\ mpc' = "next" /\ tasks \in Seq(Task)
          /\ tasks' = Append(tasks, e) /\ e.fd = cur /\ e.port = mport
          /\ UNCHANGED <<fdTab, poolVars, client_map_port>>
        BY <1>8 DEF EnqueueTask, kernel, tables, TypeOK, PoolOK
    <2> HIDE DEF e
    <2>2. \A k \in DOMAIN tasks' : \/ k \in DOMAIN tasks /\ tasks'[k] = tasks[k]
                                   \/ tasks'[k] = e
        BY <2>1
    <2>3. fdTab[cur] # None => mport = PortOf[fdTab[cur]]
        BY <2>1, <1>2 DEF PortsRight
    <2> QED
        BY <2>1, <2>2, <2>3, <1>2 DEF PortsRight, poolVars
<1> QED
    BY <1>2, <1>3, <1>4, <1>5, <1>6, <1>7, <1>8 DEF Main

(* The steps of the pool's threads.                                        *)
LEMMA WorkerSite ==
    ASSUME TypeOK, SiteInv, NEW w \in Workers, Worker(w) \/ SpinEnds(w)
    PROVE  SiteInv'
<1> SUFFICES ASSUME ~recycled'
             PROVE  PortsRight' /\ OwnSite'
    BY DEF SiteInv
<1>1. CASE TakeTask(w)
    <2>1. /\ UNCHANGED <<fdTab, client_map_port, replies, recycled, mainVars>>
          /\ tasks \in Seq(Task) /\ tasks # <<>> /\ tasks' = Tail(tasks)
          /\ task'[w] = Head(tasks)
          /\ \A v \in Workers \ {w} : task'[v] = task[v] /\ wpc'[v] = wpc[v]
        BY <1>1 DEF TakeTask, At, Goto, kernel, tables, history, TypeOK, PoolOK
    <2>2. PortsRight /\ OwnSite
        BY <2>1 DEF SiteInv
    <2>3. /\ 1 \in DOMAIN tasks /\ Head(tasks) = tasks[1]
          /\ \A i \in DOMAIN tasks' : i + 1 \in DOMAIN tasks /\ tasks'[i] = tasks[i + 1]
        BY <2>1
    <2>4. PortsRight'
        BY <2>1, <2>2, <2>3 DEF PortsRight, mainVars
    <2> QED
        BY <2>1, <2>2, <2>4 DEF OwnSite
<1>2. CASE InTask(w)
    <2>1. PortsRight /\ OwnSite
        BY <1>2, InTaskPorts DEF SiteInv
    <2>2. PortsRight'
        <3>1. /\ UNCHANGED <<tasks, task, mpc, cur, mport>> /\ wpc[w] # "idle"
              /\ \A v \in Workers \ {w} : wpc'[v] = wpc[v]
            BY <1>2, InTaskKeeps, InTaskPorts DEF mainVars
        <3>2. \A n \in Fds : client_map_port'[n] \in {client_map_port[n], None}
            BY <1>2, InTaskPorts DEF TypeOK, TablesOK
        <3> QED
            BY <1>2, <2>1, <3>1, <3>2, InTaskFds, PortsFrame
    <2>3. CASE UNCHANGED replies
        BY <2>1, <2>2, <2>3 DEF OwnSite
    <2>4. ASSUME NEW keep \in BOOLEAN, ConnOf(w) # None,
                 Answer(ConnOf(w), task[w].port, keep)
          PROVE  OwnSite'
        <3>1. wpc[w] # "idle"
            BY <1>2, InTaskPorts
        <3>2. ConnOf(w) \in Conns /\ task[w].port = PortOf[ConnOf(w)]
            BY <2>1, <2>4, <3>1, TaskFacts DEF PortsRight, ConnOf
        <3> QED
            BY <2>1, <2>4, <3>2, AnswerSite
    <2> QED
        BY <1>2, <2>2, <2>3, <2>4, InTaskReplies
<1>3. CASE UnmarkClient(w)
    <2>1. /\ UNCHANGED <<kernel, client_map_port, tasks, task, replies, recycled, mainVars>>
          /\ wpc[w] # "idle" /\ \A v \in Workers \ {w} : wpc'[v] = wpc[v]
        BY <1>3 DEF UnmarkClient, At, Goto, history, TypeOK, PoolOK
    <2>2. PortsRight /\ OwnSite
        BY <2>1 DEF SiteInv
    <2> QED
        BY <2>1, <2>2, PortsFrame DEF OwnSite, kernel, mainVars
<1> QED
    BY <1>1, <1>2, <1>3 DEF InTask

(* Every step keeps it.                                                    *)
LEMMA StepSite == TypeOK /\ SiteInv /\ [Next]_vars => SiteInv'
<1> SUFFICES ASSUME TypeOK, SiteInv, [Next]_vars
             PROVE  SiteInv'
    OBVIOUS
<1>1. CASE (\E c \in Conns : Client(c)) \/ UNCHANGED vars
    <2>1. UNCHANGED <<kernel, client_map_port, mainVars, tasks, poolVars, history>>
        BY <1>1 DEF Client, Connect, Send, ClientClose, vars, tables
    <2> QED
        BY <2>1, PortsFrame DEF SiteInv, OwnSite, kernel, mainVars, poolVars, history
<1> QED
    BY <1>1, MainSite, WorkerSite DEF Next

(* Unless a number is reissued during the cleanup of its previous          *)
(* connection, every response comes from the site of the port its client   *)
(* connected to.                                                           *)
THEOREM SiteUnlessRecycled == Spec => []OwnSiteUnlessRecycled
<1>1. Init => SiteInv
    BY DEF Init, SiteInv, PortsRight, OwnSite
<1>2. SiteInv => OwnSiteUnlessRecycled
    BY DEF SiteInv, OwnSiteUnlessRecycled
<1> QED
    BY <1>1, <1>2, StepSite, TypeCorrect, PTL DEF Spec

(* Why nobody talks to a client with the session of another: besides, the  *)
(* SSL* of a descriptor is gone before the descriptor is closed.           *)
SessionGone ==
    \A w \in Workers : wpc[w] \in {"del", "close"} => ssl_map[task[w].fd] = None

SessionInv == ~recycled => SessionOfConn /\ SessionGone

(* A thread at work on a descriptor that nobody else works on may change   *)
(* the SSL* of this one only.                                              *)
LEMMA SessionStep ==
    ASSUME TypeOK, OneTaskPerFd, SessionOfConn, SessionGone,
           NEW w \in Workers, wpc[w] # "idle", UNCHANGED <<fdTab, task>>,
           \A v \in Workers \ {w} : wpc'[v] = wpc[v] /\ ssl'[v] = ssl[v],
           \A n \in Fds \ {task[w].fd} : ssl_map'[n] = ssl_map[n],
           ssl_map'[task[w].fd] \in {None, fdTab[task[w].fd]},
           wpc'[w] \in TlsLocs => ssl_map'[task[w].fd] = ssl'[w],
           wpc'[w] \in {"del", "close"} => ssl_map'[task[w].fd] = None
    PROVE  SessionOfConn' /\ SessionGone'
<1>1. \A n \in Fds : ssl_map'[n] # None => ssl_map'[n] = fdTab'[n]
    BY DEF SessionOfConn
<1>2. ASSUME NEW v \in Workers \ {w}, wpc'[v] \in TlsLocs \cup {"del", "close"}
      PROVE  ssl_map'[task'[v].fd] = ssl_map[task[v].fd]
    <2>1. wpc[v] # "idle"
        BY <1>2 DEF TlsLocs
    <2> QED
        BY <2>1, TaskFacts DEF OneTaskPerFd
<1>3. \A v \in Workers : wpc'[v] \in TlsLocs => ssl_map'[task'[v].fd] = ssl'[v]
    BY <1>2 DEF SessionOfConn
<1>4. \A v \in Workers : wpc'[v] \in {"del", "close"} => ssl_map'[task'[v].fd] = None
    BY <1>2 DEF SessionGone
<1> QED
    BY <1>1, <1>3, <1>4 DEF SessionOfConn, SessionGone

(* A step that leaves the sessions alone.                                  *)
LEMMA SessionFrame ==
    ASSUME SessionOfConn, SessionGone, UNCHANGED <<fdTab, ssl_map, task, ssl>>,
           \A v \in Workers :
              \/ wpc'[v] = wpc[v]
              \/ wpc[v] \in TlsLocs /\ wpc'[v] \in TlsLocs
              \/ wpc'[v] \notin TlsLocs \cup {"del", "close"}
    PROVE  SessionOfConn' /\ SessionGone'
BY DEF SessionOfConn, SessionGone, TlsLocs

(* The handshake, with a session that is the connection's own.             *)
LEMMA AcceptSession ==
    ASSUME TypeOK, OneTaskPerFd, SessionOfConn, SessionGone,
           NEW w \in Workers, TlsAccept(w)
    PROVE  SessionOfConn' /\ SessionGone'
<1> DEFINE n == task[w].fd
           c == ConnOf(w)
           s == ssl[w]
<1> USE DEF At, Goto
<1>1. /\ wpc[w] = "tls_accept" /\ n \in Fds /\ s \in Conns /\ ssl_map[n] = s
      /\ UNCHANGED <<fdTab, task>> /\ c = fdTab[n]
    BY TaskFacts DEF TlsAccept, kernel, TypeOK, PoolOK, SessionOfConn, TlsLocs, ConnOf
<1>2. c = s
    BY <1>1, ConstAssumption DEF SessionOfConn
<1>3. \A v \in Workers \ {w} : wpc'[v] = wpc[v] /\ ssl'[v] = ssl[v]
    BY DEF TlsAccept, TypeOK, PoolOK
<1>4. CASE UNCHANGED <<ssl, ssl_map>>
    <2>1. wpc'[w] \in TlsLocs \/ wpc'[w] \notin TlsLocs \cup {"del", "close"}
        BY <1>4 DEF TlsAccept, TypeOK, PoolOK, TlsLocs
    <2> QED
        BY <1>1, <1>3, <1>4, <2>1, SessionFrame DEF TlsLocs
<1>5. CASE /\ ssl' = [ssl EXCEPT ![w] = c]
           /\ ssl_map' = [ssl_map EXCEPT ![n] = IF @ = s THEN c ELSE @]
           /\ UNCHANGED wpc
    <2>1. /\ ssl_map'[n] = c /\ ssl'[w] = c
          /\ \A m \in Fds \ {n} : ssl_map'[m] = ssl_map[m]
        BY <1>1, <1>2, <1>5 DEF TypeOK, TablesOK, PoolOK
    <2> QED
        BY <1>1, <1>3, <1>5, <2>1, SessionStep
<1> QED
    BY <1>4, <1>5 DEF TlsAccept

(* Finding or making the SSL*.                                             *)
LEMMA GetSession ==
    ASSUME TypeOK, OneTaskPerFd, SessionOfConn, SessionGone,
           NEW w \in Workers, TlsGet(w)
    PROVE  SessionOfConn' /\ SessionGone'
<1> DEFINE n == task[w].fd
           c == ConnOf(w)
<1> USE DEF At, Goto
<1>1. /\ wpc[w] = "tls_get" /\ n \in Fds /\ UNCHANGED <<fdTab, task>> /\ c = fdTab[n]
      /\ \A v \in Workers \ {w} : wpc'[v] = wpc[v] /\ ssl'[v] = ssl[v]
    BY TaskFacts DEF TlsGet, kernel, TypeOK, PoolOK, ConnOf
<1>2. CASE /\ ssl' = [ssl EXCEPT ![w] = ssl_map[n]] /\ ssl_map[n] # None
           /\ Goto(w, "tls_accept") /\ UNCHANGED ssl_map
    <2>1. ssl'[w] = ssl_map[n] /\ wpc'[w] = "tls_accept" /\ ssl_map[n] = fdTab[n]
        BY <1>1, <1>2 DEF TypeOK, PoolOK, SessionOfConn
    <2> QED
        BY <1>1, <1>2, <2>1, SessionStep
<1>3. CASE /\ ssl_map' = [ssl_map EXCEPT ![n] = c]
           /\ ssl' = [ssl EXCEPT ![w] = c]
           /\ Goto(w, "tls_accept")
    <2>1. /\ ssl'[w] = c /\ wpc'[w] = "tls_accept" /\ ssl_map'[n] = c
          /\ \A m \in Fds \ {n} : ssl_map'[m] = ssl_map[m]
        BY <1>1, <1>3 DEF TypeOK, PoolOK, TablesOK
    <2> QED
        BY <1>1, <2>1, SessionStep
<1>4. CASE Goto(w, "clean") /\ UNCHANGED <<ssl_map, ssl>>
    <2>1. wpc'[w] = "clean" /\ "clean" \notin TlsLocs \cup {"del", "close"}
        BY <1>4 DEF TypeOK, PoolOK, TlsLocs
    <2> QED
        BY <1>1, <1>4, <2>1, SessionFrame
<1> QED
    BY <1>2, <1>3, <1>4 DEF TlsGet

(* Taking the SSL* out of the map, before the cleanup or in it, and the    *)
(* two steps that need it out.                                             *)
LEMMA DropSession ==
    ASSUME TypeOK, OneTaskPerFd, SessionOfConn, SessionGone, NEW w \in Workers,
           TlsFree(w) \/ CleanSsl(w) \/ Unwatch(w) \/ CloseFd(w)
    PROVE  SessionOfConn' /\ SessionGone'
<1> DEFINE n == task[w].fd
<1> USE DEF At, Goto
<1>1. /\ wpc[w] # "idle" /\ n \in Fds /\ UNCHANGED <<task, ssl>>
      /\ \A v \in Workers \ {w} : wpc'[v] = wpc[v]
    <2>1. /\ wpc[w] # "idle" /\ UNCHANGED <<task, ssl>>
          /\ \A v \in Workers \ {w} : wpc'[v] = wpc[v]
        BY DEF TlsFree, CleanSsl, Unwatch, CloseFd, TypeOK, PoolOK
    <2> QED
        BY <2>1, TaskFacts
<1>2. CASE TlsFree(w) \/ CleanSsl(w)
    <2>1. /\ fdTab' = fdTab /\ ssl_map'[n] = None /\ wpc'[w] \notin TlsLocs
          /\ \A m \in Fds \ {n} : ssl_map'[m] = ssl_map[m]
        BY <1>1, <1>2 DEF TlsFree, CleanSsl, kernel, TypeOK, TablesOK, PoolOK, TlsLocs
    <2> QED
        BY <1>1, <2>1, SessionStep
<1>3. CASE Unwatch(w)
    <2>1. /\ UNCHANGED <<fdTab, ssl_map>> /\ wpc[w] = "del" /\ wpc'[w] = "close"
          /\ "close" \notin TlsLocs
        BY <1>3 DEF Unwatch, tables, TypeOK, PoolOK, TlsLocs
    <2> QED
        BY <1>1, <2>1 DEF SessionOfConn, SessionGone
<1>4. CASE CloseFd(w)
    <2>1. /\ UNCHANGED ssl_map /\ wpc[w] = "close" /\ wpc'[w] = "unmap"
          /\ "unmap" \notin TlsLocs \cup {"del", "close"}
          /\ \A m \in Fds \ {n} : fdTab'[m] = fdTab[m]
        BY <1>4 DEF CloseFd, tables, TypeOK, PoolOK, KernelOK, TlsLocs
    <2>2. ssl_map[n] = None
        BY <2>1 DEF SessionGone
    <2> QED
        BY <1>1, <2>1, <2>2 DEF SessionOfConn, SessionGone
<1> QED
    BY <1>2, <1>3, <1>4

(* Every step keeps it.                                                    *)
LEMMA StepSession == TypeOK /\ Exclusive /\ SessionInv /\ [Next]_vars => SessionInv'
<1> SUFFICES ASSUME TypeOK, Exclusive, SessionInv, [Next]_vars, ~recycled'
             PROVE  (SessionOfConn /\ SessionGone)'
    BY DEF SessionInv
<1>1. CASE (\E c \in Conns : Client(c)) \/ UNCHANGED vars
    <2>1. UNCHANGED <<kernel, tables, poolVars, recycled>>
        BY <1>1 DEF Client, Connect, Send, ClientClose, vars, history
    <2> QED
        BY <2>1, SessionFrame DEF SessionInv, kernel, tables, poolVars
<1>2. CASE Main
    <2>1. ~recycled
        BY <1>2 DEF Main, EpollWait, Accept, AcceptFails, MapClient, WatchClient, MarkClient,
               CheckClient, LookupPort, EnqueueTask, history
    <2>2. SessionOfConn /\ SessionGone /\ UNCHANGED <<ssl_map, wpc, task, ssl>>
        <3>1. UNCHANGED ssl_map
            BY <1>2 DEF Main, EpollWait, Accept, AcceptFails, MapClient, WatchClient,
                   MarkClient, CheckClient, LookupPort, EnqueueTask, tables
        <3>2. UNCHANGED poolVars
            BY <1>2 DEF Main, EpollWait, Accept, AcceptFails, MapClient, WatchClient,
                   MarkClient, CheckClient, LookupPort, EnqueueTask
        <3> QED
            BY <2>1, <3>1, <3>2 DEF SessionInv, poolVars
    <2>3. ASSUME NEW p \in Ports, Accept(p)
          PROVE  (SessionOfConn /\ SessionGone)'
        <3>1. PICK n \in FreeFds : \E c \in Conns : fdTab' = [fdTab EXCEPT ![n] = c]
            BY <2>3 DEF Accept, Waiting
        <3>2. n \in Fds /\ fdTab[n] = None /\ \A m \in Fds \ {n} : fdTab'[m] = fdTab[m]
            BY <3>1 DEF FreeFds, TypeOK, KernelOK
        <3>3. ssl_map[n] = None
            BY <2>2, <3>2 DEF SessionOfConn
        <3> QED
            BY <2>2, <3>2, <3>3 DEF SessionOfConn, SessionGone
    <2>4. CASE UNCHANGED fdTab
        BY <2>2, <2>4, SessionFrame
    <2> QED
        BY <1>2, <2>3, <2>4 DEF Main, EpollWait, AcceptFails, MapClient, WatchClient,
               MarkClient, CheckClient, LookupPort, EnqueueTask, kernel
<1>3. ASSUME NEW w \in Workers, Worker(w) \/ SpinEnds(w)
      PROVE  (SessionOfConn /\ SessionGone)'
    <2>1. ~recycled
        <3>1. CASE TakeTask(w) \/ UnmarkClient(w)
            BY <3>1 DEF TakeTask, UnmarkClient, history
        <3> QED
            BY <1>3, <3>1, InTaskPorts DEF InTask
    <2>2. OneTaskPerFd /\ SessionOfConn /\ SessionGone
        BY <2>1 DEF Exclusive, SessionInv
    <2>3. CASE TakeTask(w)
        <3>1. /\ UNCHANGED <<fdTab, ssl_map>> /\ wpc'[w] = "peek"
              /\ "peek" \notin TlsLocs \cup {"del", "close"}
              /\ \A v \in Workers \ {w} :
                    wpc'[v] = wpc[v] /\ task'[v] = task[v] /\ ssl'[v] = ssl[v]
            BY <2>3 DEF TakeTask, kernel, tables, Goto, TypeOK, PoolOK, TlsLocs
        <3> QED
            BY <2>2, <3>1 DEF SessionOfConn, SessionGone
    <2>4. CASE Peek(w) \/ Recv(w) \/ Reply(w) \/ SpinEnds(w) \/ Throw(w) \/ TlsRead(w) \/ TlsReply(w)
               \/ UnmapClient(w) \/ UnmarkClient(w) \/ TlsCrash(w)
        <3>1. UNCHANGED <<fdTab, ssl_map, task, ssl>>
            BY <2>4 DEF Peek, Recv, Reply, SpinEnds, Throw, TlsRead, TlsReply,
                   UnmapClient, UnmarkClient, TlsCrash, kernel, tables, poolVars
        <3>2. \A v \in Workers \ {w} : wpc'[v] = wpc[v]
            <4> USE DEF At, Goto, TypeOK, PoolOK
            <4>1. CASE Peek(w) \/ Recv(w) \/ Reply(w) \/ SpinEnds(w) \/ Throw(w)
                BY <4>1 DEF Peek, Recv, ReadSome, Reply, Spins, SpinEnds, Respond, Throw
            <4>2. CASE TlsRead(w) \/ TlsReply(w)
                BY <4>2 DEF TlsRead, ReadSome, TlsReply, Respond
            <4>3. CASE UnmapClient(w) \/ UnmarkClient(w) \/ TlsCrash(w)
                BY <4>3 DEF UnmapClient, UnmarkClient, TlsCrash, poolVars
            <4> QED
                BY <2>4, <4>1, <4>2, <4>3
        <3>3. \/ wpc'[w] = wpc[w]
              \/ wpc[w] \in TlsLocs /\ wpc'[w] \in TlsLocs
              \/ wpc'[w] \notin TlsLocs \cup {"del", "close"}
            <4> USE DEF At, Goto, TypeOK, PoolOK, TlsLocs
            <4>1. CASE Peek(w) \/ Recv(w) \/ Reply(w) \/ SpinEnds(w) \/ Throw(w)
                BY <4>1 DEF Peek, Recv, ReadSome, Reply, Spins, SpinEnds, Respond, Throw
            <4>2. CASE TlsRead(w) \/ TlsReply(w)
                BY <4>2 DEF TlsRead, ReadSome, TlsReply, Respond
            <4>3. CASE UnmapClient(w) \/ UnmarkClient(w) \/ TlsCrash(w)
                BY <4>3 DEF UnmapClient, UnmarkClient, TlsCrash, poolVars
            <4> QED
                BY <2>4, <4>1, <4>2, <4>3
        <3> QED
            BY <2>2, <3>1, <3>2, <3>3, SessionFrame
    <2> QED
        BY <1>3, <2>2, <2>3, <2>4, GetSession, AcceptSession, DropSession DEF Worker
<1> QED
    BY <1>1, <1>2, <1>3 DEF Next

(* Unless a number is reissued during the cleanup of its previous          *)
(* connection, an SSL* in use has not been freed and belongs to the        *)
(* connection it is used on, although handle_https frees it without the    *)
(* mutex.                                                                  *)
THEOREM SessionOwned == Spec => []SessionUnlessRecycled
<1>1. Init => SessionInv
    BY DEF Init, SessionInv, SessionOfConn, SessionGone, TlsLocs
<1>2. SessionInv => SessionUnlessRecycled
    BY DEF SessionInv, SessionUnlessRecycled
<1> QED
    BY <1>1, <1>2, StepSession, OneTask, TypeCorrect, PTL DEF Spec
=============================================================================
