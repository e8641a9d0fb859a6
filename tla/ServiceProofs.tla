---------------------------- MODULE ServiceProofs ----------------------------
(* What Startup promises, for any documents, edits, descriptors, failures  *)
(* and restarts: sockets and registry agree, a child listens on the ports  *)
(* of its configuration, what is loaded is what the file means, and a      *)
(* request is answered from the site of the port.                          *)
EXTENDS Service, YamlProofs, SequenceTheorems, TLAPS

-----------------------------------------------------------------------------
(* The inductive invariant.                                                *)

Files   == Docs \cup Edits
DataOf(d) == File(d).read.data
Works   == {"start", "setup", "add", "serve"}

(* A process that has a configuration has it from a file that was read to  *)
(* its end.                                                                *)
ReadInv ==
    /\ yaml \in {File(d) : d \in Files}
    /\ mpc \in {"ports", "fork", "prompt"} =>
        loaded \in Files /\ File(loaded).read.failed = "no" /\ config = DataOf(loaded)
    /\ cpc # "none" =>
        cdoc \in Files /\ File(cdoc).read.failed = "no" /\ cconfig = DataOf(cdoc)

(* Main has ports once it has read them, and a child only while it waits   *)
(* for a command.                                                          *)
MainInv ==
    /\ mpc \in {"start", "load", "ports", "fork", "prompt", "aborted"}
    /\ cpc \in {"none", "dead"} \cup Works
    /\ restarts \in Nat
    /\ ports \in Seq(Range(ports))
    /\ mpc \in {"fork", "prompt"} \/ restarts # 0 => ports # <<>>
    /\ cpc # "none" => mpc = "prompt"

(* Every open socket is recorded and watched, but for the one just opened. *)
SocketInv ==
    /\ todo \in Seq(Range(ports))
    /\ cpc = "none" => todo = <<>> /\ DOMAIN fdTab = {} /\ DOMAIN fd_port = {}
    /\ cpc = "dead" => DOMAIN fdTab = {}
    /\ cpc = "serve" => todo = <<>>
    /\ watched \subseteq DOMAIN fdTab /\ DOMAIN fdTab \subseteq DOMAIN fd_port \cap Fds
    /\ cpc # "add" => watched = DOMAIN fdTab
    /\ cpc = "add" => todo # <<>> /\ \E f : f \notin watched /\ DOMAIN fdTab = watched \cup {f}

(* The ports still to listen on: the socket for the first is there in add. *)
Pending == IF cpc = "add" THEN Tail(todo) ELSE todo

(* While no EPOLL_CTL_ADD has failed, the registry has the open sockets,   *)
(* each with the port it was asked to bind, and every port of the list is  *)
(* recorded or still to come.                                              *)
BoundInv ==
    cpc \in Works /\ ~addFailed =>
        /\ DOMAIN fd_port = DOMAIN fdTab
        /\ \A f \in DOMAIN fdTab : fdTab[f] = fd_port[f] % Width
        /\ Range(fd_port) \cup Range(Pending) = Range(ports)

BootInv == ReadInv /\ MainInv /\ SocketInv /\ BoundInv

-----------------------------------------------------------------------------
(* Functions and sequences.                                                *)

LEMMA HeadAndTail ==
    ASSUME NEW S, NEW s \in Seq(S), s # <<>>
    PROVE  /\ Head(s) \in S /\ Tail(s) \in Seq(S)
           /\ Range(s) = {Head(s)} \cup Range(Tail(s))
<1>1. /\ Len(s) \in Nat \ {0} /\ DOMAIN s = 1 .. Len(s)
      /\ Tail(s) \in Seq(S) /\ DOMAIN Tail(s) = 1 .. Len(s) - 1
      /\ Head(s) = s[1] /\ s[1] \in S
      /\ \A k \in 1 .. Len(s) - 1 : Tail(s)[k] = s[k + 1]
  OBVIOUS
<1>2. ASSUME NEW k \in DOMAIN s, k # 1 PROVE s[k] \in Range(Tail(s))
  <2>1. k - 1 \in 1 .. Len(s) - 1 /\ (k - 1) + 1 = k
    BY <1>1, <1>2
  <2> QED
    BY <1>1, <2>1 DEF Range
<1>3. \A k \in 1 .. Len(s) - 1 : k + 1 \in DOMAIN s
  BY <1>1
<1>4. 1 \in DOMAIN s
  BY <1>1
<1> QED
  BY <1>1, <1>2, <1>3, <1>4 DEF Range

(* A sequence is one of what is in it.                                     *)
LEMMA SeqOfItself ==
    ASSUME NEW S, NEW s \in Seq(S)
    PROVE  s \in Seq(Range(s))
<1>1. /\ Len(s) \in Nat /\ DOMAIN s = 1 .. Len(s) /\ s = [k \in 1 .. Len(s) |-> s[k]]
      /\ \A k \in 1 .. Len(s) : s[k] \in Range(s)
  BY DEF Range
<1> QED
  BY <1>1

(* What is read from a file has natural numbers in it.                     *)
LEMMA Numbers ==
    ASSUME NEW d \in Files, NEW q \in DOMAIN DataOf(d)
    PROVE  DataOf(d)[q].n \in Nat
<1>1. CASE d = Missing
  <2>1. DataOf(d) = Start.data
    BY <1>1 DEF DataOf, File
  <2>2. Counted(Start)
    BY StartCounted
  <2> QED
    BY <2>1, <2>2 DEF Counted
<1>2. CASE d # Missing
  <2>1. DataOf(d) = parseFile(Render(d)).data
    BY <1>2 DEF DataOf, File
  <2>2. d \in Documents
    BY <1>2, DocsAssumption DEF Files
  <2> QED
    BY <2>1, <2>2, ReadCounted
<1> QED
  BY <1>1, <1>2

-----------------------------------------------------------------------------
(* Main.                                                                   *)

LEMMA BootInvInit == BootInit => BootInv
<1> SUFFICES ASSUME BootInit PROVE BootInv
  OBVIOUS
<1>1. ReadInv
  BY DEF BootInit, ReadInv, Files
<1>2. MainInv
  BY DEF BootInit, MainInv, Works, Range
<1>3. SocketInv
  BY DEF BootInit, SocketInv, Range
<1>4. BoundInv
  BY DEF BootInit, BoundInv, Works
<1> QED
  BY <1>1, <1>2, <1>3, <1>4 DEF BootInv

(* An edit changes the file on disk, ...                                   *)
LEMMA EditKeeps == ASSUME BootInv, NEW d \in Edits, Edit(d) PROVE BootInv'
  BY DEF BootInv, Edit, ReadInv, MainInv, SocketInv, BoundInv, Pending, Files, main, child,
         image, sockets, failures

(* ... the log has nothing to do with the configuration, ...               *)
LEMMA OpenLogKeeps == ASSUME BootInv, OpenLog PROVE BootInv'
  BY DEF BootInv, OpenLog, ReadInv, MainInv, SocketInv, BoundInv, Pending, Works, child,
         image, sockets, failures

(* ... and what is loaded is what the file was read as.                    *)
LEMMA LoadConfigKeeps == ASSUME BootInv, LoadConfig PROVE BootInv'
<1>1. ReadInv'
  <2>1. PICK d \in Files : yaml = File(d)
    BY DEF BootInv, ReadInv
  <2>2. yaml.doc = d
    BY <2>1 DEF File
  <2> QED
    BY <2>1, <2>2 DEF BootInv, MainInv, ReadInv, LoadConfig, DataOf, child, image
<1>2. MainInv'
  BY DEF BootInv, MainInv, LoadConfig, child
<1>3. SocketInv' /\ BoundInv'
  BY DEF BootInv, MainInv, SocketInv, BoundInv, Pending, Works, LoadConfig, child, sockets, failures
<1> QED
  BY <1>1, <1>2, <1>3 DEF BootInv

(* The ports are read from a configuration that has some.                  *)
LEMMA ReadPortsKeeps == ASSUME BootInv, ReadPorts PROVE BootInv'
<1>1. cpc = "none" /\ todo = <<>>
  BY DEF BootInv, MainInv, SocketInv, ReadPorts
<1>2. ReadInv'
  BY <1>1 DEF BootInv, ReadInv, ReadPorts, child, image
<1>3. ports' \in Seq(Range(ports)') /\ (mpc' = "fork" => ports' # <<>>)
  <2>1. CASE ports' = ports
    BY <2>1 DEF BootInv, MainInv, ReadPorts
  <2> DEFINE list == getArray(config, "servers")
             port(k) == ValueAt(config, list[k], "port").n
  <2>2. CASE /\ IsArray(config, "servers") /\ list # <<>>
             /\ ports' = [k \in DOMAIN list |-> port(k)]
    <3>1. ValueAt(config, <<>>, "servers").n \in Nat
      <4>1. loaded \in Files /\ config = DataOf(loaded)
        BY DEF BootInv, ReadInv, ReadPorts
      <4>2. Child(<<>>, "servers") \in DOMAIN config
        BY <2>2 DEF IsArray, Has
      <4> QED
        BY <4>1, <4>2, Numbers DEF ValueAt
    <3>2. PICK n \in Nat : DOMAIN list = 1 .. n
      BY <3>1 DEF getArray
    <3>3. n # 0
      <4>1. CASE n = 0
        <5>1. DOMAIN list = {}
          BY <3>2, <4>1
        <5> QED
          BY <2>2, <5>1 DEF getArray
      <4> QED
        BY <4>1
    <3> HIDE DEF port, list
    <3>4. \A k \in 1 .. n : port(k) \in Range(ports)'
      BY <2>2, <3>2 DEF Range
    <3>5. ports' = [k \in 1 .. n |-> port(k)]
      BY <2>2, <3>2
    <3>6. ports' \in Seq(Range(ports)')
      BY <3>4, <3>5
    <3> QED
      BY <3>3, <3>5, <3>6
  <2> QED
    BY <2>1, <2>2 DEF ReadPorts
<1>4. MainInv'
  BY <1>1, <1>3 DEF BootInv, MainInv, ReadPorts, child
<1>5. SocketInv' /\ BoundInv'
  <2>1. todo' \in Seq(Range(ports)')
    BY <1>1 DEF ReadPorts, child, sockets
  <2> QED
    BY <1>1, <2>1 DEF BootInv, SocketInv, BoundInv, Works, ReadPorts, child, sockets
<1> QED
  BY <1>2, <1>4, <1>5 DEF BootInv

(* A child begins with the configuration and the ports of main.            *)
LEMMA ForkKeeps == ASSUME BootInv, Fork PROVE BootInv'
<1>1. cpc = "none" /\ ports # <<>> /\ ports \in Seq(Range(ports))
  BY DEF BootInv, MainInv, Fork
<1>2. DOMAIN fdTab = {} /\ DOMAIN fd_port = {} /\ watched = {}
  BY <1>1 DEF BootInv, SocketInv
<1>3. ReadInv'
  BY DEF BootInv, ReadInv, Fork
<1>4. MainInv'
  BY <1>1 DEF BootInv, MainInv, Works, Fork
<1>5. SocketInv'
  BY <1>1, <1>2 DEF SocketInv, Fork
<1>6. BoundInv'
  <2>1. Range(fd_port) = {}
    BY <1>2 DEF Range
  <2> QED
    BY <1>2, <2>1 DEF BoundInv, Pending, Fork
<1> QED
  BY <1>3, <1>4, <1>5, <1>6 DEF BootInv

(* A restart leaves nothing of the child.                                  *)
LEMMA TerminateKeeps == ASSUME BootInv, Terminate PROVE BootInv'
<1>1. ReadInv' /\ MainInv'
  BY DEF BootInv, ReadInv, MainInv, Works, Terminate
<1>2. SocketInv' /\ BoundInv'
  BY DEF BootInv, SocketInv, BoundInv, Works, Terminate, Range
<1> QED
  BY <1>1, <1>2 DEF BootInv

-----------------------------------------------------------------------------
(* The child.                                                              *)

(* What main and the file are does not depend on the child's set-up.       *)
LEMMA ChildOnly ==
    ASSUME BootInv, UNCHANGED <<yaml, main, image>>, cpc \in Works, cpc' \in {"dead"} \cup Works
    PROVE  ReadInv' /\ MainInv'
<1>1. ReadInv'
  BY DEF BootInv, ReadInv, Works, main, image
<1>2. MainInv'
  BY DEF BootInv, MainInv, Works, main
<1> QED
  BY <1>1, <1>2

(* A child that ends closes its sockets.                                   *)
LEMMA DieKeeps ==
    ASSUME BootInv, UNCHANGED <<yaml, main>>, cpc \in Works, Die
    PROVE  BootInv'
<1>1. ReadInv' /\ MainInv'
  BY ChildOnly DEF Die
<1>2. DOMAIN fdTab' = {} /\ watched' = {}
  BY DEF Die
<1>3. SocketInv' /\ BoundInv'
  BY <1>2 DEF BootInv, SocketInv, BoundInv, Works, Die, main
<1> QED
  BY <1>1, <1>3 DEF BootInv

(* A child that is prepared has no socket yet.                             *)
LEMMA PrepareKeeps == ASSUME BootInv, Prepare PROVE BootInv'
<1>1. CASE cpc' = "setup" /\ UNCHANGED <<image, sockets, failures>>
  <2>1. ReadInv' /\ MainInv'
    BY <1>1, ChildOnly DEF Prepare, Works
  <2>2. SocketInv' /\ BoundInv'
    BY <1>1 DEF BootInv, SocketInv, BoundInv, Pending, Works, Prepare, main, sockets, failures
  <2> QED
    BY <2>1, <2>2 DEF BootInv
<1>2. CASE Die
  BY <1>2, DieKeeps DEF Prepare, Works
<1> QED
  BY <1>1, <1>2 DEF Prepare

(* A new socket is recorded under its port, unless its number has one.     *)
LEMMA ListenKeeps == ASSUME BootInv, Listen PROVE BootInv'
<1>1. CASE Die
  BY <1>1, DieKeeps DEF Listen, Works
<1>2. ASSUME NEW f \in Fds, Lowest(f), cpc' = "add",
             fdTab' = With(fdTab, f, Head(todo) % Width),
             fd_port' = Recorded(f, Head(todo)),
             UNCHANGED <<image, todo, watched, failures>>
      PROVE  BootInv'
  <2>1. ReadInv' /\ MainInv'
    BY <1>2, ChildOnly DEF Listen, Works
  <2>2. /\ f \notin DOMAIN fdTab /\ watched = DOMAIN fdTab
        /\ todo # <<>> /\ todo \in Seq(Range(ports)) /\ ports' = ports
        /\ DOMAIN fdTab \subseteq DOMAIN fd_port \cap Fds
    BY <1>2 DEF Lowest, BootInv, SocketInv, Listen, main
  <2>3. DOMAIN fdTab' = DOMAIN fdTab \cup {f}
    BY <1>2 DEF With
  <2>4. DOMAIN fd_port' = DOMAIN fd_port \cup {f}
    BY <1>2 DEF Recorded, With
  <2>5. SocketInv'
    BY <1>2, <2>2, <2>3, <2>4 DEF SocketInv
  <2>6. BoundInv'
    <3> SUFFICES ASSUME ~addFailed
                 PROVE  /\ DOMAIN fd_port' = DOMAIN fdTab'
                        /\ \A g \in DOMAIN fdTab' : fdTab'[g] = fd_port'[g] % Width
                        /\ Range(fd_port)' \cup Range(Tail(todo)) = Range(ports)
      BY <1>2, <2>2 DEF BoundInv, Pending, failures
    <3>1. /\ DOMAIN fd_port = DOMAIN fdTab
          /\ \A g \in DOMAIN fdTab : fdTab[g] = fd_port[g] % Width
          /\ Range(fd_port) \cup Range(todo) = Range(ports)
      BY DEF BootInv, BoundInv, Pending, Works, Listen
    <3>2. fd_port' = With(fd_port, f, Head(todo))
      BY <1>2, <2>2, <3>1 DEF Recorded
    <3>3. \A g \in DOMAIN fdTab' : fdTab'[g] = fd_port'[g] % Width
      <4>1. fdTab'[f] = Head(todo) % Width /\ fd_port'[f] = Head(todo)
        BY <1>2, <3>2 DEF With
      <4>2. \A g \in DOMAIN fdTab : fdTab'[g] = fdTab[g] /\ fd_port'[g] = fd_port[g]
        BY <1>2, <2>2, <3>1, <3>2 DEF With
      <4> QED
        BY <2>3, <3>1, <4>1, <4>2
    <3>4. Range(fd_port)' = Range(fd_port) \cup {Head(todo)}
      BY <2>2, <3>1, <3>2 DEF With, Range
    <3>5. Range(todo) = {Head(todo)} \cup Range(Tail(todo))
      BY <2>2, HeadAndTail
    <3> QED
      BY <2>3, <2>4, <3>1, <3>3, <3>4, <3>5
  <2> QED
    BY <2>1, <2>5, <2>6 DEF BootInv
<1> QED
  BY <1>1, <1>2 DEF Listen

(* It is watched, or closed again and noted in addFailed.                  *)
LEMMA WatchKeeps == ASSUME BootInv, Watch PROVE BootInv'
<1>1. ReadInv' /\ MainInv'
  BY ChildOnly DEF Watch, Works
<1>2. PICK f : f \notin watched /\ DOMAIN fdTab = watched \cup {f}
  BY DEF BootInv, SocketInv, Watch
<1>3. NewFd = f
  BY <1>2 DEF NewFd
<1>4. /\ todo # <<>> /\ todo \in Seq(Range(ports)) /\ Tail(todo) \in Seq(Range(ports))
      /\ ports' = ports /\ todo' = Tail(todo) /\ cpc = "add" /\ cpc' = "setup"
      /\ fd_port' = fd_port
  BY HeadAndTail DEF BootInv, SocketInv, Watch, main
<1>5. CASE watched' = watched \cup {NewFd} /\ UNCHANGED <<fdTab, failures>>
  <2>1. SocketInv'
    BY <1>2, <1>3, <1>4, <1>5 DEF BootInv, SocketInv
  <2>2. BoundInv'
    BY <1>4, <1>5 DEF BootInv, BoundInv, Pending, Works, failures
  <2> QED
    BY <1>1, <2>1, <2>2 DEF BootInv
<1>6. CASE /\ addFailed' = TRUE /\ UNCHANGED watched
           /\ fdTab' = Restrict(fdTab, DOMAIN fdTab \ {NewFd})
  <2>1. DOMAIN fdTab' = watched
    BY <1>2, <1>3, <1>6 DEF Restrict
  <2>2. SocketInv'
    BY <1>2, <1>4, <1>6, <2>1 DEF BootInv, SocketInv
  <2>3. BoundInv'
    BY <1>6 DEF BoundInv
  <2> QED
    BY <1>1, <2>2, <2>3 DEF BootInv
<1> QED
  BY <1>5, <1>6 DEF Watch

(* A child begins to serve when no port is left.                           *)
LEMMA BeginKeeps == ASSUME BootInv, Begin PROVE BootInv'
<1>1. CASE Die
  BY <1>1, DieKeeps DEF Begin, Works
<1>2. CASE cpc' = "serve" /\ UNCHANGED <<image, sockets>>
  <2>1. ReadInv' /\ MainInv'
    BY <1>2, ChildOnly DEF Begin, Works
  <2>2. SocketInv' /\ BoundInv'
    BY <1>2 DEF BootInv, SocketInv, BoundInv, Pending, Works, Begin, main, sockets, failures
  <2> QED
    BY <2>1, <2>2 DEF BootInv
<1> QED
  BY <1>1, <1>2 DEF Begin

-----------------------------------------------------------------------------
(* The specification.                                                      *)

LEMMA StillKeeps ==
    ASSUME BootInv, UNCHANGED <<yaml, main, child, failures>>
    PROVE  BootInv'
  BY DEF BootInv, ReadInv, MainInv, SocketInv, BoundInv, Pending, main, child, image, sockets, failures

(* Every step keeps the invariant.                                         *)
LEMMA BootInvStep == BootInv /\ [Next]_vars => BootInv'
<1> SUFFICES ASSUME BootInv, [Next]_vars PROVE BootInv'
  OBVIOUS
<1>1. CASE MainStep
  BY <1>1, OpenLogKeeps, LoadConfigKeeps, ReadPortsKeeps, ForkKeeps DEF MainStep
<1>2. CASE Restart
  BY <1>2, TerminateKeeps DEF Restart
<1>3. CASE ChildStep
  BY <1>3, PrepareKeeps, ListenKeeps, WatchKeeps, BeginKeeps DEF ChildStep
<1>4. CASE Request \/ UNCHANGED bootVars
  BY <1>4, StillKeeps DEF Request, Serve, bootVars
<1>5. CASE Outside
  BY <1>4, <1>5, EditKeeps DEF Outside
<1>6. ASSUME NEW p \in Procs, Log(p) \/ InLog(p) PROVE BootInv'
  BY <1>4, <1>6 DEF Log, InLog
<1>7. CASE UNCHANGED vars
  BY <1>4, <1>7 DEF vars
<1> QED
  BY <1>1, <1>2, <1>3, <1>4, <1>5, <1>6, <1>7 DEF Next

(* So it holds throughout.                                                 *)
LEMMA BootInvHolds == Spec => []BootInv
<1>1. Init => BootInv
  BY BootInvInit DEF Init
<1> QED
  BY <1>1, BootInvStep, PTL DEF Spec

(* BootTypeOK: locations, and that a child watches the sockets it has open,*)
(* and no others, but for the moment between the opening and the watching, *)
(* whatever calls fail (SOK.cpp:56-70).                                    *)
THEOREM TypeCorrect == Spec => []BootTypeOK
<1>1. BootInv => BootTypeOK
  BY DEF BootInv, MainInv, SocketInv, BootTypeOK, Works
<1> QED
  BY <1>1, BootInvHolds, PTL

-----------------------------------------------------------------------------
(* Documents.                                                              *)

(* A key has one value.                                                    *)
LEMMA OneValue ==
    ASSUME NEW fs, Proper(fs), NEW key, NEW v \in Lookup(fs, key), NEW w \in Lookup(fs, key)
    PROVE  v = w
<1>1. PICK j \in DOMAIN fs : fs[j].key = key /\ v = fs[j].val
  BY DEF Lookup, Range
<1>2. PICK k \in DOMAIN fs : fs[k].key = key /\ w = fs[k].val
  BY DEF Lookup, Range
<1>3. j = k
  BY <1>1, <1>2 DEF Proper, Distinct
<1> QED
  BY <1>1, <1>2, <1>3

(* The ports of a complete document have 16 bits.                          *)
LEMMA PortsFit ==
    ASSUME NEW d, Complete(d), NEW port \in PortsOf(d)
    PROVE  port \in 1 .. Width - 1
<1>1. PICK fs \in Range(d.sites) : \E v \in Lookup(fs, "port") : port = v.n
  BY DEF PortsOf, PortOf
<1>2. PICK v \in Lookup(fs, "port") : port = v.n
  BY <1>1
<1>3. PICK w \in Lookup(fs, "port") : w.n \in 1 .. Width - 1
  BY DEF Complete
<1>4. v = w
  BY OneValue DEF Complete, Regular
<1> QED
  BY <1>2, <1>3, <1>4

(* A port has 16 bits.                                                     *)
LEMMA WidthIsNat == Width \in Nat
  BY DEF Width

(* htons leaves a port that fits as it is.                                 *)
LEMMA Fits ==
    ASSUME NEW n \in 0 .. Width - 1
    PROVE  n % Width = n
<1>1. n \in Nat /\ n < Width
  BY WidthIsNat
<1>2. ASSUME NEW i \in Nat, NEW w \in Nat, i < w PROVE i % w = i
  BY <1>2
<1> QED
  BY WidthIsNat, <1>1, <1>2

(* ListensUnlessEdited: a child that serves listens on the ports of its    *)
(* configuration and no others, unless an edit has changed the ports since *)
(* main read them or EPOLL_CTL_ADD has failed, and whatever numbers the    *)
(* sockets get.                                                            *)
THEOREM Listens == Spec => []ListensUnlessEdited
<1>1. BootInv => ListensUnlessEdited
  <2> SUFFICES ASSUME BootInv, cpc = "serve", ~addFailed, Complete(cdoc),
                      PortsOf(cdoc) = Range(ports)
               PROVE  {fdTab[f] : f \in watched} = PortsOf(cdoc)
    BY DEF ListensUnlessEdited
  <2>1. watched = DOMAIN fdTab /\ todo = <<>>
    BY DEF BootInv, SocketInv
  <2>2. /\ DOMAIN fd_port = DOMAIN fdTab
        /\ \A f \in DOMAIN fdTab : fdTab[f] = fd_port[f] % Width
        /\ Range(fd_port) \cup Range(todo) = Range(ports)
    BY DEF BootInv, BoundInv, Pending, Works
  <2>3. Range(fd_port) = PortsOf(cdoc)
    <3>1. Range(todo) = {}
      BY <2>1 DEF Range
    <3> QED
      BY <2>2, <3>1
  <2>4. ASSUME NEW f \in DOMAIN fdTab PROVE fdTab[f] = fd_port[f]
    <3>1. fd_port[f] \in 1 .. Width - 1
      BY <2>2, <2>3, PortsFit DEF Range
    <3> QED
      BY <2>2, <3>1, Fits
  <2> QED
    BY <2>1, <2>2, <2>3, <2>4 DEF Range
<1> QED
  BY <1>1, BootInvHolds, PTL

-----------------------------------------------------------------------------
(* From the document to the answer.                                        *)

(* The files are documents, or not there.                                  *)
LEMMA FilesAre == Files \ {Missing} \subseteq Documents
  BY DocsAssumption DEF Files

(* A document that the reader is good for is read as what it means.        *)
LEMMA FileRight ==
    ASSUME NEW d \in Files \ {Missing}, Regular(d)
    PROVE  File(d).read.failed = "no" /\ DataOf(d) = Meaning(d)
<1>1. File(d).read = parseFile(Render(d))
  BY DEF File
<1>2. d \in Documents
  BY FilesAre
<1> QED
  BY <1>1, <1>2, ReadRight DEF DataOf

(* The paths of the nodes.                                                 *)
LEMMA PathsAre ==
    ASSUME NEW a, NEW b, NEW c
    PROVE  /\ Child(<<>>, a) = << <<a, 0>> >>
           /\ Child(<<b>>, a) = <<b, <<a, 0>> >>
           /\ Child(<<b, c>>, a) = <<b, c, <<a, 0>> >>
<1> DEFINE e == <<a, 0>>
           S == {b, c, e}
<1> HIDE DEF e
<1>1. Append(<<>>, e) = <<e>>
  OBVIOUS
<1>2. Append(<<b>>, e) = <<b, e>>
  <2>1. <<b>> \in Seq(S) /\ <<b, e>> \in Seq(S)
    OBVIOUS
  <2>2. /\ Append(<<b>>, e) \in Seq(S) /\ Len(Append(<<b>>, e)) = 2
        /\ Append(<<b>>, e)[1] = b /\ Append(<<b>>, e)[2] = e
    BY <2>1
  <2>3. \A i \in 1 .. 2 : Append(<<b>>, e)[i] = <<b, e>>[i]
    BY <2>2
  <2> QED
    BY <2>1, <2>2, <2>3, SeqEqual
<1>3. Append(<<b, c>>, e) = <<b, c, e>>
  <2>1. <<b, c>> \in Seq(S) /\ <<b, c, e>> \in Seq(S)
    OBVIOUS
  <2>2. /\ Append(<<b, c>>, e) \in Seq(S) /\ Len(Append(<<b, c>>, e)) = 3
        /\ Append(<<b, c>>, e)[1] = b /\ Append(<<b, c>>, e)[2] = c
        /\ Append(<<b, c>>, e)[3] = e
    BY <2>1
  <2>3. \A i \in 1 .. 3 : Append(<<b, c>>, e)[i] = <<b, c, e>>[i]
    BY <2>2
  <2> QED
    BY <2>1, <2>2, <2>3, SeqEqual
<1> QED
  BY <1>1, <1>2, <1>3 DEF Child, e

(* A path that has one value among the nodes has it in the tree.           *)
LEMMA OneNode ==
    ASSUME NEW N, NEW q, NEW v, <<q, v>> \in N, \A x \in N : x[1] = q => x[2] = v
    PROVE  /\ q \in {x[1] : x \in N}
           /\ (CHOOSE x \in N : x[1] = q)[2] = v
<1>1. <<q, v>>[1] = q
  OBVIOUS
<1>2. \E x \in N : x[1] = q
  BY <1>1
<1>3. (CHOOSE x \in N : x[1] = q) \in N /\ (CHOOSE x \in N : x[1] = q)[1] = q
  BY <1>2
<1> QED
  BY <1>1, <1>3

(* A node of fields is one of a field, or of one below it.                 *)
LEMMA FieldNode ==
    ASSUME NEW p, NEW fs, NEW x \in FieldNodes(p, fs)
    PROVE  \E f \in Range(fs) :
               \/ x = <<Child(p, f.key), f.val>>
               \/ \E g \in Range(f.sub) : x = <<Child(Child(p, f.key), g.key), g.val>>
  BY DEF FieldNodes

(* The nodes of a document, as Meaning has them.                           *)
MeantNodes(d) ==
    {<< <<>>, Map >>}
    \cup FieldNodes(<<>>, d.before \o d.after)
    \cup (IF d.sites = <<>> THEN {} ELSE {<<Child(<<>>, "servers"), List(Len(d.sites))>>})
    \cup UNION { {<<SiteAt(k), Map>>} \cup FieldNodes(SiteAt(k), d.sites[k]) : k \in DOMAIN d.sites }

(* What a document means has these nodes and no others.                    *)
LEMMA MeaningOf ==
    ASSUME NEW d
    PROVE  Meaning(d) = [p \in {x[1] : x \in MeantNodes(d)} |-> (CHOOSE x \in MeantNodes(d) : x[1] = p)[2]]
  BY DEF Meaning, MeantNodes, SiteAt

(* Of which kinds they are.                                                *)
LEMMA NodeKinds ==
    ASSUME NEW d, NEW x \in MeantNodes(d)
    PROVE  \/ x = << <<>>, Map >>
           \/ \E f \in Range(d.before \o d.after) :
                \/ x = << << <<f.key, 0>> >>, f.val >>
                \/ \E b : x[1] = << <<f.key, 0>>, <<b, 0>> >>
           \/ d.sites # <<>> /\ x = << << <<"servers", 0>> >>, List(Len(d.sites)) >>
           \/ \E k \in DOMAIN d.sites :
                \/ x[1] = << <<"servers", k>> >>
                \/ \E f \in Range(d.sites[k]) :
                    \/ x = << << <<"servers", k>>, <<f.key, 0>> >>, f.val >>
                    \/ \E b : x[1] = << <<"servers", k>>, <<f.key, 0>>, <<b, 0>> >>
<1>1. CASE x \in FieldNodes(<<>>, d.before \o d.after)
  <2>1. PICK f \in Range(d.before \o d.after) :
               \/ x = <<Child(<<>>, f.key), f.val>>
               \/ \E g \in Range(f.sub) : x = <<Child(Child(<<>>, f.key), g.key), g.val>>
    BY <1>1, FieldNode
  <2>2. CASE x = <<Child(<<>>, f.key), f.val>>
    BY <2>2, PathsAre
  <2>3. ASSUME NEW g \in Range(f.sub), x = <<Child(Child(<<>>, f.key), g.key), g.val>>
        PROVE  x[1] = << <<f.key, 0>>, <<g.key, 0>> >>
    BY <2>3, PathsAre
  <2> QED
    BY <2>1, <2>2, <2>3
<1>2. CASE d.sites # <<>> /\ x = <<Child(<<>>, "servers"), List(Len(d.sites))>>
  BY <1>2, PathsAre
<1>3. ASSUME NEW k \in DOMAIN d.sites, x = <<SiteAt(k), Map>>
      PROVE  x[1] = << <<"servers", k>> >>
  BY <1>3 DEF SiteAt
<1>4. ASSUME NEW k \in DOMAIN d.sites, x \in FieldNodes(SiteAt(k), d.sites[k])
      PROVE  \E f \in Range(d.sites[k]) :
                \/ x = << << <<"servers", k>>, <<f.key, 0>> >>, f.val >>
                \/ \E b : x[1] = << <<"servers", k>>, <<f.key, 0>>, <<b, 0>> >>
  <2>1. PICK f \in Range(d.sites[k]) :
               \/ x = <<Child(SiteAt(k), f.key), f.val>>
               \/ \E g \in Range(f.sub) : x = <<Child(Child(SiteAt(k), f.key), g.key), g.val>>
    BY <1>4, FieldNode
  <2>2. Child(SiteAt(k), f.key) = << <<"servers", k>>, <<f.key, 0>> >>
    BY PathsAre DEF SiteAt
  <2>3. ASSUME NEW g \in Range(f.sub), x = <<Child(Child(SiteAt(k), f.key), g.key), g.val>>
        PROVE  x[1] = << <<"servers", k>>, <<f.key, 0>>, <<g.key, 0>> >>
    BY <2>2, <2>3, PathsAre
  <2> QED
    BY <2>1, <2>2, <2>3
<1> QED
  BY <1>1, <1>2, <1>3, <1>4 DEF MeantNodes

(* Tuples of different lengths differ.                                     *)
LEMMA Lengths ==
    /\ \A a, b : <<a>> # <<>> /\ <<a, b>> # <<>> /\ <<a, b>> # <<a>>
    /\ \A a, b, c : <<a>> # <<b, c>>
    /\ \A a, b, c, d : <<a>> # <<b, c, d>>
    /\ \A a, b, c, d, e : <<a, b>> # <<c, d, e>>
  OBVIOUS

(* A field of a site is where it is looked for, and nothing else.          *)
LEMMA SiteValue ==
    ASSUME NEW d, Regular(d), d.sites \in Seq(Range(d.sites)),
           NEW k \in DOMAIN d.sites, NEW key, NEW v \in Lookup(d.sites[k], key)
    PROVE  /\ Child(SiteAt(k), key) \in DOMAIN Meaning(d)
           /\ ValueAt(Meaning(d), SiteAt(k), key) = v
<1> DEFINE q == << <<"servers", k>>, <<key, 0>> >>
<1>1. Child(SiteAt(k), key) = q
  BY PathsAre DEF SiteAt
<1>2. PICK f \in Range(d.sites[k]) : f.key = key /\ f.val = v
  BY DEF Lookup
<1>3. k \in Nat \ {0}
  OBVIOUS
<1>4. <<q, v>> \in MeantNodes(d)
  <2>1. <<Child(SiteAt(k), f.key), f.val>> \in FieldNodes(SiteAt(k), d.sites[k])
    BY DEF FieldNodes
  <2>2. <<q, v>> \in FieldNodes(SiteAt(k), d.sites[k])
    BY <1>1, <1>2, <2>1
  <2> DEFINE part(j) == {<<SiteAt(j), Map>>} \cup FieldNodes(SiteAt(j), d.sites[j])
  <2>3. <<q, v>> \in part(k)
    BY <2>2
  <2> HIDE DEF q, part
  <2>4. <<q, v>> \in UNION {part(j) : j \in DOMAIN d.sites}
    BY <2>3
  <2> QED
    BY <2>4 DEF MeantNodes, part
<1>5. ASSUME NEW x \in MeantNodes(d), x[1] = q PROVE x[2] = v
  <2>1. ASSUME NEW a, NEW b, x[1] = << <<a, 0>>, <<b, 0>> >> PROVE FALSE
    <3>1. x[1][1] = <<a, 0>> /\ x[1][1] = <<"servers", k>>
      BY <1>5, <2>1
    <3>2. k = 0
      BY <3>1
    <3> QED
      BY <1>3, <3>2
  <2>0. PICK m \in DOMAIN d.sites : \E g \in Range(d.sites[m]) :
               x = << << <<"servers", m>>, <<g.key, 0>> >>, g.val >>
    <3>1. x[1] # <<>> /\ (\A a : x[1] # <<a>>) /\ \A a, b, c : x[1] # <<a, b, c>>
      BY <1>5, Lengths
    <3> QED
      BY <2>1, <3>1, NodeKinds
  <2>2. PICK g \in Range(d.sites[m]) : x = << << <<"servers", m>>, <<g.key, 0>> >>, g.val >>
    BY <2>0
  <2>3. m = k /\ g.key = key
    BY <1>5, <2>2
  <2>4. Proper(d.sites[k])
    BY DEF Regular, Range
  <2>5. g.val \in Lookup(d.sites[k], key)
    BY <2>2, <2>3 DEF Lookup
  <2>6. g.val = v
    BY <2>4, <2>5, OneValue
  <2> QED
    BY <2>2, <2>6
<1> HIDE DEF q
<1>6. /\ q \in {x[1] : x \in MeantNodes(d)}
      /\ (CHOOSE x \in MeantNodes(d) : x[1] = q)[2] = v
  BY <1>4, <1>5, OneNode
<1> QED
  BY <1>1, <1>6, MeaningOf DEF ValueAt

(* So is the list of sites.                                                *)
LEMMA SiteList ==
    ASSUME NEW d, Regular(d), d.sites # <<>>, d.sites \in Seq(Range(d.sites))
    PROVE  getArray(Meaning(d), "servers") = [k \in DOMAIN d.sites |-> SiteAt(k)]
<1> DEFINE q == << <<"servers", 0>> >>
           v == List(Len(d.sites))
<1>1. Child(<<>>, "servers") = q
  BY PathsAre
<1>2. <<q, v>> \in MeantNodes(d)
  BY <1>1 DEF MeantNodes
<1>3. ASSUME NEW x \in MeantNodes(d), x[1] = q PROVE x[2] = v
  <2>1. ASSUME NEW f \in Range(d.before \o d.after), x[1] = << <<f.key, 0>> >> PROVE FALSE
    BY <1>3, <2>1 DEF Regular
  <2>2. ASSUME NEW k \in DOMAIN d.sites, x[1] = << <<"servers", k>> >> PROVE FALSE
    BY <1>3, <2>2
  <2>3. x[1] # <<>> /\ (\A a, b : x[1] # <<a, b>>) /\ \A a, b, c : x[1] # <<a, b, c>>
    BY <1>3, Lengths
  <2> QED
    BY <2>1, <2>2, <2>3, NodeKinds
<1> HIDE DEF q, v
<1>4. /\ q \in {x[1] : x \in MeantNodes(d)}
      /\ (CHOOSE x \in MeantNodes(d) : x[1] = q)[2] = v
  BY <1>2, <1>3, OneNode
<1>5. ValueAt(Meaning(d), <<>>, "servers") = v
  BY <1>1, <1>4, MeaningOf DEF ValueAt
<1>6. v.n = Len(d.sites)
  BY DEF v, List, Node
<1> QED
  BY <1>5, <1>6 DEF getArray, SiteAt

(* The port and the root of a site, in the document and in its tree.       *)
LEMMA SiteFields ==
    ASSUME NEW d, Complete(d), d.sites \in Seq(Range(d.sites)), NEW k \in DOMAIN d.sites
    PROVE  /\ Has(Meaning(d), SiteAt(k), "port", "int")
           /\ PortOf(d.sites[k]) = {ValueAt(Meaning(d), SiteAt(k), "port").n}
           /\ Lookup(d.sites[k], "root") = {ValueAt(Meaning(d), SiteAt(k), "root")}
<1> DEFINE fs == d.sites[k]
<1>1. Regular(d) /\ fs \in Range(d.sites)
  BY DEF Complete, Range
<1>2. Proper(fs)
  BY <1>1 DEF Regular
<1>3. PICK v \in Lookup(fs, "port") : v.t = "int"
  BY <1>1 DEF Complete
<1>4. PICK w \in Lookup(fs, "root") : TRUE
  BY <1>1 DEF Complete
<1> HIDE DEF fs
<1>5. Lookup(fs, "port") = {v} /\ Lookup(fs, "root") = {w}
  BY <1>2, OneValue
<1>6. /\ Child(SiteAt(k), "port") \in DOMAIN Meaning(d)
      /\ ValueAt(Meaning(d), SiteAt(k), "port") = v
      /\ ValueAt(Meaning(d), SiteAt(k), "root") = w
  BY <1>1, <1>3, <1>4, SiteValue DEF fs
<1>7. Has(Meaning(d), SiteAt(k), "port", "int")
  BY <1>3, <1>6 DEF Has, ValueAt
<1>8. PortOf(fs) = {v.n}
  BY <1>5 DEF PortOf
<1> QED
  BY <1>5, <1>6, <1>7, <1>8 DEF fs

(* The search finds the first site with the port.                          *)
LEMMA RootRight ==
    ASSUME NEW d, Complete(d), d.sites \in Seq(Range(d.sites)), cconfig = Meaning(d),
           NEW port \in PortsOf(d), NEW root, SiteInfo(port, root)
    PROVE  root = RootFor(d, port)
<1> DEFINE hits == {k \in DOMAIN d.sites : port \in PortOf(d.sites[k])}
           list == getArray(cconfig, "servers")
           match(k) == ValueAt(cconfig, list[k], "port").n = port
<1>1. list = [k \in DOMAIN d.sites |-> SiteAt(k)]
  BY SiteList DEF Complete
<1>2. \A k \in DOMAIN d.sites :
        (match(k) <=> k \in hits) /\ Has(cconfig, list[k], "port", "int")
  <2> SUFFICES ASSUME NEW k \in DOMAIN d.sites
               PROVE  (match(k) <=> k \in hits) /\ Has(cconfig, list[k], "port", "int")
    OBVIOUS
  <2>1. list[k] = SiteAt(k)
    BY <1>1
  <2>2. PortOf(d.sites[k]) = {ValueAt(cconfig, list[k], "port").n}
    BY <2>1, SiteFields
  <2> QED
    BY <2>1, <2>2, SiteFields
<1>3. CASE \E k \in DOMAIN list :
            /\ match(k) /\ \A j \in 1 .. k - 1 : ~match(j)
            /\ root = ValueAt(cconfig, list[k], "root").s
  <2>1. PICK k \in DOMAIN d.sites :
            /\ match(k) /\ \A j \in 1 .. k - 1 : ~match(j)
            /\ root = ValueAt(cconfig, SiteAt(k), "root").s
    BY <1>1, <1>3
  <2>2. k \in hits /\ hits \subseteq DOMAIN d.sites
    BY <1>2, <2>1
  <2>3. DOMAIN d.sites = 1 .. Len(d.sites) /\ Len(d.sites) \in Nat
    OBVIOUS
  <2>4. ASSUME NEW j \in hits PROVE k <= j
    <3>1. match(j) /\ j \in 1 .. Len(d.sites) /\ k \in 1 .. Len(d.sites)
      BY <1>2, <2>2, <2>3
    <3>2. j \notin 1 .. k - 1
      BY <2>1, <3>1
    <3> HIDE DEF match, hits, list
    <3> QED
      BY <3>1, <3>2
  <2>5. Min(hits) = k
    <3> HIDE DEF hits
    <3>1. \A j \in hits : (\A i \in hits : j <= i) => j = k
      BY <2>2, <2>3, <2>4
    <3> QED
      BY <2>2, <2>4, <3>1 DEF Min
  <2>6. (CHOOSE v \in Lookup(d.sites[k], "root") : TRUE) = ValueAt(cconfig, SiteAt(k), "root")
    BY SiteFields
  <2>7. RootFor(d, port) = (CHOOSE v \in Lookup(d.sites[k], "root") : TRUE).s
    BY <2>2, <2>5 DEF RootFor
  <2> QED
    BY <2>1, <2>6, <2>7
<1>4. CASE root = "" /\ \A k \in DOMAIN list : ~match(k)
  <2>1. hits = {}
    BY <1>1, <1>2, <1>4
  <2>2. hits # {}
    BY DEF PortsOf, Range
  <2> QED
    BY <2>1, <2>2
<1> QED
  <2>1. \/ \E k \in DOMAIN list :
            /\ Has(cconfig, list[k], "port", "int") /\ match(k)
            /\ \A j \in 1 .. k - 1 : Has(cconfig, list[j], "port", "int")
                    /\ ~(Has(cconfig, list[j], "port", "int") /\ match(j))
            /\ root = ValueAt(cconfig, list[k], "root").s
        \/ root = "" /\ \A k \in DOMAIN list :
                Has(cconfig, list[k], "port", "int")
                    /\ ~(Has(cconfig, list[k], "port", "int") /\ match(k))
    BY DEF SiteInfo
  <2> HIDE DEF match, list
  <2> QED
    BY <1>3, <1>4, <2>1

(* OwnSiteUnlessStrayed: a request at a port of the child's configuration  *)
(* is answered from the site that it has there: the reader, the registry   *)
(* and the search agree, for any documents, any edits, numbers of          *)
(* descriptors, failures and restarts.  It is not said of a port that has  *)
(* lost its site, which the child listens at still (SOK.cpp:148).          *)
THEOREM OwnSite == Spec => []OwnSiteUnlessStrayed
<1>1. Init => OwnSiteUnlessStrayed
  BY DEF Init, BootInit, OwnSiteUnlessStrayed
<1>2. BootInv /\ OwnSiteUnlessStrayed /\ [Next]_vars => OwnSiteUnlessStrayed'
  <2> SUFFICES ASSUME BootInv, OwnSiteUnlessStrayed, [Next]_vars PROVE OwnSiteUnlessStrayed'
    OBVIOUS
  <2>1. CASE UNCHANGED answer
    BY <2>1 DEF OwnSiteUnlessStrayed
  <2>2. ASSUME NEW f \in watched, NEW root, Serve(f, root) PROVE OwnSiteUnlessStrayed'
    <3>1. /\ answer'.port = fdTab[f] /\ answer'.root = root /\ answer'.doc = cdoc
          /\ answer'.strayed = (addFailed \/ fd_port[f] \notin 0 .. Width - 1)
      BY <2>2 DEF Serve
    <3> SUFFICES ASSUME ~addFailed, fd_port[f] \in 0 .. Width - 1, Complete(cdoc),
                        fdTab[f] \in PortsOf(cdoc)
                 PROVE  root = RootFor(cdoc, fdTab[f])
      BY <3>1 DEF OwnSiteUnlessStrayed
    <3>2. cpc = "serve" /\ SiteInfo(fd_port[f], root)
      BY <2>2 DEF Serve, Working
    <3>3. f \in DOMAIN fdTab /\ fdTab[f] = fd_port[f] % Width
      BY <3>2 DEF BootInv, SocketInv, BoundInv, Works
    <3>4. fdTab[f] = fd_port[f]
      BY <3>3, Fits
    <3>5. cdoc \in Files \ {Missing} /\ cconfig = Meaning(cdoc)
      <4>1. cdoc \in Files \ {Missing} /\ cconfig = DataOf(cdoc) /\ Regular(cdoc)
        BY <3>2 DEF BootInv, ReadInv, Complete
      <4> QED
        BY <4>1, FileRight
    <3>6. cdoc.sites \in Seq(Range(cdoc.sites))
      <4>1. cdoc.sites \in Seq(Seq(Fields) \ {<<>>})
        BY <3>5, FilesAre DEF Documents
      <4> QED
        BY <4>1, SeqOfItself
    <3> QED
      BY <3>2, <3>4, <3>5, <3>6, RootRight
  <2>3. CASE Request
    BY <2>2, <2>3 DEF Request
  <2>4. CASE MainStep \/ Restart \/ ChildStep \/ Outside
    BY <2>1, <2>4 DEF MainStep, OpenLog, LoadConfig, ReadPorts, Fork, Restart, Terminate,
       ChildStep, Prepare, Listen, Watch, Begin, Outside, Edit, bootVars
  <2>5. CASE (\E p \in Procs : Log(p) \/ InLog(p)) \/ UNCHANGED vars
    BY <2>1, <2>5 DEF Log, InLog, bootVars, vars
  <2> QED
    BY <2>3, <2>4, <2>5 DEF Next
<1> QED
  BY <1>1, <1>2, BootInvHolds, PTL DEF Spec

(* LoadedRight: what is loaded is what the document means, for every       *)
(* document the reader is good for, and any edits and restarts; main never *)
(* aborts on one while it reads (yaml.hpp:93-203).  A document with a value*)
(* the reader converts or refuses is not one of them (yaml.hpp:190-198).   *)
THEOREM ConfigRight == Spec => []LoadedRight
<1>1. Init => LoadedRight
  BY DEF Init, BootInit, LoadedRight
<1>2. BootInv /\ LoadedRight /\ [Next]_vars => LoadedRight'
  <2> SUFFICES ASSUME BootInv, LoadedRight, [Next]_vars PROVE LoadedRight'
    OBVIOUS
  <2>1. CASE UNCHANGED <<config, loaded>>
    BY <2>1 DEF LoadedRight
  <2>2. CASE LoadConfig
    <3>1. PICK d \in Files : yaml = File(d)
      BY DEF BootInv, ReadInv
    <3>2. yaml.doc = d /\ yaml.read = File(d).read
      BY <3>1 DEF File
    <3>3. loaded' = d /\ (yaml.read.failed = "no" => config' = DataOf(d))
      BY <2>2, <3>2 DEF LoadConfig, DataOf
    <3> SUFFICES ASSUME d # Missing, Regular(d) PROVE config' = Meaning(d)
      BY <3>3 DEF LoadedRight
    <3>4. File(d).read.failed = "no" /\ DataOf(d) = Meaning(d)
      BY FileRight
    <3> QED
      BY <3>2, <3>3, <3>4
  <2>3. CASE MainStep
    BY <2>1, <2>2, <2>3 DEF MainStep, OpenLog, ReadPorts, Fork, main
  <2>4. CASE Restart \/ ChildStep \/ Request \/ Outside
    BY <2>1, <2>4 DEF Restart, Terminate, ChildStep, Prepare, Listen, Watch, Begin, Request, Serve,
       Outside, Edit, main, bootVars
  <2>5. CASE (\E p \in Procs : Log(p) \/ InLog(p)) \/ UNCHANGED vars
    BY <2>1, <2>5 DEF Log, InLog, main, bootVars, vars
  <2> QED
    BY <2>3, <2>4, <2>5 DEF Next
<1> QED
  BY <1>1, <1>2, BootInvHolds, PTL DEF Spec
=============================================================================
