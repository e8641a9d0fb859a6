------------------------------ MODULE Startup -------------------------------
(***************************************************************************)
(* From config.yaml to an answer: main reads the file and forks; a child   *)
(* opens its listening sockets, records which port each descriptor is for, *)
(* and answers a request from the site that its copy of the configuration  *)
(* gives for the recorded port; a restart kills the children, reads the    *)
(* file again, and forks new ones.  All children of a generation start     *)
(* alike; one stands for them.  Anyone may edit the file.                  *)
(***************************************************************************)
EXTENDS Yaml

CONSTANTS
    Docs,           \* documents the file starts as
    Edits,          \* documents it is changed to
    Fds,            \* bound: descriptor numbers for listening sockets
    MaxFaults,      \* bound: system calls that fail
    MaxRestarts,    \* bound: restarts
    Missing         \* there is no file

VARIABLES
    yaml,               \* config.yaml: the document, and what the reader makes of it
    mpc, restarts,      \* main: location
    config, loaded,     \* the Config of main; the document it was read from
    ports,              \* main's list, read once
    cpc, cconfig, cdoc, \* child: location; its copy of config and of loaded
    todo, fdTab,        \* ports still to listen on; open descriptor -> port bound
    fd_port, watched,   \* FdPortRegistry; descriptors epoll watches
    faults, addFailed,  \* calls that failed; history: whether EPOLL_CTL_ADD did
                        \* in this generation
    answer              \* history: the last answer given

main     == <<mpc, restarts, config, loaded, ports>>
image    == <<cconfig, cdoc>>
sockets  == <<todo, fdTab, fd_port, watched>>
child    == <<cpc, image, sockets>>
failures == <<faults, addFailed>>
bootVars == <<yaml, main, child, failures, answer>>

Width == 65536      \* htons takes 16 bits of a port

Empty == Start.data

(* A file that cannot be opened is an empty configuration.                 *)
File(d) == [doc |-> d, read |-> IF d = Missing THEN Start ELSE parseFile(Render(d))]

(* The file is a document, or not there.                                   *)
ASSUME DocsAssumption == (Docs \cup Edits) \ {Missing} \subseteq Documents

BootInit ==
    /\ yaml \in {File(d) : d \in Docs}
    /\ mpc = "start" /\ restarts = 0
    /\ config = Empty /\ loaded = Missing /\ ports = <<>>
    /\ cpc = "none" /\ cconfig = Empty /\ cdoc = Missing
    /\ todo = <<>> /\ fdTab = <<>> /\ fd_port = <<>> /\ watched = {}
    /\ faults = 0 /\ addFailed = FALSE
    /\ answer = <<>>

-----------------------------------------------------------------------------
(* Main.                                                                   *)

(* Someone edits the file (external).  Only what it holds at the next load *)
(* matters; it is edited while main waits for a command.                   *)
Edit(d) ==
    /\ mpc = "prompt" /\ restarts < MaxRestarts
    /\ yaml' = File(d) /\ d # yaml.doc
    /\ UNCHANGED <<main, child, failures, answer>>

(* set_logfile, at the start and in a restart.                             *)
OpenLog ==
    /\ mpc = "start"
    /\ mpc' = "load"
    /\ UNCHANGED <<yaml, restarts, config, loaded, ports, child, failures, answer>>

(* Mutant: a restart ends with the reading of the file.                    *)
LoadOnly ==
    /\ mpc = "load"
    /\ config' = yaml.read.data /\ mpc' = IF restarts = 0 THEN "ports" ELSE "prompt"
    /\ loaded' = yaml.doc
    /\ UNCHANGED <<yaml, restarts, ports, child, failures, answer>>

(* Config::load: what the reader throws nobody catches, and main aborts.   *)
LoadConfig ==
    /\ mpc = "load"
    /\ IF yaml.read.failed = "no"
       THEN config' = yaml.read.data /\ mpc' = IF restarts = 0 THEN "ports" ELSE "fork"
       ELSE mpc' = "aborted" /\ UNCHANGED config
    /\ loaded' = yaml.doc
    /\ UNCHANGED <<yaml, restarts, ports, child, failures, answer>>

(* The ports and the number of children.  Without a port, ports[0] ends    *)
(* main as surely as an exception does.                                    *)
ReadPorts ==
    /\ mpc = "ports"
    /\ IF /\ IsArray(config, "servers")
          /\ getArray(config, "servers") # <<>>
          /\ \A k \in DOMAIN getArray(config, "servers") :
                Has(config, getArray(config, "servers")[k], "port", "int")
          /\ Has(config, <<>>, "cpu_cores", "int")
       THEN /\ ports' = [k \in DOMAIN getArray(config, "servers") |->
                            ValueAt(config, getArray(config, "servers")[k], "port").n]
            /\ mpc' = "fork"
       ELSE mpc' = "aborted" /\ UNCHANGED ports
    /\ UNCHANGED <<yaml, restarts, config, loaded, child, failures, answer>>

(* Mutant: the child starts at the second port.                            *)
ForkNext ==
    /\ mpc = "fork"
    /\ mpc' = "prompt"
    /\ cpc' = "start" /\ cconfig' = config /\ cdoc' = loaded
    /\ todo' = Tail(ports)
    /\ UNCHANGED <<yaml, restarts, config, loaded, ports, fdTab, fd_port, watched, failures, answer>>

(* createChildProcess: the child begins with a copy of the process, its    *)
(* empty registry included, and with main's ports.                         *)
Fork ==
    /\ mpc = "fork"
    /\ mpc' = "prompt"
    /\ cpc' = "start" /\ cconfig' = config /\ cdoc' = loaded
    /\ todo' = ports
    /\ UNCHANGED <<yaml, restarts, config, loaded, ports, fdTab, fd_port, watched, failures, answer>>

(* restart: terminateAll comes first.                                      *)
Terminate ==
    /\ mpc = "prompt" /\ restarts < MaxRestarts
    /\ restarts' = restarts + 1
    /\ mpc' = "start"
    /\ cpc' = "none" /\ cconfig' = Empty /\ cdoc' = Missing
    /\ todo' = <<>> /\ fdTab' = <<>> /\ fd_port' = <<>> /\ watched' = {}
    /\ addFailed' = FALSE
    /\ UNCHANGED <<yaml, config, loaded, ports, faults, answer>>

-----------------------------------------------------------------------------
(* The child: processWorker.                                               *)

Fault == faults < MaxFaults /\ faults' = faults + 1

(* An exception ends the child; main is not told to start another.         *)
Die ==
    /\ cpc' = "dead"
    /\ fdTab' = <<>> /\ watched' = {}
    /\ UNCHANGED <<image, todo, fd_port>>

(* The epoll instance, and the TLS context with certificate and key.       *)
Prepare ==
    /\ cpc = "start"
    /\ \/ cpc' = "setup" /\ UNCHANGED <<image, sockets, failures>>
       \/ Fault /\ Die /\ UNCHANGED addFailed
    /\ UNCHANGED <<yaml, main, answer>>

(* The number of a new descriptor (external).                              *)
Lowest(f) == f \notin DOMAIN fdTab /\ \A g \in Fds \ DOMAIN fdTab : f <= g

With(m, f, port) == [g \in DOMAIN m \cup {f} |-> IF g = f THEN port ELSE m[g]]

(* addFdPort leaves a number alone that is recorded already.               *)
Recorded(f, port) == IF f \in DOMAIN fd_port THEN fd_port ELSE With(fd_port, f, port)

(* setup_server and addFdPort.                                             *)
Listen ==
    /\ cpc = "setup" /\ todo # <<>>
    /\ \/ /\ \E f \in Fds :
                /\ Lowest(f)
                /\ fdTab' = With(fdTab, f, Head(todo) % Width)
                /\ fd_port' = Recorded(f, Head(todo))
          /\ cpc' = "add"
          /\ UNCHANGED <<image, todo, watched, failures>>
       \/ Fault /\ Die /\ UNCHANGED addFailed
    /\ UNCHANGED <<yaml, main, answer>>

(* The socket just opened.                                                 *)
NewFd == CHOOSE f \in DOMAIN fdTab : f \notin watched

(* Mutant: the socket is not closed when EPOLL_CTL_ADD fails.              *)
WatchLeaking ==
    /\ cpc = "add"
    /\ cpc' = "setup" /\ todo' = Tail(todo)
    /\ \/ watched' = watched \cup {NewFd} /\ UNCHANGED failures
       \/ Fault /\ addFailed' = TRUE /\ UNCHANGED watched
    /\ UNCHANGED <<yaml, main, image, fdTab, fd_port, answer>>

(* EPOLL_CTL_ADD; when it fails the socket is closed and left out.         *)
Watch ==
    /\ cpc = "add"
    /\ cpc' = "setup" /\ todo' = Tail(todo)
    /\ \/ watched' = watched \cup {NewFd} /\ UNCHANGED <<fdTab, failures>>
       \/ /\ Fault /\ addFailed' = TRUE
          /\ fdTab' = Restrict(fdTab, DOMAIN fdTab \ {NewFd})
          /\ UNCHANGED watched
    /\ UNCHANGED <<yaml, main, image, fd_port, answer>>

(* epoll_worker reads its two parameters.                                  *)
Begin ==
    /\ cpc = "setup" /\ todo = <<>>
    /\ IF \A key \in {"per_process_max_events", "per_process_max_thread_count"} :
            Has(cconfig, <<>>, key, "int")
       THEN cpc' = "serve" /\ UNCHANGED <<image, sockets>>
       ELSE Die
    /\ UNCHANGED <<yaml, main, failures, answer>>

(* With no room for an event epoll_wait fails, with no thread no task runs.*)
Working ==
    /\ cpc = "serve"
    /\ ValueAt(cconfig, <<>>, "per_process_max_events").n > 0
    /\ ValueAt(cconfig, <<>>, "per_process_max_thread_count").n > 0

(* Mutant: the search does not end at the first match.                     *)
LastSite(port, root) ==
    LET list == getArray(cconfig, "servers") IN
    \E k \in DOMAIN list :
        /\ ValueAt(cconfig, list[k], "port").n = port
        /\ \A j \in DOMAIN list : j > k => ValueAt(cconfig, list[j], "port").n # port
        /\ root = ValueAt(cconfig, list[k], "root").s

(* SiteInfo: the first server with the port; what is thrown on the way     *)
(* leaves the request without an answer; without a match the root is "".   *)
SiteInfo(port, root) ==
    LET list   == getArray(cconfig, "servers")
        valid(k) == Has(cconfig, list[k], "port", "int")
        match(k) == valid(k) /\ ValueAt(cconfig, list[k], "port").n = port
        first  == {k \in DOMAIN list : match(k) /\ \A j \in 1 .. k - 1 : valid(j) /\ ~match(j)}
    IN  /\ IsArray(cconfig, "servers")
        /\ \/ \E k \in first :
                /\ Has(cconfig, list[k], "name", "str") /\ Has(cconfig, list[k], "root", "str")
                /\ root = ValueAt(cconfig, list[k], "root").s
           \/ /\ \A k \in DOMAIN list : valid(k) /\ ~match(k)
              /\ root = ""

(* A request that arrives at a port is answered.                           *)
Serve(f, root) ==
    /\ Working /\ f \in watched
    /\ SiteInfo(fd_port[f], root)
    /\ answer' = [port |-> fdTab[f], root |-> root, doc |-> cdoc,
                  strayed |-> addFailed \/ fd_port[f] \notin 0 .. Width - 1]
    /\ UNCHANGED <<yaml, main, child, failures>>

-----------------------------------------------------------------------------
(* What a document asks for.                                               *)

Lookup(fs, key) == {f.val : f \in {g \in Range(fs) : g.key = key}}
PortOf(fs) == {v.n : v \in Lookup(fs, "port")}
PortsOf(d) == UNION {PortOf(fs) : fs \in Range(d.sites)}
RootFor(d, port) ==
    LET hits == {k \in DOMAIN d.sites : port \in PortOf(d.sites[k])} IN
    (CHOOSE v \in Lookup(d.sites[Min(hits)], "root") : TRUE).s

(* Every site has a name, a root and a port of 16 bits; the numbers a      *)
(* process needs are there and not 0.                                      *)
Complete(d) ==
    /\ d # Missing
    /\ Regular(d) /\ d.sites # <<>>
    /\ \A fs \in Range(d.sites) :
        /\ \A key \in {"name", "root"} : \E v \in Lookup(fs, key) : v.t = "str"
        /\ \E v \in Lookup(fs, "port") : v.t = "int" /\ v.n \in 1 .. Width - 1
    /\ \A key \in {"cpu_cores", "per_process_max_events", "per_process_max_thread_count"} :
        \E v \in Lookup(d.before \o d.after, key) : v.t = "int" /\ v.n > 0

-----------------------------------------------------------------------------
BootTypeOK ==
    /\ mpc \in {"start", "load", "ports", "fork", "prompt", "aborted"}
    /\ cpc \in {"none", "start", "setup", "add", "serve", "dead"}
    /\ watched \subseteq DOMAIN fdTab /\ DOMAIN fdTab \subseteq DOMAIN fd_port \cap Fds
    /\ cpc # "add" => watched = DOMAIN fdTab
    /\ cpc \in {"start", "setup", "add", "serve"} => ports # <<>> /\ mpc = "prompt"

(* What is loaded is what the document means, for documents the reader is  *)
(* good for (yaml.hpp:93-203: indentation, lists, emplace).                *)
LoadedRight ==
    loaded # Missing /\ Regular(loaded) => config = Meaning(loaded)

(* A port of the configuration the child was started with is answered from *)
(* its own site there, after edits, restarts and shifts of ports; but not  *)
(* after a failed EPOLL_CTL_ADD, whose number keeps its port in the        *)
(* registry (SOK.cpp:59-66), nor at a port that does not fit into 16 bits  *)
(* (SocketUtils.hpp:41).  Of a port whose site an edit has removed nothing *)
(* is said: the child listens there still (SOK.cpp:148), and its root of   *)
(* "" is the whole file system (http.hpp:151), whatever README.md:11 says. *)
OwnSiteUnlessStrayed ==
    /\ answer # <<>> /\ ~answer.strayed
    /\ Complete(answer.doc) /\ answer.port \in PortsOf(answer.doc)
    => answer.root = RootFor(answer.doc, answer.port)

(* A child that serves listens on all the ports of its configuration, and  *)
(* no others, unless an edit has changed the ports since main read them    *)
(* (SOK.cpp:100-106, :147-148) or EPOLL_CTL_ADD has failed.                *)
ListensUnlessEdited ==
    cpc = "serve" /\ ~addFailed /\ Complete(cdoc) /\ PortsOf(cdoc) = Range(ports) =>
        {fdTab[f] : f \in watched} = PortsOf(cdoc)

(* With a complete configuration and no failing call the server comes to   *)
(* work, after every restart again: what it lists is enough, whatever else *)
(* the document holds.  Without it main may abort with its children gone,  *)
(* a number beyond int being enough for that, or children may die or idle  *)
(* (SOK.cpp:98-118, :142-151; EpollManager.hpp:27-29; yaml.hpp:193).       *)
ComesToWork == <>[](faults = 0 /\ Complete(loaded) => Working)
=============================================================================
