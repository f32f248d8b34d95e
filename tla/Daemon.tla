------------------------------- MODULE Daemon -------------------------------
(***************************************************************************)
(* The icmpd parent (src/icmpd/subcmd_start.c, run_start, init_context,    *)
(* create_transport, create_worker) with the workers it forks and the      *)
(* icmpc processes started meanwhile, each of them setting up its          *)
(* Transport: what the parent is called, which containers it monitors, and *)
(* who serves which channel.  The parent may be stopped and started again  *)
(* at any time; its workers neither follow it nor are watched by it.       *)
(*                                                                         *)
(* A name is a sequence of the pieces the code cuts it into.  err_create_  *)
(* worker and stop_worker() are unreachable: create_worker() returns a     *)
(* process id or does not return.                                          *)
(***************************************************************************)
EXTENDS Naturals, Sequences, FiniteSets

CONSTANTS
    HostNames,    \* what gethostname() may yield
    Configs,      \* configuration files icmpd may be started with
    NoName,       \* .container_name is not configured
    NoConf,       \* no configuration has been read
    Clients,      \* icmpc processes
    Requestors,   \* the channels they ask for
    MaxStarts,    \* bound: how often icmpd is started
    MaxMonitored, \* bound: length of a monitor list
    MaxAlive,     \* bound: processes that the system lets live at once
    NoWorker

Piece(h, i) == IF i <= Len(h) THEN h[i] ELSE ""
EssentialName == <<"conta", "ine", "r-", "essential">>
HostKey       == <<"host">>
Local         == <<"local">>

\* A monitor setting: NULL, "*", "" or a list (absent, wildcard, empty, list).
\* The names of a wildcard are the LXC containers defined on the system.
ASSUME DaemonAssumption ==
    /\ \A c \in Configs :
         /\ DOMAIN c = {"name", "monitor"}
         /\ \A n \in DOMAIN c.monitor :
              /\ c.monitor[n].kind \in {"wildcard", "empty", "list"}
              /\ Len(c.monitor[n].names) \in 0..MaxMonitored
              /\ DOMAIN c.monitor[n].names = 1..Len(c.monitor[n].names)
    /\ MaxStarts \in Nat \ {0}
    /\ MaxMonitored \in Nat \ {0}
    /\ MaxAlive \in Nat \ {0}

Workers == (1..MaxStarts) \X (1..MaxMonitored)

ASSUME ProcessAssumption ==
    /\ Clients \intersect Workers = {}
    /\ NoWorker \notin Workers \union Clients

VARIABLES
    parent,    \* control state of the parent
    start,     \* how often icmpd has been started
    conf,      \* the configuration this start has read
    host,      \* the host name
    local,     \* ctx->container_name
    list,      \* ctx->monitored_container
    pids,      \* ctx->monitored_worker: a worker, or none (0) for the own name
    proc,      \* how far each worker and client is with its transport
    dirs,      \* directories that exist
    bound      \* the worker whose socket is bound to each channel

transportVars == <<proc, dirs, bound>>
contextVars   == <<start, conf, host, local, list>>
vars          == <<parent, contextVars, pids, transportVars>>

Settings == UNION {{c.monitor[n] : n \in DOMAIN c.monitor} : c \in Configs}
Listed   == UNION {{s.names[i] : i \in DOMAIN s.names} : s \in Settings}

Transport == INSTANCE Transport WITH
    Processes <- Workers \union Clients,
    Channels  <- Listed,
    NoProcess <- NoWorker

Pid(i) == <<start, i>>

\* fork() finds room in the system's process table.
CanFork == Cardinality({p \in Workers \union Clients : Transport!Alive(p)}) < MaxAlive

\* The parent's memory, once it is gone.
Forgets == conf' = NoConf /\ local' = NoName /\ list' = <<>> /\ pids' = <<>>

Init ==
    /\ parent = "off" /\ start = 0
    /\ host \in HostNames
    /\ conf = NoConf /\ local = NoName /\ list = <<>> /\ pids = <<>>
    /\ Transport!Init

-----------------------------------------------------------------------------
(* What the parent is called and whom it monitors. *)

\* ic_container_name(): the configured name, or else the host name.  The
\* comparison with "container-dom" stops after 8 characters, the cut is made
\* after 5.
ContainerName(c, h) ==
    IF c.name # NoName THEN c.name
    ELSE IF Piece(h, 1) = "conta" /\ Piece(h, 2) = "ine" THEN Tail(h)
    ELSE h

Absent == [kind |-> "absent", names |-> <<>>]

MonitorOf(c, n) == IF n \in DOMAIN c.monitor THEN c.monitor[n] ELSE Absent

MonitorSetting(c, n) ==
    IF MonitorOf(c, n).kind = "absent" /\ n = EssentialName
    THEN MonitorOf(c, HostKey)
    ELSE MonitorOf(c, n)

-----------------------------------------------------------------------------
(* The parent. *)

\* icmpd start: the configuration may have been edited since the last time.
Start ==
    /\ parent = "off"
    /\ start < MaxStarts
    /\ start' = start + 1
    /\ conf' \in Configs
    /\ parent' = "naming"
    /\ UNCHANGED <<host, local, list, pids, transportVars>>

\* init_context() finds the containers to monitor.
InitContext ==
    /\ parent = "naming"
    /\ local' = ContainerName(conf, host)
    /\ LET setting == MonitorSetting(conf, local')
       IN  /\ \/ setting.kind = "list"
              \/ setting.kind = "wildcard" /\ setting.names = <<>>
           /\ list' = setting.names
    /\ parent' = "forking"
    /\ UNCHANGED <<start, conf, host, pids, transportVars>>

\* init_context() fails, or vector_to_string_array() takes the name of a
\* defined LXC container for a descriptor and follows it (vector.c:339-340).
InitContextFails ==
    /\ parent = "naming"
    /\ LET setting == MonitorSetting(conf, ContainerName(conf, host))
       IN  \/ setting.kind \in {"absent", "empty"}
           \/ setting.kind = "wildcard" /\ setting.names # <<>>
    /\ parent' = "off"
    /\ Forgets
    /\ UNCHANGED <<start, host, transportVars>>

Due(i) == Len(pids) + 1 = i /\ i <= Len(list)

SkipLocal(i) ==
    /\ parent = "forking"
    /\ Due(i)
    /\ list[i] = local
    /\ pids' = Append(pids, NoWorker)
    /\ UNCHANGED <<parent, contextVars, transportVars>>

\* Fault: the own name is not told apart.
CreateWorkerForAll(i) ==
    /\ parent = "forking"
    /\ Due(i)
    /\ CanFork
    /\ Transport!Create(Pid(i), list[i], TRUE)
    /\ pids' = Append(pids, Pid(i))
    /\ UNCHANGED <<parent, contextVars>>

CreateWorker(i) ==
    /\ parent = "forking"
    /\ Due(i)
    /\ list[i] # local
    /\ CanFork
    /\ Transport!Create(Pid(i), list[i], TRUE)
    /\ pids' = Append(pids, Pid(i))
    /\ UNCHANGED <<parent, contextVars>>

\* fork() fails, and the assertion behind it ends the parent.
ForkFails ==
    /\ parent = "forking"
    /\ Len(pids) < Len(list)
    /\ list[Len(pids) + 1] # local
    /\ ~CanFork
    /\ parent' = "off"
    /\ Forgets
    /\ UNCHANGED <<start, host, transportVars>>

\* while (1) pause();
Pause ==
    /\ parent = "forking"
    /\ Len(pids) = Len(list)
    /\ parent' = "paused"
    /\ UNCHANGED <<contextVars, pids, transportVars>>

\* A signal ends the parent: worker_exit() is its handler too, and does
\* nothing about the workers.
ParentExits ==
    /\ parent \in {"naming", "forking", "paused"}
    /\ parent' = "off"
    /\ Forgets
    /\ UNCHANGED <<start, host, transportVars>>

-----------------------------------------------------------------------------
(* Workers and clients. *)

\* icmpc is called, with or without a requestor.
CallClient(c, name) ==
    /\ CanFork
    /\ Transport!Create(c, name, FALSE)
    /\ UNCHANGED <<parent, contextVars, pids>>

Alone(A) == A /\ UNCHANGED <<parent, contextVars, pids>>

ParentNext ==
    \/ InitContext \/ InitContextFails
    \/ \E i \in 1..MaxMonitored : SkipLocal(i) \/ CreateWorker(i)
    \/ ForkFails
    \/ Pause

ProcessNext(p) ==
    \/ Alone(Transport!CheckDirectory(p))
    \/ Alone(Transport!MakeDirectory(p))
    \/ Alone(Transport!Bind(p))
    \/ Alone(Transport!BindFails(p))
    \/ Alone(Transport!Connect(p))

ProcessEnds(p) ==
    \/ Alone(Transport!Destroy(p))
    \/ Alone(Transport!Dies(p))

Next ==
    \/ Start
    \/ ParentNext
    \/ ParentExits
    \/ \E c \in Clients, name \in Requestors : CallClient(c, name)
    \/ \E p \in Workers \union Clients : ProcessNext(p) \/ ProcessEnds(p)

Spec == Init /\ [][Next]_vars

\* Parent, workers and clients are scheduled; nobody has to start, stop or
\* kill them.
FairSpec ==
    /\ Spec
    /\ WF_vars(ParentNext)
    /\ \A p \in Workers \union Clients : WF_vars(ProcessNext(p))

-----------------------------------------------------------------------------
\* Every variable stays within its type.
TypeOK ==
    /\ parent \in {"off", "naming", "forking", "paused"}
    /\ start \in 0..MaxStarts
    /\ conf \in Configs \union {NoConf}
    /\ host \in HostNames
    /\ Len(list) \in 0..MaxMonitored
    /\ Len(pids) <= Len(list)
    /\ \A i \in 1..Len(pids) : pids[i] \in Workers \union {NoWorker}
    /\ \A p \in Workers \union Clients :
         /\ proc[p].at \in {"none", "check", "make", "endpoint", "open",
                            "failed", "gone"}
         /\ proc[p].name \in Listed \union Requestors \union {Local}
         /\ proc[p].path \in 0..2
         /\ proc[p].depth \in 0..2
    /\ bound \in [Listed -> Workers \union {NoWorker}]

Gone == {"failed", "gone"}

Lock == INSTANCE ChannelLock WITH
    Channels <- Listed,
    holders  <- [n \in Listed |->
                   {w \in Workers : Transport!Open(w) /\ proc[w].name = n}],
    retired  <- {w \in Workers : proc[w].at \in Gone}

\* However often icmpd is started and stopped, and whatever its monitor list
\* repeats, a channel has one worker at a time, keeps it until that worker
\* ends, and never gets it back (nanomsg.c:247, subcmd_start.c:551-587).
ServesInTurn == Lock!Spec

\* Workers and clients that make the same directories at the same time never
\* make each other fail: whoever gives up by itself is a worker that finds
\* its channel held by another one (transport.c:92-107, util.c:78).
FailsOnlyForBusyChannel ==
    [][\A p \in Workers \union Clients :
         proc'[p].at = "failed" /\ proc[p].at # "failed" =>
            /\ p \in Workers
            /\ \E v \in Workers \ {p} : Transport!Open(v) /\ proc[v].name = proc[p].name]_vars

\* Whoever has an end of a channel finds the directory of the local channel
\* there as well as its own (transport.c:86: "Always create local directory
\* for local channel"), on whichever side it is and whoever made them.
LocalChannelExists ==
    \A p \in Workers \union Clients :
        Transport!Open(p) => \A i \in 1..2 : Transport!Path(proc[p].name, i) \in dirs

\* While it forks, the parent's record tells which process serves which
\* entry of its list, and only its own name has none.
RecordMatchesList ==
    parent \in {"forking", "paused"} =>
        \A i \in 1..Len(pids) :
            IF list[i] = local THEN pids[i] = NoWorker
            ELSE /\ pids[i] = Pid(i)
                 /\ proc[Pid(i)].at # "none"
                 /\ Transport!Alive(Pid(i)) => proc[Pid(i)].name = list[i]

\* A parent that is left alone comes to rest with every monitored channel
\* served, or the worker it made for it gone and not replaced; and a client
\* gets its socket whether or not anybody serves the channel.
MonitoredIsServed ==
    /\ parent = "paused" ~>
         \/ parent # "paused"
         \/ \A i \in 1..Len(list) :
              \/ list[i] = local
              \/ proc[Pid(i)].at \in Gone \union {"open"}
    /\ \A c \in Clients : Transport!SettingUp(c) ~> proc[c].at \in {"open", "gone"}
=============================================================================
