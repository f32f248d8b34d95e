------------------------------ MODULE Transport ------------------------------
(***************************************************************************)
(* How a process comes by its end of a channel and gives it back           *)
(* (lib/transport.c over lib/nanomsg.c and lib/util.c): a worker as the    *)
(* master, which binds the channel, an icmpc process as a slave, which     *)
(* connects to it.  Both make the channel's directory and the directory of *)
(* the local channel first, in the presence of all the others that do.     *)
(*                                                                         *)
(* Nobody removes a directory.  A master never destroys its transport: it  *)
(* holds the channel until the process ends.                               *)
(***************************************************************************)
EXTENDS Naturals, Sequences

CONSTANTS
    Processes,
    Channels,      \* names of channels
    Local,         \* the channel called "local"
    NoProcess

VARIABLES
    proc,      \* how far each process is with its transport
    dirs,      \* directories that exist
    bound      \* the process whose socket is bound to each channel

vars == <<proc, dirs, bound>>

\* The directories a transport needs, one after the other, below /opt, which
\* every system has.
Path(name, i) == <<"container", IF i = 1 THEN name ELSE Local>>

None == [at |-> "none", name |-> Local, master |-> FALSE, path |-> 0, depth |-> 0]

SettingUp(p) == proc[p].at \in {"check", "make", "endpoint"}
Open(p)      == proc[p].at = "open"
Alive(p)     == SettingUp(p) \/ Open(p)

Goes(p, where)    == proc' = [proc EXCEPT ![p].at = where, ![p].path = 0, ![p].depth = 0]
Ends(p)           == proc' = [proc EXCEPT ![p] = [None EXCEPT !.at = "gone"]]
Checks(p, i)      == proc' = [proc EXCEPT ![p].at = "check", ![p].path = i, ![p].depth = 0]
Makes(p, d)       == proc' = [proc EXCEPT ![p].at = "make", ![p].depth = d]

\* Fault: the second directory is forgotten.
FinishesAtOnce(p) == Goes(p, "endpoint")

FinishesPath(p)   == IF proc[p].path = 1 THEN Checks(p, 2) ELSE Goes(p, "endpoint")

Init ==
    /\ proc = [p \in Processes |-> None]
    /\ dirs = {}
    /\ bound = [n \in Channels |-> NoProcess]

-----------------------------------------------------------------------------
\* ic_transport_create_master() and ic_transport_create_slave() are called.
Create(p, name, master) ==
    /\ proc[p].at = "none"
    /\ proc' = [proc EXCEPT ![p] = [at |-> "check", name |-> name, master |-> master,
                                    path |-> 1, depth |-> 0]]
    /\ UNCHANGED <<dirs, bound>>

\* access(): the directory is there, or it has to be made.
CheckDirectory(p) ==
    /\ proc[p].at = "check"
    /\ IF Path(proc[p].name, proc[p].path) \in dirs THEN FinishesPath(p) ELSE Makes(p, 1)
    /\ UNCHANGED <<dirs, bound>>

\* Fault: a directory somebody else has just made is an error.
MakeDirectoryStrict(p) ==
    /\ proc[p].at = "make"
    /\ LET path == Path(proc[p].name, proc[p].path)
           dir  == SubSeq(path, 1, proc[p].depth)
       IN  /\ dirs' = dirs \union {dir}
           /\ IF dir = path /\ dir \in dirs THEN Goes(p, "failed")
              ELSE IF dir = path THEN FinishesPath(p)
              ELSE Makes(p, proc[p].depth + 1)
    /\ UNCHANGED bound

\* Fault: the loop over the path does not see its end.
MakeDirectoryOn(p) ==
    /\ proc[p].at = "make"
    /\ dirs' = dirs \union {SubSeq(Path(proc[p].name, proc[p].path), 1, proc[p].depth)}
    /\ Makes(p, proc[p].depth + 1)
    /\ UNCHANGED bound

\* One mkdir() of ic_util_mkdir()'s loop over the path.  EEXIST is no error;
\* without its parent a directory cannot be made.
MakeDirectory(p) ==
    /\ proc[p].at = "make"
    /\ LET path == Path(proc[p].name, proc[p].path)
           d    == proc[p].depth
       IN  IF d > 1 /\ SubSeq(path, 1, d - 1) \notin dirs
           THEN Goes(p, "failed") /\ UNCHANGED dirs
           ELSE /\ dirs' = dirs \union {SubSeq(path, 1, d)}
                /\ IF d < Len(path) THEN Makes(p, d + 1) ELSE FinishesPath(p)
    /\ UNCHANGED bound

\* Fault: the path is taken over from whoever has it.
BindOver(p) ==
    /\ proc[p].at = "endpoint" /\ proc[p].master
    /\ bound' = [bound EXCEPT ![proc[p].name] = p]
    /\ Goes(p, "open")
    /\ UNCHANGED dirs

\* The master binds: nn_bind() reclaims a path left behind by a dead process.
Bind(p) ==
    /\ proc[p].at = "endpoint" /\ proc[p].master
    /\ bound[proc[p].name] = NoProcess
    /\ bound' = [bound EXCEPT ![proc[p].name] = p]
    /\ Goes(p, "open")
    /\ UNCHANGED dirs

\* Fault: a process that finds its channel busy starts over.
BindAgain(p) ==
    /\ proc[p].at = "endpoint" /\ proc[p].master
    /\ bound[proc[p].name] # NoProcess
    /\ Checks(p, 1)
    /\ UNCHANGED <<dirs, bound>>

\* A path in use is not reclaimed, and the assertion ends the process.
BindFails(p) ==
    /\ proc[p].at = "endpoint" /\ proc[p].master
    /\ bound[proc[p].name] # NoProcess
    /\ Goes(p, "failed")
    /\ UNCHANGED <<dirs, bound>>

\* The slave connects: nn_connect() succeeds whether or not somebody serves
\* the channel, and connects again as long as the socket lives.
Connect(p) ==
    /\ proc[p].at = "endpoint" /\ ~proc[p].master
    /\ Goes(p, "open")
    /\ UNCHANGED <<dirs, bound>>

\* ic_transport_destroy(), called by icmpc when it has its answer.
Destroy(p) ==
    /\ Open(p) /\ ~proc[p].master
    /\ Ends(p)
    /\ UNCHANGED <<dirs, bound>>

\* The process is killed and the system closes its socket, or it gets no
\* transport and exits: access() or mkdir() has another error than the ones
\* expected, or there is no memory.
Dies(p) ==
    /\ Alive(p)
    /\ Ends(p)
    /\ bound' = [n \in Channels |-> IF bound[n] = p THEN NoProcess ELSE bound[n]]
    /\ UNCHANGED dirs
=============================================================================
