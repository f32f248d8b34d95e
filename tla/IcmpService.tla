---------------------------- MODULE IcmpService ----------------------------
(***************************************************************************)
(* One channel of the protocol: the icmpd worker that serves a monitored   *)
(* container (src/icmpd/subcmd_start.c), the icmpc processes that use the  *)
(* channel (src/icmpc/subcmd_commandline.c, src/icmpc/subcmd_echo.c) and   *)
(* the nanomsg REQ/REP sockets between them, as lib/nanomsg.c uses them.   *)
(*                                                                         *)
(* An icmpc process sends one request and exits after one reply, so a      *)
(* client stands for its request as well.  The REQ socket keeps the        *)
(* request and transmits it whenever it gets a connection or its resend    *)
(* timer fires; the REP socket remembers only the peer it last received    *)
(* from.  How a command runs (pipes, fork, exec, wait) is CommandRunner's  *)
(* matter: here it starts, and later its output has been collected.        *)
(***************************************************************************)
EXTENDS CommandPolicy, Naturals

CONSTANTS
    Clients,      \* icmpc processes
    NoClient,
    Echo,         \* the request of `icmpc echo'
    NoRequest,
    Channel,      \* the container the worker serves: its transport's name
    Endless,      \* commands that never close their output
    Lingering,    \* commands that close their output and never exit
    Oversized,    \* commands that write more than a socket receives at once
    Policies,     \* configurations to start from
    MaxCopies     \* bound: copies of one request queued at the worker

ASSUME ServiceAssumption ==
    /\ NoClient \notin Clients
    /\ Echo \notin Commands
    /\ NoRequest \notin Commands \union {Echo}
    /\ Endless \subseteq Commands
    /\ Lingering \subseteq Commands
    /\ Oversized \subseteq Commands
    /\ Policies \subseteq Policy
    /\ MaxCopies \in Nat \ {0}

VARIABLES
    policy,     \* the configuration the worker's parent read before it forked
    request,    \* what each client asked for
    client,     \* control state of each icmpc process
    shown,      \* the reply each client printed
    copies,     \* copies of each client's request queued at the worker
    sent,       \* clients whose REQ socket has transmitted
    replies,    \* replies on their way to each client
    worker,     \* control state of the worker process
    serving,    \* the client whose request handle_payload() is working on
    peer,       \* the peer a send on the REP socket goes to
    errno,      \* the worker's ic_errno
    resent,     \* history: clients whose request was transmitted again
    executed,   \* history: clients whose command was started
    repeated,   \* history: clients whose command was started again
    denied,     \* history: clients refused with COMMAND_DENIED
    masked      \* history: clients whose failed check was taken for a denial

clientVars  == <<request, client, shown>>
networkVars == <<copies, sent, resent, replies>>
workerVars  == <<worker, serving, peer, errno>>
historyVars == <<executed, repeated, denied, masked>>
vars == <<policy, clientVars, networkVars, workerVars, historyVars>>

Requests == Commands \union {Echo}

CommandCode(r) == IF r = Echo THEN "ECHO" ELSE "COMMANDLINE"

\* A reply carries a command code and the outcome of one client's request.
Reply   == [cc : {"ECHO", "COMMANDLINE"}, of : Clients]
NoReply == [cc |-> "NONE", of |-> NoClient]

Check(r) == IF r = Echo THEN "granted" ELSE CheckCommand(policy, r, Channel)

ClientStates == {"idle", "waiting", "printed", "failed", "killed"}
WorkerStates == {"down", "receiving", "running", "replying", "reaping", "returned"}

Init ==
    /\ policy \in Policies
    /\ request = [c \in Clients |-> NoRequest]
    /\ client = [c \in Clients |-> "idle"]
    /\ shown = [c \in Clients |-> NoReply]
    /\ copies = [c \in Clients |-> 0]
    /\ replies = [c \in Clients |-> {}]
    /\ worker = "down" /\ serving = NoClient /\ peer = NoClient
    /\ errno = "BASE"
    /\ sent = {} /\ resent = {}
    /\ executed = {} /\ repeated = {} /\ denied = {} /\ masked = {}

-----------------------------------------------------------------------------
(* The icmpc process. *)

\* Marshals the request, creates the slave transport and hands the message
\* to the REQ socket, which takes it whether or not a worker is there.
Submit(c, r) ==
    /\ client[c] = "idle"
    /\ client' = [client EXCEPT ![c] = "waiting"]
    /\ request' = [request EXCEPT ![c] = r]
    /\ UNCHANGED <<policy, shown, networkVars, workerVars, historyVars>>

\* The channel directory can be neither used nor created.
NoTransport(c) ==
    /\ client[c] = "idle"
    /\ client' = [client EXCEPT ![c] = "failed"]
    /\ UNCHANGED <<policy, request, shown, networkVars, workerVars, historyVars>>

\* The blocking receive returns; icmp_unmarshal() accepts only the command
\* code of the request; the socket is closed and the process exits.
ReceiveReply(c, m) ==
    /\ client[c] = "waiting"
    /\ m \in replies[c]
    /\ replies' = [replies EXCEPT ![c] = {}]
    /\ \/ /\ m.cc = CommandCode(request[c])
          /\ client' = [client EXCEPT ![c] = "printed"]
          /\ shown' = [shown EXCEPT ![c] = m]
       \/ /\ m.cc # CommandCode(request[c])
          /\ client' = [client EXCEPT ![c] = "failed"]
          /\ UNCHANGED shown
    /\ UNCHANGED <<policy, request, copies, sent, resent, workerVars, historyVars>>

KillClient(c) ==
    /\ client[c] = "waiting"
    /\ client' = [client EXCEPT ![c] = "killed"]
    /\ replies' = [replies EXCEPT ![c] = {}]
    /\ UNCHANGED <<policy, request, shown, copies, sent, resent, workerVars, historyVars>>

-----------------------------------------------------------------------------
(* The nanomsg sockets. *)

\* Fault: the REQ socket never transmits again.
TransmitOnce(c) ==
    /\ client[c] = "waiting"
    /\ worker # "down"
    /\ c \notin sent
    /\ copies[c] < MaxCopies
    /\ copies' = [copies EXCEPT ![c] = @ + 1]
    /\ sent' = sent \union {c}
    /\ UNCHANGED <<policy, clientVars, resent, replies, workerVars, historyVars>>

\* The REQ socket transmits its request: for the first time, again when the
\* resend interval has passed, or again over a new connection.
Transmit(c) ==
    /\ client[c] = "waiting"
    /\ worker # "down"
    /\ copies[c] < MaxCopies
    /\ copies' = [copies EXCEPT ![c] = @ + 1]
    /\ sent' = sent \union {c}
    /\ resent' = IF c \in sent THEN resent \union {c} ELSE resent
    /\ UNCHANGED <<policy, clientVars, replies, workerVars, historyVars>>

\* The REP socket may discard what it holds from a peer that is gone.
Discard(c) ==
    /\ client[c] # "waiting"
    /\ copies[c] > 0
    /\ copies' = [copies EXCEPT ![c] = 0]
    /\ UNCHANGED <<policy, clientVars, sent, resent, replies, workerVars, historyVars>>

-----------------------------------------------------------------------------
(* The worker: handle_protocol() inside create_worker()'s endless loop. *)

\* Fault: a request left without a reply keeps the socket.
DequeueKeepsPeer(c) ==
    /\ worker = "receiving"
    /\ copies[c] > 0
    /\ copies' = [copies EXCEPT ![c] = @ - 1]
    /\ peer' = IF peer = NoClient THEN c ELSE peer

\* nn_recv() on the REP socket: the next send goes to this peer, and a
\* request that was never answered is forgotten.
Dequeue(c) ==
    /\ worker = "receiving"
    /\ copies[c] > 0
    /\ copies' = [copies EXCEPT ![c] = @ - 1]
    /\ peer' = c

\* echo_data() up to the send.
ServeEcho(c) ==
    /\ Dequeue(c)
    /\ request[c] = Echo
    /\ worker' = "replying"
    /\ serving' = c
    /\ UNCHANGED <<policy, clientVars, sent, resent, replies, errno, historyVars>>

\* Fault: only a denial keeps a command from running.
ServeUnlessDenied(c) ==
    /\ Dequeue(c)
    /\ request[c] \in Commands
    /\ Check(request[c]) # "denied"
    /\ worker' = "running"
    /\ serving' = c
    /\ executed' = executed \union {c}
    /\ repeated' = IF c \in executed THEN repeated \union {c} ELSE repeated
    /\ UNCHANGED <<policy, clientVars, sent, resent, replies, errno, denied, masked>>

\* check_command() grants and execute_cmd() forks the command.
ServeCommand(c) ==
    /\ Dequeue(c)
    /\ request[c] \in Commands
    /\ Check(request[c]) = "granted"
    /\ worker' = "running"
    /\ serving' = c
    /\ executed' = executed \union {c}
    /\ repeated' = IF c \in executed THEN repeated \union {c} ELSE repeated
    /\ UNCHANGED <<policy, clientVars, sent, resent, replies, errno, denied, masked>>

\* check_command() does not grant.  A denial is swallowed: no reply, and the
\* loop goes on.  Any other failure makes handle_protocol() return, unless
\* ic_errno still tells of an earlier denial.
RefuseCommand(c) ==
    /\ Dequeue(c)
    /\ request[c] \in Commands
    /\ LET verdict == Check(request[c])
       IN  /\ verdict # "granted"
           /\ errno' = ErrnoAfter(errno, verdict)
           /\ worker' = IF errno' = "COMMAND_DENIED" THEN "receiving" ELSE "returned"
           /\ denied' = IF verdict = "denied" THEN denied \union {c} ELSE denied
           /\ masked' = IF verdict = "failed" /\ errno' = "COMMAND_DENIED"
                        THEN masked \union {c} ELSE masked
    /\ UNCHANGED <<policy, clientVars, sent, resent, replies, serving, executed, repeated>>

\* Fault: the worker waits for the client to come back.
CommandEndsForClient ==
    /\ worker = "running"
    /\ request[serving] \notin Endless
    /\ client[serving] = "waiting"
    /\ worker' = "replying"
    /\ UNCHANGED <<policy, clientVars, networkVars, serving, peer, errno, historyVars>>

\* The read loop of execute_cmd() has seen the end of the output.
CommandEnds ==
    /\ worker = "running"
    /\ request[serving] \notin Endless
    /\ worker' = "replying"
    /\ UNCHANGED <<policy, clientVars, networkVars, serving, peer, errno, historyVars>>

\* Behind a send that succeeded execute_cmd() waits for its child to exit.
\* An echo has no child.
AfterReply ==
    /\ peer' = NoClient
    /\ worker' = IF request[serving] = Echo THEN "receiving" ELSE "reaping"
    /\ serving' = IF request[serving] = Echo THEN NoClient ELSE serving

\* The reply reaches the peer's connection; a peer that is gone loses it.
SendReply ==
    /\ worker = "replying"
    /\ peer # NoClient
    /\ request[serving] \notin Oversized
    /\ replies' = IF client[peer] = "waiting"
                  THEN [replies EXCEPT ![peer] = @ \union
                          {[cc |-> CommandCode(request[serving]), of |-> serving]}]
                  ELSE replies
    /\ AfterReply
    /\ UNCHANGED <<policy, clientVars, copies, sent, resent, errno, historyVars>>

\* The REP socket drops the reply, or the REQ socket refuses it because it is
\* longer than NN_RCVMAXSIZE, which src/ leaves at its default: nn_send() still
\* succeeds, and the REQ socket goes on transmitting its request.
DropReply ==
    /\ worker = "replying"
    /\ peer # NoClient
    /\ AfterReply
    /\ UNCHANGED <<policy, clientVars, networkVars, errno, historyVars>>

\* waitpid() returns: the command has exited.
Reap ==
    /\ worker = "reaping"
    /\ request[serving] \notin Lingering
    /\ worker' = "receiving"
    /\ serving' = NoClient
    /\ UNCHANGED <<policy, clientVars, networkVars, peer, errno, historyVars>>

\* Fault: the request is queued again when its reply cannot be sent.
FailReplyRequeues ==
    /\ worker = "replying"
    /\ worker' = "returned"
    /\ copies' = [copies EXCEPT ![serving] = 1]
    /\ serving' = NoClient
    /\ UNCHANGED <<policy, clientVars, sent, resent, replies, peer, errno, historyVars>>

\* nanomsg_send_data() returns -1 (no association, or the 100 ms passed):
\* the error travels up, past the waitpid(), and handle_protocol() returns.
FailReply ==
    /\ worker = "replying"
    /\ worker' = "returned"
    /\ serving' = NoClient
    /\ UNCHANGED <<policy, clientVars, networkVars, peer, errno, historyVars>>

\* while (1) handle_protocol(tr);
Reenter ==
    /\ worker = "returned"
    /\ worker' = "receiving"
    /\ UNCHANGED <<policy, clientVars, networkVars, serving, peer, errno, historyVars>>

\* The worker is killed or an ic_assert() ends it.  Its socket dies with it,
\* its child does not, and the parent never looks.
WorkerExit ==
    /\ worker # "down"
    /\ worker' = "down"
    /\ copies' = [c \in Clients |-> 0]
    /\ serving' = NoClient
    /\ peer' = NoClient
    /\ errno' = "BASE"
    /\ UNCHANGED <<policy, clientVars, sent, resent, replies, historyVars>>

\* icmpd is started (again), with a configuration that may have been edited:
\* a new worker binds the channel.
WorkerStart ==
    /\ worker = "down"
    /\ worker' = "receiving"
    /\ policy' \in Policies
    /\ UNCHANGED <<clientVars, networkVars, serving, peer, errno, historyVars>>

-----------------------------------------------------------------------------
ClientNext(c) ==
    \/ \E r \in Requests : Submit(c, r)
    \/ NoTransport(c)
    \/ \E m \in replies[c] : ReceiveReply(c, m)
    \/ KillClient(c)

NetworkNext(c) == Transmit(c) \/ Discard(c)

Serve(c) == ServeEcho(c) \/ ServeCommand(c) \/ RefuseCommand(c)

WorkerNext ==
    \/ \E c \in Clients : Serve(c)
    \/ CommandEnds
    \/ SendReply \/ DropReply \/ FailReply
    \/ Reap \/ Reenter

ProcessNext ==
    \/ WorkerExit
    \/ WorkerStart

Next ==
    \/ \E c \in Clients : ClientNext(c) \/ NetworkNext(c)
    \/ WorkerNext
    \/ ProcessNext

Spec == Init /\ [][Next]_vars

(***************************************************************************)
(* The scheduler runs every process that can run, the REQ socket's timer   *)
(* goes on firing, nn_recv() serves its peers fairly, and a worker that    *)
(* keeps answering is not stopped by the transport for ever.  Nothing says *)
(* that a worker is started, stays up, or that a client is killed.         *)
(***************************************************************************)
Fairness ==
    /\ WF_vars(CommandEnds \/ Reap \/ Reenter)
    /\ WF_vars(SendReply \/ DropReply \/ FailReply)
    /\ \A c \in Clients :
        /\ WF_vars(Transmit(c))
        /\ WF_vars(\E m \in replies[c] : ReceiveReply(c, m))
        /\ SF_vars(Serve(c))
        /\ SF_vars(SendReply /\ peer = c)

FairSpec == Spec /\ Fairness

-----------------------------------------------------------------------------
(* Types. *)

\* Every variable stays within its type.
TypeOK ==
    /\ policy \in Policies
    /\ request \in [Clients -> Requests \union {NoRequest}]
    /\ client \in [Clients -> ClientStates]
    /\ shown \in [Clients -> Reply \union {NoReply}]
    /\ copies \in [Clients -> 0..MaxCopies]
    /\ replies \in [Clients -> SUBSET Reply]
    /\ worker \in WorkerStates
    /\ serving \in Clients \union {NoClient}
    /\ peer \in Clients \union {NoClient}
    /\ errno \in Errnos
    /\ sent \subseteq Clients
    /\ resent \subseteq Clients
    /\ executed \subseteq Clients
    /\ repeated \subseteq Clients
    /\ denied \subseteq Clients
    /\ masked \subseteq Clients

\* Requests the worker's configuration lets through, and the clients that
\* made one.
Permitted == {r \in Requests : r = Echo \/ Grants(policy, r, Channel)}
Served    == {c \in Clients : request[c] \in Permitted}

-----------------------------------------------------------------------------
(* Safety. *)

\* Whatever is resent, dropped or restarted, a client prints nothing but the
\* outcome of its own request, and no reply is ever rejected for its command
\* code (subcmd_commandline.c:100, subcmd_echo.c).
OwnResult ==
    \A c \in Clients :
        /\ client[c] = "printed" => shown[c] = [cc |-> CommandCode(request[c]), of |-> c]
        /\ client[c] = "failed" => request[c] = NoRequest

\* A command runs only under a configuration that grants it to the client,
\* however often icmpd was restarted with another one while the request was
\* on its way; and a client prints command output only after its command was
\* started.
RunsOnlyGranted ==
    /\ worker = "running" => serving \in Served
    /\ \A c \in Clients :
          client[c] = "printed" /\ request[c] \in Commands => c \in executed

\* A command is started again only if its request was transmitted again: the
\* worker itself never runs one request twice (nanomsg resends after an
\* interval the code leaves at its default, and after a reconnection).
RepeatNeedsResend == repeated \subseteq resent

\* A failed policy lookup is silently taken for a denial only because some
\* other client was denied before: ic_errno is never reset
\* (subcmd_start.c:479, ic.c:15).
MaskNeedsOtherDenial ==
    \A c \in masked : \E d \in denied : d # c

-----------------------------------------------------------------------------
(* Liveness. *)

\* The worker waits for a command that keeps its output open, or that does
\* not exit although its reply has been sent.
Stuck == \/ worker = "running" /\ request[serving] \in Endless
         \/ worker = "reaping" /\ request[serving] \in Lingering

\* If from some moment on the worker stays up and is not held by a command
\* that does not end, every client whose request its configuration grants gets
\* its reply, those included that an earlier worker left without one; but no
\* command whose output is too long for the client's socket is ever answered.
GrantedAnswered ==
    <>[](worker # "down" /\ ~Stuck)
        => \A c \in Clients : []<>~(/\ client[c] = "waiting" /\ c \in Served
                                    /\ request[c] \notin Oversized)

\* Refusals, failed sends and swallowed errors never take the worker out of
\* service: it comes back to its receive unless it exits or is stuck.
WorkerComesBack ==
    (worker # "down") ~> (worker \in {"receiving", "down"} \/ Stuck)
=============================================================================
