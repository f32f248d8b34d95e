--------------------------- MODULE CommandRunner ---------------------------
(***************************************************************************)
(* How a worker runs one granted command after another: execute_cmd() of   *)
(* src/icmpd/subcmd_start.c, one action per group of system calls between  *)
(* which the child, or a process the child leaves behind, can move.        *)
(*                                                                         *)
(* A pipe end is held by the processes that have a descriptor of it, under *)
(* whatever number: dup2() onto stdin, stdout or stderr followed by the    *)
(* close of the original leaves the holder as it was.  Output is counted   *)
(* in chunks.  The read ends a failed send leaves open belong to pipes     *)
(* nobody writes to any more, so only their number matters.  nanomsg holds *)
(* one more descriptor of the same process for every icmpc that is         *)
(* connected; clients come and go, a denied one stays.  The command, other *)
(* processes and the buffers bs_reserve() abandons use memory too, so any  *)
(* allocation may fail, and a later one may succeed again.                 *)
(***************************************************************************)
EXTENDS Naturals, FiniteSets

CONSTANTS
    FdLimit,      \* descriptors the worker may hold beside its permanent ones
    PipeCapacity, \* chunks a pipe holds before a writer blocks
    MaxChunks     \* bound: chunks one command writes

ASSUME RunnerAssumption ==
    /\ FdLimit \in Nat /\ FdLimit >= 4
    /\ PipeCapacity \in Nat \ {0}
    /\ MaxChunks \in Nat

VARIABLES
    worker,       \* where execute_cmd() is
    held,         \* pipe ends of this run the worker holds
    leaked,       \* read ends left open by earlier runs
    child,        \* the forked process: setting up, then the command itself
    childHeld,    \* pipe ends the child holds
    heir,         \* pipe ends held by a process the command left behind
    unreaped,     \* children of earlier runs nobody waits for
    connections,  \* icmpc processes connected to the channel
    pipe,         \* chunks in the output pipe
    written,      \* chunks written in this run
    collected,    \* chunks in the buffer stream
    lost,         \* chunks read for which the buffer had no memory
    terminated    \* the NUL that icmpc prints up to is in the buffer

vars == <<worker, held, leaked, child, childHeld, heir, unreaped, connections,
          pipe, written, collected, lost, terminated>>

buffer     == <<collected, lost, terminated>>
owed       == <<leaked, unreaped, connections>>
workerVars == <<worker, held, owed, buffer>>
childVars  == <<child, childHeld, heir, written>>

InputEnds  == {"inR", "inW"}
OutputEnds == {"outR", "outW"}
Ends       == InputEnds \union OutputEnds

\* The ends that are stdin and stdout/stderr of a command.
Stdio == {"inR", "outW"}

WorkerStates == {"idle", "halfPiped", "piped", "forked", "closed", "reading",
                 "collected", "replied", "reaping", "exhausted", "aborted"}
ChildStates  == {"none", "forked", "awaitingInput", "working", "writing", "exited"}

Init ==
    /\ worker = "idle" /\ held = {} /\ leaked = 0 /\ unreaped = 0
    /\ connections = 0
    /\ child = "none" /\ childHeld = {} /\ heir = {}
    /\ pipe = 0 /\ written = 0
    /\ collected = 0 /\ lost = 0 /\ terminated = FALSE

Dead == {"exhausted", "aborted"}

DescriptorsFree(n) == Cardinality(held) + leaked + connections + n <= FdLimit

Holders(end) == {p \in {"worker", "child", "heir"} :
                   \/ p = "worker" /\ end \in held
                   \/ p = "child"  /\ end \in childHeld
                   \/ p = "heir"   /\ end \in heir}

EndOfOutput == pipe = 0 /\ Holders("outW") = {}
EndOfInput  == Holders("inW") = {}

-----------------------------------------------------------------------------
(* The worker. *)

OpenInputPipe ==
    /\ worker = "idle"
    /\ DescriptorsFree(2)
    /\ worker' = "halfPiped"
    /\ held' = held \union InputEnds
    /\ collected' = 0 /\ lost' = 0 /\ terminated' = FALSE
    /\ written' = 0
    /\ UNCHANGED <<owed, child, childHeld, heir, pipe>>

OpenOutputPipe ==
    /\ worker = "halfPiped"
    /\ DescriptorsFree(2)
    /\ worker' = "piped"
    /\ held' = held \union OutputEnds
    /\ UNCHANGED <<owed, buffer, childVars, pipe>>

\* How a worker ends, the command and its offspring living on.
Die(how) ==
    /\ worker' = how
    /\ held' = {}
    /\ UNCHANGED <<owed, buffer, childVars, pipe>>

\* ic_assert(rc >= 0) after a pipe() the process has no descriptors for.
PipeFails ==
    /\ worker \in {"idle", "halfPiped"}
    /\ ~DescriptorsFree(2)
    /\ Die("exhausted")

\* The same assertion, for the file table of the whole system is full.
PipeRefused ==
    /\ worker \in {"idle", "halfPiped"}
    /\ DescriptorsFree(2)
    /\ Die("aborted")

Fork ==
    /\ worker = "piped"
    /\ worker' = "forked"
    /\ child' = "forked"
    /\ childHeld' = held
    /\ UNCHANGED <<held, owed, buffer, heir, written, pipe>>

\* ic_assert((int)child >= 0) after fork().
ForkFails ==
    /\ worker = "piped"
    /\ Die("aborted")

\* Fault: the first descriptor of both pipes is closed.
CloseReadEnds ==
    /\ worker = "forked"
    /\ worker' = "closed"
    /\ held' = held \ {"inR", "outR"}
    /\ UNCHANGED <<owed, buffer, childVars, pipe>>

\* close(input_fds[0]); close(output_fds[1]);
CloseChildEnds ==
    /\ worker = "forked"
    /\ worker' = "closed"
    /\ held' = held \ Stdio
    /\ UNCHANGED <<owed, buffer, childVars, pipe>>

\* Fault: the input pipe stays open while the output is read.
KeepInput ==
    /\ worker = "closed"
    /\ worker' = "reading"
    /\ UNCHANGED <<held, owed, buffer, childVars, pipe>>

\* close(input_fds[1]): nothing is ever sent to the command.
CloseInput ==
    /\ worker = "closed"
    /\ worker' = "reading"
    /\ held' = held \ {"inW"}
    /\ UNCHANGED <<owed, buffer, childVars, pipe>>

\* Fault: a read that empties the pipe is taken for the last one.
ReadShort(n, hasMemory) ==
    /\ worker = "reading"
    /\ n <= pipe
    /\ pipe' = pipe - n
    /\ collected' = IF hasMemory THEN collected + n ELSE collected
    /\ lost' = IF hasMemory THEN lost ELSE lost + n
    /\ worker' = IF pipe' = 0 THEN "collected" ELSE "reading"
    /\ UNCHANGED <<held, owed, terminated, childVars>>

\* One read(): it blocks on an empty pipe that still has a writer.  If there
\* is no memory bs_reserve() fails, bs_post_put() then fails too and leaves
\* the cursor where it is, and the loop goes on as if nothing had happened.
Read(n, hasMemory) ==
    /\ worker = "reading"
    /\ n <= pipe
    /\ pipe' = pipe - n
    /\ IF hasMemory THEN collected' = collected + n /\ UNCHANGED lost
                    ELSE lost' = lost + n /\ UNCHANGED collected
    /\ UNCHANGED <<worker, held, owed, terminated, childVars>>

\* read() returns 0, and the terminating NUL is added if there is memory.
ReadEnd(hasMemory) ==
    /\ worker = "reading"
    /\ EndOfOutput
    /\ worker' = "collected"
    /\ terminated' = hasMemory
    /\ UNCHANGED <<held, owed, collected, lost, childVars, pipe>>

\* ic_assert(!rc) after icmp_marshal(): no memory, or an empty buffer.
MarshalFails ==
    /\ worker = "collected"
    /\ Die("aborted")

\* icmp_marshal() refuses a payload of no bytes at all.
Marshals == collected > 0 \/ terminated

\* The reply is marshalled and sent.
Reply ==
    /\ worker = "collected"
    /\ Marshals
    /\ worker' = "replied"
    /\ UNCHANGED <<held, owed, buffer, childVars, pipe>>

\* The early return after a failed send: output_fds[0] stays open and
\* nobody waits for the child.
ReplyFails ==
    /\ worker = "collected"
    /\ Marshals
    /\ worker' = "idle"
    /\ held' = {}
    /\ leaked' = leaked + Cardinality(held)
    /\ unreaped' = unreaped + 1
    /\ child' = "none" /\ childHeld' = {} /\ heir' = {}
    /\ UNCHANGED <<connections, buffer, written, pipe>>

\* Fault: the read end of the output pipe is never closed.
KeepOutput ==
    /\ worker = "replied"
    /\ worker' = "reaping"
    /\ held' = {}
    /\ leaked' = leaked + Cardinality(held)
    /\ UNCHANGED <<unreaped, connections, buffer, childVars, pipe>>

CloseOutput ==
    /\ worker = "replied"
    /\ worker' = "reaping"
    /\ held' = held \ {"outR"}
    /\ UNCHANGED <<owed, buffer, childVars, pipe>>

\* Fault: waitpid() does not wait.
ReapAtOnce ==
    /\ worker = "reaping"
    /\ worker' = "idle"
    /\ child' = "none" /\ childHeld' = {} /\ heir' = {}
    /\ UNCHANGED <<held, owed, buffer, written, pipe>>

\* waitpid(child, NULL, 0)
Reap ==
    /\ worker = "reaping"
    /\ child = "exited"
    /\ worker' = "idle"
    /\ child' = "none" /\ childHeld' = {} /\ heir' = {}
    /\ UNCHANGED <<held, owed, buffer, written, pipe>>

\* A signal, or an assertion elsewhere, ends the worker anywhere.
Killed ==
    /\ worker \notin Dead
    /\ Die("aborted")

-----------------------------------------------------------------------------
(* The clients, whom a thread of nanomsg accepts whatever the worker does. *)

Connect ==
    /\ worker \notin Dead
    /\ DescriptorsFree(1)
    /\ connections' = connections + 1
    /\ UNCHANGED <<worker, held, leaked, unreaped, buffer, childVars, pipe>>

Disconnect ==
    /\ worker \notin Dead
    /\ connections > 0
    /\ connections' = connections - 1
    /\ UNCHANGED <<worker, held, leaked, unreaped, buffer, childVars, pipe>>

-----------------------------------------------------------------------------
(* The child and what it becomes.  An exec that fails is a command that    *)
(* writes its error message and exits.                                     *)

\* Fault: the child keeps its copy of the input pipe's write end.
SetUpKeepsInput(next) ==
    /\ child = "forked"
    /\ childHeld' = childHeld \ {"outR"}
    /\ child' = next
    /\ UNCHANGED <<workerVars, heir, written, pipe>>

\* The two close(), three dup2() and two close() before execvp(); the
\* command then either waits for the end of its input first or does not.
SetUp(next) ==
    /\ child = "forked"
    /\ childHeld' = childHeld \ {"inW", "outR"}
    /\ child' = next
    /\ UNCHANGED <<workerVars, heir, written, pipe>>

\* An ic_assert() in the child ends it before it has written anything.
SetUpFails ==
    /\ child = "forked"
    /\ child' = "exited"
    /\ childHeld' = {}
    /\ UNCHANGED <<workerVars, heir, written, pipe>>

SeeEndOfInput ==
    /\ child = "awaitingInput"
    /\ EndOfInput
    /\ child' = "working"
    /\ UNCHANGED <<workerVars, childHeld, heir, written, pipe>>

\* The command calls write(), and is blocked while the pipe is full.
BeginWrite ==
    /\ child = "working"
    /\ "outW" \in childHeld
    /\ written < MaxChunks
    /\ child' = "writing"
    /\ UNCHANGED <<workerVars, childHeld, heir, written, pipe>>

CanWrite == pipe < PipeCapacity /\ Holders("outR") # {}

Write ==
    /\ child = "writing"
    /\ CanWrite
    /\ child' = "working"
    /\ pipe' = pipe + 1
    /\ written' = written + 1
    /\ UNCHANGED <<workerVars, childHeld, heir>>

\* EPIPE: create_worker() ignores SIGPIPE, and the command inherits that.
WriteFails ==
    /\ child = "writing"
    /\ Holders("outR") = {}
    /\ child' = "working"
    /\ UNCHANGED <<workerVars, childHeld, heir, written, pipe>>

\* The bound leaves room for what the command is about to write.
HeirWrites ==
    /\ "outW" \in heir
    /\ CanWrite
    /\ written < IF child = "writing" THEN MaxChunks - 1 ELSE MaxChunks
    /\ pipe' = pipe + 1
    /\ written' = written + 1
    /\ UNCHANGED <<workerVars, child, childHeld, heir>>

\* The command leaves a process behind that shares its stdio.
LeaveHeir ==
    /\ child = "working"
    /\ heir = {}
    /\ childHeld # {}
    /\ heir' = childHeld
    /\ UNCHANGED <<workerVars, child, childHeld, written, pipe>>

\* The command closes its stdio and goes on.
Detach ==
    /\ child = "working"
    /\ childHeld # {}
    /\ childHeld' = {}
    /\ UNCHANGED <<workerVars, child, heir, written, pipe>>

\* A command that is blocked in a write() does not exit.
Exit ==
    /\ child = "working"
    /\ child' = "exited"
    /\ childHeld' = {}
    /\ UNCHANGED <<workerVars, heir, written, pipe>>

HeirExits ==
    /\ heir # {}
    /\ heir' = {}
    /\ UNCHANGED <<workerVars, child, childHeld, written, pipe>>

-----------------------------------------------------------------------------
WorkerNext ==
    \/ OpenInputPipe \/ OpenOutputPipe \/ PipeFails \/ PipeRefused
    \/ Fork \/ ForkFails \/ CloseChildEnds \/ CloseInput
    \/ \E hasMemory \in BOOLEAN :
         \/ \E n \in 1..PipeCapacity : Read(n, hasMemory)
         \/ ReadEnd(hasMemory)
    \/ MarshalFails \/ Reply \/ ReplyFails
    \/ CloseOutput \/ Reap

Outside == Killed \/ Connect \/ Disconnect

ChildNext ==
    \/ \E next \in {"awaitingInput", "working"} : SetUp(next)
    \/ SetUpFails
    \/ SeeEndOfInput
    \/ BeginWrite \/ Write \/ WriteFails \/ HeirWrites
    \/ LeaveHeir
    \/ Detach
    \/ Exit
    \/ HeirExits

Next == WorkerNext \/ Outside \/ ChildNext

Spec == Init /\ [][Next]_vars

\* The worker is never starved, and this instance's commands all end: the
\* child sets up, is done with its input, writes what there is room for and
\* exits, and its heir exits.
Fairness ==
    /\ WF_vars(WorkerNext)
    /\ WF_vars(SetUpFails \/ \E next \in {"awaitingInput", "working"} : SetUp(next))
    /\ WF_vars(SeeEndOfInput)
    /\ WF_vars(Write \/ WriteFails)
    /\ WF_vars(Exit)
    /\ WF_vars(HeirExits)

FairSpec == Spec /\ Fairness

-----------------------------------------------------------------------------
\* Every variable stays within its type.
TypeOK ==
    /\ worker \in WorkerStates
    /\ held \in SUBSET Ends
    /\ leaked \in 0..FdLimit
    /\ child \in ChildStates
    /\ childHeld \in SUBSET Ends
    /\ heir \in SUBSET Ends
    /\ unreaped \in 0..FdLimit
    /\ connections \in 0..FdLimit
    /\ pipe \in 0..PipeCapacity
    /\ written \in 0..MaxChunks
    /\ collected \in 0..MaxChunks
    /\ lost \in 0..MaxChunks
    /\ terminated \in BOOLEAN

\* When the read loop of execute_cmd() ends, the worker has read everything
\* the command, or a process it left behind, has written and ever will write;
\* the buffer lacks exactly the chunks for which there was no memory.
CompleteOutput ==
    worker \in {"collected", "replied", "reaping"} =>
        /\ collected + lost = written
        /\ pipe = 0
        /\ Holders("outW") = {}

Phase ==
    CASE worker = "idle" -> "receiving"
      [] worker \in {"halfPiped", "piped", "forked", "closed", "reading"} -> "running"
      [] worker = "collected" -> "replying"
      [] worker \in {"replied", "reaping"} -> "reaping"
      [] worker \in Dead -> "down"

Run == INSTANCE CommandRun WITH
    phase     <- Phase,
    exited    <- worker \in {"idle"} \union Dead \/ child = "exited",
    wrote     <- written,
    starved   <- lost > 0,
    answer    <- IF Phase \in {"replying", "reaping"} THEN collected ELSE 0,
    abandoned <- unreaped

\* Whatever pipes, processes and descriptors do in which order, the worker
\* only does what its loop counts on: the reply is all of the output, written
\* before the reply is made and by this command only, or less if memory was
\* short during this very run; and the next request waits until the command
\* has exited unless the send failed (subcmd_start.c:259-306).
RunsLikeAbstract == Run!Spec

\* Nobody can write to a pipe whose read end is closed: while the command or
\* its heir still holds the output, the worker, unless it is dead, holds the
\* other end.
WritersHaveReader ==
    worker \notin Dead /\ Holders("outW") # {} => "outR" \in held

\* Between two runs the worker holds no pipe end but the read ends that
\* failed sends left open, one for each child they left unreaped
\* (subcmd_start.c:294-299).
LeaksAreFailures ==
    /\ leaked = unreaped
    /\ worker = "idle" => held = {}

\* A worker runs out of descriptors only if failed sends and clients that are
\* connected at the time have taken all but what one run needs.
ExhaustionHasCauses ==
    worker = "exhausted" => unreaped + connections > FdLimit - 4

\* Neither the worker nor the command waits for the other for ever, not for
\* the end of the input and not for room in the output pipe: a run of a
\* command that ends comes to its end, or no pipe or process can be had.
RunFinishes ==
    worker # "idle" ~> worker \in {"idle"} \union Dead
=============================================================================
