# A verification project for the inter-container messaging protocol

TLA+ models of `icmpd` and `icmpc` (src/), TLC runs on small instances, and
TLAPS proofs for every value of the constants. Paths below are relative to the
repository.

## 1. The system

A system is split into containers. Each container that accepts commands from
others runs **icmpd**; a container that wants something done runs **icmpc**
once per request. For every container an icmpd monitors it has one *channel*, a
nanomsg IPC endpoint in `/opt/container/<name>/`.

| component | code | state it keeps | operations | models |
|---|---|---|---|---|
| icmpd parent | src/icmpd/subcmd_start.c `run_start`, `init_context`, `create_worker`; src/lib/ic.c | its name, the monitor list, the record of workers | start, find out its name and list, fork one worker per entry, pause, exit | `Daemon` |
| channel transport | src/lib/transport.c, src/lib/nanomsg.c, `ic_util_mkdir` | directories, the bound endpoint of each channel | create as master or slave, destroy | `Transport`, `ChannelLock` |
| worker | subcmd_start.c `create_worker`, `handle_protocol`, `handle_payload`, `echo_data` | REP socket, `ic_errno` | receive, check, echo, execute, refuse, reply, wait for the child, come back | `IcmpService` |
| access policy | subcmd_start.c `check_limited_commands`, `check_command_acl`, `check_command` | the configuration (read once before the fork), `ic_errno` | decide | `CommandPolicy` |
| command execution | subcmd_start.c `execute_cmd` | pipe ends, children, output collected | pipe, fork, close, read, reply, wait | `CommandRunner`, `CommandRun` |
| icmpc | src/icmpc/subcmd_commandline.c, subcmd_echo.c | REQ socket | submit, wait for one reply, print | `IcmpService` |
| nanomsg REQ/REP | external, as src/lib/nanomsg.c uses it | request and resend timer; peer of the last receive | transmit, resend, discard, drop | `IcmpService` |
| byte buffer | src/lib/buffer_stream.c | buffer, length, cursor | seek, reserve, get, put | `BufferStream` |
| message codec | src/lib/icmp.c, src/include/icmp.h | - | marshal, sanity check, unmarshal | `IcmpMessage` |
| configuration | src/lib/conf_file.c, yaml.c, string_tree.c, `ic_util_split_string` | a tree of strings | parse, query, split | `Configuration` |
| command line | subcmd_start.c `check_command`, `build_argv` | - | cut out the name, cut into words | `CommandLine` |
| vector | src/lib/vector.c | a budget of entries, objects | create, expand, set, get, convert, destroy | `Vector` |
| LXC listing | src/lib/lxc.c | a vector of names | scan a directory | `LxcListing` |
| options and subcommands | src/icmpd/icmpd.c, src/icmpc/icmpc.c, src/lib/subcommand.c, the `parse_arg` of every subcommand | getopt's `optind`, the `opt_` variables | read options, look up a subcommand, read its arguments, run it | `Invocation` |
| vectored sends | src/lib/transport.c, nanomsg.c | - | - | not modelled |
| platform helpers | src/lib/linux.c, init.c, garbage.c | - | - | not modelled |

**How they interact.** The parent reads the configuration, names itself after
`.container_name` or the host, forks one worker per monitored container and
then only pauses. Every worker creates the channel directory (and a shared
`local` one), binds the endpoint, and serves requests one at a time. A client
hands its request to a REQ socket, which transmits it when a worker is there
and again after the resend interval or a reconnection. The worker passes a
command through two checks, forks it, reads its output to the end of file and
sends one reply. The library's REP socket remembers only the peer of the last
receive.

**What is hard.** Resends and crashes against non-idempotent commands; a
configuration that is edited while requests are on their way; a refusal that
sends no reply; an error number that is never reset; a failed send that skips its
clean-up; a wait for the child behind the reply; four pipe ends shared by three
processes; workers and clients that create the same directories; workers that
outlive their parent; a buffer whose error results are ignored, which loses output;
length fields narrower than the lengths; descriptors that clients hold; two readings of
one command line; look-ups whose recursion shares a flag; strings cut in
place; two option loops that share `optind`. `PROJECT.json` lists these hazards
line by line with the properties that cover them.

## 2. Modules

| module | what it is |
|---|---|
| `CommandPolicy` | the access decision as operators of the configuration, and the error number it leaves |
| `IcmpService` | one channel: clients, REQ/REP sockets, the worker loop |
| `RemoteCommand` | abstract: what the protocol promises a caller |
| `IcmpServiceRefinement` | the mapping from `IcmpService` to `RemoteCommand` |
| `IcmpServiceProofs` | proofs about the three above |
| `CommandRunner` | `execute_cmd()` with the child and a process it leaves behind |
| `CommandRun` | abstract: a command's run as the worker's loop sees it |
| `CommandRunnerProofs` | proofs about the two above |
| `Daemon` | the parent, its workers and the clients started meanwhile, restarts |
| `Transport` | how one process gets and gives back its end of a channel; `Daemon` instantiates it for workers and clients |
| `ChannelLock` | abstract: who serves a channel |
| `DaemonProofs` | proofs about the three above |
| `BufferStream`, `BufferStreamProofs` | the byte buffer |
| `IcmpMessage`, `IcmpMessageProofs` | the messages of one exchange: field widths, checks, printing |
| `Configuration` | the tree of strings and its look-up, as recursive functions |
| `SplitString` | the joining and the cutting of an answer, as recursive functions |
| `CommandLine` | the name that is checked and the words that are run |
| `ParsingProofs` | proofs about the three above |
| `Vector` | growing arrays and what failed allocations do to them |
| `LxcListing` | the directory scan as a sequence of calls on a vector, and all sequences of calls on the other layout |
| `LxcListingProofs` | proofs about the two above |
| `Invocation`, `InvocationProofs` | the command lines of icmpd and icmpc |
| `MCIcmpService`, `MCDaemon`, `MCConfiguration` | instances for TLC |

**How the modules compose.** `IcmpService` speaks of one channel and takes two
things about the rest of the system for granted. That a channel has at most one
worker, up or down, which is followed by another one, is what `Daemon` is shown
to implement as `ChannelLock`. That a command's run is a phase `running`, then
`replying`, then `reaping`, which ends with the child's exit, an abandoned child, or
the worker's end before the command exists, is `CommandRun`, which `CommandRunner`
is shown to implement. `WorkerStart` picks any configuration, as `Daemon`'s
`Start` does.

Operators marked *Fault* are deliberately wrong variants of the definition that
follows them. No specification uses them; substituted for that definition they
show that the corresponding property can fail.

### IcmpService and the code

* `Submit`, `NoTransport`, `ReceiveReply`, `KillClient` are an icmpc process: it
  sends one request and exits after one reply, so a client is its request too.
* `Transmit`, `Discard`, `DropReply` are nanomsg. `copies` counts the copies of
  a request that wait at the worker; `Transmit` after the first is a resend.
* `ServeEcho`, `ServeCommand`, `RefuseCommand` each are one call of
  `handle_protocol()` up to the point where the worker next blocks: `nn_recv()`
  (the conjunct `Dequeue`), `check_command()`, and the start of the command.
  `CommandEnds` is the end of the read loop. `SendReply`, `DropReply` and `FailReply`
  are the outcomes of `nn_send()`. Behind a send that succeeded `execute_cmd()` waits
  for its child (`reaping`, `Reap`); behind one that failed it does not. `Reenter` is
  the `while (1)` of `create_worker()`.
* `errno` is `ic_errno`: a denial sets it, nothing resets it, and a later check
  that *fails* is then taken for a denial (`masked`).
* `WorkerExit` is a signal or an assertion; the command it was running lives on.
  `WorkerStart` is a newly started icmpd with any of `Policies`: the parent reads
  its configuration once, before it forks.
* `Endless` commands never close their output, `Lingering` ones close it and never
  exit: the first hold the worker before the reply, the second behind it. The output of
  `Oversized` ones makes a reply longer than a socket receives (`NN_RCVMAXSIZE`, 1 MiB,
  which src/ leaves alone): the client's socket refuses it, so `DropReply` is all that
  happens to it, and the request is transmitted again.
* `resent`, `executed`, `repeated`, `denied`, `masked` are history variables.

### CommandRunner and the code

`held`, `childHeld`, `heir` are the pipe ends of the current run held by the
worker, the child and a process the child leaves behind; `dup2()` followed by
`close()` leaves the holder unchanged. `leaked` counts descriptors, `unreaped`
children, that a failed send leaves behind; `connections` are the icmpc processes for
which nanomsg holds a descriptor of the worker, and they come and go (`Connect`,
`Disconnect`) whatever the worker does. A `pipe()` that fails because the process has no
descriptor left (`exhausted`) is told apart from other assertions and from a kill
(`aborted`): the system's file table is full (`PipeRefused`), `fork()` fails,
`icmp_marshal()` has no memory, a signal arrives.

`Read` is one turn of the loop, with memory for the chunk or without. Without it
`bs_reserve()` and `bs_post_put()` fail, nobody looks, and the chunk is lost (`lost`,
src/icmpd/subcmd_start.c:274-275); the next one may find memory again. `ReadEnd`
likewise may lose the terminating NUL. `BeginWrite` and `Write` are the two ends of one
`write()` of the command: between them it is blocked while the pipe is full, and cannot
exit. `create_worker()` ignores SIGPIPE and the command inherits that, so a pipe
without a reader makes its `write()` fail (`WriteFails`).

`Phase` maps the program counter to the worker's states in `IcmpService`, and
`CommandRun` is instantiated with it: `written` and `collected` are what the command
has written and what the reply contains, `lost > 0` says that memory was short in this
run, `unreaped` counts the commands nobody waited for.

### Daemon, Transport and the code

A name is a sequence of the pieces into which the code cuts it: the host name
`container-dom0` is `<<"conta", "ine", "r-", "dom0">>`. The wildcard monitor
list succeeds only if no LXC container is defined, because
`vector_to_string_array()` dereferences the text of a name as a descriptor
(src/lib/vector.c:339). `Start` reads any of `Configs`: the file may have been
edited since the last time. `fork()` fails when `MaxAlive` processes live (the
system's process table), and the assertion behind it ends the parent. `err_create_worker`
and `stop_worker()` are unreachable and left out: `create_worker()` never returns a
negative number.

`proc` walks a worker or a client through `ic_transport_create()`: `access()`, then one
`mkdir()` per path component, for its own directory and for `local`, then the bind of
a master or the connect of a slave. `mkdir()` needs the parent directory. `Bind`
takes over the path a dead process has left behind and no other. `Dies` is a kill at
any step, or a system call that fails for a reason the model does not know; a master
has no other end. `CallClient` is an icmpc that is started, with a requestor or for
`local`; unlike a worker it destroys its transport.

### BufferStream and the code

One action per function, with any offset. `room` remembers what a reserve
promised at the cursor, `log` what was appended while the caller did nothing but
append. The size of an empty buffer is zero, so seeking to 0 in it fails, as in
the code. `bs_reserve_at()` copies into new memory and never frees the old
(src/lib/buffer_stream.c:99-110): `abandoned` counts it, and `CanGrow` gives a stream
what `Memory` has left beside all it has had. A reserve from a negative offset is
modelled as written; since its size
is computed from the offset as given, it promises no room.

### IcmpMessage and the code

`Marshal`, `Accepts` and `Unmarshal` are `icmp_marshal()`, `sanity_check_header()`
with the empty-message check, and `icmp_unmarshal()`; a request or reply is one
action for the marshalling on one side, one for the unmarshalling on the other
(`Request` and `ReceiveRequest`, `ServeEcho` or `ServeCommand` and `ReceiveReply`).
`payloadLength` and the sum it is checked in are taken modulo `Word`, the scaled 2^32.

Between the two sides are the transport's limits. `nanomsg_send_data()` puts the result
of `nn_send()` into an int, so a message beyond `MaxInt` counts as unsent
(`SendFails`), and one beyond `MaxReceive` (`NN_RCVMAXSIZE`) is refused by the socket it
is sent to (`NeverArrives`). Both are smaller than `Word`, so a message whose length
field was cut never reaches a handler. Every allocation may fail: `WithoutMemory` is an
`icmp_marshal()` that goes on after a failed reserve, an output that is not `terminated`
one whose NUL found no room. `print_result()` ignores the length and prints up to the
first NUL, behind the message if it has none (`overread`). The authorization area is
empty in this version.

### Configuration and the code

A string is a sequence of pieces with "." and ":" as pieces of their own, so that
a name with a dot is cut into path components and an element with a colon into two
elements, as in the code. `Join` is the loop of `query_string_tree()` that puts the
strings of a list behind each other, `Cut` that of `ic_util_split_string()`.

A document is what libyaml hands over: nodes that refer to each other by number. Any
document without cycles can be numbered so that a node comes before what it contains
(`IsDocument`); an alias to an enclosing node, on which `walk_through_yaml()`
never ends, is left out, as is an empty file. `Hang` is one call of `walk_through_yaml()`,
which first a key and then its value are passed to with the same node of the tree;
`Contents` is its loops over pairs and items, `WalkThrough` the whole walk. The
recursion over a document is a recursive function of its nodes. `QueryNode` is one
call of `query_string_tree()`, `QueryChildren` its last loop, with the flag
`associated` as `stop`. The recursion over a path is a recursive function of the
component that is compared, whose values are functions of the nodes at that depth. A
node whose string was never set makes a look-up that compares or joins it crash.
The queries without a "%s" (`.container_name`) are queries for that name.

`Way` and `Elements` ask the same of the document: where the path leads, key by key,
and what list stands there. `FindsSetting` and `FindsNothingElse` are about the path that
the code follows (`PathOf`), in which a name with a dot is several keys: a key that is
itself written with a dot is never found. `NotFoundIsAbsent` is about the path as it is
meant (`WrittenPath`), in which a name is one key, and it is false. An empty scalar is
a list with one empty element and is found, as the empty string. `{monitor: {a: [], b: []}}` counts as the list of a and b,
because `walk_through_yaml()` leaves the same nodes for both.

### CommandLine and the code

`ExtractName` is `check_command()` up to the checks; `CopyLine`, `TakeWord`,
`SkipTail`, `EndOfLine` are `build_argv()`, one action per turn of its loop. Words
are cut in place: `argv` holds positions in `args`. The two do not agree about
leading white space: `build_argv()` skips it (src/icmpd/subcmd_start.c:123),
`check_command()` finds an empty name there (444). `PartsAfterSpace` says that they part
on exactly these lines, and `ChecksTheProgram`, that they never do, is false.
`CommandPolicy` and `IcmpService` identify a command with its first word, so what they
say of granted commands is said of lines that begin with one.

### Vector, LxcListing and the code

The two layouts are those that callers create: names (variable size, constructed
and destroyed one by one) and objects the vector allocates. `live` counts object
buffers. `NoObject` is the clean-up of `init_budget()`: it frees the objects of
earlier calls too, and `vector_expand()` then frees a budget that may be the old one
grown in place. A crash stands for undefined behaviour. `ToStringArray` is
`vector_to_string_array()` on names: with an entry to convert it follows the text of
a name as if it were a descriptor, which crashes or fails. `Destroy` frees through the
destructor only, which names have and objects have not: the objects of a destroyed
vector stay allocated for ever. (The code destroys a vector of objects only on the path
that gives up in the parent, which ends the process.)

`LxcListing` gives the names their only caller: `ic_lxc_list_defined_containers()`
reads a directory entry by entry and adds those that have a file `config`;
`init_context()` converts the result and destroys it. "." and ".." are skipped, other
hidden directories are not, although the comment on line 76 says so. `CutShort` is a
`readdir()` that fails: its null pointer is taken for the end (lines 72-74), and what has
been read by then is handed out like a whole listing. The objects have many callers with no order between them, so
every sequence of calls is a behaviour (`ObjectsNext`). `Null`, `Junk` and `Blank`
are what the model marks an entry with: a NULL pointer, whatever was in the
memory, and the object `init_budget()` has allocated but nobody has filled. They
are assumed to differ. `ListsDefined` counts: the k-th container of the directory
is the k-th name of the list (its text may be missing if `strdup()` failed), and the
list has as many names as there are containers among the entries that were read, which
are all of them unless the listing was cut short.

### Invocation and the code

`TakeOption`, `StopAtOption`, `RejectOption`, `FindSubcommand`, `RejectSubcommand` are
the turns of the `getopt_long()` loop of icmpd.c and icmpc.c; `TakeArgument` and
`RejectArgument` those of the loop of subcommand.c, which works on the vector from
the subcommand on with `optind = 1`. `Found` is getopt with an option string that
begins with "-" and no permutation. `Table` holds the option tables as they are
written, unused short forms included; an entry has the words that stand for it, and
says whether it takes the next word and whether the program stops at it. `set` are
the `opt_` variables of each file (`Variables`), an option before the subcommand and
its namesake behind it being different ones; those that C leaves NULL are `Unset`.
`reads` counts how often a word was read. Two things the usages say and the code
does not do: `--fg, -f` of `icmpd start` exists nowhere, and `icmpd start` with no
argument fails, although all its arguments are optional (`parsed` stays false).

## 3. Runs

| run | instance | states | checks |
|---|---|---|---|
| `service_safety` | 3 symmetric clients, 2 commands, 2 configurations, at most 1 queued copy per request | 1,631,794 | `OwnResult`, `RunsOnlyGranted`, `RepeatNeedsResend`, `MaskNeedsOtherDenial`, `KeepsPromise` |
| `service_live` | 2 clients, 5 commands (`top` endless, `at` lingering, `big` oversized), 2 configurations | 177,608 | `GrantedAnswered`, `WorkerComesBack` |
| `runner` | 9 descriptors, a pipe of 2 chunks, up to 4 chunks of output | 29,961 | `CompleteOutput`, `WritersHaveReader`, `LeaksAreFailures`, `ExhaustionHasCauses`, `RunsLikeAbstract`, `RunFinishes` |
| `daemon` | 2 starts, lists of up to 2 channels, 5 configurations, one client with 2 requestors, 3 processes at once | 220,439 | `TypeOK`, `LocalChannelExists`, `RecordMatchesList`, `ServesInTurn`, `FailsOnlyForBusyChannel`, `MonitoredIsServed` |
| `message` | a length field of 8 values, an int up to 7, messages received up to 6 bytes, 2-byte headers, texts of up to 5 bytes, outputs of up to 7 | 29,865 | `TypeOK`, `WholeAnswer`, `LengthIsTrue`, `StaysInMessage`, `RejectedNeedsShortage` |
| `configuration` | 3207 documents: up to two containers with up to two settings each, settings nested one level more or less, scalars and lists as the whole document, keys that are no scalars; 3 names in 4 queries | 44,898 | `AnswersOK`, `FindsSetting`, `FindsNothingElse`, `CrashNeedsNestedList` |
| `configuration_dotted` | the same documents, queries for ACLs | - | `NotFoundIsAbsent`, violated |
| `command_line` | all lines of up to 6 characters, 2 letters, 2 spaces | 30,946 | `WordsAreWhole`, `PartsAfterSpace` |
| `command_line_program` | lines of up to 3 characters | - | `ChecksTheProgram`, violated |
| `listing` | directories of up to 4 entries, a budget in steps of 2, any allocation and any `readdir()` failing | 54,398 | `TypeOK`, `KeepsEntries`, `FreesOnlyNames`, `CrashNeedsShortage`, `ListsDefined` |
| `buffer` | 6 bytes of memory for a stream and what it abandons, 2 byte values, offsets -3..3 | 59,028 | `RoomIsThere`, `AppendedIsKept`, `FailureKeeps` |
| `invocation` | all command lines of up to 5 words out of 11, for both programs | 959,464 | `EachWordOnce`, `LastOneCounts` |

**Why the bounds are enough.** Three clients let one be denied, one fail and one
be served between them; a second copy of a request exists as soon as the first
has been received, so `MaxCopies = 1` already has resends. Two configurations that
disagree about a command make a restart change what a waiting request may do. Nine
descriptors allow several failed sends and several clients at once; then the first
`pipe()` of the next run still succeeds and the second fails. Twice as many chunks as a
pipe holds make the writer block, the reader take partial reads, and a chunk in the
middle be lost. Two starts give workers
that have survived their parent, and a channel listed twice and two
configurations that list the same one give workers that compete for it; with three
processes at once the fourth `fork()` fails. The host is called
`container-essential`, the one name with a fallback of its own, which is cut to
`iner-essential`. Six bytes allow a
buffer to grow more than once, be overwritten in the middle and reach the limit of
`malloc()` through what it has abandoned. Messages of up to 10 bytes are on both sides of
each of the three limits 6, 7 and 8, and from 8 bytes on the length field, or the sum
that is checked, wraps; that the limits are in this order (`MessageAssumption`) is what
1 MiB, 2^31 - 1 and 2^32 are. Two
containers in either order, with a setting before the one that is asked for, make
the look-up pass nodes that do not match; values include empty lists, empty
strings, a colon, lists within lists and mappings within mappings; a name has a dot. A step of 2 makes a vector of 4 grow
within its budget and beyond it. Five words are an option of the program, the
subcommand, an option with its value, and one word more.
`TypeOK` of the service, the runner, the command line and the buffer is proved and
not checked again.
The runs that disable the deadlock check are those in which the system does
stop: a worker that an assertion has ended, icmpd after its last start, one
exchange, one query, one line, one invocation, and a vector that is destroyed or
has crashed.

**What the runs show.** Under resends, restarts, drops and kills a client never
sees another's result, although a refused request leaves the REP socket
associated with a client that will get no reply. Commands run at least once, and
more than once only after a retransmission, and only under a configuration that
grants them, even if it is not the one under which they were asked for. A client
whose request never ran stays blocked until it is killed. A policy failure is
mistaken for a denial exactly when another client was denied before. A run of a
command reads all its output and neither side waits for the other; what the reply lacks
are exactly the chunks for which there was no memory, and the client is not told. Every
failed send costs the worker one descriptor and one zombie; together with the clients
that are connected they make `pipe()` fail in the end. A command
whose reply is longer than 1 MiB is never answered, but the worker comes back. A command
that closes its output and stays alive holds the channel after its client was
answered. Concurrent workers and clients never make each other's
`mkdir()` fail, and a channel passes from worker to worker like a lock even if
icmpd is restarted while its old workers live; the new worker then ends. Nothing
replaces it. What icmpc prints
is what the worker replied; a message with a cut length field would pass the checks of
the codec, but the transport stops it. A reply that arrives is refused, or read past its
end, only if an allocation has failed. A setting is found where the dots of the queried
path lead, at any depth, and is cut back into the elements that were written, if they
contain no colon and the last is not empty; a key that has a dot itself is not found, and
a command of such a name is then granted to everybody. The name that is checked is the
program that runs on every line that does not begin with white space. A vector keeps its entries until an
expansion of a filled one runs out of memory; after that it promises nothing. A
listing that is handed out has every container that was read, and only an error of
`readdir()` keeps it from being complete. Every word of a command line is read exactly
once, and the last value given to an option behind the subcommand counts.

**Findings.** Each is a run in which the code does not do what a comment beside it
says.

* `command_line_program`: line 443 says "Extract the program name". Line 444 extracts an
  empty one from a line that begins with white space, and the program behind it runs
  without its settings having been looked up.
* `configuration_dotted`: a look-up that ends at src/lib/string_tree.c:155 ("Not found")
  makes src/icmpd/subcmd_start.c:394 report that no ACL is configured. Line 97 of
  string_tree.c cuts the queried path at the dot of a command's name, so the ACL of
  `dom.monitor` is in the file and the command is granted without it.

Other places where the code and the words beside it disagree are modelled as the code
has them; the definition or the passing property that shows it is named:

* src/icmpd/subcmd_start.c:262 redirects stdout and stderr to the transport. Lines
  274-275 ignore a buffer that cannot grow, the chunk is dropped, and the rest is sent as
  a success (`lost` in `CompleteOutput` and `RunsLikeAbstract`). Since a growing buffer
  abandons its memory, long output alone brings this about: n chunks need memory for
  n(n+1)/2.
* Lines 278-280 add a NUL "to make the result printable directly for icmpc". Lines
  281-283 ignore that there may be no room for it, and icmpc prints on behind the message
  (`starved` in `StaysInMessage`).
* src/lib/lxc.c:76 speaks of "any hidden directory"; line 77 ignores "." and ".." only
  (`Wanted`, `ListsDefined`).
* src/lib/ic.c:54-56 says that a system container (`container-dom*`) is named without its
  type prefix. Line 57 compares eight characters, line 58 cuts five: `container-dom0`
  becomes `iner-dom0` (`ContainerName`).
* src/icmpc/subcmd_commandline.c:129-130 names a default for `--config-file`. Its
  `opt_conf_file` has no initial value, and line 163 loads a file only if `-c` was given;
  the echo subcommand is alike (`Default` in `LastOneCounts` is given to `start` alone;
  icmpd does initialize its variable, subcmd_start.c:27).

## 4. Fairness

* Service: the worker process is scheduled (`CommandEnds`, `Reap`, `Reenter`, sends),
  the client's blocking receive returns when a reply has arrived, and the REQ socket's
  timer keeps firing (`Transmit`). `SF(Serve(c))`: `nn_recv()` takes its peers in
  turn, so a request that is queued again and again is received at last.
  `SF(SendReply /\ peer = c)`: a worker that answers the same client again and
  again does not lose every reply. It asks nothing of `Oversized` replies, which
  `SendReply` excepts and `GrantedAnswered` too. Nothing says that a worker is started or stays
  up, hence the premise of `GrantedAnswered`, or that anyone is killed. Endless and
  lingering commands are excepted by the guards of `CommandEnds` and `Reap`.
* Runner: the worker is scheduled; a command ends its set-up, its input, each `write()`
  that can end, and its life, and so does what it leaves behind. Without the last two, `RunFinishes` is
  false of any program: neither the read loop nor `waitpid()` has a timeout.
* Daemon: parent, workers and clients are scheduled. No fairness on starting,
  calling, stopping or dying.

## 5. Proofs

All constants are arbitrary within the named assumptions of the modules.

* **CommandRunnerProofs**: types, `CompleteOutput`, `WritersHaveReader`,
  `LeaksAreFailures`, `ExhaustionHasCauses`. None is inductive alone: which
  ends the worker holds is a function of its program counter (`HeldAt`), those of
  the child and its heir of the child's (`ChildInv`), chunks are conserved
  between the writers, the pipe, the buffer and what was lost (`OutputInv`), and a run starts only with descriptors to spare (`LeakInv`).
  `CompleteOutput` follows from conservation and from the fact that once the end
  of file is seen nobody can get the write end back. `ExhaustionHasCauses` follows from
  `LeakInv` and from what `HeldAt` says of a worker that asks for a pipe. `RunsLikeAbstract`:
  under the same invariant each step of the worker, of a child or of the outside is a step
  of `CommandRun` or a stutter; the read loop's end maps to `CommandEnds` by
  `CompleteOutput`, a chunk that is lost to `Starve`, and the worker's end, wherever it
  comes, to `WorkerExit`.
* **IcmpServiceProofs**: `CheckCommandCorrect` (the code's order of checks and
  fallbacks grants exactly what the configuration grants), types, `OwnResult`,
  `RunsOnlyGranted`, `RepeatNeedsResend`, `MaskNeedsOtherDenial`,
  and `KeepsPromise` (the initial states and every step of the
  service map to `RemoteCommand`). The strengthening says what a queued copy, a
  request being served and a reply in flight say about their client: a client
  with a queued copy has asked and transmitted, the peer of a served request is
  its own client, every reply in flight carries the command code and outcome of
  the client it goes to and is backed by a start of its command, a second queued
  copy or one beside a start means a resend, and an error number set to denied
  means somebody was denied. A running command is granted by the policy of *now*,
  since the policy changes only while there is no worker.
* **DaemonProofs**: types, `RecordMatchesList`, `LocalChannelExists`,
  `FailsOnlyForBusyChannel`, and `ServesInTurn` (the daemon implements
  `ChannelLock`), for any number of starts, clients and list entries. `PathInv` says
  what directories exist by the time a process is where it is; since nobody removes
  one, no step of another process disturbs it, and `mkdir()` always finds the parent
  directory. `BoundInv` says that a channel is bound to a worker exactly if that
  worker is open on it, which makes the holder of a channel unique: `Bind` is
  `Acquire`, the end of an open worker is `Release`, that of another one, and a bind
  that fails, is `Retire`. `SideInv` keeps clients out of this: they are never
  masters. `ParentInv` bounds the record by the list, so that the next worker's
  process id is new.
* **BufferStreamProofs**: types, `RoomIsThere`, `AppendedIsKept`,
  `FailureKeeps`. The invariant adds that the history is either given up or fits
  in the buffer.
* **ParsingProofs**: of `CommandLine` types, `WordsAreWhole`, `PartsAfterSpace`, for lines
  of any length. The strengthening splits the copy at `curr`: behind it the line is as it
  was copied and begins at a boundary (`RestInv`); before it every word of the line
  is in argv, in order (`FoundInv`), whole, terminated, and ends before `curr`
  (`WholeInv`). `argv[n] >= n` bounds argc. Of `SplitString`, `SplitUndoesJoin`: if no
  element of a list has a colon and the last is not empty, `Split` of `Join` is the
  list, for lists and elements of any length. Both conditions are needed, since `Join`
  does not escape ":" (a TODO in src/lib/string_tree.c:128) and a colon at the end
  begins no element. The claim is, for each k, that the loop makes of the string from
  the place of the k-th element the list from there on, and k goes from the last element
  to the first.

  Of `Configuration` all four properties, for documents of any size and depth, any names,
  and queries of any length. As an invariant `ConfInv` only says that the tree is that of
  the document and the answer that of the look-up; the work is in the lemmas about one
  walk and one look-up. `PairKids` and `ListKids` say what a mapping and a list leave in
  the tree. `FollowsWay` is the heart: by induction along the path, a look-up is
  answered by the children of the node that `Way` leads to. `KeyIsFound` is its step: the
  child with the key answers, and every other one, by `QueryNode`'s comparison, leaves
  the flag such that the search goes on. It needs the keys of each mapping on the way to be
  different texts (`Unambiguous`): of two equal keys the second may answer where the
  first has no answer, or be hidden by it.
  `QueryFindsList` and `QueryFindsNull` are what it gives at the end of the way, and
  where the way ends before the path. `FindsSetting` is the first with
  `SplitUndoesJoin`. For `CrashNeedsNestedList` there is no way to follow:
  `Lists` names everything that a document can leave as children anywhere in its tree,
  each node a look-up comes to has such children (`LevelsInTree`), and where keys and
  items are scalars each of them has a string (`NodesHaveNames`).
* **IcmpMessageProofs**: types, `WholeAnswer`, `LengthIsTrue`, `StaysInMessage`,
  `RejectedNeedsShortage`, for every width of the length fields (`Word`), every limit of
  the transport below it, size of a header and length of a text. The invariant says what
  is in flight: a request is `Marshal` of a terminated text (`Asked`), a reply is `Marshal`
  of what the worker had to say (`Answered`), unless an allocation failed. `ArrivedIsTrue`
  is where the limits come in: a message that arrives is shorter than `Word`, so neither
  its field nor the sum it is compared with has wrapped, and it announces what it
  carries. `MarshalAccepted` gives the checks: field and sum are reduced modulo the same
  `Word`. That `print_result()` stops in time needs the first NUL of a reply to exist
  (`Terminated`), which is a least element of a set of positions.
* **LxcListingProofs**: for the vector, types, `KeepsEntries`, `FreesOnlyNames`,
  `CrashNeedsShortage`, with any step and number of entries and any allocation
  failing. Alone they do not carry over: `Table` says that a vector that has never
  failed in mid-growth has a table exactly if it has entries, `EntriesAreGiven` that no
  entry within `nr` is unfilled memory, `JunkBehind` that there are no objects outside the
  entries of a table, so that those a destroyed vector leaves can still be counted,
  `NamesNeverShort` that a list of names, which
  allocates no objects, never fails half way. They hold for the vector's own
  specification, in which callers come in any order (`VectorCorrect`), and so under
  `LxcListing`, whose steps are steps of the vector with the scan beside them.
  `ListsDefined` follows from the same statement about the entries read so far
  (`ListedSoFar`): reading a container adds an entry and raises the rank of every
  later container by one.
* **InvocationProofs**: `EachWordOnce` and `LastOneCounts`, for command lines of any
  length over any words, and the tables as they are written. About the tables only
  three facts are used (`GoodTable`): no two entries share a word, entries are named
  by words that look like options, and no entry is for a plain word. The strengthening
  says that either loop stands at a word that is read on its own (`Begins`), that
  the words behind it have been options of the program (`OptionsRead`), and that each
  option of the subcommand has the last value given before `Here`, or none was given
  and it is as it was initialized (`ArgumentsRead`, `LastRead`); variables of a
  subcommand are untouched until it is found. At the end nothing is left to give, so
  the last value so far is the last value.

`Begins`, `Cut`, `Join`, `WalkThrough`, `Query` and `Way` are recursive functions. The
library's induction theorems cannot be used (they take an operator), so the proofs argue
by the least position at which a claim fails (`LeastElement`), which exists because an
interval of naturals is well-founded (`WFMin` with
`FS_StrictSubsetOrderingWellFounded`), or by the set of numbers for which it holds
(`Upward`, `Downward`). It gives that such a function exists (`BeginsExists`,
`ChainExists`, `WalkExists`, `QueryExists`), what it computes, and the first NUL of a
reply.

Only model-checked: all liveness (`GrantedAnswered`, `WorkerComesBack`, `RunFinishes`,
`MonitoredIsServed`), which is beyond the prover. Every invariant and action property of
a passing run is proved.

## 6. Not modelled

* **Vectored sends** (`ic_transport_append_vector_data()`,
  `ic_transport_send_vector_data()`, the `nn_iovec` and `nn_poll()` wrappers): nothing in
  the repository calls them, so there is no use to translate and no state they share
  with what is modelled.
* **Platform helpers**: linux.c wraps libc calls one to one and its file helpers
  have no caller; the garbage registry is two empty functions; init.c sets a flag that
  nobody reads.
* Allocation failures outside `Vector`, `LxcListing`, `BufferStream`, `CommandRunner` and
  `IcmpMessage`:
  they end the process or one request, as `NoTransport`, `Dies` and `WorkerExit` do.
* In the transport, `nn_bind()` is one step (the library's own check of a path that is
  in use is external), and the retry of a `nn_close()` that a signal interrupts is left
  out. `daemonlize()` is the two ways it can end.
* A `read()` of the output pipe that fails (src/icmpd/subcmd_start.c:269) is the kill of
  the worker that its assertion amounts to (`Killed`). A worker's other descriptors are
  permanent, and `FdLimit` counts those beside them.
* In the buffer, a negative offset of `bs_reserve_at()` is modelled but no caller passes
  one.
* Logging, verbosity, usage texts, libyaml's parsing, and the nanomsg library beyond what
  src/lib/nanomsg.c relies on. The authorization area of a message is empty in this
  version. Messages that neither side marshals are left out. Clustered short options,
  attached arguments and abbreviated long options are getopt's matter.

## 7. What could come next

`RunsOnlyGranted` and `KeepsPromise` are proved for one channel of `IcmpService`. A
statement that the channels of one `Daemon` do not disturb each other would compose the
two; a worker shares nothing with another one but directories and the process table,
both of which `Daemon` models.

`Configuration` speaks of documents whose nodes contain no enclosing node. Documents
with duplicate keys are among those that are checked, but no property says which of the
two settings is found.
