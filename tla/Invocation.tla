----------------------------- MODULE Invocation -----------------------------
(***************************************************************************)
(* How an invocation of icmpd or icmpc is read.  Two getopt_long() loops,  *)
(* one over the options (src/icmpd/icmpd.c, src/icmpc/icmpc.c) and one     *)
(* over the arguments of the subcommand (src/lib/subcommand.c), go over    *)
(* the same argument vector and share optind.                              *)
(*                                                                         *)
(* A word is an option, "--", or a plain word; several short options in    *)
(* one word, an argument attached to its option and an abbreviated long    *)
(* option are getopt's matter.                                             *)
(***************************************************************************)
EXTENDS Naturals, Sequences

CONSTANTS
    Words,      \* words a command line is made of
    Files,      \* plain words that may name a configuration file
    Default,    \* the configuration file icmpd is built with
    MaxWords,   \* bound: words after the program's name
    Unset

Programs == {"icmpd", "icmpc"}
Plain    == "plain"     \* what getopt calls 1: a word that is no option

\* An entry of a table: an option, the words that stand for it, whether it takes
\* the next word, and whether the program stops at it.
Flag(opt, words) == [opt |-> opt, words |-> words, takes |-> FALSE, stops |-> FALSE]
Stop(opt, words) == [opt |-> opt, words |-> words, takes |-> FALSE, stops |-> TRUE]
Take(opt, words) == [opt |-> opt, words |-> words, takes |-> TRUE, stops |-> FALSE]

\* parse_options() of icmpc: its tables and the cases of its switch.
ClientOptions ==
    {Stop("h", {"-h", "--help"}), Stop("V", {"-V", "--version"}),
     Flag("v", {"-v", "--verbose"}), Flag("q", {"-q", "--quite"})}

\* icmpd has two more, which take a word in their long form only.
DaemonOptions ==
    ClientOptions \union
    {Flag("l", {"-l"}), Take("l", {"--log-file"}),
     Flag("c", {"-c"}), Take("c", {"--config-file"})}

StartOptions ==
    {Take("l", {"-l", "--log-file"}), Take("c", {"-c", "--config-file"}),
     Flag("d", {"-d", "--opt_daemon"})}

CommandlineOptions ==
    {Take("c", {"-c", "--config-file"}), Take("r", {"-r", "--requestor"})}

EchoOptions == CommandlineOptions

Table == [icmpd |-> DaemonOptions, icmpc |-> ClientOptions,
          help |-> {}, start |-> StartOptions,
          commandline |-> CommandlineOptions, echo |-> EchoOptions]

Entries(table, word)   == {e \in table : word \in e.words}
TakesNext(table, word) == \E e \in Entries(table, word) : e.takes

\* What main() registers.
DaemonSubcommands == {"help", "start"}
ClientSubcommands == {"help", "commandline", "echo"}
Registered(p) == IF p = "icmpd" THEN DaemonSubcommands ELSE ClientSubcommands

\* The variables the switches assign, of each file of its own.
Variables == (DOMAIN Table) \X {"v", "q", "l", "c", "d", "r", Plain}

OptionWords ==
    {"--", "-z"} \union UNION {e.words : e \in UNION {Table[p] : p \in DOMAIN Table}}

ASSUME InvocationAssumption ==
    /\ MaxWords \in Nat
    /\ Files \subseteq Words \ OptionWords
    /\ Default \notin Words /\ Unset \notin Words \union {Default}

VARIABLES
    prog,      \* the program
    args,      \* argv[1], argv[2], ...
    stage,     \* the loop that is running, or how the invocation ended
    offset,    \* where the argument vector of the running loop begins
    optind,    \* getopt's index into it
    cmd,       \* the subcommand
    set,       \* what the opt_ variables of each file have been set to
    parsed,    \* subcmd_arg_parsed
    conf,      \* the configuration file that has been loaded
    reads      \* history: how often each word has been read

vars == <<prog, args, stage, offset, optind, cmd, set, parsed, conf, reads>>

Init ==
    /\ prog \in Programs
    /\ args \in UNION {[1..n -> Words] : n \in 0..MaxWords}
    /\ stage = "options"
    /\ offset = 0 /\ optind = 1
    /\ cmd = Unset
    /\ set = [x \in Variables |-> IF x = <<"start", "c">> THEN Default ELSE Unset]
    /\ parsed = FALSE
    /\ conf = Unset
    /\ reads = [i \in 1..Len(args) |-> 0]

-----------------------------------------------------------------------------
(* getopt_long() with an option string that begins with "-". *)

Here == offset + optind
End  == Here \notin {i \in DOMAIN args : args[i] # "--"}

\* What getopt finds with a table: the end, an option with its argument, a
\* plain word, or nothing it knows.
Found(table) ==
    LET word  == args[Here]
        known == Entries(table, word) # {}
        entry == CHOOSE e \in Entries(table, word) : TRUE
    IN  IF End
        THEN [opt |-> "end", arg |-> Unset, uses |-> 0, stops |-> FALSE]
        ELSE IF word \notin OptionWords
        THEN [opt |-> Plain, arg |-> word, uses |-> 1, stops |-> FALSE]
        ELSE IF known /\ entry.takes /\ Here < Len(args)
        THEN [opt |-> entry.opt, arg |-> args[Here + 1], uses |-> 2,
              stops |-> FALSE]
        ELSE IF known /\ ~entry.takes
        THEN [opt |-> entry.opt, arg |-> Unset, uses |-> 1, stops |-> entry.stops]
        ELSE [opt |-> "?", arg |-> Unset, uses |-> 1, stops |-> FALSE]

Read(found) ==
    reads' = [i \in DOMAIN reads |->
                IF i \in Here..(Here + found.uses - 1) THEN reads[i] + 1 ELSE reads[i]]

Setting(found) == IF found.arg = Unset THEN "on" ELSE found.arg

EndsAs(how) ==
    /\ stage' = how
    /\ UNCHANGED <<prog, args, offset, optind, cmd, set, parsed, conf, reads>>

-----------------------------------------------------------------------------
(* The options of the program. *)

TakeOption ==
    /\ stage = "options"
    /\ LET found == Found(Table[prog])
       IN  /\ found.opt \notin {Plain, "?", "end"} /\ ~found.stops
           /\ set' = [set EXCEPT ![<<prog, found.opt>>] = Setting(found)]
           /\ optind' = optind + found.uses
           /\ Read(found)
    /\ UNCHANGED <<prog, args, stage, offset, cmd, parsed, conf>>

\* -h and -V print and exit; an unknown option ends the program as well, and
\* so does a command line without a subcommand.
StopAtOption ==
    /\ stage = "options"
    /\ Found(Table[prog]).stops
    /\ EndsAs("shown")

RejectOption ==
    /\ stage = "options"
    /\ Found(Table[prog]).opt \in {"?", "end"}
    /\ EndsAs("failed")

\* Fault: optind keeps the value it has in the whole vector.
FindSubcommandKeepsIndex ==
    /\ stage = "options"
    /\ LET found == Found(Table[prog])
       IN  /\ found.opt = Plain /\ found.arg \in Registered(prog)
           /\ cmd' = found.arg
           /\ optind' = optind + 1
           /\ offset' = optind
           /\ stage' = "arguments"
           /\ Read(found)
    /\ UNCHANGED <<prog, args, set, parsed, conf>>

\* The first plain word is the subcommand; the second loop starts behind it.
FindSubcommand ==
    /\ stage = "options"
    /\ LET found == Found(Table[prog])
       IN  /\ found.opt = Plain /\ found.arg \in Registered(prog)
           /\ cmd' = found.arg
           /\ optind' = 1
           /\ offset' = optind
           /\ stage' = "arguments"
           /\ Read(found)
    /\ UNCHANGED <<prog, args, set, parsed, conf>>

RejectSubcommand ==
    /\ stage = "options"
    /\ LET found == Found(Table[prog])
       IN  found.opt = Plain /\ found.arg \notin Registered(prog)
    /\ EndsAs("failed")

-----------------------------------------------------------------------------
(* The arguments of the subcommand. *)

\* parse_arg() of the four subcommands: which of what getopt found they take.
HelpTakes(found)    == found.opt = Plain /\ found.arg \in Registered(prog)
StartTakes(found)   == found.opt \in {"l", "c", "d"}
CommandTakes(found) == found.opt \in {"c", "r", Plain}
EchoTakes(found)    == found.opt \in {"c", "r", Plain}

Takes(found) ==
    \/ cmd = "help"        /\ HelpTakes(found)
    \/ cmd = "start"       /\ StartTakes(found)
    \/ cmd = "commandline" /\ CommandTakes(found)
    \/ cmd = "echo"        /\ EchoTakes(found)

\* What an option of the subcommand has been set to.
Value(opt) == set[<<cmd, opt>>]

\* Fault: the first value of an option is kept.
TakeFirstArgument ==
    /\ stage = "arguments"
    /\ LET found == Found(Table[cmd])
       IN  /\ Takes(found)
           /\ set' = IF Value(found.opt) # Unset THEN set
                     ELSE [set EXCEPT ![<<cmd, found.opt>>] = Setting(found)]
           /\ optind' = optind + found.uses
           /\ Read(found)
    /\ parsed' = TRUE
    /\ UNCHANGED <<prog, args, stage, offset, cmd, conf>>

TakeArgument ==
    /\ stage = "arguments"
    /\ LET found == Found(Table[cmd])
       IN  /\ Takes(found)
           /\ set' = [set EXCEPT ![<<cmd, found.opt>>] = Setting(found)]
           /\ optind' = optind + found.uses
           /\ Read(found)
    /\ parsed' = TRUE
    /\ UNCHANGED <<prog, args, stage, offset, cmd, conf>>

RejectArgument ==
    /\ stage = "arguments"
    /\ IF End THEN ~parsed ELSE ~Takes(Found(Table[cmd]))
    /\ EndsAs("failed")

-----------------------------------------------------------------------------
(* main() runs the subcommand. *)

RunHelp ==
    /\ stage = "arguments" /\ End /\ parsed
    /\ cmd = "help"
    /\ EndsAs("shown")

\* run_start(): daemonlize(), whose assertions end the program.
Daemonlize ==
    /\ stage = "arguments" /\ End /\ parsed
    /\ cmd = "start"
    /\ \/ EndsAs("loading")
       \/ {Value("d"), Value("l")} # {Unset} /\ EndsAs("aborted")

\* ic_conf_file_parse(): the last file named, or what the variable was
\* initialized with.
LoadConfiguration ==
    /\ stage = "loading"
    /\ Value("c") \in Files \union {Default}
    /\ stage' \in {"running", "failed"}
    /\ conf' = Value("c")
    /\ UNCHANGED <<prog, args, offset, optind, cmd, set, parsed, reads>>

\* A file that cannot be read ends the program at an assertion.
NoConfiguration ==
    /\ stage = "loading"
    /\ EndsAs("aborted")

\* run_commandline() and run_echo(): without text there is no request; a
\* configuration file is loaded if one is given.
RunRequest ==
    /\ stage = "arguments" /\ End /\ parsed
    /\ cmd \in {"commandline", "echo"}
    /\ IF Value(Plain) = Unset THEN EndsAs("failed")
       ELSE IF Value("c") = Unset THEN EndsAs("running")
       ELSE EndsAs("loading")

-----------------------------------------------------------------------------
Next ==
    \/ TakeOption \/ StopAtOption \/ RejectOption
    \/ FindSubcommand \/ RejectSubcommand
    \/ TakeArgument \/ RejectArgument
    \/ RunHelp \/ Daemonlize \/ LoadConfiguration \/ NoConfiguration \/ RunRequest

Spec == Init /\ [][Next]_vars

-----------------------------------------------------------------------------
\* The two loops together read every word once, in order, whatever precedes the
\* subcommand: sharing optind, they neither skip a word nor read one again
\* (icmpd.c:96-101, icmpc.c:87-92).
EachWordOnce ==
    \A i \in DOMAIN reads : reads[i] = IF i < Here THEN 1 ELSE 0

\* Which of the words are read on their own: the first of a part, and one that
\* the word before it does not take, or could not because it was taken itself.
Begins(words, table, from) ==
    LET begins[i \in from..Len(words)] ==
            \/ i = from
            \/ ~begins[i - 1]
            \/ ~TakesNext(table, words[i - 1])
    IN  {i \in from..Len(words) : begins[i]}

OpensPart(s) ==
    /\ s \in Begins(args, Table[prog], 1) /\ args[s] \notin OptionWords
    /\ \A i \in Begins(args, Table[prog], 1) : i < s => Entries(Table[prog], args[i]) # {}

\* Where, among the words of the subcommand that opens at s, an option is given.
Given(s, opt) ==
    LET table == Table[args[s]]
    IN  {i \in Begins(args, table, s + 1) :
            /\ \A j \in (s + 1)..i : j \in Begins(args, table, s + 1) => args[j] # "--"
            /\ IF Entries(table, args[i]) = {} THEN opt = Plain
               ELSE \E e \in Entries(table, args[i]) : e.opt = opt}

\* An invocation that runs is of the subcommand its first plain word names,
\* with the last value given to each option behind it, or what the option's
\* variable was initialized with; the options before it do not reach the
\* subcommand, not even those of the same name (icmpd.c:16, subcmd_start.c:27).
LastOneCounts ==
    stage = "running" =>
        \E s \in DOMAIN args :
            /\ OpensPart(s) /\ cmd = args[s]
            /\ \A opt \in {"c", "r", Plain} :
                 LET at == {i \in Given(s, opt) : \A j \in Given(s, opt) : j <= i}
                 IN  Value(opt) \in
                        IF at = {} THEN {IF cmd = "start" /\ opt = "c" THEN Default ELSE Unset}
                        ELSE {IF opt = Plain THEN args[i] ELSE args[i + 1] : i \in at}
=============================================================================
