---------------------------- MODULE CommandLine ----------------------------
(***************************************************************************)
(* The two readings of a command line (src/icmpd/subcmd_start.c): the      *)
(* worker cuts out the name it checks (check_command), the child cuts the  *)
(* line into the words it executes (build_argv), in place and by pointers. *)
(* Line and words are what execvp() gets: argv holds pointers into args.   *)
(***************************************************************************)
EXTENDS Naturals, Sequences

CONSTANTS
    Letters,   \* characters of words
    Spaces,    \* isspace() characters, the same as those check_command() lists
    Nul,
    MaxLine    \* bound of a line

ASSUME LineAssumption ==
    /\ Letters \intersect Spaces = {}
    /\ Nul \notin Letters \union Spaces
    /\ MaxLine \in Nat

Characters == Letters \union Spaces


VARIABLES
    line,    \* the argument of check_command() and build_argv()
    size,    \* strlen(line)
    name,    \* length of the name that is checked: a prefix of the line
    pc,      \* "check", "build", "scan" or "done"
    args,    \* the copy that is cut up
    curr,    \* curr_arg, as a position in args
    argc,
    argv     \* positions in args

vars == <<line, size, name, pc, args, curr, argc, argv>>

Init ==
    /\ size \in 0..MaxLine
    /\ line \in [1..size -> Characters]
    /\ name = 0
    /\ pc = "check"
    /\ args = [i \in 1..(size + 1) |-> Nul]
    /\ curr = 1 /\ argc = 0
    /\ argv = [i \in {} |-> 0]

-----------------------------------------------------------------------------
\* strcspn(): n characters stand before the first space or the end.
NameLengths ==
    {n \in 0..size : /\ n = size \/ line[n + 1] \in Spaces
                     /\ \A i \in 1..n : line[i] \notin Spaces}

\* Fault: the last character of the name is taken for its terminator.
ExtractShort ==
    /\ pc = "check"
    /\ pc' = "build"
    /\ \E n \in NameLengths : name' = IF n = 0 THEN 0 ELSE n - 1
    /\ UNCHANGED <<line, size, args, curr, argc, argv>>

\* check_command() cuts the name out of the line.
ExtractName ==
    /\ pc = "check"
    /\ pc' = "build"
    /\ name' \in NameLengths
    /\ UNCHANGED <<line, size, args, curr, argc, argv>>

\* build_argv() copies the line, its terminator included.
CopyLine ==
    /\ pc = "build"
    /\ pc' = "scan"
    /\ args' = [i \in 1..(size + 1) |-> IF i <= size THEN line[i] ELSE Nul]
    /\ UNCHANGED <<line, size, name, curr, argc, argv>>

\* "Skip preposed spaces": from i the next position that is no space is j.
SkipsSpaces(i, j) ==
    /\ i <= j
    /\ args[j] \notin Spaces
    /\ \A k \in i..(j - 1) : args[k] \in Spaces

\* "Skip characters": the word at i ends before j.
SkipsCharacters(i, j) ==
    /\ i < j
    /\ args[j] \in Spaces \union {Nul}
    /\ \A k \in (i + 1)..(j - 1) : args[k] \notin Spaces \union {Nul}

AddArgument(start) ==
    /\ argc' = argc + 1
    /\ argv' = [i \in 1..(argc + 1) |-> IF i <= argc THEN argv[i] ELSE start]

\* Fault: the space behind a word is left standing.
TakeUncut ==
    /\ pc = "scan"
    /\ args[curr] # Nul
    /\ \E start, end \in 1..(size + 1) :
          /\ SkipsSpaces(curr, start) /\ args[start] # Nul
          /\ SkipsCharacters(start, end)
          /\ AddArgument(start)
          /\ curr' = IF args[end] = Nul THEN end ELSE end + 1
    /\ UNCHANGED <<line, size, name, pc, args>>

\* A turn of the loop that finds a word, and terminates it.
TakeWord ==
    /\ pc = "scan"
    /\ args[curr] # Nul
    /\ \E start, end \in 1..(size + 1) :
          /\ SkipsSpaces(curr, start) /\ args[start] # Nul
          /\ SkipsCharacters(start, end)
          /\ AddArgument(start)
          /\ args' = [args EXCEPT ![end] = Nul]
          /\ curr' = IF args[end] = Nul THEN end ELSE end + 1
    /\ UNCHANGED <<line, size, name, pc>>

\* A turn that finds only spaces: the break.
SkipTail ==
    /\ pc = "scan"
    /\ args[curr] # Nul
    /\ \E end \in 1..(size + 1) :
          /\ SkipsSpaces(curr, end) /\ args[end] = Nul
          /\ curr' = end
    /\ pc' = "done"
    /\ UNCHANGED <<line, size, name, args, argc, argv>>

EndOfLine ==
    /\ pc = "scan"
    /\ args[curr] = Nul
    /\ pc' = "done"
    /\ UNCHANGED <<line, size, name, args, curr, argc, argv>>

Next == ExtractName \/ CopyLine \/ TakeWord \/ SkipTail \/ EndOfLine

Spec == Init /\ [][Next]_vars

-----------------------------------------------------------------------------
(* The words of the line, said of the line alone. *)

WordStart(i) == line[i] \notin Spaces /\ (i = 1 \/ line[i - 1] \in Spaces)

\* j is the position behind the word that starts at i.
WordEnd(i, j) ==
    /\ i < j
    /\ j = size + 1 \/ line[j] \in Spaces
    /\ \A k \in i..(j - 1) : line[k] \notin Spaces

\* Every variable stays within its type; no pointer leaves the copy.
TypeOK ==
    /\ size \in 0..MaxLine
    /\ line \in [1..size -> Characters]
    /\ name \in 0..size
    /\ pc \in {"check", "build", "scan", "done"}
    /\ args \in [1..(size + 1) -> Characters \union {Nul}]
    /\ curr \in 1..(size + 1)
    /\ argc \in 0..MaxLine
    /\ argv \in [1..argc -> 1..size]

\* execvp() gets all words of the line, in their order, each of them whole and
\* terminated where it ends, although the copy is cut while it is scanned.
WordsAreWhole ==
    pc = "done" =>
        /\ \A m, n \in 1..argc : m < n => argv[m] < argv[n]
        /\ {argv[n] : n \in 1..argc} = {i \in 1..size : WordStart(i)}
        /\ \A n \in 1..argc, j \in 1..(size + 1) :
              WordEnd(argv[n], j) =>
                  /\ args[j] = Nul
                  /\ \A k \in argv[n]..(j - 1) : args[k] = line[k]

\* The program that is executed has the name that was checked.
NameIsProgram ==
    /\ argc > 0
    /\ argv[1] + name <= size + 1
    /\ WordEnd(argv[1], argv[1] + name)
    /\ \A i \in 1..name : line[i] = line[argv[1] + i - 1]

\* The two readings of a line part exactly where it begins with white space:
\* there an empty name is checked, and the program behind it runs.  On every
\* other line that has a program the name is the program's, not cut short.
PartsAfterSpace ==
    pc = "done" =>
        /\ argc = 0 => name = 0
        /\ argc > 0 => (NameIsProgram <=> line[1] \notin Spaces)
        /\ argc > 0 /\ ~NameIsProgram => name = 0

\* "Extract the program name" (subcmd_start.c:443), said of every line that
\* has a program.  strcspn() stops before a leading space (444), isspace()
\* skips it (123), so the code does not keep to it.
ChecksTheProgram == pc = "done" /\ argc > 0 => NameIsProgram
=============================================================================
