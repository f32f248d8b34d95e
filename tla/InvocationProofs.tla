-------------------------- MODULE InvocationProofs --------------------------
(***************************************************************************)
(* Proofs about Invocation for command lines of every length, made of      *)
(* whatever words.                                                         *)
(***************************************************************************)
EXTENDS Invocation, Integers, FiniteSetTheorems, SequenceTheorems, WellFoundedInduction, TLAPS

-----------------------------------------------------------------------------
(* The option tables. *)

Subcommands == {"help", "start", "commandline", "echo"}

\* What getopt relies on: no two entries of a table share a word, no entry is
\* for a plain word, and every word of an entry looks like an option.
GoodTable(table) ==
    /\ \A e \in table : e.takes \in BOOLEAN /\ e.words \subseteq OptionWords
    /\ \A e \in table : e.opt \in {"h", "V", "v", "q", "l", "c", "d", "r"}
    /\ \A e, f \in table : \A w \in e.words : w \in f.words => e = f

LEMMA TablesAreGood == \A p \in Programs \union Subcommands : GoodTable(Table[p])
<1>1. DOMAIN Table = Programs \union Subcommands
  BY DEF Table, Programs, Subcommands
<1>2. \A p \in Programs \union Subcommands : \A e \in Table[p] : e.words \subseteq OptionWords
  BY <1>1 DEF OptionWords
<1> DEFINE Fields(table) ==
             /\ \A e \in table : e.takes \in BOOLEAN
             /\ \A e \in table : e.opt \in {"h", "V", "v", "q", "l", "c", "d", "r"}
           Apart(table) == \A e, f \in table : \A w \in e.words : w \in f.words => e = f
<1>3. Fields(ClientOptions) /\ Apart(ClientOptions)
  <2> DEFINE E1 == Stop("h", {"-h", "--help"})
             E2 == Stop("V", {"-V", "--version"})
             E3 == Flag("v", {"-v", "--verbose"})
             E4 == Flag("q", {"-q", "--quite"})
  <2>1. ClientOptions = {E1, E2, E3, E4}
    BY DEF ClientOptions
  <2>2. /\ E1.words = {"-h", "--help"} /\ E1.opt = "h" /\ E1.takes \in BOOLEAN
        /\ E2.words = {"-V", "--version"} /\ E2.opt = "V" /\ E2.takes \in BOOLEAN
        /\ E3.words = {"-v", "--verbose"} /\ E3.opt = "v" /\ E3.takes \in BOOLEAN
        /\ E4.words = {"-q", "--quite"} /\ E4.opt = "q" /\ E4.takes \in BOOLEAN
    BY DEF Flag, Stop, Take
  <2> HIDE DEF E1, E2, E3, E4
  <2>3. Fields(ClientOptions)
    BY <2>1, <2>2
  <2>4. Apart(ClientOptions)
    BY <2>1, <2>2
  <2> QED
    BY <2>3, <2>4
<1>4. Fields(DaemonOptions) /\ Apart(DaemonOptions)
  <2> DEFINE E1 == Stop("h", {"-h", "--help"})
             E2 == Stop("V", {"-V", "--version"})
             E3 == Flag("v", {"-v", "--verbose"})
             E4 == Flag("q", {"-q", "--quite"})
             E5 == Flag("l", {"-l"})
             E6 == Take("l", {"--log-file"})
             E7 == Flag("c", {"-c"})
             E8 == Take("c", {"--config-file"})
  <2>1. DaemonOptions = {E1, E2, E3, E4, E5, E6, E7, E8}
    BY DEF DaemonOptions, ClientOptions
  <2>2. /\ E1.words = {"-h", "--help"} /\ E1.opt = "h" /\ E1.takes \in BOOLEAN
        /\ E2.words = {"-V", "--version"} /\ E2.opt = "V" /\ E2.takes \in BOOLEAN
        /\ E3.words = {"-v", "--verbose"} /\ E3.opt = "v" /\ E3.takes \in BOOLEAN
        /\ E4.words = {"-q", "--quite"} /\ E4.opt = "q" /\ E4.takes \in BOOLEAN
        /\ E5.words = {"-l"} /\ E5.opt = "l" /\ E5.takes \in BOOLEAN
        /\ E6.words = {"--log-file"} /\ E6.opt = "l" /\ E6.takes \in BOOLEAN
        /\ E7.words = {"-c"} /\ E7.opt = "c" /\ E7.takes \in BOOLEAN
        /\ E8.words = {"--config-file"} /\ E8.opt = "c" /\ E8.takes \in BOOLEAN
    BY DEF Flag, Stop, Take
  <2> HIDE DEF E1, E2, E3, E4, E5, E6, E7, E8
  <2>3. Fields(DaemonOptions)
    BY <2>1, <2>2
  <2>4. Apart(DaemonOptions)
    BY <2>1, <2>2
  <2> QED
    BY <2>3, <2>4
<1>5. Fields(StartOptions) /\ Apart(StartOptions)
  <2> DEFINE E1 == Take("l", {"-l", "--log-file"})
             E2 == Take("c", {"-c", "--config-file"})
             E3 == Flag("d", {"-d", "--opt_daemon"})
  <2>1. StartOptions = {E1, E2, E3}
    BY DEF StartOptions
  <2>2. /\ E1.words = {"-l", "--log-file"} /\ E1.opt = "l" /\ E1.takes \in BOOLEAN
        /\ E2.words = {"-c", "--config-file"} /\ E2.opt = "c" /\ E2.takes \in BOOLEAN
        /\ E3.words = {"-d", "--opt_daemon"} /\ E3.opt = "d" /\ E3.takes \in BOOLEAN
    BY DEF Flag, Stop, Take
  <2> HIDE DEF E1, E2, E3
  <2>3. Fields(StartOptions)
    BY <2>1, <2>2
  <2>4. Apart(StartOptions)
    BY <2>1, <2>2
  <2> QED
    BY <2>3, <2>4
<1>6. Fields(CommandlineOptions) /\ Apart(CommandlineOptions)
  <2> DEFINE E1 == Take("c", {"-c", "--config-file"})
             E2 == Take("r", {"-r", "--requestor"})
  <2>1. CommandlineOptions = {E1, E2}
    BY DEF CommandlineOptions
  <2>2. /\ E1.words = {"-c", "--config-file"} /\ E1.opt = "c" /\ E1.takes \in BOOLEAN
        /\ E2.words = {"-r", "--requestor"} /\ E2.opt = "r" /\ E2.takes \in BOOLEAN
    BY DEF Flag, Stop, Take
  <2> HIDE DEF E1, E2
  <2>3. Fields(CommandlineOptions)
    BY <2>1, <2>2
  <2>4. Apart(CommandlineOptions)
    BY <2>1, <2>2
  <2> QED
    BY <2>3, <2>4
<1>7. ASSUME NEW p \in Programs \union Subcommands
      PROVE  Fields(Table[p]) /\ Apart(Table[p])
  <2>1. Table[p] \in {DaemonOptions, ClientOptions, {}, StartOptions, CommandlineOptions}
    BY DEF Table, Programs, Subcommands, EchoOptions
  <2>2. Fields({}) /\ Apart({})
    OBVIOUS
  <2> HIDE DEF Fields, Apart
  <2> QED
    BY <1>3, <1>4, <1>5, <1>6, <2>1, <2>2
<1> QED
  BY <1>2, <1>7 DEF GoodTable

\* In a subcommand, -c and -r take the next word in all their forms.
LEMMA ArgumentsTakeNext ==
    \A p \in Subcommands : \A e \in Table[p] : e.opt \in {"c", "r"} => e.takes
<1> SUFFICES ASSUME NEW p \in Subcommands, NEW e \in Table[p], e.opt \in {"c", "r"}
             PROVE  e.takes
  OBVIOUS
<1> USE DEF Table, StartOptions, CommandlineOptions, EchoOptions, Flag, Stop, Take
<1>1. CASE p = "help"
  BY <1>1
<1>2. CASE p = "start"
  BY <1>2
<1>3. CASE p \in {"commandline", "echo"}
  BY <1>3
<1> QED
  BY <1>1, <1>2, <1>3 DEF Subcommands

LEMMA RegisteredAreSubcommands ==
    \A p \in Programs : Registered(p) \subseteq Subcommands /\ p \notin Subcommands
BY DEF Programs, Registered, DaemonSubcommands, ClientSubcommands, Subcommands

-----------------------------------------------------------------------------
(* Which words are read on their own. *)

\* A set of numbers that is not empty and has a bound has a least element: the
\* smallest of the intervals that its elements end.
LEMMA LeastElement ==
    ASSUME NEW n \in Nat, NEW S \in SUBSET (1..n), S # {}
    PROVE  \E m \in S : \A k \in S : m <= k
<1> DEFINE T == {1..k : k \in S}
<1>1. T \subseteq FiniteSubsetsOf(1..n) /\ T # {}
  <2>1. \A k \in S : k \in Nat /\ 1..k \subseteq 1..n
    OBVIOUS
  <2>2. IsFiniteSet(1..n)
    BY FS_Interval
  <2>3. \A k \in S : IsFiniteSet(1..k)
    BY <2>1, <2>2, FS_Subset
  <2> QED
    BY <2>1, <2>3 DEF FiniteSubsetsOf
<1>2. IsWellFoundedOn(StrictSubsetOrdering(1..n), FiniteSubsetsOf(1..n))
  BY FS_StrictSubsetOrderingWellFounded
<1>3. PICK x \in T : \A y \in T : ~(<<y, x>> \in StrictSubsetOrdering(1..n))
  <2> HIDE DEF T
  <2> QED
    BY <1>1, <1>2, WFMin
<1>4. PICK m \in S : x = 1..m
  BY <1>3
<1>5. ASSUME NEW k \in S, k < m PROVE FALSE
  <2>1. 1..k \subseteq 1..m /\ 1..k # 1..m /\ 1..k \subseteq 1..n /\ 1..m \subseteq 1..n
    <3>1. m \in 1..m /\ m \notin 1..k
      BY <1>5
    <3> QED
      BY <1>5, <3>1
  <2>2. 1..k \in T
    OBVIOUS
  <2>3. <<1..k, 1..m>> \in StrictSubsetOrdering(1..n)
    BY <2>1 DEF StrictSubsetOrdering
  <2> QED
    BY <1>3, <1>4, <2>2, <2>3
<1> QED
  BY <1>5

\* The recursive function of Begins, over words up to n.
IsBegins(b, words, table, from, n) ==
    b = [i \in from..n |->
            \/ i = from
            \/ ~b[i - 1]
            \/ ~TakesNext(table, words[i - 1])]

\* It exists: it does over every range, or there
\* would be a shortest range over which it does not.
LEMMA BeginsExists ==
    ASSUME NEW words, NEW table, NEW from \in Nat \ {0}, NEW n \in Nat
    PROVE  \E b : IsBegins(b, words, table, from, n)
<1> DEFINE Is(b, m) == b = [i \in from..m |->
                               \/ i = from
                               \/ ~b[i - 1]
                               \/ ~TakesNext(table, words[i - 1])]
           Lacks == {m \in 1..n : ~ \E b : Is(b, m)}
<1>1. \E b : Is(b, 0)
  <2> DEFINE b == [i \in {} |-> TRUE]
  <2>1. from..0 = {}
    OBVIOUS
  <2>2. Is(b, 0)
    BY <2>1
  <2> QED
    BY <2>2
<1>2. ASSUME NEW m \in Nat, NEW g, Is(g, m)
      PROVE  \E b : Is(b, m + 1)
  <2> DEFINE b == [i \in from..(m + 1) |->
                      \/ i = from
                      \/ ~g[i - 1]
                      \/ ~TakesNext(table, words[i - 1])]
  <2>1. ASSUME NEW i \in from..(m + 1), i # from
        PROVE  b[i - 1] = g[i - 1]
    <3>1. i - 1 \in from..m /\ i - 1 \in from..(m + 1)
      BY <2>1
    <3> DEFINE v == \/ i - 1 = from
                    \/ ~g[i - 1 - 1]
                    \/ ~TakesNext(table, words[i - 1 - 1])
    <3>2. g[i - 1] = v
      BY <1>2, <3>1
    <3>3. b[i - 1] = v
      BY <3>1
    <3> HIDE DEF b, v
    <3> QED
      BY <3>2, <3>3
  <2>2. ASSUME NEW i \in from..(m + 1)
        PROVE  (\/ i = from \/ ~g[i - 1] \/ ~TakesNext(table, words[i - 1]))
             = (\/ i = from \/ ~b[i - 1] \/ ~TakesNext(table, words[i - 1]))
    BY <2>1
  <2>3. Is(b, m + 1)
    BY <2>2
  <2> QED
    BY <2>3
<1> HIDE DEF Is
<1>3. \E b : Is(b, n)
  <2>1. CASE Lacks = {}
    <3>1. n = 0 \/ n \in 1..n
      OBVIOUS
    <3> QED
      BY <1>1, <2>1, <3>1
  <2>2. CASE Lacks # {}
    <3>1. PICK m \in Lacks : \A k \in Lacks : m <= k
      BY <2>2, LeastElement
    <3>2. m - 1 \in Nat /\ (m - 1 = 0 \/ m - 1 \in 1..n) /\ m - 1 < m /\ m - 1 + 1 = m
      OBVIOUS
    <3>3. \E g : Is(g, m - 1)
      BY <1>1, <3>1, <3>2
    <3>4. \E b : Is(b, m)
      BY <1>2, <3>2, <3>3
    <3> QED
      BY <3>4
  <2> QED
    BY <2>1, <2>2
<1> QED
  BY <1>3 DEF IsBegins, Is

\* The first word of a part is read on its own; a later one is unless the word
\* before it is, and takes it.
LEMMA BeginsStep ==
    ASSUME NEW words \in Seq(Words), NEW table, NEW from \in Nat \ {0}
    PROVE  /\ Begins(words, table, from) \subseteq from..Len(words)
           /\ \A i \in from..Len(words) :
                 i \in Begins(words, table, from) <=>
                    \/ i = from
                    \/ i - 1 \notin Begins(words, table, from)
                    \/ ~TakesNext(table, words[i - 1])
<1> DEFINE begins[i \in from..Len(words)] ==
              \/ i = from
              \/ ~begins[i - 1]
              \/ ~TakesNext(table, words[i - 1])
<1>1. Len(words) \in Nat
  BY LenProperties
<1>2. begins = [i \in from..Len(words) |->
                   \/ i = from
                   \/ ~begins[i - 1]
                   \/ ~TakesNext(table, words[i - 1])]
  <2> SUFFICES \E b : IsBegins(b, words, table, from, Len(words))
    BY Zenon DEF IsBegins
  <2> QED
    BY <1>1, BeginsExists
<1>3. Begins(words, table, from) = {i \in from..Len(words) : begins[i]}
  BY DEF Begins
<1> HIDE DEF begins
<1>4. ASSUME NEW i \in from..Len(words)
      PROVE  begins[i] <=> \/ i = from
                           \/ ~begins[i - 1]
                           \/ ~TakesNext(table, words[i - 1])
  BY <1>2
<1>5. ASSUME NEW i \in from..Len(words), i # from
      PROVE  i - 1 \in from..Len(words)
  BY <1>1, <1>5
<1> QED
  BY <1>3, <1>4, <1>5

\* Where the next word is that is read on its own.
LEMMA NextWord ==
    ASSUME NEW words \in Seq(Words), NEW table, NEW from \in Nat \ {0},
           NEW h \in Begins(words, table, from)
    PROVE  /\ h \in from..Len(words) /\ h \in Nat /\ Len(words) \in Nat
           /\ ~TakesNext(table, words[h]) /\ h + 1 <= Len(words) => h + 1 \in Begins(words, table, from)
           /\ TakesNext(table, words[h]) => h + 1 \notin Begins(words, table, from)
           /\ TakesNext(table, words[h]) /\ h + 2 <= Len(words) => h + 2 \in Begins(words, table, from)
<1> DEFINE B == Begins(words, table, from)
<1>1. Len(words) \in Nat
  BY LenProperties
<1>2. /\ B \subseteq from..Len(words)
      /\ \A i \in from..Len(words) :
            i \in B <=> \/ i = from
                        \/ i - 1 \notin B
                        \/ ~TakesNext(table, words[i - 1])
  BY BeginsStep
<1>3. h \in B
  OBVIOUS
<1> HIDE DEF B
<1>4. h \in from..Len(words) /\ h \in Nat /\ h + 1 - 1 = h /\ h + 1 # from /\ h + 2 # from
      /\ h + 2 - 1 = h + 1
  BY <1>1, <1>2, <1>3
<1>5. ~TakesNext(table, words[h]) /\ h + 1 <= Len(words) => h + 1 \in B
  <2>1. h + 1 <= Len(words) => h + 1 \in from..Len(words)
    BY <1>1, <1>4
  <2> QED
    BY <1>2, <1>4, <2>1
<1>6. TakesNext(table, words[h]) => h + 1 \notin B
  BY <1>2, <1>3, <1>4
<1>7. TakesNext(table, words[h]) /\ h + 2 <= Len(words) => h + 2 \in B
  <2>1. h + 2 <= Len(words) => h + 2 \in from..Len(words)
    BY <1>1, <1>4
  <2> QED
    BY <1>2, <1>4, <1>6, <2>1
<1> QED
  BY <1>1, <1>4, <1>5, <1>6, <1>7 DEF B

-----------------------------------------------------------------------------
(* What getopt finds. *)

\* Its index is within the command line, or right behind it.
Reading ==
    /\ args \in Seq(Words)
    /\ offset \in Nat /\ optind \in Nat \ {0}
    /\ Here <= Len(args) + 1

LEMMA NotAtEnd ==
    ASSUME Reading, ~End
    PROVE  Here \in 1..Len(args) /\ args[Here] # "--" /\ args[Here] \in Words
<1>1. DOMAIN args = 1..Len(args) /\ Len(args) \in Nat
  BY LenProperties DEF Reading
<1>2. Here \in DOMAIN args /\ args[Here] # "--"
  BY DEF End
<1> QED
  BY <1>1, <1>2, ElementOfSeq DEF Reading

\* The five things it may find.
LEMMA FoundCases ==
    ASSUME Reading, NEW table, GoodTable(table), NEW f, f = Found(table)
    PROVE  \/ End /\ f.opt = "end" /\ f.uses = 0
           \/ /\ ~End /\ args[Here] \notin OptionWords
              /\ f.opt = Plain /\ f.arg = args[Here] /\ f.uses = 1
           \/ /\ ~End /\ Here < Len(args) /\ f.uses = 2 /\ f.arg = args[Here + 1]
              /\ \E e \in Entries(table, args[Here]) : e.takes /\ f.opt = e.opt
           \/ /\ ~End /\ f.uses = 1 /\ f.arg = Unset
              /\ \E e \in Entries(table, args[Here]) : ~e.takes /\ f.opt = e.opt
           \/ ~End /\ f.opt = "?" /\ f.uses = 1
<1> DEFINE word  == args[Here]
           known == Entries(table, word) # {}
           entry == CHOOSE e \in Entries(table, word) : TRUE
<1>1. f = IF End
          THEN [opt |-> "end", arg |-> Unset, uses |-> 0, stops |-> FALSE]
          ELSE IF word \notin OptionWords
          THEN [opt |-> Plain, arg |-> word, uses |-> 1, stops |-> FALSE]
          ELSE IF known /\ entry.takes /\ Here < Len(args)
          THEN [opt |-> entry.opt, arg |-> args[Here + 1], uses |-> 2, stops |-> FALSE]
          ELSE IF known /\ ~entry.takes
          THEN [opt |-> entry.opt, arg |-> Unset, uses |-> 1, stops |-> entry.stops]
          ELSE [opt |-> "?", arg |-> Unset, uses |-> 1, stops |-> FALSE]
  BY DEF Found
<1>2. known => entry \in Entries(table, word)
  OBVIOUS
<1> HIDE DEF known, entry, word
<1>3. CASE End
  BY <1>1, <1>3
<1>4. CASE ~End /\ word \notin OptionWords
  <2>1. f = [opt |-> Plain, arg |-> word, uses |-> 1, stops |-> FALSE]
    BY <1>1, <1>4
  <2> QED
    BY <1>4, <2>1 DEF word
<1>5. CASE ~End /\ word \in OptionWords /\ known /\ entry.takes /\ Here < Len(args)
  <2>1. f = [opt |-> entry.opt, arg |-> args[Here + 1], uses |-> 2, stops |-> FALSE]
    BY <1>1, <1>5
  <2>2. \E e \in Entries(table, word) : e.takes /\ f.opt = e.opt
    BY <1>2, <1>5, <2>1
  <2> QED
    BY <1>5, <2>1, <2>2 DEF word
<1>6. CASE ~End /\ word \in OptionWords /\ known /\ ~entry.takes
  <2>1. f = [opt |-> entry.opt, arg |-> Unset, uses |-> 1, stops |-> entry.stops]
    BY <1>1, <1>6
  <2>2. \E e \in Entries(table, word) : ~e.takes /\ f.opt = e.opt
    BY <1>2, <1>6, <2>1
  <2> QED
    BY <1>6, <2>1, <2>2 DEF word
<1>7. CASE ~End /\ word \in OptionWords /\ ~(known /\ (~entry.takes \/ Here < Len(args)))
  BY <1>1, <1>7
<1> QED
  BY <1>3, <1>4, <1>5, <1>6, <1>7

\* What is found moves the index to the next word that is read on its own, and
\* not past the end.
LEMMA FoundMoves ==
    ASSUME Reading, NEW table, GoodTable(table), NEW f, f = Found(table),
           f.opt \notin {"end", "?"}
    PROVE  /\ ~End /\ Here \in 1..Len(args)
           /\ f.uses \in {1, 2} /\ Here + f.uses <= Len(args) + 1
           /\ f.uses = 2 <=> TakesNext(table, args[Here])
           /\ Entries(table, args[Here]) = {} =>
                 f.opt = Plain /\ f.arg = args[Here] /\ args[Here] \notin OptionWords
           /\ Entries(table, args[Here]) # {} =>
                 /\ f.opt # Plain
                 /\ \A e \in Entries(table, args[Here]) : e.opt = f.opt
           /\ f.opt # Plain => \E e \in table : e.opt = f.opt
           /\ f.uses = 2 => f.arg = args[Here + 1]
<1>1. ~End /\ f.uses \in {1, 2}
  BY FoundCases
<1>2. Here \in 1..Len(args) /\ Len(args) \in Nat /\ Here \in Nat
  BY <1>1, NotAtEnd, LenProperties DEF Reading
<1>3. \A e, g \in Entries(table, args[Here]) : e = g
  BY DEF Entries, GoodTable
<1>4. \A e \in Entries(table, args[Here]) :
         e \in table /\ e.takes \in BOOLEAN /\ e.opt # Plain /\ args[Here] \in OptionWords
  BY DEF Entries, GoodTable, Plain
<1>5. CASE args[Here] \notin OptionWords /\ f.opt = Plain /\ f.arg = args[Here] /\ f.uses = 1
  <2>1. Entries(table, args[Here]) = {}
    BY <1>4, <1>5
  <2> QED
    BY <1>1, <1>2, <1>5, <2>1 DEF TakesNext
<1>6. CASE /\ Here < Len(args) /\ f.uses = 2 /\ f.arg = args[Here + 1]
           /\ \E e \in Entries(table, args[Here]) : e.takes /\ f.opt = e.opt
  BY <1>1, <1>2, <1>3, <1>4, <1>6 DEF TakesNext
<1>7. CASE /\ f.uses = 1 /\ f.arg = Unset
           /\ \E e \in Entries(table, args[Here]) : ~e.takes /\ f.opt = e.opt
  BY <1>1, <1>2, <1>3, <1>4, <1>7 DEF TakesNext
<1> QED
  BY <1>1, <1>5, <1>6, <1>7, FoundCases

-----------------------------------------------------------------------------
(* The inductive invariant. *)

Types ==
    /\ prog \in Programs
    /\ Reading
    /\ DOMAIN set = Variables
    /\ DOMAIN reads = 1..Len(args)

\* What the variable of an option is initialized with.
Initially(p, opt) == IF p = "start" /\ opt = "c" THEN Default ELSE Unset

\* While the options of the program are read: its loop stands at a word that is
\* read on its own, and those before it were options; no subcommand's variable
\* has been touched.
OptionsRead ==
    stage = "options" =>
        /\ offset = 0
        /\ Here <= Len(args) => Here \in Begins(args, Table[prog], 1)
        /\ \A i \in Begins(args, Table[prog], 1) :
              i < Here => Entries(Table[prog], args[i]) # {}
        /\ \A p \in Subcommands, opt \in {"c", "r", Plain} :
              set[<<p, opt>>] = Initially(p, opt)

\* An option of the subcommand has the last value given so far, or its first.
LastRead(opt) ==
    \/ /\ Value(opt) = Initially(cmd, opt)
       /\ \A i \in Given(offset, opt) : i >= Here
    \/ \E i \in Given(offset, opt) :
          /\ i < Here
          /\ \A j \in Given(offset, opt) : j < Here => j <= i
          /\ Value(opt) = IF opt = Plain THEN args[i] ELSE args[i + 1]

\* From the subcommand on: its loop stands at a word that is read on its own,
\* and ends at the end.
ArgumentsRead ==
    stage \in {"arguments", "loading", "running"} =>
        /\ cmd \in Subcommands /\ offset \in 1..Len(args) /\ cmd = args[offset]
        /\ OpensPart(offset)
        /\ Here <= Len(args) => Here \in Begins(args, Table[cmd], offset + 1)
        /\ \A i \in Begins(args, Table[cmd], offset + 1) : i < Here => args[i] # "--"
        /\ \A opt \in {"c", "r", Plain} : LastRead(opt)
        /\ stage # "arguments" => End

IInv == Types /\ EachWordOnce /\ OptionsRead /\ ArgumentsRead

LEMMA InitInv == Init => IInv
<1> SUFFICES ASSUME Init PROVE IInv
  OBVIOUS
<1>1. args \in Seq(Words)
  <2>1. PICK n \in 0..MaxWords : args \in [1..n -> Words]
    BY DEF Init
  <2>2. n \in Nat
    BY InvocationAssumption
  <2> QED
    BY <2>1, <2>2
<1>2. Len(args) \in Nat /\ offset = 0 /\ optind = 1 /\ Here = 1 /\ stage = "options"
  BY <1>1, LenProperties DEF Init, Here
<1>3. Types
  BY <1>1, <1>2 DEF Init, Types, Reading
<1>4. EachWordOnce
  BY <1>2 DEF Init, EachWordOnce
<1>5. OptionsRead
  <2>1. 1 <= Len(args) => 1 \in Begins(args, Table[prog], 1)
    BY <1>1, <1>2, BeginsStep
  <2>2. \A i \in Begins(args, Table[prog], 1) : i \in 1..Len(args)
    BY <1>1, BeginsStep
  <2>3. \A i \in Begins(args, Table[prog], 1) : ~(i < 1)
    BY <1>2, <2>2
  <2>4. ASSUME NEW p \in Subcommands, NEW opt \in {"c", "r", Plain}
        PROVE  set[<<p, opt>>] = Initially(p, opt)
    <3>1. <<p, opt>> \in Variables
      BY DEF Variables, Subcommands, Table
    <3>2. set[<<p, opt>>] = IF <<p, opt>> = <<"start", "c">> THEN Default ELSE Unset
      BY <3>1 DEF Init
    <3> QED
      BY <3>2 DEF Initially
  <2> QED
    BY <1>2, <2>1, <2>3, <2>4 DEF OptionsRead
<1>6. ArgumentsRead
  BY <1>2 DEF ArgumentsRead
<1> QED
  BY <1>3, <1>4, <1>5, <1>6 DEF IInv

-----------------------------------------------------------------------------
(* Steps that read words. *)

\* The words that are found are read, once.
LEMMA ReadOnce ==
    ASSUME Types, EachWordOnce, NEW f, f.uses \in {1, 2}, Here + f.uses <= Len(args) + 1,
           Read(f), args' = args, prog' = prog, DOMAIN set' = DOMAIN set,
           offset' \in Nat, optind' \in Nat \ {0}, Here' = Here + f.uses
    PROVE  Types' /\ EachWordOnce'
<1>1. DOMAIN reads = 1..Len(args) /\ Len(args) \in Nat /\ Here \in Nat
  BY LenProperties DEF Types, Reading, Here
<1>2. reads' = [i \in DOMAIN reads |->
                  IF i \in Here..(Here + f.uses - 1) THEN reads[i] + 1 ELSE reads[i]]
  BY DEF Read
<1>3. Types'
  BY <1>1, <1>2 DEF Types, Reading
<1>4. ASSUME NEW i \in DOMAIN reads
      PROVE  reads'[i] = IF i < Here + f.uses THEN 1 ELSE 0
  <2>1. i \in Nat /\ reads[i] = IF i < Here THEN 1 ELSE 0
    BY <1>1 DEF EachWordOnce
  <2>2. reads'[i] = IF i \in Here..(Here + f.uses - 1) THEN reads[i] + 1 ELSE reads[i]
    BY <1>2
  <2> QED
    BY <1>1, <2>1, <2>2
<1>5. EachWordOnce'
  BY <1>2, <1>4 DEF EachWordOnce
<1> QED
  BY <1>3, <1>5

\* The loop moves to the next word that is read on its own.
LEMMA MovesOn ==
    ASSUME Reading, NEW table, NEW from \in Nat \ {0}, GoodTable(table),
           Here \in Begins(args, table, from),
           NEW f, f = Found(table), f.opt \notin {"end", "?"}
    PROVE  /\ Here + f.uses <= Len(args) => Here + f.uses \in Begins(args, table, from)
           /\ \A i \in Begins(args, table, from) : i < Here + f.uses <=> i < Here \/ i = Here
<1>1. /\ f.uses \in {1, 2}
      /\ f.uses = 2 <=> TakesNext(table, args[Here])
  BY FoundMoves
<1>2. /\ Here \in from..Len(args) /\ Here \in Nat /\ Len(args) \in Nat
      /\ ~TakesNext(table, args[Here]) /\ Here + 1 <= Len(args)
            => Here + 1 \in Begins(args, table, from)
      /\ TakesNext(table, args[Here]) => Here + 1 \notin Begins(args, table, from)
      /\ TakesNext(table, args[Here]) /\ Here + 2 <= Len(args)
            => Here + 2 \in Begins(args, table, from)
  BY NextWord DEF Reading
<1>3. \A i \in Begins(args, table, from) : i \in from..Len(args)
  BY BeginsStep DEF Reading
<1>4. \A i \in Begins(args, table, from) : i \in Nat
  BY <1>2, <1>3
<1>5. CASE f.uses = 1
  <2>1. ~TakesNext(table, args[Here])
    BY <1>1, <1>5
  <2> QED
    BY <1>2, <1>4, <1>5, <2>1
<1>6. CASE f.uses = 2
  <2>1. TakesNext(table, args[Here])
    BY <1>1, <1>6
  <2>2. \A i \in Nat : i < Here + 2 <=> i < Here \/ i = Here \/ i = Here + 1
    BY <1>2
  <2>3. \A i \in Begins(args, table, from) : i # Here + 1
    BY <1>2, <2>1
  <2> QED
    BY <1>2, <1>4, <1>6, <2>1, <2>2, <2>3
<1> QED
  BY <1>1, <1>5, <1>6

LEMMA TakeOptionStep == ASSUME IInv, TakeOption PROVE IInv'
<1> DEFINE f == Found(Table[prog])
           B == Begins(args, Table[prog], 1)
<1>1. /\ stage = "options" /\ f.opt \notin {Plain, "?", "end"}
      /\ set' = [set EXCEPT ![<<prog, f.opt>>] = Setting(f)]
      /\ optind' = optind + f.uses
      /\ Read(f)
      /\ prog' = prog /\ args' = args /\ stage' = stage /\ offset' = offset /\ cmd' = cmd
  BY DEF TakeOption
<1>2. Types /\ Reading /\ EachWordOnce /\ prog \in Programs /\ GoodTable(Table[prog])
  BY TablesAreGood DEF IInv, Types
<1>3. /\ offset = 0
      /\ Here <= Len(args) => Here \in B
      /\ \A i \in B : i < Here => Entries(Table[prog], args[i]) # {}
      /\ \A p \in Subcommands, opt \in {"c", "r", Plain} : set[<<p, opt>>] = Initially(p, opt)
  BY <1>1 DEF IInv, OptionsRead
<1>4. PICK g : g = f
  OBVIOUS
<1>5. /\ ~End /\ Here \in 1..Len(args)
      /\ g.uses \in {1, 2} /\ Here + g.uses <= Len(args) + 1
      /\ Entries(Table[prog], args[Here]) = {} => g.opt = Plain
  BY <1>1, <1>2, <1>4, FoundMoves
<1>6. Len(args) \in Nat /\ offset \in Nat /\ optind \in Nat \ {0} /\ Here = offset + optind
  BY <1>2, LenProperties DEF Reading, Here
<1>7. Here' = Here + g.uses /\ offset' \in Nat /\ optind' \in Nat \ {0}
  BY <1>1, <1>4, <1>5, <1>6 DEF Here
<1>8. DOMAIN set' = DOMAIN set
  BY <1>1
<1>9. Types' /\ EachWordOnce'
  BY <1>1, <1>2, <1>4, <1>5, <1>7, <1>8, ReadOnce
<1>10. /\ Here + g.uses <= Len(args) => Here + g.uses \in B
       /\ \A i \in B : i < Here + g.uses <=> i < Here \/ i = Here
  <2>1. Here \in B
    BY <1>3, <1>5, <1>6
  <2> QED
    BY <1>1, <1>2, <1>4, <2>1, MovesOn
<1>11. \A i \in B : i < Here + g.uses => Entries(Table[prog], args[i]) # {}
  BY <1>1, <1>3, <1>4, <1>5, <1>10
<1>12. ASSUME NEW p \in Subcommands, NEW opt \in {"c", "r", Plain}
       PROVE  set'[<<p, opt>>] = set[<<p, opt>>]
  <2>1. <<p, opt>> # <<prog, f.opt>>
    BY <1>2, RegisteredAreSubcommands
  <2>2. <<p, opt>> \in DOMAIN set
    BY <1>2 DEF Types, Variables, Subcommands, Table
  <2> HIDE DEF f
  <2> QED
    BY <1>1, <2>1, <2>2
<1> HIDE DEF f
<1>13. OptionsRead'
  BY <1>1, <1>3, <1>7, <1>10, <1>11, <1>12 DEF OptionsRead
<1>14. ArgumentsRead'
  BY <1>1 DEF ArgumentsRead
<1> QED
  BY <1>9, <1>13, <1>14 DEF IInv

LEMMA FindSubcommandStep == ASSUME IInv, FindSubcommand PROVE IInv'
<1> DEFINE f == Found(Table[prog])
           B == Begins(args, Table[prog], 1)
<1>1. /\ stage = "options" /\ f.opt = Plain /\ f.arg \in Registered(prog)
      /\ cmd' = f.arg /\ optind' = 1 /\ offset' = optind /\ stage' = "arguments"
      /\ Read(f)
      /\ prog' = prog /\ args' = args /\ set' = set
  BY DEF FindSubcommand
<1>2. Types /\ Reading /\ EachWordOnce /\ prog \in Programs /\ GoodTable(Table[prog])
  BY TablesAreGood DEF IInv, Types
<1>3. /\ offset = 0
      /\ Here <= Len(args) => Here \in B
      /\ \A i \in B : i < Here => Entries(Table[prog], args[i]) # {}
      /\ \A p \in Subcommands, opt \in {"c", "r", Plain} : set[<<p, opt>>] = Initially(p, opt)
  BY <1>1 DEF IInv, OptionsRead
<1>4. PICK g : g = f
  OBVIOUS
<1>5. /\ ~End /\ Here \in 1..Len(args)
      /\ g.opt = Plain /\ g.arg = args[Here] /\ args[Here] \notin OptionWords
      /\ Entries(Table[prog], args[Here]) = {}
      /\ g.uses \in {1, 2} /\ (g.uses = 2 <=> TakesNext(Table[prog], args[Here]))
  <2>1. g.opt \notin {"end", "?"}
    BY <1>1, <1>4 DEF Plain
  <2> QED
    BY <1>1, <1>2, <1>4, <2>1, FoundMoves
<1>6. g.uses = 1
  BY <1>5 DEF TakesNext
<1>7. Len(args) \in Nat /\ offset \in Nat /\ optind \in Nat \ {0} /\ Here = offset + optind
  BY <1>2, LenProperties DEF Reading, Here
<1>8. /\ offset' = Here /\ Here' = Here + 1 /\ Here' = offset' + 1
      /\ offset' \in Nat /\ optind' \in Nat \ {0}
  BY <1>1, <1>3, <1>7 DEF Here
<1>9. Types' /\ EachWordOnce'
  <2>1. Here + g.uses <= Len(args) + 1 /\ Here' = Here + g.uses
    BY <1>5, <1>6, <1>7, <1>8
  <2>2. Read(g) /\ DOMAIN set' = DOMAIN set
    BY <1>1, <1>4
  <2> QED
    BY <1>1, <1>2, <1>5, <1>8, <2>1, <2>2, ReadOnce
<1>10. cmd' \in Subcommands /\ cmd' = args[Here]
  BY <1>1, <1>2, <1>4, <1>5, RegisteredAreSubcommands
<1> HIDE DEF f
<1>11. OpensPart(Here)
  BY <1>3, <1>5, <1>7 DEF OpensPart
<1>12. OpensPart(offset)'
  BY <1>1, <1>8, <1>11 DEF OpensPart
<1>13. /\ Here + 1 <= Len(args) => Here + 1 \in Begins(args, Table[cmd'], Here + 1)
       /\ \A i \in Begins(args, Table[cmd'], Here + 1) : i >= Here + 1
  <2> DEFINE t == Table[cmd']
  <2>1. /\ Begins(args, t, Here + 1) \subseteq (Here + 1)..Len(args)
        /\ \A i \in (Here + 1)..Len(args) : i = Here + 1 => i \in Begins(args, t, Here + 1)
    <3> HIDE DEF t
    <3>1. Here + 1 \in Nat \ {0} /\ args \in Seq(Words)
      BY <1>2, <1>5, <1>7 DEF Reading
    <3> QED
      BY <3>1, BeginsStep
  <2>2. Here + 1 \in Nat
    BY <1>5, <1>7
  <2> QED
    BY <1>7, <2>1, <2>2
<1>14. ASSUME NEW opt \in {"c", "r", Plain}
       PROVE  LastRead(opt)'
  <2>1. Value(opt)' = Initially(cmd, opt)'
    BY <1>1, <1>3, <1>10 DEF Value, Initially
  <2>2. \A i \in Given(offset, opt)' : i \in Begins(args, Table[cmd'], Here + 1)
    BY <1>1, <1>8, <1>10 DEF Given
  <2>3. \A i \in Given(offset, opt)' : i >= Here'
    BY <1>8, <1>13, <2>2
  <2> QED
    BY <2>1, <2>3 DEF LastRead
<1>15. ArgumentsRead'
  <2>1. /\ cmd' \in Subcommands /\ offset' \in 1..Len(args') /\ cmd' = args'[offset']
    BY <1>1, <1>5, <1>8, <1>10
  <2>2. Here' <= Len(args') => Here' \in Begins(args', Table[cmd'], offset' + 1)
    BY <1>1, <1>8, <1>13
  <2>3. \A i \in Begins(args', Table[cmd'], offset' + 1) : i < Here' => args'[i] # "--"
    <3>1. \A i \in Begins(args, Table[cmd'], Here + 1) : i \in Nat
      BY <1>2, <1>5, <1>7, BeginsStep DEF Reading
    <3>2. \A i \in Begins(args, Table[cmd'], Here + 1) : ~(i < Here + 1)
      BY <1>7, <1>13, <3>1
    <3> QED
      BY <1>1, <1>8, <3>2
  <2> QED
    BY <1>1, <1>12, <1>14, <2>1, <2>2, <2>3 DEF ArgumentsRead
<1>16. OptionsRead'
  BY <1>1 DEF OptionsRead
<1> QED
  BY <1>9, <1>15, <1>16 DEF IInv

\* Whichever parse_arg() it is, it takes options and plain words only.
LEMMA TakesKnown ==
    ASSUME NEW f, Takes(f) PROVE f.opt \notin {"end", "?"}
BY DEF Takes, HelpTakes, StartTakes, CommandTakes, EchoTakes, Plain

LEMMA TakeArgumentStep == ASSUME IInv, TakeArgument PROVE IInv'
<1> DEFINE f == Found(Table[cmd])
           B == Begins(args, Table[cmd], offset + 1)
<1>1. /\ stage = "arguments" /\ Takes(f)
      /\ set' = [set EXCEPT ![<<cmd, f.opt>>] = Setting(f)]
      /\ optind' = optind + f.uses
      /\ Read(f)
      /\ prog' = prog /\ args' = args /\ stage' = stage /\ offset' = offset /\ cmd' = cmd
  BY DEF TakeArgument
<1>2. PICK g : g = f
  OBVIOUS
<1>3. /\ cmd \in Subcommands /\ offset \in 1..Len(args) /\ cmd = args[offset]
      /\ OpensPart(offset)
      /\ Here <= Len(args) => Here \in B
      /\ \A i \in B : i < Here => args[i] # "--"
      /\ \A opt \in {"c", "r", Plain} : LastRead(opt)
  BY <1>1 DEF IInv, ArgumentsRead
<1>4. Types /\ Reading /\ EachWordOnce /\ GoodTable(Table[cmd])
  BY <1>3, TablesAreGood DEF IInv, Types
<1>5. g.opt \notin {"end", "?"}
  BY <1>1, <1>2, TakesKnown
<1>6. /\ ~End /\ Here \in 1..Len(args)
      /\ g.uses \in {1, 2} /\ Here + g.uses <= Len(args) + 1
      /\ g.uses = 2 <=> TakesNext(Table[cmd], args[Here])
      /\ Entries(Table[cmd], args[Here]) = {} =>
            g.opt = Plain /\ g.arg = args[Here] /\ args[Here] \notin OptionWords
      /\ Entries(Table[cmd], args[Here]) # {} =>
            /\ g.opt # Plain
            /\ \A e \in Entries(Table[cmd], args[Here]) : e.opt = g.opt
      /\ g.uses = 2 => g.arg = args[Here + 1]
  BY <1>2, <1>4, <1>5, FoundMoves
<1>7. Len(args) \in Nat /\ offset \in Nat /\ optind \in Nat \ {0} /\ Here = offset + optind
      /\ Here \in Nat /\ offset + 1 \in Nat \ {0}
  BY <1>4, LenProperties DEF Reading, Here
<1>8. Here' = Here + g.uses /\ offset' \in Nat /\ optind' \in Nat \ {0}
  BY <1>1, <1>2, <1>6, <1>7 DEF Here
<1>9. Types' /\ EachWordOnce'
  <2>1. DOMAIN set' = DOMAIN set /\ Read(g)
    BY <1>1, <1>2
  <2> QED
    BY <1>1, <1>4, <1>6, <1>8, <2>1, ReadOnce
<1>10. Here \in B
  BY <1>3, <1>6, <1>7
<1>11. /\ Here + g.uses <= Len(args) => Here + g.uses \in B
       /\ \A i \in B : i < Here + g.uses <=> i < Here \/ i = Here
  BY <1>2, <1>4, <1>5, <1>7, <1>10, MovesOn
<1>12. args[Here] # "--"
  BY <1>4, <1>6, NotAtEnd
<1>13. \A i \in B : i \in Nat /\ i \in (offset + 1)..Len(args)
  BY <1>4, <1>7, BeginsStep DEF Reading
<1>14. \A opt : Given(offset, opt) \subseteq B
  BY <1>3 DEF Given
\* Of the words up to the new index, only the one at the old one is new.
<1>15. \A opt \in {"c", "r", Plain} : Here \in Given(offset, opt) <=> g.opt = opt
  <2>1. \A j \in (offset + 1)..Here : j \in B => args[j] # "--"
    BY <1>3, <1>7, <1>12, <1>13
  <2>2. ASSUME NEW opt \in {"c", "r", Plain}
        PROVE  Here \in Given(offset, opt) <=>
                  IF Entries(Table[cmd], args[Here]) = {} THEN opt = Plain
                  ELSE \E e \in Entries(Table[cmd], args[Here]) : e.opt = opt
    BY <1>3, <1>10, <2>1 DEF Given
  <2>3. CASE Entries(Table[cmd], args[Here]) = {}
    BY <1>6, <2>2, <2>3
  <2>4. CASE Entries(Table[cmd], args[Here]) # {}
    BY <1>6, <2>2, <2>4
  <2> QED
    BY <2>3, <2>4
<1>16. \A opt : Given(offset, opt)' = Given(offset, opt)
  BY <1>1 DEF Given
<1>17. ASSUME NEW opt \in {"c", "r", Plain}
       PROVE  LastRead(opt)'
  <2> DEFINE G == Given(offset, opt)
  <2>1. \A i \in G : i \in Nat /\ (i < Here + g.uses <=> i < Here \/ i = Here)
    BY <1>11, <1>13, <1>14
  <2>2. <<cmd, opt>> \in DOMAIN set
    BY <1>3, <1>4 DEF Types, Variables, Subcommands, Table
  <2>3. CASE g.opt = opt
    <3>1. Value(opt)' = Setting(g)
      BY <1>1, <1>2, <2>2, <2>3 DEF Value
    <3>2. Setting(g) = IF opt = Plain THEN args[Here] ELSE args[Here + 1]
      <4>1. \A i \in 1..Len(args) : args[i] \in Words /\ args[i] # Unset
        BY <1>4, ElementOfSeq, InvocationAssumption DEF Reading
      <4>2. CASE opt = Plain
        <5>1. g.arg = args[Here]
          BY <1>6, <2>3, <4>2
        <5> QED
          BY <1>6, <4>1, <4>2, <5>1 DEF Setting
      <4>3. CASE opt \in {"c", "r"}
        <5>1. Entries(Table[cmd], args[Here]) # {}
          BY <1>6, <2>3, <4>3 DEF Plain
        <5>2. PICK e \in Entries(Table[cmd], args[Here]) : e.opt = opt
          BY <1>6, <2>3, <5>1
        <5>3. e.takes
          BY <1>3, <4>3, <5>2, ArgumentsTakeNext DEF Entries
        <5>4. TakesNext(Table[cmd], args[Here])
          BY <5>2, <5>3 DEF TakesNext
        <5>5. g.uses = 2 /\ g.arg = args[Here + 1] /\ Here + 1 \in 1..Len(args)
          BY <1>6, <1>7, <5>4
        <5>6. g.arg # Unset /\ opt # Plain
          BY <4>1, <4>3, <5>5 DEF Plain
        <5> QED
          BY <5>5, <5>6 DEF Setting
      <4> QED
        BY <4>2, <4>3
    <3>3. Here \in G /\ Here < Here + g.uses
      BY <1>6, <1>7, <1>15, <2>3
    <3>4. \A j \in G : j < Here + g.uses => j <= Here
      BY <1>7, <2>1
    <3>5. Value(opt)' = IF opt = Plain THEN args'[Here] ELSE args'[Here + 1]
      BY <1>1, <3>1, <3>2
    <3>6. \E i \in Given(offset, opt)' :
             /\ i < Here'
             /\ \A j \in Given(offset, opt)' : j < Here' => j <= i
             /\ Value(opt)' = IF opt = Plain THEN args'[i] ELSE args'[i + 1]
      BY <1>8, <1>16, <3>3, <3>4, <3>5
    <3> QED
      BY <3>6 DEF LastRead
  <2>4. CASE g.opt # opt
    <3>1. Value(opt)' = Value(opt)
      BY <1>1, <1>2, <2>2, <2>4 DEF Value
    <3>2. Here \notin G
      BY <1>15, <2>4
    <3>3. \A i \in G : i \in Nat /\ (i < Here + g.uses <=> i < Here)
      BY <2>1, <3>2
    <3>4. LastRead(opt)
      BY <1>3
    <3>5. CASE /\ Value(opt) = Initially(cmd, opt)
               /\ \A i \in G : i >= Here
      <4>1. \A i \in G : i >= Here'
        BY <1>6, <1>7, <1>8, <3>3, <3>5
      <4>2. Value(opt)' = Initially(cmd, opt)'
        BY <1>1, <3>1, <3>5 DEF Initially
      <4> QED
        BY <1>16, <4>1, <4>2 DEF LastRead
    <3>6. ASSUME NEW i \in G, i < Here, \A j \in G : j < Here => j <= i,
                 Value(opt) = IF opt = Plain THEN args[i] ELSE args[i + 1]
          PROVE  LastRead(opt)'
      <4>1. i < Here' /\ \A j \in G : j < Here' => j <= i
        BY <1>8, <3>3, <3>6
      <4>2. Value(opt)' = IF opt = Plain THEN args'[i] ELSE args'[i + 1]
        BY <1>1, <3>1, <3>6
      <4>3. \E k \in Given(offset, opt)' :
               /\ k < Here'
               /\ \A j \in Given(offset, opt)' : j < Here' => j <= k
               /\ Value(opt)' = IF opt = Plain THEN args'[k] ELSE args'[k + 1]
        BY <1>16, <4>1, <4>2
      <4> QED
        BY <4>3 DEF LastRead
    <3> QED
      BY <3>4, <3>5, <3>6 DEF LastRead
  <2> QED
    BY <2>3, <2>4
<1> HIDE DEF f
<1>18. ArgumentsRead'
  <2>1. Here' <= Len(args') => Here' \in Begins(args', Table[cmd'], offset' + 1)
    BY <1>1, <1>8, <1>11
  <2>2. \A i \in B : i < Here + g.uses => args[i] # "--"
    BY <1>3, <1>11, <1>12
  <2>3. \A i \in Begins(args', Table[cmd'], offset' + 1) : i < Here' => args'[i] # "--"
    BY <1>1, <1>8, <2>2
  <2>4. OpensPart(offset)'
    BY <1>1, <1>3 DEF OpensPart
  <2> QED
    BY <1>1, <1>3, <1>17, <2>1, <2>3, <2>4 DEF ArgumentsRead
<1>19. OptionsRead'
  BY <1>1 DEF OptionsRead
<1> QED
  BY <1>9, <1>18, <1>19 DEF IInv

-----------------------------------------------------------------------------
(* Steps that read nothing. *)

\* The invocation goes on, or ends, without another word.
LEMMA ReadsNothing ==
    ASSUME IInv, NEW how, stage' = how, UNCHANGED <<prog, args, offset, optind, cmd, set, reads>>,
           \/ how = stage
           \/ how \in {"shown", "failed", "aborted"}
           \/ /\ how \in {"loading", "running"}
              /\ (stage = "arguments" /\ End) \/ stage = "loading"
    PROVE  IInv'
<1>1. Types'
  BY DEF IInv, Types, Reading, Here
<1>2. EachWordOnce'
  BY DEF IInv, EachWordOnce, Here
<1>3. OptionsRead'
  BY DEF IInv, OptionsRead, Here
<1>4. ArgumentsRead'
  <2>1. CASE how \in {"shown", "failed", "aborted"}
    BY <2>1 DEF ArgumentsRead
  <2>2. CASE how \notin {"shown", "failed", "aborted"} /\ how \notin {"arguments", "loading", "running"}
    BY <2>2 DEF ArgumentsRead
  <2>3. CASE how \in {"arguments", "loading", "running"}
    <3>1. stage \in {"arguments", "loading", "running"} /\ (how # "arguments" => End)
      BY <2>3 DEF IInv, ArgumentsRead
    <3>2. Here' = Here
      BY DEF Here
    <3>3. \A opt : Given(offset, opt)' = Given(offset, opt) /\ Value(opt)' = Value(opt)
      BY DEF Given, Value
    <3>4. \A opt \in {"c", "r", Plain} : LastRead(opt)
      BY <3>1 DEF IInv, ArgumentsRead
    <3>5. \A opt \in {"c", "r", Plain} : LastRead(opt)'
      BY <3>2, <3>3, <3>4 DEF LastRead, Initially
    <3>6. OpensPart(offset)'
      BY <3>1 DEF IInv, ArgumentsRead, OpensPart
    <3>7. how # "arguments" => End'
      BY <3>1, <3>2 DEF End
    <3>8. /\ cmd' \in Subcommands /\ offset' \in 1..Len(args') /\ cmd' = args'[offset']
          /\ Here' <= Len(args') => Here' \in Begins(args', Table[cmd'], offset' + 1)
          /\ \A i \in Begins(args', Table[cmd'], offset' + 1) : i < Here' => args'[i] # "--"
      BY <3>1, <3>2 DEF IInv, ArgumentsRead
    <3> QED
      BY <3>5, <3>6, <3>7, <3>8 DEF ArgumentsRead
  <2> QED
    BY <2>1, <2>2, <2>3
<1> QED
  BY <1>1, <1>2, <1>3, <1>4 DEF IInv

LEMMA NextInv == IInv /\ [Next]_vars => IInv'
<1> SUFFICES ASSUME IInv, [Next]_vars PROVE IInv'
  OBVIOUS
<1>1. CASE TakeOption
  BY <1>1, TakeOptionStep
<1>2. CASE FindSubcommand
  BY <1>2, FindSubcommandStep
<1>3. CASE TakeArgument
  BY <1>3, TakeArgumentStep
<1>4. CASE StopAtOption \/ RejectOption \/ RejectSubcommand \/ RejectArgument \/ RunHelp
           \/ NoConfiguration
  <2>1. PICK how \in {"shown", "failed", "aborted"} : EndsAs(how)
    BY <1>4 DEF StopAtOption, RejectOption, RejectSubcommand, RejectArgument, RunHelp,
                NoConfiguration
  <2> QED
    BY <2>1, ReadsNothing DEF EndsAs
<1>5. CASE Daemonlize \/ RunRequest
  <2>1. stage = "arguments" /\ End
    BY <1>5 DEF Daemonlize, RunRequest
  <2>2. PICK how \in {"loading", "running", "failed", "aborted"} : EndsAs(how)
    BY <1>5 DEF Daemonlize, RunRequest
  <2> QED
    BY <2>1, <2>2, ReadsNothing DEF EndsAs
<1>6. CASE LoadConfiguration
  <2>1. /\ stage = "loading" /\ stage' \in {"running", "failed"}
        /\ UNCHANGED <<prog, args, offset, optind, cmd, set, reads>>
    BY <1>6 DEF LoadConfiguration
  <2> QED
    BY <2>1, ReadsNothing
<1>7. CASE UNCHANGED vars
  BY <1>7, ReadsNothing DEF vars
<1> QED
  BY <1>1, <1>2, <1>3, <1>4, <1>5, <1>6, <1>7 DEF Next

LEMMA Invariant == Spec => []IInv
BY InitInv, NextInv, PTL DEF Spec

-----------------------------------------------------------------------------
\* However long the command line is, the two loops read every word of it once and
\* in order (icmpd.c:96-101, icmpc.c:87-92).
THEOREM EachWordOnceCorrect == Spec => []EachWordOnce
<1>1. IInv => EachWordOnce
  BY DEF IInv
<1> QED
  BY <1>1, Invariant, PTL

\* At the end of the command line nothing is left to be given.
LEMMA AllGivenAreRead ==
    ASSUME IInv, stage = "running", NEW opt
    PROVE  \A i \in Given(offset, opt) : i \in Nat /\ i < Here
<1>1. /\ cmd = args[offset] /\ End /\ offset \in 1..Len(args)
      /\ Here <= Len(args) => Here \in Begins(args, Table[cmd], offset + 1)
  BY DEF IInv, ArgumentsRead
<1>2. Reading
  BY DEF IInv, Types
<1>3. Len(args) \in Nat /\ offset \in Nat /\ Here \in Nat /\ DOMAIN args = 1..Len(args)
      /\ Here >= 1 /\ offset + 1 \in Nat \ {0}
  BY <1>2, LenProperties DEF Reading, Here
<1>4. Here <= Len(args) => args[Here] = "--"
  BY <1>1, <1>3 DEF End
<1>5. ASSUME NEW i \in Given(offset, opt)
      PROVE  i \in Nat /\ i < Here
  <2>1. /\ i \in Begins(args, Table[cmd], offset + 1)
        /\ \A j \in (offset + 1)..i : j \in Begins(args, Table[cmd], offset + 1) => args[j] # "--"
    BY <1>1 DEF Given
  <2>2. Begins(args, Table[cmd], offset + 1) \subseteq (offset + 1)..Len(args)
    BY <1>2, <1>3, BeginsStep DEF Reading
  <2>3. i \in (offset + 1)..Len(args) /\ i \in Nat
    BY <1>3, <2>1, <2>2
  <2>4. ~(Here <= i)
    <3> SUFFICES ASSUME Here <= i PROVE FALSE
      OBVIOUS
    <3>1. Here \in Begins(args, Table[cmd], offset + 1) /\ args[Here] = "--"
      BY <1>1, <1>3, <1>4, <2>3
    <3>2. Here \in (offset + 1)..i
      BY <1>3, <2>2, <2>3, <3>1
    <3> QED
      BY <2>1, <3>1, <3>2
  <2> QED
    BY <1>3, <2>3, <2>4
<1> QED
  BY <1>5

\* However long the command line is, a program that runs runs the subcommand its
\* first plain word names, with the last value of each option behind it
\* (subcommand.c:66-98).
THEOREM LastOneCountsCorrect == Spec => []LastOneCounts
<1>1. IInv => LastOneCounts
  <2> SUFFICES ASSUME IInv, stage = "running" PROVE LastOneCounts
    BY DEF LastOneCounts
  <2>1. /\ offset \in DOMAIN args /\ OpensPart(offset) /\ cmd = args[offset]
        /\ \A opt \in {"c", "r", Plain} : LastRead(opt)
    <3>1. DOMAIN args = 1..Len(args)
      BY LenProperties DEF IInv, Types, Reading
    <3> QED
      BY <3>1 DEF IInv, ArgumentsRead
  <2>2. ASSUME NEW opt \in {"c", "r", Plain}
        PROVE  LET at == {i \in Given(offset, opt) : \A j \in Given(offset, opt) : j <= i}
               IN  Value(opt) \in
                      IF at = {} THEN {IF cmd = "start" /\ opt = "c" THEN Default ELSE Unset}
                      ELSE {IF opt = Plain THEN args[i] ELSE args[i + 1] : i \in at}
    <3> DEFINE G  == Given(offset, opt)
               at == {i \in G : \A j \in G : j <= i}
    <3>1. \A i \in G : i \in Nat /\ i < Here
      BY AllGivenAreRead
    <3>2. Here \in Nat
      BY DEF IInv, Types, Reading, Here
    <3>3. CASE /\ Value(opt) = Initially(cmd, opt)
               /\ \A i \in G : i >= Here
      <4>1. at = {}
        BY <3>1, <3>2, <3>3
      <4> QED
        BY <3>3, <4>1 DEF Initially
    <3>4. ASSUME NEW i \in G, i < Here, \A j \in G : j < Here => j <= i,
                 Value(opt) = IF opt = Plain THEN args[i] ELSE args[i + 1]
          PROVE  Value(opt) \in {IF opt = Plain THEN args[k] ELSE args[k + 1] : k \in at} /\ at # {}
      <4>1. i \in at
        BY <3>1, <3>4
      <4> QED
        BY <3>4, <4>1
    <3>5. LastRead(opt)
      BY <2>1
    <3> QED
      BY <3>3, <3>4, <3>5 DEF LastRead
  <2> QED
    BY <2>1, <2>2 DEF LastOneCounts
<1> QED
  BY <1>1, Invariant, PTL

=============================================================================
