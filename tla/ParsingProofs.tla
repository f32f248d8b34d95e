--------------------------- MODULE ParsingProofs ---------------------------
(***************************************************************************)
(* Proofs about what icmpd takes apart: CommandLine, for lines of any      *)
(* length over any alphabet, and Configuration, for any documents, names   *)
(* and queries, with the lists of strings of SplitString.                  *)
(***************************************************************************)
EXTENDS CommandLine, Configuration, Integers, FiniteSetTheorems, SequenceTheorems,
        WellFoundedInduction, TLAPS

-----------------------------------------------------------------------------
(* The command line. *)

Scanning == pc \in {"scan", "done"}

\* What is not scanned yet is as it was copied, and begins at a boundary.
RestInv ==
    Scanning =>
        /\ \A k \in curr..size : args[k] = line[k]
        /\ args[size + 1] = Nul
        /\ curr = 1 \/ curr = size + 1 \/ line[curr - 1] \in Spaces

\* argv has the words that begin before curr, in their order.
FoundInv ==
    /\ pc \in {"check", "build"} => argc = 0 /\ curr = 1
    /\ \A m, n \in 1..argc : m < n => argv[m] < argv[n]
    /\ \A n \in 1..argc : WordStart(argv[n]) /\ n <= argv[n] /\ argv[n] < curr
    /\ Scanning => \A i \in 1..size : WordStart(i) /\ i < curr => \E n \in 1..argc : argv[n] = i

\* They end before curr, and are whole.
WholeInv ==
    \A n \in 1..argc, j \in 1..(size + 1) :
        WordEnd(argv[n], j) =>
            /\ j <= curr
            /\ args[j] = Nul
            /\ \A k \in argv[n]..(j - 1) : args[k] = line[k]

DoneInv == pc = "done" => curr = size + 1

NameInv == pc # "check" => name \in NameLengths

IInv == TypeOK /\ RestInv /\ FoundInv /\ WholeInv /\ DoneInv /\ NameInv

LEMMA InitInv == Init => IInv
BY LineAssumption
   DEF Init, IInv, TypeOK, RestInv, FoundInv, WholeInv, DoneInv, NameInv, Scanning

-----------------------------------------------------------------------------
\* A position that is not behind curr holds Nul only at the end of the line.
LEMMA NulIsLast ==
    ASSUME IInv, pc = "scan", NEW i \in curr..(size + 1)
    PROVE  args[i] = Nul <=> i = size + 1
BY LineAssumption DEF IInv, TypeOK, RestInv, Scanning, Characters

LEMMA ExtractStep == ASSUME IInv, ExtractName PROVE IInv'
<1>1. TypeOK'
  BY DEF IInv, TypeOK, ExtractName, NameLengths
<1>2. RestInv' /\ DoneInv'
  BY DEF ExtractName, RestInv, DoneInv, Scanning
<1>3. FoundInv' /\ WholeInv'
  BY DEF IInv, ExtractName, FoundInv, WholeInv, Scanning, WordStart, WordEnd
<1>4. NameInv'
  BY DEF ExtractName, NameInv, NameLengths
<1> QED
  BY <1>1, <1>2, <1>3, <1>4 DEF IInv

LEMMA CopyStep == ASSUME IInv, CopyLine PROVE IInv'
<1>1. TypeOK'
  BY LineAssumption DEF IInv, TypeOK, CopyLine
<1>2. curr = 1 /\ argc = 0
  BY DEF IInv, FoundInv, CopyLine
<1>3. RestInv' /\ DoneInv'
  BY <1>2 DEF IInv, TypeOK, CopyLine, RestInv, DoneInv, Scanning
<1>4. FoundInv' /\ WholeInv'
  BY <1>2 DEF IInv, TypeOK, CopyLine, FoundInv, WholeInv, Scanning, WordStart, WordEnd
<1>5. NameInv'
  BY DEF IInv, CopyLine, NameInv, NameLengths
<1> QED
  BY <1>1, <1>3, <1>4, <1>5 DEF IInv

\* The scan stops at the end of the line, with every word found.
LEMMA StopStep == ASSUME IInv, SkipTail \/ EndOfLine PROVE IInv'
<1>1. PICK end \in 1..(size + 1) :
          SkipsSpaces(curr, end) /\ args[end] = Nul /\ curr' = end
  <2>1. CASE SkipTail
    BY <2>1 DEF SkipTail
  <2>2. CASE EndOfLine
    BY <2>2, LineAssumption DEF EndOfLine, SkipsSpaces, IInv, TypeOK, Characters
  <2> QED
    BY <2>1, <2>2
<1>2. /\ pc = "scan" /\ pc' = "done"
      /\ UNCHANGED <<line, size, name, args, argc, argv>>
  BY DEF SkipTail, EndOfLine
<1>3. end \in curr..(size + 1)
  BY <1>1 DEF SkipsSpaces, IInv, TypeOK
<1>4. end = size + 1
  BY <1>1, <1>2, <1>3, NulIsLast
<1>5. \A i \in curr..size : line[i] \in Spaces
  BY <1>1, <1>2, <1>4 DEF SkipsSpaces, IInv, TypeOK, RestInv, Scanning
<1>6. TypeOK' /\ DoneInv'
  BY <1>1, <1>2, <1>4 DEF IInv, TypeOK, DoneInv
<1>7. RestInv'
  BY <1>1, <1>2, <1>4 DEF IInv, TypeOK, RestInv, Scanning
<1>8. FoundInv'
  BY <1>1, <1>2, <1>4, <1>5 DEF IInv, TypeOK, FoundInv, Scanning, WordStart
<1>9. WholeInv'
  BY <1>1, <1>2, <1>4 DEF IInv, TypeOK, WholeInv, WordEnd
<1>10. NameInv'
  BY <1>2 DEF IInv, NameInv, NameLengths
<1> QED
  BY <1>6, <1>7, <1>8, <1>9, <1>10 DEF IInv

\* The word that is taken begins at a boundary, and it is the next one.
LEMMA WordStep == ASSUME IInv, TakeWord PROVE IInv'
<1>1. PICK start \in 1..(size + 1), end \in 1..(size + 1) :
          /\ SkipsSpaces(curr, start) /\ args[start] # Nul
          /\ SkipsCharacters(start, end)
          /\ AddArgument(start)
          /\ args' = [args EXCEPT ![end] = Nul]
          /\ curr' = IF args[end] = Nul THEN end ELSE end + 1
  BY DEF TakeWord
<1>2. pc = "scan" /\ pc' = "scan" /\ UNCHANGED <<line, size, name>>
  BY DEF TakeWord
<1>3. curr <= start /\ start < end
  BY <1>1 DEF SkipsSpaces, SkipsCharacters
<1>4. start \in 1..size /\ start \notin {size + 1}
  BY <1>1, <1>2, <1>3, NulIsLast DEF IInv, TypeOK
<1>5. args[end] = Nul <=> end = size + 1
  BY <1>2, <1>3, NulIsLast DEF IInv, TypeOK
<1>6. curr' \in end..(size + 1) /\ curr' <= end + 1 /\ (curr' = end => end = size + 1)
  BY <1>1, <1>5 DEF IInv, TypeOK
<1>7. \A k \in curr..size : args[k] = line[k]
  BY <1>2 DEF IInv, RestInv, Scanning
<1>8. end <= size => line[end] \in Spaces
  BY <1>1, <1>3, <1>5, <1>7 DEF SkipsCharacters, IInv, TypeOK
<1>9. \A k \in start..(end - 1) : line[k] \notin Spaces
  BY <1>1, <1>3, <1>4, <1>7 DEF SkipsSpaces, SkipsCharacters, IInv, TypeOK
<1>10. \A k \in curr..(start - 1) : line[k] \in Spaces
  BY <1>1, <1>4, <1>7 DEF SkipsSpaces, IInv, TypeOK
<1>11. WordStart(start)
  BY <1>2, <1>3, <1>4, <1>9, <1>10 DEF WordStart, IInv, TypeOK, RestInv, Scanning
<1>12. argc < start
  <2>1. CASE argc = 0
    BY <1>4, <2>1
  <2>2. CASE argc # 0
    <3>1. argc \in 1..argc
      BY <2>2 DEF IInv, TypeOK
    <3>2. argc <= argv[argc] /\ argv[argc] < curr /\ argv[argc] \in Nat
      BY <3>1 DEF IInv, TypeOK, FoundInv
    <3> QED
      BY <1>3, <1>4, <3>2 DEF IInv, TypeOK
  <2> QED
    BY <2>1, <2>2
<1>13. argc \in Nat /\ argc' = argc + 1 /\ argv' \in [1..argc' -> 1..size]
  BY <1>1, <1>4 DEF AddArgument, IInv, TypeOK
<1>14. /\ \A n \in 1..argc : argv'[n] = argv[n]
       /\ argv'[argc + 1] = start
  BY <1>1, <1>13 DEF AddArgument
<1>15. \A n \in 1..argc' : n \in 1..argc \/ n = argc + 1
  BY <1>13
<1>16. TypeOK'
  BY <1>1, <1>2, <1>4, <1>6, <1>12, <1>13, LineAssumption DEF IInv, TypeOK
<1>17. RestInv'
  BY <1>1, <1>2, <1>3, <1>5, <1>6, <1>7, <1>8 DEF IInv, TypeOK, RestInv, Scanning
<1>18. FoundInv'
  <2>1. \A m, n \in 1..argc' : m < n => argv'[m] < argv'[n]
    BY <1>3, <1>13, <1>14, <1>15 DEF IInv, TypeOK, FoundInv
  <2>2. \A n \in 1..argc' : WordStart(argv'[n]) /\ n <= argv'[n] /\ argv'[n] < curr'
    <3>1. \A n \in 1..argc : WordStart(argv[n]) /\ n <= argv[n] /\ argv[n] < curr'
      BY <1>3, <1>6 DEF IInv, TypeOK, FoundInv
    <3>2. argc + 1 <= start /\ start < curr'
      BY <1>3, <1>4, <1>6, <1>12, <1>13
    <3> QED
      BY <3>1, <3>2, <1>11, <1>14, <1>15
  <2>3. ASSUME NEW i \in 1..size, WordStart(i), i < curr'
        PROVE  \E n \in 1..argc' : argv'[n] = i
    <3>1. CASE i < curr
      <4>1. PICK n \in 1..argc : argv[n] = i
        BY <1>2, <2>3, <3>1 DEF IInv, FoundInv, Scanning
      <4> QED
        BY <4>1, <1>13, <1>14
    <3>2. CASE i >= curr
      <4>1. i = start
        BY <1>3, <1>6, <1>8, <1>9, <1>10, <2>3, <3>2 DEF WordStart, IInv, TypeOK
      <4> QED
        BY <4>1, <1>13, <1>14
    <3> QED
      BY <3>1, <3>2 DEF IInv, TypeOK
  <2> QED
    BY <1>2, <2>1, <2>2, <2>3 DEF FoundInv, WordStart
<1>19. WholeInv'
  <2> SUFFICES ASSUME NEW n \in 1..argc', NEW j \in 1..(size + 1), WordEnd(argv'[n], j)
               PROVE  /\ j <= curr' /\ args'[j] = Nul
                      /\ \A k \in argv'[n]..(j - 1) : args'[k] = line[k]
    BY <1>2 DEF WholeInv, WordEnd
  <2>1. CASE n \in 1..argc
    <3>1. argv'[n] = argv[n] /\ argv[n] \in 1..size
      BY <2>1, <1>14 DEF IInv, TypeOK
    <3>2. j <= curr /\ args[j] = Nul /\ \A k \in argv[n]..(j - 1) : args[k] = line[k]
      BY <2>1, <3>1 DEF IInv, WholeInv
    <3> QED
      BY <3>1, <3>2, <1>1, <1>3, <1>6 DEF IInv, TypeOK
  <2>2. CASE n = argc + 1
    <3>1. argv'[n] = start
      BY <2>2, <1>14
    <3>2. j = end
      BY <3>1, <1>3, <1>8, <1>9 DEF WordEnd, IInv, TypeOK
    <3> QED
      BY <3>1, <3>2, <1>1, <1>3, <1>6, <1>7 DEF IInv, TypeOK
  <2> QED
    BY <2>1, <2>2, <1>15
<1>20. DoneInv' /\ NameInv'
  BY <1>2 DEF IInv, DoneInv, NameInv, NameLengths
<1> QED
  BY <1>16, <1>17, <1>18, <1>19, <1>20 DEF IInv

-----------------------------------------------------------------------------
LEMMA NextInv == ASSUME IInv, [Next]_vars PROVE IInv'
<1>1. CASE Next
  BY <1>1, ExtractStep, CopyStep, WordStep, StopStep DEF Next
<1>2. CASE UNCHANGED vars
  BY <1>2 DEF vars, IInv, TypeOK, RestInv, FoundInv, WholeInv, DoneInv, NameInv, Scanning,
              WordStart, WordEnd, NameLengths
<1> QED
  BY <1>1, <1>2

LEMMA Invariance == Spec => []IInv
BY InitInv, NextInv, PTL DEF Spec

\* No variable leaves its type: the scan reads and writes only its copy of the
\* line, and argv never has more entries than the line has characters.
THEOREM TypeCorrect == Spec => []TypeOK
<1>1. IInv => TypeOK
  BY DEF IInv
<1> QED
  BY <1>1, Invariance, PTL

\* execvp() gets every word of the line, in order, whole and terminated.
THEOREM WordsAreWholeCorrect == Spec => []WordsAreWhole
<1>1. ASSUME IInv, pc = "done"
      PROVE  {argv[n] : n \in 1..argc} = {i \in 1..size : WordStart(i)}
  <2>1. \A n \in 1..argc : argv[n] \in 1..size /\ WordStart(argv[n])
    BY <1>1 DEF IInv, TypeOK, FoundInv
  <2>2. \A i \in 1..size : WordStart(i) => \E n \in 1..argc : argv[n] = i
    BY <1>1 DEF IInv, TypeOK, FoundInv, DoneInv, Scanning
  <2> QED
    BY <2>1, <2>2
<1>2. IInv => WordsAreWhole
  BY <1>1 DEF IInv, FoundInv, WholeInv, WordsAreWhole
<1> QED
  BY <1>2, Invariance, PTL

\* The name that is checked is the program's, unless the line begins with
\* white space: then it is empty, and the program runs under no name at all.
THEOREM PartsAfterSpaceCorrect == Spec => []PartsAfterSpace
<1>1. ASSUME IInv, pc = "done", argc > 0, line[1] \notin Spaces
      PROVE  NameIsProgram
  <2>1. size > 0 /\ argv[1] \in 1..size
    BY <1>1 DEF IInv, TypeOK
  <2>2. PICK n \in 1..argc : argv[n] = 1
    BY <1>1, <2>1 DEF IInv, TypeOK, FoundInv, DoneInv, Scanning, WordStart
  <2>3. n = 1
    BY <1>1, <2>1, <2>2 DEF IInv, TypeOK, FoundInv
  <2>4. name # 0 /\ name + 1 <= size + 1
    BY <1>1, <2>1 DEF IInv, TypeOK, NameInv, NameLengths
  <2>5. WordEnd(1, 1 + name)
    BY <1>1, <2>4 DEF IInv, TypeOK, NameInv, NameLengths, WordEnd
  <2>6. argv[1] = 1
    BY <2>2, <2>3
  <2>7. \A i \in 1..name : 1 + i - 1 = i
    BY <1>1 DEF IInv, TypeOK
  <2>8. \A i \in 1..name : line[i] = line[argv[1] + i - 1]
    BY <2>6, <2>7
  <2>9. argc > 0 /\ argv[1] + name <= size + 1 /\ WordEnd(argv[1], argv[1] + name)
    <3>1. name \in Nat /\ size \in Nat
      BY <1>1 DEF IInv, TypeOK
    <3>2. 1 + name <= size + 1
      BY <2>4, <3>1
    <3> QED
      BY <1>1, <2>5, <2>6, <3>2
  <2> QED
    BY <2>8, <2>9 DEF NameIsProgram
<1>2. ASSUME IInv, pc = "done", argc = 0 \/ line[1] \in Spaces
      PROVE  name = 0
  <2>1. CASE size = 0
    BY <1>2, <2>1 DEF IInv, TypeOK
  <2>2. CASE size > 0 /\ line[1] \in Spaces
    BY <1>2, <2>2 DEF IInv, TypeOK, NameInv, NameLengths
  <2>3. ASSUME size > 0, line[1] \notin Spaces PROVE FALSE
    <3>1. \E n \in 1..argc : argv[n] = 1
      BY <1>2, <2>3 DEF IInv, TypeOK, FoundInv, DoneInv, Scanning, WordStart
    <3> QED
      BY <1>2, <2>3, <3>1
  <2>4. size \in Nat
    BY <1>2 DEF IInv, TypeOK
  <2> QED
    BY <2>1, <2>2, <2>3, <2>4
<1>3. ASSUME IInv, pc = "done", argc > 0, name = 0
      PROVE  ~NameIsProgram
  <2>1. argv[1] + name = argv[1]
    BY <1>3 DEF IInv, TypeOK
  <2>2. argv[1] \in Nat
    BY <1>3 DEF IInv, TypeOK
  <2> QED
    BY <2>1, <2>2 DEF NameIsProgram, WordEnd
<1>4. ASSUME IInv, pc = "done"
      PROVE  PartsAfterSpace
  <2>1. argc \in Nat
    BY <1>4 DEF IInv, TypeOK
  <2> QED
    BY <1>1, <1>2, <1>3, <1>4, <2>1 DEF PartsAfterSpace
<1>5. IInv => PartsAfterSpace
  BY <1>4 DEF PartsAfterSpace
<1> QED
  BY <1>5, Invariance, PTL

-----------------------------------------------------------------------------
(* Strings that are cut and joined. *)

\* Induction over positions, by the least at which a claim fails.
LEMMA LeastElement ==
    ASSUME NEW n \in Nat, NEW S \in SUBSET (1..n), S # {}
    PROVE  \E m \in S : \A k \in S : m <= k
<1> DEFINE T == {1..k : k \in S}
<1>1. T \subseteq FiniteSubsetsOf(1..n) /\ T # {}
  <2>1. \A k \in S : k \in Nat /\ 1..k \subseteq 1..n
    OBVIOUS
  <2>2. IsFiniteSet(1..n)
    BY FS_Interval
  <2>3. \A k \in S : IsFiniteSet(1..k)
    BY <2>1, <2>2, FS_Subset
  <2> QED
    BY <2>1, <2>3 DEF FiniteSubsetsOf
<1>2. IsWellFoundedOn(StrictSubsetOrdering(1..n), FiniteSubsetsOf(1..n))
  BY FS_StrictSubsetOrderingWellFounded
<1>3. PICK x \in T : \A y \in T : ~(<<y, x>> \in StrictSubsetOrdering(1..n))
  <2> HIDE DEF T
  <2> QED
    BY <1>1, <1>2, WFMin
<1>4. PICK m \in S : x = 1..m
  BY <1>3
<1>5. ASSUME NEW k \in S, k < m PROVE FALSE
  <2>1. 1..k \subseteq 1..m /\ 1..k # 1..m /\ 1..k \subseteq 1..n /\ 1..m \subseteq 1..n
    <3>1. m \in 1..m /\ m \notin 1..k
      BY <1>5
    <3> QED
      BY <1>5, <3>1
  <2>2. 1..k \in T
    OBVIOUS
  <2>3. <<1..k, 1..m>> \in StrictSubsetOrdering(1..n)
    BY <2>1 DEF StrictSubsetOrdering
  <2> QED
    BY <1>3, <1>4, <2>2, <2>3
<1> QED
  BY <1>5

\* A function that is computed from its end: at a position up to n it puts g
\* before its value at a later position, which h names.
IsChain(f, g, h, n, from, to) ==
    f = [i \in from..to |-> IF i > n THEN <<>> ELSE g[i] \o f[h[i]]]

\* There is one, since h goes forward.
LEMMA ChainExists ==
    ASSUME NEW n \in Nat, NEW m \in Nat, NEW g, NEW h,
           \A i \in 1..n : h[i] \in (i + 1)..m
    PROVE  \E f : IsChain(f, g, h, n, 1, m)
<1> DEFINE Is(f, d) == f = [i \in (m - d + 1)..m |-> IF i > n THEN <<>> ELSE g[i] \o f[h[i]]]
           Lacks == {d \in 1..m : ~ \E f : Is(f, d)}
<1>1. \E f : Is(f, 0)
  <2> DEFINE f == [i \in {} |-> <<>>]
  <2>1. (m - 0 + 1)..m = {}
    OBVIOUS
  <2>2. Is(f, 0)
    BY <2>1
  <2> QED
    BY <2>2
<1>2. ASSUME NEW d \in Nat, d + 1 <= m, NEW f, Is(f, d)
      PROVE  \E e : Is(e, d + 1)
  <2> DEFINE e == [i \in (m - (d + 1) + 1)..m |-> IF i > n THEN <<>> ELSE g[i] \o f[h[i]]]
  <2>1. ASSUME NEW i \in (m - (d + 1) + 1)..m, ~(i > n)
        PROVE  e[h[i]] = f[h[i]]
    <3>1. h[i] \in (m - d + 1)..m /\ h[i] \in (m - (d + 1) + 1)..m
      <4>1. i \in 1..n
        BY <1>2, <2>1
      <4> QED
        BY <4>1, <1>2
    <3> DEFINE v == IF h[i] > n THEN <<>> ELSE g[h[i]] \o f[h[h[i]]]
    <3>2. f[h[i]] = v
      BY <1>2, <3>1
    <3>3. e[h[i]] = v
      BY <3>1
    <3> HIDE DEF e, v
    <3> QED
      BY <3>2, <3>3
  <2>2. ASSUME NEW i \in (m - (d + 1) + 1)..m
        PROVE  (IF i > n THEN <<>> ELSE g[i] \o f[h[i]]) = (IF i > n THEN <<>> ELSE g[i] \o e[h[i]])
    BY <2>1
  <2>3. Is(e, d + 1)
    BY <2>2
  <2> QED
    BY <2>3
<1> HIDE DEF Is
<1>3. \E f : Is(f, m)
  <2>1. CASE Lacks = {}
    <3>1. m = 0 \/ m \in 1..m
      OBVIOUS
    <3> QED
      BY <1>1, <2>1, <3>1
  <2>2. CASE Lacks # {}
    <3>1. PICK d \in Lacks : \A k \in Lacks : d <= k
      BY <2>2, LeastElement
    <3>2. d - 1 \in Nat /\ (d - 1 = 0 \/ d - 1 \in 1..m) /\ d - 1 < d /\ d - 1 + 1 = d /\ d <= m
      OBVIOUS
    <3>3. \E f : Is(f, d - 1)
      BY <1>1, <3>1, <3>2
    <3>4. \E f : Is(f, d)
      BY <1>2, <3>2, <3>3
    <3> QED
      BY <3>4
  <2> QED
    BY <2>1, <2>2
<1>4. m - m + 1 = 1
  OBVIOUS
<1> QED
  BY <1>3, <1>4 DEF IsChain, Is

\* The end of an element is its first delimiter, or the end of the string.
LEMMA ElementEndIs ==
    ASSUME NEW S, NEW s \in Seq(S), NEW delim, NEW i \in 1..(Len(s) + 1)
    PROVE  /\ ElementEnd(s, delim, i) \in i..(Len(s) + 1)
           /\ \A e \in i..(Len(s) + 1) :
                 /\ e = Len(s) + 1 \/ s[e] = delim
                 /\ \A j \in i..(e - 1) : s[j] # delim
                 => ElementEnd(s, delim, i) = e
<1> DEFINE Ends(e) == /\ e = Len(s) + 1 \/ s[e] = delim
                      /\ \A j \in i..(e - 1) : s[j] # delim
           Stops == {e \in i..(Len(s) + 1) : e = Len(s) + 1 \/ s[e] = delim}
<1>1. Len(s) \in Nat
  BY LenProperties
<1>2. \E e \in i..(Len(s) + 1) : Ends(e)
  <2>1. Len(s) + 1 \in Nat /\ Stops \in SUBSET (1..(Len(s) + 1)) /\ Len(s) + 1 \in Stops
    BY <1>1
  <2>2. PICK e \in Stops : \A k \in Stops : e <= k
    <3> HIDE DEF Stops
    <3> QED
      BY <2>1, LeastElement
  <2>3. Ends(e)
    BY <1>1, <2>2
  <2> QED
    BY <2>3
<1>3. ElementEnd(s, delim, i) \in i..(Len(s) + 1) /\ Ends(ElementEnd(s, delim, i))
  <2>1. ElementEnd(s, delim, i) = CHOOSE e \in i..(Len(s) + 1) : Ends(e)
    BY DEF ElementEnd
  <2> HIDE DEF Ends
  <2> QED
    BY <1>2, <2>1
<1>4. ASSUME NEW e \in i..(Len(s) + 1), Ends(e)
      PROVE  ElementEnd(s, delim, i) = e
  BY <1>1, <1>3, <1>4
<1> QED
  BY <1>3, <1>4

\* The equation of the loop that cuts.
LEMMA CutLoop ==
    ASSUME NEW S, NEW s \in Seq(S), NEW delim, NEW last \in Len(s)..(Len(s) + 1)
    PROVE  \E rest : /\ CutUpTo(s, delim, last) = rest[1]
                     /\ \A i \in (last + 1)..(Len(s) + 2) : rest[i] = <<>>
                     /\ \A i \in 1..last :
                          rest[i] = <<SubSeq(s, i, ElementEnd(s, delim, i) - 1)>>
                                      \o rest[ElementEnd(s, delim, i) + 1]
<1> DEFINE rest[i \in 1..(Len(s) + 2)] ==
             IF i > last THEN <<>>
             ELSE <<SubSeq(s, i, ElementEnd(s, delim, i) - 1)>>
                      \o rest[ElementEnd(s, delim, i) + 1]
           g == [i \in 1..last |-> <<SubSeq(s, i, ElementEnd(s, delim, i) - 1)>>]
           h == [i \in 1..last |-> ElementEnd(s, delim, i) + 1]
           Is(f) == f = [i \in 1..(Len(s) + 2) |->
                           IF i > last THEN <<>>
                           ELSE <<SubSeq(s, i, ElementEnd(s, delim, i) - 1)>>
                                    \o f[ElementEnd(s, delim, i) + 1]]
<1>1. Len(s) \in Nat /\ last \in Nat
  BY LenProperties
<1>2. \E f : Is(f)
  <2>1. Len(s) + 2 \in Nat /\ \A i \in 1..last : h[i] \in (i + 1)..(Len(s) + 2)
    <3>1. ASSUME NEW i \in 1..last
          PROVE  h[i] \in (i + 1)..(Len(s) + 2)
      <4>1. i \in 1..(Len(s) + 1)
        BY <1>1
      <4>2. ElementEnd(s, delim, i) \in i..(Len(s) + 1)
        BY <4>1, ElementEndIs
      <4> QED
        BY <1>1, <4>2
    <3> HIDE DEF h
    <3> QED
      BY <1>1, <3>1
  <2>2. PICK f : IsChain(f, g, h, last, 1, Len(s) + 2)
    <3> HIDE DEF g, h
    <3> QED
      BY <1>1, <2>1, ChainExists
  <2>3. ASSUME NEW i \in 1..(Len(s) + 2)
        PROVE  (IF i > last THEN <<>> ELSE g[i] \o f[h[i]])
             = (IF i > last THEN <<>>
                ELSE <<SubSeq(s, i, ElementEnd(s, delim, i) - 1)>>
                         \o f[ElementEnd(s, delim, i) + 1])
    <3>1. CASE i > last
      BY <3>1
    <3>2. CASE i \in 1..last
      BY <3>2
    <3> QED
      BY <1>1, <3>1, <3>2
  <2>4. Is(f)
    <3> HIDE DEF g, h
    <3> QED
      BY <2>2, <2>3 DEF IsChain
  <2> QED
    BY <2>4
<1>3. Is(rest)
  BY <1>2, Zenon
<1>4. CutUpTo(s, delim, last) = rest[1]
  BY DEF CutUpTo
<1> HIDE DEF rest
<1>5. \A i \in 1..(Len(s) + 2) :
         rest[i] = IF i > last THEN <<>>
                   ELSE <<SubSeq(s, i, ElementEnd(s, delim, i) - 1)>>
                            \o rest[ElementEnd(s, delim, i) + 1]
  BY <1>3
<1>6. /\ \A i \in (last + 1)..(Len(s) + 2) : i \in 1..(Len(s) + 2) /\ i > last
      /\ \A i \in 1..last : i \in 1..(Len(s) + 2) /\ ~(i > last)
  BY <1>1
<1>7. \A i \in (last + 1)..(Len(s) + 2) : rest[i] = <<>>
  BY <1>5, <1>6, Zenon
<1>8. \A i \in 1..last :
         rest[i] = <<SubSeq(s, i, ElementEnd(s, delim, i) - 1)>>
                       \o rest[ElementEnd(s, delim, i) + 1]
  BY <1>5, <1>6, Zenon
<1> QED
  BY <1>4, <1>7, <1>8

\* The equation of Join's.
LEMMA JoinLoop ==
    ASSUME NEW S, NEW list \in Seq(Seq(S))
    PROVE  \E joined :
              /\ Join(list) = joined[1]
              /\ \A i \in 1..(Len(list) + 1) :
                    /\ i > Len(list) => joined[i] = <<>>
                    /\ i = Len(list) => joined[i] = list[i]
                    /\ i < Len(list) => joined[i] = list[i] \o <<Colon>> \o joined[i + 1]
<1> DEFINE joined[i \in 1..(Len(list) + 1)] ==
             IF i > Len(list) THEN <<>>
             ELSE IF i = Len(list) THEN list[i]
             ELSE list[i] \o <<Colon>> \o joined[i + 1]
           g == [i \in 1..Len(list) |->
                   IF i = Len(list) THEN list[i] ELSE list[i] \o <<Colon>>]
           h == [i \in 1..Len(list) |-> i + 1]
           Is(f) == f = [i \in 1..(Len(list) + 1) |->
                           IF i > Len(list) THEN <<>>
                           ELSE IF i = Len(list) THEN list[i]
                           ELSE list[i] \o <<Colon>> \o f[i + 1]]
<1>1. Len(list) \in Nat /\ \A i \in 1..Len(list) : list[i] \in Seq(S)
  BY LenProperties, ElementOfSeq
<1>2. \E f : Is(f)
  <2>1. Len(list) + 1 \in Nat /\ \A i \in 1..Len(list) : h[i] \in (i + 1)..(Len(list) + 1)
    BY <1>1
  <2>2. PICK f : IsChain(f, g, h, Len(list), 1, Len(list) + 1)
    <3> HIDE DEF g, h
    <3> QED
      BY <1>1, <2>1, ChainExists
  <2>3. f = [i \in 1..(Len(list) + 1) |-> IF i > Len(list) THEN <<>> ELSE g[i] \o f[h[i]]]
    BY <2>2 DEF IsChain
  <2>4. f[Len(list) + 1] = <<>>
    <3> HIDE DEF g, h
    <3> QED
      BY <1>1, <2>3
  <2>5. ASSUME NEW i \in 1..(Len(list) + 1)
        PROVE  (IF i > Len(list) THEN <<>> ELSE g[i] \o f[h[i]])
             = (IF i > Len(list) THEN <<>>
                ELSE IF i = Len(list) THEN list[i]
                ELSE list[i] \o <<Colon>> \o f[i + 1])
    <3>1. CASE i > Len(list)
      BY <3>1
    <3>2. CASE i = Len(list)
      <4>1. i \in 1..Len(list) /\ ~(i > Len(list)) /\ list[i] \o <<>> = list[i]
        BY <1>1, <3>2, ConcatEmptySeq
      <4>2. g[i] = list[i] /\ h[i] = Len(list) + 1
        BY <3>2, <4>1
      <4> QED
        BY <2>4, <3>2, <4>1, <4>2
    <3>3. CASE i \in 1..Len(list) /\ i # Len(list)
      <4>1. g[i] = list[i] \o <<Colon>> /\ h[i] = i + 1
        BY <3>3
      <4> QED
        BY <1>1, <3>3, <4>1
    <3> QED
      BY <1>1, <3>1, <3>2, <3>3
  <2>6. Is(f)
    <3> HIDE DEF g, h
    <3> QED
      BY <2>3, <2>5
  <2> QED
    BY <2>6
<1>3. Is(joined)
  BY <1>2, Zenon
<1>4. Join(list) = joined[1]
  BY DEF Join
<1> HIDE DEF joined
<1>5. \A i \in 1..(Len(list) + 1) :
         joined[i] = IF i > Len(list) THEN <<>>
                     ELSE IF i = Len(list) THEN list[i]
                     ELSE list[i] \o <<Colon>> \o joined[i + 1]
  BY <1>3
<1>6. \A i \in 1..(Len(list) + 1) :
         /\ i > Len(list) => joined[i] = <<>>
         /\ i = Len(list) => joined[i] = list[i]
         /\ i < Len(list) => joined[i] = list[i] \o <<Colon>> \o joined[i + 1]
  <2>1. \A i \in 1..(Len(list) + 1) :
           /\ i = Len(list) => ~(i > Len(list))
           /\ i < Len(list) => ~(i > Len(list)) /\ i # Len(list)
    BY <1>1
  <2> QED
    BY <1>5, <2>1, Zenon
<1> QED
  BY <1>4, <1>6

\* An element that stands at p, with a colon or nothing behind it, is cut out.
LEMMA ElementAt ==
    ASSUME NEW S, NEW s \in Seq(S), NEW x \in Seq(S), NEW p \in 1..Len(s),
           p + Len(x) <= Len(s) + 1,
           \A j \in 1..Len(x) : s[p + j - 1] = x[j] /\ x[j] # Colon,
           p + Len(x) = Len(s) + 1 \/ s[p + Len(x)] = Colon
    PROVE  /\ ElementEnd(s, Colon, p) = p + Len(x)
           /\ SubSeq(s, p, ElementEnd(s, Colon, p) - 1) = x
<1>1. Len(s) \in Nat /\ Len(x) \in Nat
  BY LenProperties
<1>2. ASSUME NEW i \in p..(p + Len(x) - 1)
      PROVE  s[i] # Colon
  <2>1. i - p + 1 \in 1..Len(x) /\ p + (i - p + 1) - 1 = i
    BY <1>1
  <2> QED
    BY <2>1
<1>3. ElementEnd(s, Colon, p) = p + Len(x)
  <2>1. p + Len(x) \in p..(Len(s) + 1)
    BY <1>1
  <2> QED
    BY <1>2, <2>1, ElementEndIs
<1>4. SubSeq(s, p, p + Len(x) - 1) = x
  <2> DEFINE y == SubSeq(s, p, p + Len(x) - 1)
  <2>1. \A i \in p..(p + Len(x) - 1) : s[i] \in S
    BY <1>1, ElementOfSeq
  <2>2. y \in Seq(S) /\ Len(y) = Len(x) /\ \A j \in 1..Len(x) : y[j] = s[p + j - 1]
    BY <1>1, <2>1, SubSeqProperties
  <2> HIDE DEF y
  <2>3. y = x
    BY <2>2, SeqEqual
  <2> QED
    BY <2>3 DEF y
<1> QED
  BY <1>1, <1>3, <1>4

\* Cutting undoes joining: what the loop makes of the string from the place where
\* the k-th element begins is the list from its k-th element on.
LEMMA CutUndoesJoin ==
    ASSUME NEW S, NEW list \in Seq(Seq(S)),
           \A i \in 1..Len(list) : \A j \in 1..Len(list[i]) : list[i][j] # Colon,
           list # <<>> => list[Len(list)] # <<>>
    PROVE  Cut(Join(list)) = list
<1> DEFINE C == S \union {Colon}
           n == Len(list)
<1>1. n \in Nat /\ \A i \in 1..n : list[i] \in Seq(C) /\ Len(list[i]) \in Nat
  <2>1. n \in Nat /\ \A i \in 1..n : list[i] \in Seq(S)
    BY LenProperties, ElementOfSeq
  <2>2. \A i \in 1..n : list[i] \in Seq(C)
    BY <2>1, SeqMonotonic
  <2> QED
    BY <2>1, <2>2, LenProperties
<1>2. <<Colon>> \in Seq(C) /\ Len(<<Colon>>) = 1
  OBVIOUS
<1>3. PICK joined :
         /\ Join(list) = joined[1]
         /\ \A i \in 1..(n + 1) :
               /\ i > n => joined[i] = <<>>
               /\ i = n => joined[i] = list[i]
               /\ i < n => joined[i] = list[i] \o <<Colon>> \o joined[i + 1]
  BY JoinLoop
<1> HIDE DEF C
<1> DEFINE Typed(d) == joined[n - d] \in Seq(C)
           Untyped == {d \in 1..(n - 1) : ~Typed(d)}
<1>4. ASSUME NEW d \in 0..(n - 1)
      PROVE  Typed(d)
  <2>1. Typed(0)
    <3>1. n - 0 = n /\ n \in 1..n /\ n \in 1..(n + 1)
      BY <1>1
    <3>2. joined[n] = list[n]
      BY <1>3, <3>1
    <3> QED
      BY <1>1, <3>1, <3>2
  <2>2. ASSUME NEW e \in 0..(n - 2), Typed(e)
        PROVE  Typed(e + 1)
    <3>1. /\ n - (e + 1) \in 1..n /\ n - (e + 1) < n /\ n - (e + 1) + 1 = n - e
          /\ n - (e + 1) \in 1..(n + 1)
      BY <1>1, SMTT(30)
    <3>2. joined[n - (e + 1)] = list[n - (e + 1)] \o <<Colon>> \o joined[n - e]
      BY <1>3, <3>1
    <3> QED
      BY <1>1, <1>2, <2>2, <3>1, <3>2, ConcatProperties
  <2> HIDE DEF Typed
  <2>3. CASE Untyped = {}
    BY <1>1, <2>1, <2>3
  <2>4. CASE Untyped # {}
    <3>1. n - 1 \in Nat /\ Untyped \in SUBSET (1..(n - 1))
      BY <1>1
    <3>2. PICK e \in Untyped : \A k \in Untyped : e <= k
      <4> HIDE DEF Untyped
      <4> QED
        BY <2>4, <3>1, LeastElement
    <3>3. e - 1 \in 0..(n - 2) /\ e - 1 < e /\ e - 1 + 1 = e
      BY <1>1, <3>2
    <3>4. Typed(e - 1)
      <4>1. CASE e = 1
        BY <2>1, <4>1
      <4>2. CASE e # 1
        <5>1. e - 1 \in 1..(n - 1) /\ ~(e <= e - 1)
          BY <1>1, <3>2, <4>2
        <5>2. e - 1 \notin Untyped
          BY <3>2, <5>1
        <5> QED
          BY <5>1, <5>2
      <4> QED
        BY <4>1, <4>2
    <3> QED
      BY <2>2, <3>2, <3>3, <3>4
  <2> QED
    BY <2>3, <2>4
<1>5. CASE n = 0
  <2> DEFINE s == Join(list)
  <2>1. s = <<>> /\ list = <<>>
    BY <1>3, <1>5, EmptySeq
  <2>2. s \in Seq(S) /\ Len(s) \in Len(s)..(Len(s) + 1) /\ 1 \in (Len(s) + 1)..(Len(s) + 2)
    BY <2>1
  <2> HIDE DEF s
  <2>3. PICK rest :
           /\ CutUpTo(s, Colon, Len(s)) = rest[1]
           /\ \A i \in (Len(s) + 1)..(Len(s) + 2) : rest[i] = <<>>
           /\ \A i \in 1..Len(s) :
                rest[i] = <<SubSeq(s, i, ElementEnd(s, Colon, i) - 1)>>
                              \o rest[ElementEnd(s, Colon, i) + 1]
    BY <2>2, CutLoop
  <2> QED
    BY <2>1, <2>2, <2>3 DEF Cut, s
<1>6. CASE n > 0
  <2> DEFINE s == joined[1]
  <2>1. s \in Seq(C) /\ Len(s) \in Nat
    <3>1. n - 1 \in 0..(n - 1) /\ n - (n - 1) = 1
      BY <1>1, <1>6
    <3>2. Typed(n - 1)
      BY <1>4, <3>1
    <3> QED
      BY <3>1, <3>2, LenProperties
  <2>2. PICK rest :
           /\ Cut(s) = rest[1]
           /\ \A i \in (Len(s) + 1)..(Len(s) + 2) : rest[i] = <<>>
           /\ \A i \in 1..Len(s) :
                rest[i] = <<SubSeq(s, i, ElementEnd(s, Colon, i) - 1)>> \o rest[ElementEnd(s, Colon, i) + 1]
    <3>1. Len(s) \in Len(s)..(Len(s) + 1)
      BY <2>1
    <3> QED
      BY <2>1, <3>1, CutLoop, ZenonT(60) DEF Cut
  <2> HIDE DEF s
  <2> DEFINE Ends(r) == /\ Len(r) <= Len(s)
                        /\ \A j \in 1..Len(r) : s[Len(s) - Len(r) + j] = r[j]
             At(k) == Len(s) - Len(joined[k]) + 1
             Right(d) == Ends(joined[n - d]) => rest[At(n - d)] = SubSeq(list, n - d, n)
             Wrong == {d \in 1..(n - 1) : ~Right(d)}
  <2>3. Right(0)
    <3>0. n - 0 = n
      BY <1>1
    <3> HIDE DEF Ends, At, n
    <3> SUFFICES ASSUME Ends(joined[n]) PROVE rest[At(n)] = SubSeq(list, n, n)
      BY <3>0
    <3> USE DEF Ends, At, n
    <3> DEFINE p == At(n)
    <3>1. joined[n] = list[n] /\ list[n] \in Seq(C) /\ Len(list[n]) \in Nat /\ Len(list[n]) > 0
      <4>1. n \in 1..n /\ n \in 1..(n + 1)
        BY <1>1, <1>6
      <4>2. list[n] # <<>> /\ list[n] \in Seq(S)
        BY <1>6, <4>1, ElementOfSeq
      <4>3. joined[n] = list[n]
        BY <1>3, <4>1
      <4> QED
        BY <1>1, <4>1, <4>2, <4>3, EmptySeq
    <3>2. /\ p \in 1..Len(s) /\ p + Len(list[n]) = Len(s) + 1
          /\ \A j \in 1..Len(list[n]) : s[p + j - 1] = list[n][j] /\ list[n][j] # Colon
      <4>1. Len(joined[n]) \in Nat /\ Len(joined[n]) = Len(list[n]) /\ p = Len(s) - Len(joined[n]) + 1
        BY <3>1
      <4>2. Len(joined[n]) <= Len(s) /\ \A j \in 1..Len(joined[n]) : s[Len(s) - Len(joined[n]) + j] = list[n][j]
        BY <3>1
      <4> HIDE DEF p
      <4>3. ASSUME NEW j \in 1..Len(list[n])
            PROVE  s[p + j - 1] = list[n][j] /\ list[n][j] # Colon
        <5>1. p + j - 1 = Len(s) - Len(joined[n]) + j /\ j \in 1..Len(joined[n])
          BY <2>1, <4>1
        <5>2. n \in 1..n
          BY <1>1, <1>6
        <5> QED
          BY <4>2, <5>1, <5>2
      <4>4. p \in 1..Len(s) /\ p + Len(list[n]) = Len(s) + 1
        BY <2>1, <3>1, <4>1, <4>2
      <4> QED
        BY <4>3, <4>4
    <3> HIDE DEF p, Ends
    <3>3. ElementEnd(s, Colon, p) = Len(s) + 1 /\ SubSeq(s, p, ElementEnd(s, Colon, p) - 1) = list[n]
      <4>1. p + Len(list[n]) <= Len(s) + 1 /\ \/ p + Len(list[n]) = Len(s) + 1
                                                \/ s[p + Len(list[n])] = Colon
        BY <2>1, <3>2
      <4> HIDE DEF n
      <4>2. ElementEnd(s, Colon, p) = p + Len(list[n]) /\ SubSeq(s, p, ElementEnd(s, Colon, p) - 1) = list[n]
        BY <2>1, <3>1, <3>2, <4>1, ElementAt, ZenonT(60)
      <4> QED
        BY <3>2, <4>2
    <3>4. Len(s) + 1 + 1 \in (Len(s) + 1)..(Len(s) + 2)
      BY <2>1
    <3>5. rest[p] = <<list[n]>> \o <<>>
      BY <2>2, <3>2, <3>3, <3>4
    <3>6. <<list[n]>> \o <<>> = SubSeq(list, n, n)
      BY <1>1, <1>6, SubSeqRecursiveFirst, SubSeqEmpty
    <3> QED
      BY <3>5, <3>6 DEF p
  <2>4. ASSUME NEW d \in 0..(n - 2), Right(d)
        PROVE  Right(d + 1)
    <3> DEFINE k == n - (d + 1)
    <3>1. k \in 1..n /\ k \in 1..(n + 1) /\ k < n /\ k + 1 = n - d /\ k + 1 \in 1..n
      BY <1>1
    <3> SUFFICES ASSUME Ends(joined[k]) PROVE rest[At(k)] = SubSeq(list, k, n)
      OBVIOUS
    <3> DEFINE x == list[k]
               q == joined[k + 1]
               p == At(k)
    <3>2. /\ x \in Seq(C) /\ Len(x) \in Nat /\ q \in Seq(C) /\ Len(q) \in Nat
          /\ joined[k] = x \o <<Colon>> \o q
      <4>1. d \in 0..(n - 1)
        BY <1>1
      <4> QED
        BY <1>1, <1>3, <1>4, <3>1, <4>1, LenProperties
    <3> HIDE DEF k, x, q
    <3>3. /\ Len(joined[k]) = Len(x) + 1 + Len(q)
          /\ \A j \in 1..Len(x) : joined[k][j] = x[j]
          /\ joined[k][Len(x) + 1] = Colon
          /\ \A j \in 1..Len(q) : joined[k][Len(x) + 1 + j] = q[j]
      <4> DEFINE y == x \o <<Colon>>
      <4>1. /\ y \in Seq(C) /\ Len(y) = Len(x) + 1 /\ y[Len(x) + 1] = Colon
            /\ \A j \in 1..Len(x) : y[j] = x[j]
        BY <1>2, <3>2, ConcatProperties
      <4> HIDE DEF y
      <4>2. joined[k] = y \o q
        BY <3>2 DEF y
      <4> QED
        BY <3>2, <4>1, <4>2, ConcatProperties, SMTT(30)
    <3>4. /\ p \in 1..Len(s) /\ p + Len(x) <= Len(s) + 1
          /\ \A j \in 1..Len(x) : s[p + j - 1] = x[j]
          /\ s[p + Len(x)] = Colon
          /\ p + Len(x) + 1 = At(k + 1)
      <4>1. /\ Len(joined[k]) <= Len(s) /\ p = Len(s) - Len(joined[k]) + 1
            /\ \A j \in 1..Len(joined[k]) : s[Len(s) - Len(joined[k]) + j] = joined[k][j]
        OBVIOUS
      <4>2. At(k + 1) = Len(s) - Len(q) + 1
        BY DEF q
      <4> HIDE DEF p, At, Ends
      <4>3. p \in 1..Len(s) /\ p + Len(x) <= Len(s) + 1 /\ p + Len(x) + 1 = At(k + 1)
        BY <2>1, <3>2, <3>3, <4>1, <4>2
      <4>4. ASSUME NEW j \in 1..Len(joined[k])
            PROVE  s[p + j - 1] = joined[k][j]
        <5>1. p + j - 1 = Len(s) - Len(joined[k]) + j
          BY <2>1, <3>2, <3>3, <4>1
        <5> QED
          BY <4>1, <5>1
      <4>5. ASSUME NEW j \in 1..Len(x)
            PROVE  s[p + j - 1] = x[j]
        <5>1. j \in 1..Len(joined[k])
          BY <3>2, <3>3
        <5> QED
          BY <3>3, <4>4, <5>1
      <4>6. s[p + Len(x)] = Colon
        <5>1. Len(x) + 1 \in 1..Len(joined[k]) /\ p + (Len(x) + 1) - 1 = p + Len(x)
          BY <2>1, <3>2, <3>3, <4>3
        <5> QED
          BY <3>3, <4>4, <5>1
      <4> QED
        BY <4>3, <4>5, <4>6
    <3>5. Ends(q)
      <4>1. \A j \in 1..Len(q) : /\ Len(x) + 1 + j \in 1..Len(joined[k])
                                 /\ Len(s) - Len(q) + j = Len(s) - Len(joined[k]) + (Len(x) + 1 + j)
        BY <2>1, <3>2, <3>3
      <4>2. /\ Len(joined[k]) <= Len(s)
            /\ \A j \in 1..Len(joined[k]) : s[Len(s) - Len(joined[k]) + j] = joined[k][j]
        OBVIOUS
      <4>3. \A j \in 1..Len(q) : s[Len(s) - Len(q) + j] = q[j]
        BY <3>3, <4>1, <4>2
      <4>4. Len(q) <= Len(s)
        BY <2>1, <3>2, <3>3, <4>2
      <4> QED
        BY <4>3, <4>4
    <3>6. rest[At(k + 1)] = SubSeq(list, k + 1, n)
      BY <2>4, <3>1, <3>5 DEF q
    <3> HIDE DEF p, At, Ends
    <3>7. ElementEnd(s, Colon, p) = p + Len(x) /\ SubSeq(s, p, ElementEnd(s, Colon, p) - 1) = x
      <4>1. \A j \in 1..Len(x) : x[j] # Colon
        BY <3>1 DEF x
      <4> QED
        BY <2>1, <3>2, <3>4, <4>1, ElementAt
    <3>8. rest[p] = <<x>> \o SubSeq(list, k + 1, n)
      <4>1. ElementEnd(s, Colon, p) + 1 = At(k + 1)
        BY <3>4, <3>7
      <4>2. rest[p] = <<SubSeq(s, p, ElementEnd(s, Colon, p) - 1)>> \o rest[ElementEnd(s, Colon, p) + 1]
        BY <2>2, <3>4
      <4> QED
        BY <3>6, <3>7, <4>1, <4>2
    <3>9. <<x>> \o SubSeq(list, k + 1, n) = SubSeq(list, k, n)
      <4>1. k \in 1..Len(list) /\ n \in k..Len(list)
        BY <1>1, <3>1
      <4> QED
        BY <4>1, SubSeqRecursiveFirst DEF x
    <3> QED
      BY <3>8, <3>9 DEF p
  <2>5. Right(n - 1)
    <3> HIDE DEF Right
    <3>1. CASE Wrong = {}
      <4>1. n - 1 = 0 \/ n - 1 \in 1..(n - 1)
        BY <1>1, <1>6
      <4> QED
        BY <2>3, <3>1, <4>1
    <3>2. CASE Wrong # {}
      <4>1. n - 1 \in Nat /\ Wrong \in SUBSET (1..(n - 1))
        BY <1>1, <1>6
      <4>2. PICK e \in Wrong : \A j \in Wrong : e <= j
        <5> HIDE DEF Wrong
        <5> QED
          BY <3>2, <4>1, LeastElement
      <4>3. e - 1 \in 0..(n - 2) /\ e - 1 < e /\ e - 1 + 1 = e
        BY <1>1, <4>2
      <4>4. Right(e - 1)
        BY <2>3, <4>2, <4>3
      <4> QED
        BY <2>4, <4>2, <4>3, <4>4
    <3> QED
      BY <3>1, <3>2
  <2>6. n - (n - 1) = 1 /\ Ends(s) /\ At(1) = 1
    BY <1>1, <2>1 DEF s
  <2>7. rest[1] = SubSeq(list, 1, n)
    BY <2>5, <2>6 DEF s
  <2> QED
    BY <1>3, <2>2, <2>7, SubSeqFull DEF s
<1> QED
  BY <1>1, <1>5, <1>6

\* What icmpd makes of a setting is the list that was written, if no element of it
\* has a colon and the last is not empty: however many elements, of whatever length
\* (string_tree.c:117-139, util.c:29-66, subcmd_start.c:56-63).
THEOREM SplitUndoesJoin ==
    ASSUME NEW S, NEW list \in Seq(Seq(S)), list # <<>>, list[Len(list)] # <<>>,
           \A i \in 1..Len(list) : \A j \in 1..Len(list[i]) : list[i][j] # Colon
    PROVE  Split(Join(list)) = Items(list)
<1>1. Cut(Join(list)) = list
  BY CutUndoesJoin
<1> QED
  BY <1>1 DEF Split

-----------------------------------------------------------------------------
(* The configuration. *)

\* Induction over 0..n, for a set of numbers.
LEMMA Upward ==
    ASSUME NEW n \in Nat, NEW G, 0 \in G, \A k \in 0..(n - 1) : k \in G => k + 1 \in G
    PROVE  \A k \in 0..n : k \in G
<1> DEFINE Out == {k \in 1..n : k \notin G}
<1>1. CASE Out = {}
  <2>1. \A k \in 0..n : k = 0 \/ k \in 1..n
    OBVIOUS
  <2> QED
    BY <1>1, <2>1
<1>2. CASE Out # {}
  <2>1. PICK k \in Out : \A j \in Out : k <= j
    <3>1. Out \in SUBSET (1..n)
      OBVIOUS
    <3> HIDE DEF Out
    <3> QED
      BY <1>2, <3>1, LeastElement
  <2>2. k - 1 \in 0..(n - 1) /\ k - 1 + 1 = k /\ (k - 1 = 0 \/ k - 1 \in 1..n)
    OBVIOUS
  <2>3. k - 1 \in G
    BY <2>1, <2>2
  <2> QED
    BY <2>2, <2>3
<1> QED
  BY <1>1, <1>2

\* And from n down to 1.
LEMMA Downward ==
    ASSUME NEW n \in Nat \ {0}, NEW G, n \in G, \A k \in 1..(n - 1) : k + 1 \in G => k \in G
    PROVE  \A k \in 1..n : k \in G
<1> DEFINE H == {d \in 0..(n - 1) : n - d \in G}
<1>1. 0 \in H
  BY n - 0 = n
<1>2. ASSUME NEW d \in 0..(n - 1 - 1), d \in H
      PROVE  d + 1 \in H
  <2>1. n - (d + 1) \in 1..(n - 1) /\ n - (d + 1) + 1 = n - d /\ d + 1 \in 0..(n - 1)
    OBVIOUS
  <2> QED
    BY <1>2, <2>1
<1>3. \A d \in 0..(n - 1) : d \in H
  <2>1. n - 1 \in Nat
    OBVIOUS
  <2> HIDE DEF H
  <2> QED
    BY <1>1, <1>2, <2>1, Upward
<1>4. \A k \in 1..n : n - k \in 0..(n - 1) /\ n - (n - k) = k
  OBVIOUS
<1> QED
  BY <1>3, <1>4

\* The kinds of nodes, and where their contents are.
LEMMA NodeCases ==
    ASSUME NEW doc, IsDocument(doc), NEW i \in 1..Len(doc)
    PROVE  /\ Len(doc) \in Nat
           /\ doc[i].kind \in {"scalar", "sequence", "mapping"}
           /\ doc[i].kind = "scalar" =>
                 doc[i] = Scalar(doc[i].text) /\ doc[i].text \in Texts
           /\ doc[i].kind = "sequence" =>
                 /\ doc[i] = Sequence(doc[i].items) /\ doc[i].items \in Seq((i + 1)..Len(doc))
                 /\ Len(doc[i].items) \in Nat
                 /\ \A p \in 1..Len(doc[i].items) :
                       doc[i].items[p] \in (i + 1)..Len(doc) /\ doc[i].items[p] \in 1..Len(doc)
           /\ doc[i].kind = "mapping" =>
                 /\ doc[i] = Mapping(doc[i].pairs)
                 /\ doc[i].pairs \in Seq(((i + 1)..Len(doc)) \X ((i + 1)..Len(doc)))
                 /\ Len(doc[i].pairs) \in Nat
                 /\ \A p \in 1..Len(doc[i].pairs) : \A h \in 1..2 :
                       /\ doc[i].pairs[p][h] \in (i + 1)..Len(doc)
                       /\ doc[i].pairs[p][h] \in 1..Len(doc)
<1> DEFINE later == (i + 1)..Len(doc)
<1>1. Len(doc) \in Nat /\ \A j \in later : j \in 1..Len(doc)
  BY DEF IsDocument
<1>2. doc[i] \in [kind : {"scalar"}, text : Texts]
                   \union [kind : {"sequence"}, items : Seq(later)]
                   \union [kind : {"mapping"}, pairs : Seq(later \X later)]
  BY DEF IsDocument
<1> HIDE DEF later
<1>3. CASE doc[i] \in [kind : {"scalar"}, text : Texts]
  BY <1>1, <1>3 DEF Scalar
<1>4. CASE doc[i] \in [kind : {"sequence"}, items : Seq(later)]
  <2>1. /\ doc[i].kind = "sequence" /\ doc[i] = Sequence(doc[i].items)
        /\ doc[i].items \in Seq(later)
    BY <1>4 DEF Sequence
  <2>2. Len(doc[i].items) \in Nat /\ \A p \in 1..Len(doc[i].items) : doc[i].items[p] \in later
    BY <2>1, LenProperties, ElementOfSeq
  <2> QED
    BY <1>1, <2>1, <2>2 DEF later
<1>5. CASE doc[i] \in [kind : {"mapping"}, pairs : Seq(later \X later)]
  <2>1. /\ doc[i].kind = "mapping" /\ doc[i] = Mapping(doc[i].pairs)
        /\ doc[i].pairs \in Seq(later \X later)
    BY <1>5 DEF Mapping
  <2>2. /\ Len(doc[i].pairs) \in Nat
        /\ \A p \in 1..Len(doc[i].pairs) : doc[i].pairs[p] \in later \X later
    BY <2>1, LenProperties, ElementOfSeq
  <2>3. \A p \in 1..Len(doc[i].pairs) : \A h \in 1..2 : doc[i].pairs[p][h] \in later
    BY <2>2
  <2> QED
    BY <1>1, <2>1, <2>2, <2>3 DEF later
<1> QED
  BY <1>2, <1>3, <1>4, <1>5

\* No text is a missing string.
LEMMA TextIsNamed == ASSUME NEW s \in Texts PROVE s # NoString
<1>1. ASSUME s = <<"NULL">> PROVE FALSE
  <2>1. Len(s) = 1 /\ s[1] = "NULL"
    BY <1>1
  <2>2. s[1] \in Pieces
    BY <2>1, ElementOfSeq DEF Texts
  <2> QED
    BY <2>1, <2>2, ConfigurationAssumption
<1> QED
  BY <1>1 DEF NoString

-----------------------------------------------------------------------------
(* The tree that is built. *)

\* What every node leaves in the tree, as the walk computes it.
IsWalk(doc, walked) == walked = [i \in 1..Len(doc) |-> Contents(doc, walked, i)]

\* What a node contributes depends on what the nodes after it do.
LEMMA ContentsSame ==
    ASSUME NEW doc, IsDocument(doc), NEW i \in 1..Len(doc), NEW w, NEW v,
           \A j \in (i + 1)..Len(doc) : w[j] = v[j]
    PROVE  Contents(doc, w, i) = Contents(doc, v, i)
<1>1. ASSUME NEW j \in (i + 1)..Len(doc), NEW at
      PROVE  Hang(doc, w, j, at) = Hang(doc, v, j, at)
  <2>1. w[j] = v[j]
    OBVIOUS
  <2> QED
    BY <2>1 DEF Hang
<1>2. CASE doc[i].kind = "scalar"
  BY <1>2 DEF Contents
<1>3. CASE doc[i].kind = "sequence"
  <2>1. \A p \in 1..Len(doc[i].items) :
           Hang(doc, w, doc[i].items[p], Fresh) = Hang(doc, v, doc[i].items[p], Fresh)
    BY <1>1, <1>3, NodeCases
  <2>2. Contents(doc, w, i) = [p \in 1..Len(doc[i].items) |-> Hang(doc, w, doc[i].items[p], Fresh)]
    BY <1>3 DEF Contents
  <2>3. Contents(doc, v, i) = [p \in 1..Len(doc[i].items) |-> Hang(doc, v, doc[i].items[p], Fresh)]
    BY <1>3 DEF Contents
  <2> QED
    BY <2>1, <2>2, <2>3
<1>4. CASE doc[i].kind = "mapping"
  <2> DEFINE Key(x, p) == Hang(doc, x, doc[i].pairs[p][1], Fresh)
             Val(x, p) == Hang(doc, x, doc[i].pairs[p][2], Key(x, p))
  <2>1. \A p \in 1..Len(doc[i].pairs) :
           doc[i].pairs[p][1] \in (i + 1)..Len(doc) /\ doc[i].pairs[p][2] \in (i + 1)..Len(doc)
    <3>1. 1 \in 1..2 /\ 2 \in 1..2
      OBVIOUS
    <3> QED
      BY <1>4, <3>1, NodeCases
  <2>2. \A p \in 1..Len(doc[i].pairs) : Val(w, p) = Val(v, p)
    BY <1>1, <2>1, Zenon
  <2>3. Contents(doc, w, i) = [p \in 1..Len(doc[i].pairs) |-> Val(w, p)]
    BY <1>4 DEF Contents
  <2>4. Contents(doc, v, i) = [p \in 1..Len(doc[i].pairs) |-> Val(v, p)]
    BY <1>4 DEF Contents
  <2> HIDE DEF Val
  <2> QED
    BY <2>2, <2>3, <2>4
<1> QED
  BY <1>2, <1>3, <1>4, NodeCases

\* There is such a function, since what a node contains comes after it.
LEMMA WalkExists ==
    ASSUME NEW doc, IsDocument(doc)
    PROVE  \E walked : IsWalk(doc, walked)
<1> DEFINE n == Len(doc)
           Is(f, d) == f = [i \in (n - d + 1)..n |-> Contents(doc, f, i)]
           G == {d \in 0..n : \E f : Is(f, d)}
<1>1. n \in Nat
  BY DEF IsDocument
<1> HIDE DEF n
<1>2. 0 \in G
  <2> DEFINE f == [i \in {} |-> 0]
  <2>1. (n - 0 + 1)..n = {}
    BY <1>1
  <2>2. Is(f, 0)
    BY <2>1
  <2>3. 0 \in 0..n
    BY <1>1
  <2> HIDE DEF Is
  <2> QED
    BY <2>2, <2>3
<1>3. ASSUME NEW d \in 0..(n - 1), d \in G
      PROVE  d + 1 \in G
  <2>1. PICK f : Is(f, d)
    BY <1>3
  <2> DEFINE e == [i \in (n - (d + 1) + 1)..n |-> Contents(doc, f, i)]
  <2>2. ASSUME NEW i \in (n - (d + 1) + 1)..n
        PROVE  Contents(doc, f, i) = Contents(doc, e, i)
    <3>1. ASSUME NEW j \in (i + 1)..n
          PROVE  f[j] = e[j]
      <4>1. j \in (n - d + 1)..n /\ j \in (n - (d + 1) + 1)..n
        BY <1>1, <2>2, <3>1
      <4>2. f[j] = Contents(doc, f, j)
        BY <2>1, <4>1
      <4>3. e[j] = Contents(doc, f, j)
        BY <4>1
      <4> QED
        BY <4>2, <4>3
    <3>2. i \in 1..n
      BY <1>1, <2>2
    <3> HIDE DEF e
    <3> QED
      BY <3>1, <3>2, ContentsSame DEF n
  <2>3. Is(e, d + 1)
    <3>1. e = [i \in (n - (d + 1) + 1)..n |-> Contents(doc, e, i)]
      BY <2>2, Zenon
    <3> QED
      BY <3>1
  <2>4. d + 1 \in 0..n
    BY <1>1
  <2> HIDE DEF Is
  <2> QED
    BY <2>3, <2>4
<1>4. n \in G
  <2> HIDE DEF G
  <2>1. n \in 0..n
    BY <1>1
  <2> QED
    BY <1>1, <1>2, <1>3, <2>1, Upward
<1>5. n - n + 1 = 1
  BY <1>1
<1> QED
  BY <1>4, <1>5 DEF IsWalk, n

\* The equation of the walk.
LEMMA WalkLoop ==
    ASSUME NEW doc, IsDocument(doc)
    PROVE  \E walked : IsWalk(doc, walked) /\ WalkThrough(doc) = Hang(doc, walked, 1, Root)
<1> DEFINE walked[i \in 1..Len(doc)] == Contents(doc, walked, i)
           Is(f) == f = [i \in 1..Len(doc) |-> Contents(doc, f, i)]
<1>1. \E f : Is(f)
  BY WalkExists DEF IsWalk
<1>2. Is(walked)
  BY <1>1, Zenon
<1>3. WalkThrough(doc) = Hang(doc, walked, 1, Root)
  BY DEF WalkThrough
<1> HIDE DEF walked
<1> QED
  BY <1>2, <1>3 DEF IsWalk

\* The children that a node of the tree with a name gets from node i.
Kids(doc, walked, i) ==
    IF doc[i].kind = "scalar" THEN <<Node(doc[i].text, <<>>)>> ELSE walked[i]

\* A function on 1..n is a list.
LEMMA ListOf ==
    ASSUME NEW n \in Nat, NEW f, f = [p \in 1..n |-> f[p]]
    PROVE  Len(f) = n /\ (n = 0 => f = <<>>) /\ (n # 0 => f # <<>>)
<1> DEFINE S == {f[p] : p \in 1..n}
<1>1. \A p \in 1..n : f[p] \in S
  OBVIOUS
<1>2. DOMAIN f = 1..n
  OBVIOUS
<1> HIDE DEF S
<1>3. f \in [1..n -> S]
  BY <1>1
<1>4. f \in Seq(S)
  BY <1>3
<1>5. Len(f) = n
  BY <1>2, <1>4, LenProperties
<1> QED
  BY <1>4, <1>5, EmptySeq

\* A node with a name keeps it and gets children,
LEMMA HangNamed ==
    ASSUME NEW doc, IsDocument(doc), NEW w, IsWalk(doc, w), NEW i \in 1..Len(doc),
           NEW s, s # NoString
    PROVE  Hang(doc, w, i, Node(s, <<>>)) = Node(s, Kids(doc, w, i))
<1>1. Node(s, <<>>).string # NoString
  BY DEF Node
<1>2. CASE doc[i].kind = "sequence" /\ doc[i].items = <<>>
  <2>1. w[i] = [p \in 1..Len(doc[i].items) |-> Hang(doc, w, doc[i].items[p], Fresh)]
    BY <1>2 DEF IsWalk, Contents
  <2>2. Len(doc[i].items) = 0
    BY <1>2
  <2>3. w[i] = <<>>
    BY <2>1, <2>2
  <2> QED
    BY <1>2, <2>3 DEF Hang, Kids, Node
<1> QED
  BY <1>1, <1>2, NodeCases DEF Hang, Kids, Node

\* and one without gets the text of a scalar.
LEMMA HangScalar ==
    ASSUME NEW doc, NEW w, NEW i, doc[i].kind = "scalar"
    PROVE  Hang(doc, w, i, Fresh) = Node(doc[i].text, <<>>)
BY DEF Hang, Fresh, Node

\* A pair of a mapping is the child its key names, with the contents of its value.
LEMMA PairKids ==
    ASSUME NEW doc, IsDocument(doc), NEW w, IsWalk(doc, w), NEW i \in 1..Len(doc),
           doc[i].kind = "mapping", KeysAreTexts(doc, i)
    PROVE  /\ Kids(doc, w, i) = w[i]
           /\ Len(w[i]) = Len(doc[i].pairs) /\ Len(w[i]) \in Nat
           /\ \A p \in 1..Len(doc[i].pairs) :
                 /\ w[i][p] = Node(doc[doc[i].pairs[p][1]].text, Kids(doc, w, doc[i].pairs[p][2]))
                 /\ doc[i].pairs[p][1] \in 1..Len(doc) /\ doc[i].pairs[p][2] \in 1..Len(doc)
                 /\ doc[doc[i].pairs[p][1]].kind = "scalar"
                 /\ doc[doc[i].pairs[p][1]].text # NoString
<1> DEFINE Kid(p) == Hang(doc, w, doc[i].pairs[p][2], Hang(doc, w, doc[i].pairs[p][1], Fresh))
           n == Len(doc[i].pairs)
<1>1. w[i] = [p \in 1..n |-> Kid(p)]
  BY DEF IsWalk, Contents
<1>2. ASSUME NEW p \in 1..Len(doc[i].pairs)
      PROVE  /\ Kid(p) = Node(doc[doc[i].pairs[p][1]].text, Kids(doc, w, doc[i].pairs[p][2]))
             /\ doc[i].pairs[p][1] \in 1..Len(doc) /\ doc[i].pairs[p][2] \in 1..Len(doc)
             /\ doc[doc[i].pairs[p][1]].kind = "scalar"
             /\ doc[doc[i].pairs[p][1]].text # NoString
  <2> DEFINE key == doc[i].pairs[p][1]
             val == doc[i].pairs[p][2]
  <2>1. key \in 1..Len(doc) /\ val \in 1..Len(doc)
    <3>1. 1 \in 1..2 /\ 2 \in 1..2
      OBVIOUS
    <3> QED
      BY <3>1, NodeCases
  <2>2. doc[key].kind = "scalar"
    BY DEF KeysAreTexts
  <2> HIDE DEF key, val
  <2>3. doc[key].text # NoString
    BY <2>1, <2>2, NodeCases, TextIsNamed
  <2>4. Hang(doc, w, key, Fresh) = Node(doc[key].text, <<>>)
    BY <2>2, HangScalar
  <2>5. Hang(doc, w, val, Node(doc[key].text, <<>>)) = Node(doc[key].text, Kids(doc, w, val))
    BY <2>1, <2>3, HangNamed
  <2> QED
    BY <2>1, <2>2, <2>3, <2>4, <2>5 DEF key, val
<1> HIDE DEF Kid
<1>3. n \in Nat
  BY NodeCases
<1>4. Len(w[i]) = n /\ \A p \in 1..n : w[i][p] = Kid(p)
  <2> HIDE DEF n
  <2> QED
    BY <1>1, <1>3, ListOf
<1> QED
  BY <1>2, <1>3, <1>4 DEF Kids

\* A list is a leaf for each of its elements.
LeafForEach(doc, w, i) ==
    /\ Len(Elements(doc, i)) \in Nat
    /\ \A n \in 1..Len(Elements(doc, i)) :
          Elements(doc, i)[n] \in 1..Len(doc) /\ doc[Elements(doc, i)[n]].text \in Texts
    /\ Kids(doc, w, i) = [n \in 1..Len(Elements(doc, i)) |->
                             Node(doc[Elements(doc, i)[n]].text, <<>>)]

LEMMA ListKids ==
    ASSUME NEW doc, IsDocument(doc), NEW w, IsWalk(doc, w), NEW i \in 1..Len(doc),
           KeysAreTexts(doc, i), IsList(doc, i),
           doc[i].kind # "mapping" \/ Elements(doc, i) # <<>>
    PROVE  LeafForEach(doc, w, i)
<1>1. CASE doc[i].kind = "scalar"
  <2>1. Elements(doc, i) = <<i>>
    BY <1>1 DEF Elements
  <2>2. Kids(doc, w, i) = <<Node(doc[i].text, <<>>)>>
    BY <1>1 DEF Kids
  <2>3. Len(<<i>>) = 1 /\ \A n \in 1..1 : <<i>>[n] = i
    OBVIOUS
  <2>4. <<Node(doc[i].text, <<>>)>> = [n \in 1..1 |-> Node(doc[<<i>>[n]].text, <<>>)]
    BY <2>3
  <2>5. Len(Elements(doc, i)) = 1 /\ \A n \in 1..1 : Elements(doc, i)[n] = i
    BY <2>1, <2>3
  <2>6. doc[i].text \in Texts
    BY <1>1, NodeCases
  <2>7. [n \in 1..1 |-> Node(doc[<<i>>[n]].text, <<>>)]
          = [n \in 1..1 |-> Node(doc[Elements(doc, i)[n]].text, <<>>)]
    BY <2>1
  <2> QED
    BY <2>2, <2>4, <2>5, <2>6, <2>7 DEF LeafForEach
<1>2. CASE doc[i].kind = "sequence"
  <2>1. Elements(doc, i) = doc[i].items
    BY <1>2 DEF Elements
  <2>2. Kids(doc, w, i) = [p \in 1..Len(doc[i].items) |-> Hang(doc, w, doc[i].items[p], Fresh)]
    BY <1>2 DEF Kids, IsWalk, Contents
  <2>3. \A n \in 1..Len(doc[i].items) :
           doc[i].items[n] \in 1..Len(doc) /\ doc[doc[i].items[n]].kind = "scalar"
    BY <1>2, <2>1, NodeCases DEF IsList
  <2>4. \A n \in 1..Len(doc[i].items) :
           Hang(doc, w, doc[i].items[n], Fresh) = Node(doc[doc[i].items[n]].text, <<>>)
    BY <2>3, HangScalar
  <2>5. \A n \in 1..Len(doc[i].items) : doc[doc[i].items[n]].text \in Texts
    BY <2>3, NodeCases
  <2>6. Len(doc[i].items) \in Nat
    BY <1>2, NodeCases
  <2> QED
    BY <2>1, <2>2, <2>3, <2>4, <2>5, <2>6 DEF LeafForEach
<1>3. CASE doc[i].kind = "mapping"
  <2> DEFINE m == Len(doc[i].pairs)
             Key(p) == doc[i].pairs[p][1]
             Val(p) == doc[i].pairs[p][2]
  <2>1. m \in Nat /\ \A p \in 1..m : Key(p) \in 1..Len(doc) /\ Val(p) \in 1..Len(doc)
    <3>1. 1 \in 1..2 /\ 2 \in 1..2
      OBVIOUS
    <3> QED
      BY <1>3, <3>1, NodeCases
  <2>2. /\ Elements(doc, i) = [p \in 1..m |-> Key(p)]
        /\ \A p \in 1..m : doc[Val(p)] \in {Sequence(<<>>), Mapping(<<>>)}
    BY <1>3 DEF Elements
  <2>3. Len(Elements(doc, i)) = m
    BY <2>1, <2>2, ListOf
  <2>4. ASSUME NEW p \in 1..m
        PROVE  Kids(doc, w, Val(p)) = <<>>
    <3> DEFINE v == Val(p)
    <3> SUFFICES Kids(doc, w, v) = <<>>
      OBVIOUS
    <3>0. v \in 1..Len(doc) /\ doc[v] \in {Sequence(<<>>), Mapping(<<>>)}
      BY <2>1, <2>2
    <3> HIDE DEF v
    <3>1. CASE doc[v] = Sequence(<<>>)
      <4>1. doc[v].kind = "sequence" /\ Len(doc[v].items) = 0
        BY <3>1 DEF Sequence
      <4>2. w[v] = [n \in 1..Len(doc[v].items) |-> Hang(doc, w, doc[v].items[n], Fresh)]
        BY <3>0, <4>1 DEF IsWalk, Contents
      <4>3. w[v] = <<>>
        BY <4>1, <4>2
      <4> QED
        BY <4>1, <4>3 DEF Kids
    <3>2. CASE doc[v] = Mapping(<<>>)
      <4>1. doc[v].kind = "mapping" /\ Len(doc[v].pairs) = 0
        BY <3>2 DEF Mapping
      <4>2. w[v] = [n \in 1..Len(doc[v].pairs) |->
                       Hang(doc, w, doc[v].pairs[n][2], Hang(doc, w, doc[v].pairs[n][1], Fresh))]
        BY <3>0, <4>1 DEF IsWalk, Contents
      <4>3. w[v] = <<>>
        BY <4>1, <4>2
      <4> QED
        BY <4>1, <4>3 DEF Kids
    <3> QED
      BY <3>0, <3>1, <3>2
  <2>5. Kids(doc, w, i) = [p \in 1..m |-> Node(doc[Key(p)].text, Kids(doc, w, Val(p)))]
    <3> DEFINE Kid(p) == Hang(doc, w, Val(p), Hang(doc, w, Key(p), Fresh))
               Named(p) == Node(doc[Key(p)].text, Kids(doc, w, Val(p)))
    <3>1. Kids(doc, w, i) = [p \in 1..m |-> Kid(p)]
      BY <1>3 DEF Kids, IsWalk, Contents
    <3>2. \A p \in 1..m : Kids(doc, w, i)[p] = Named(p)
      BY <1>3, PairKids
    <3> HIDE DEF Kid, Named
    <3>3. Kids(doc, w, i) = [p \in 1..m |-> Named(p)]
      BY <3>1, <3>2
    <3> QED
      BY <3>3 DEF Named
  <2>6. \A p \in 1..m : doc[Key(p)].text \in Texts
    BY <1>3, <2>1, NodeCases DEF KeysAreTexts
  <2> HIDE DEF Key, Val, m
  <2>7. Kids(doc, w, i) = [p \in 1..m |-> Node(doc[Elements(doc, i)[p]].text, <<>>)]
    BY <2>2, <2>4, <2>5
  <2> QED
    BY <2>1, <2>2, <2>3, <2>6, <2>7 DEF LeafForEach
<1> QED
  BY <1>1, <1>2, <1>3, NodeCases

-----------------------------------------------------------------------------
(* Looking a path up. *)

\* The nodes at every depth, and what they answer, as the look-up computes it.
LevelIs(root, path, level) ==
    level = [k \in 1..Len(path) |->
                IF k = 1 THEN ChildrenOf(root) ELSE UNION {ChildrenOf(n) : n \in level[k - 1]}]

QueryIs(level, path, query) ==
    query = [k \in 1..Len(path) |->
                [node \in level[k] |-> QueryNode(node, path, k, query[k + 1])]]

\* Depths are computed from the root,
LEMMA LevelExists ==
    ASSUME NEW root, NEW path, Len(path) \in Nat \ {0}
    PROVE  \E level : LevelIs(root, path, level)
<1> DEFINE n == Len(path)
           Body(f, k) == IF k = 1 THEN ChildrenOf(root) ELSE UNION {ChildrenOf(x) : x \in f[k - 1]}
           Is(f, d) == f = [k \in 1..d |-> Body(f, k)]
           G == {d \in 0..n : \E f : Is(f, d)}
<1> HIDE DEF n
<1>1. 0 \in G
  <2> DEFINE f == [i \in {} |-> {}]
  <2>1. Is(f, 0)
    <3>1. 1..0 = {}
      OBVIOUS
    <3> QED
      BY <3>1
  <2>2. 0 \in 0..n
    BY DEF n
  <2> HIDE DEF Is
  <2> QED
    BY <2>1, <2>2
<1>2. ASSUME NEW d \in 0..(n - 1), d \in G
      PROVE  d + 1 \in G
  <2>1. PICK f : Is(f, d)
    BY <1>2
  <2> DEFINE e == [k \in 1..(d + 1) |-> Body(f, k)]
  <2>2. ASSUME NEW k \in 1..(d + 1)
        PROVE  Body(f, k) = Body(e, k)
    <3>1. CASE k = 1
      BY <3>1
    <3>2. CASE k # 1
      <4>1. k - 1 \in 1..d /\ k - 1 \in 1..(d + 1)
        BY <2>2, <3>2
      <4> HIDE DEF Body
      <4>2. f[k - 1] = Body(f, k - 1)
        BY <2>1, <4>1
      <4>3. e[k - 1] = Body(f, k - 1)
        BY <4>1
      <4> HIDE DEF e
      <4> QED
        BY <3>2, <4>2, <4>3 DEF Body
    <3> QED
      BY <3>1, <3>2
  <2> HIDE DEF Body
  <2>3. Is(e, d + 1)
    <3>1. e = [k \in 1..(d + 1) |-> Body(e, k)]
      BY <2>2, Zenon
    <3> QED
      BY <3>1
  <2>4. d + 1 \in 0..n
    BY DEF n
  <2> HIDE DEF Is
  <2> QED
    BY <2>3, <2>4
<1>3. n \in G
  <2> HIDE DEF G
  <2>1. n \in Nat /\ n \in 0..n
    BY DEF n
  <2> QED
    BY <1>1, <1>2, <2>1, Upward
<1> QED
  BY <1>3 DEF LevelIs, n

\* and answers from the end of the path.
LEMMA QueryExists ==
    ASSUME NEW level, NEW path, Len(path) \in Nat \ {0}
    PROVE  \E query : QueryIs(level, path, query)
<1> DEFINE n == Len(path)
           Row(x, k) == [node \in level[k] |-> QueryNode(node, path, k, x)]
           Is(f, d) == f = [k \in (n - d + 1)..n |-> Row(f[k + 1], k)]
           G == {d \in 0..n : \E f : Is(f, d)}
<1>1. ASSUME NEW x, NEW y
      PROVE  Row(x, Len(path)) = Row(y, Len(path))
  BY DEF QueryNode
<1> HIDE DEF n
<1>2. 0 \in G
  <2> DEFINE f == [i \in {} |-> {}]
  <2>1. Is(f, 0)
    <3>1. (n - 0 + 1)..n = {}
      BY DEF n
    <3> QED
      BY <3>1
  <2>2. 0 \in 0..n
    BY DEF n
  <2> HIDE DEF Is
  <2> QED
    BY <2>1, <2>2
<1>3. ASSUME NEW d \in 0..(n - 1), d \in G
      PROVE  d + 1 \in G
  <2>1. PICK f : Is(f, d)
    BY <1>3
  <2> DEFINE e == [k \in (n - (d + 1) + 1)..n |-> Row(f[k + 1], k)]
  <2> HIDE DEF Row
  <2>2. ASSUME NEW k \in (n - (d + 1) + 1)..n
        PROVE  Row(f[k + 1], k) = Row(e[k + 1], k)
    <3>1. CASE k = n
      BY <1>1, <3>1 DEF n
    <3>2. CASE k # n
      <4>1. k + 1 \in (n - d + 1)..n /\ k + 1 \in (n - (d + 1) + 1)..n
        BY <3>2 DEF n
      <4>2. f[k + 1] = Row(f[k + 1 + 1], k + 1)
        BY <2>1, <4>1
      <4>3. e[k + 1] = Row(f[k + 1 + 1], k + 1)
        BY <4>1
      <4> HIDE DEF e
      <4> QED
        BY <4>2, <4>3
    <3> QED
      BY <3>1, <3>2
  <2>3. Is(e, d + 1)
    <3>1. e = [k \in (n - (d + 1) + 1)..n |-> Row(e[k + 1], k)]
      BY <2>2, Zenon
    <3> QED
      BY <3>1
  <2>4. d + 1 \in 0..n
    BY DEF n
  <2> HIDE DEF Is
  <2> QED
    BY <2>3, <2>4
<1>4. n \in G
  <2> HIDE DEF G
  <2>1. n \in Nat /\ n \in 0..n
    BY DEF n
  <2> QED
    BY <1>2, <1>3, <2>1, Upward
<1>5. n - n + 1 = 1
  BY DEF n
<1> QED
  BY <1>4, <1>5 DEF QueryIs, n

\* The look-up, level by level.
Searches(root, path, level, query) ==
    /\ Query(root, path) = QueryChildren(root, query[1], FALSE).answer
    /\ level[1] = ChildrenOf(root)
    /\ \A k \in 1..(Len(path) - 1) : level[k + 1] = UNION {ChildrenOf(n) : n \in level[k]}
    /\ \A k \in 1..Len(path) : \A node \in level[k] :
          query[k][node] = QueryNode(node, path, k, query[k + 1])

LEMMA QueryLoop ==
    ASSUME NEW root, NEW path, Len(path) \in Nat \ {0}
    PROVE  \E level, query : Searches(root, path, level, query)
<1> DEFINE level[k \in 1..Len(path)] ==
             IF k = 1 THEN ChildrenOf(root) ELSE UNION {ChildrenOf(n) : n \in level[k - 1]}
           query[k \in 1..Len(path)] ==
             [node \in level[k] |-> QueryNode(node, path, k, query[k + 1])]
           LevelOf(f) ==
             f = [k \in 1..Len(path) |->
                    IF k = 1 THEN ChildrenOf(root) ELSE UNION {ChildrenOf(n) : n \in f[k - 1]}]
           QueryOf(f, g) ==
             g = [k \in 1..Len(path) |-> [node \in f[k] |-> QueryNode(node, path, k, g[k + 1])]]
<1>1. LevelOf(level)
  <2>1. \A f : LevelIs(root, path, f) <=> LevelOf(f)
    BY DEF LevelIs
  <2>2. \E f : LevelIs(root, path, f)
    BY LevelExists
  <2>3. \E f : LevelOf(f)
    <3> HIDE DEF LevelOf
    <3> QED
      BY <2>1, <2>2
  <2> QED
    BY <2>3, Zenon
<1>2. Query(root, path) = QueryChildren(root, query[1], FALSE).answer
  BY DEF Query
<1>3. QueryOf(level, query)
  <2> HIDE DEF level
  <2>1. \A g : QueryIs(level, path, g) <=> QueryOf(level, g)
    BY DEF QueryIs
  <2>2. \E g : QueryIs(level, path, g)
    BY QueryExists
  <2>3. \E g : QueryOf(level, g)
    <3> HIDE DEF QueryOf
    <3> QED
      BY <2>1, <2>2
  <2> QED
    BY <2>3, Zenon
<1> HIDE DEF level, query
<1>4. /\ level[1] = ChildrenOf(root)
      /\ \A k \in 1..(Len(path) - 1) : level[k + 1] = UNION {ChildrenOf(n) : n \in level[k]}
  <2> DEFINE Below(x) == UNION {ChildrenOf(n) : n \in x}
  <2>1. \A k \in 1..Len(path) :
           level[k] = IF k = 1 THEN ChildrenOf(root) ELSE Below(level[k - 1])
    BY <1>1, Zenon
  <2>2. 1 \in 1..Len(path)
    OBVIOUS
  <2> HIDE DEF Below
  <2>3. ASSUME NEW k \in 1..(Len(path) - 1)
        PROVE  level[k + 1] = Below(level[k])
    <3>1. k + 1 \in 1..Len(path) /\ k + 1 # 1 /\ k + 1 - 1 = k
      OBVIOUS
    <3> QED
      BY <2>1, <3>1
  <2> QED
    BY <2>1, <2>2, <2>3 DEF Below
<1>5. \A k \in 1..Len(path) : \A node \in level[k] :
         query[k][node] = QueryNode(node, path, k, query[k + 1])
  <2>1. \A k \in 1..Len(path) :
           query[k] = [node \in level[k] |-> QueryNode(node, path, k, query[k + 1])]
    BY <1>3, Zenon
  <2> QED
    BY <2>1, Zenon
<1>6. Searches(root, path, level, query)
  BY <1>2, <1>4, <1>5 DEF Searches
<1> QED
  BY <1>6

\* The children of a node are searched as one of them says, or in vain.
LEMMA SearchedChildren ==
    ASSUME NEW node, Len(node.child) \in Nat, NEW deeper, NEW stop
    PROVE  \/ QueryChildren(node, deeper, stop).answer = Null
           \/ \E i \in 1..Len(node.child) :
                 QueryChildren(node, deeper, stop) = deeper[node.child[i]]
<1> DEFINE Ends(i) == deeper[node.child[i]].answer # Null \/ deeper[node.child[i]].stop
           ends == {i \in 1..Len(node.child) : Ends(i)}
<1>1. CASE ends = {}
  BY <1>1, Zenon DEF QueryChildren, Answer
<1>2. CASE ends # {}
  <2> DEFINE first == CHOOSE i \in ends : \A j \in ends : i <= j
  <2>1. QueryChildren(node, deeper, stop) = deeper[node.child[first]]
    BY <1>2, Zenon DEF QueryChildren
  <2>2. first \in ends
    <3>1. ends \in SUBSET (1..Len(node.child))
      OBVIOUS
    <3> HIDE DEF ends
    <3>2. \E i \in ends : \A j \in ends : i <= j
      BY <1>2, <3>1, LeastElement
    <3> QED
      BY <3>2, Zenon
  <2>3. \A i \in ends : i \in 1..Len(node.child)
    OBVIOUS
  <2> HIDE DEF ends, first
  <2> QED
    BY <2>1, <2>2, <2>3
<1> QED
  BY <1>1, <1>2, Zenon

-----------------------------------------------------------------------------
(* What can stand in the tree, and what can be answered. *)

\* The lists of children that a document leaves in its tree.
Lists(doc, walked) ==
    {<<>>} \union {walked[j] : j \in 1..Len(doc)}
           \union {<<Node(doc[j].text, <<>>)>> : j \in {j \in 1..Len(doc) : doc[j].kind = "scalar"}}

InTree(doc, walked, node) ==
    \E list \in Lists(doc, walked) : \E p \in 1..Len(list) : node = list[p]

\* Hanging a node of the document leaves one of these lists,
LEMMA HangInTree ==
    ASSUME NEW doc, IsDocument(doc), NEW w, NEW i \in 1..Len(doc),
           NEW at, at.child \in Lists(doc, w)
    PROVE  Hang(doc, w, i, at).child \in Lists(doc, w)
<1>1. CASE doc[i].kind = "scalar" /\ at.string = NoString
  BY <1>1 DEF Hang, Node
<1>2. CASE doc[i].kind = "scalar" /\ at.string # NoString
  <2>1. <<Node(doc[i].text, <<>>)>> \in Lists(doc, w)
    BY <1>2 DEF Lists
  <2>2. Hang(doc, w, i, at) = Node(at.string, <<Node(doc[i].text, <<>>)>>)
    BY <1>2 DEF Hang
  <2> QED
    BY <2>1, <2>2 DEF Node
<1>3. CASE doc[i].kind \in {"sequence", "mapping"}
  <2>1. w[i] \in Lists(doc, w)
    BY DEF Lists
  <2> QED
    BY <1>3, <2>1 DEF Hang, Node
<1> QED
  BY <1>1, <1>2, <1>3, NodeCases

\* and what the nodes of such a list have as children is another one.
LEMMA ListsOfTree ==
    ASSUME NEW doc, IsDocument(doc), NEW w, IsWalk(doc, w), NEW list \in Lists(doc, w)
    PROVE  Len(list) \in Nat /\ \A p \in 1..Len(list) : list[p].child \in Lists(doc, w)
<1>0. <<>> \in Lists(doc, w)
  BY DEF Lists
<1>1. CASE list = <<>>
  BY <1>1
<1>2. ASSUME NEW j \in 1..Len(doc), list = <<Node(doc[j].text, <<>>)>>
      PROVE  Len(list) \in Nat /\ \A p \in 1..Len(list) : list[p].child \in Lists(doc, w)
  <2>1. Len(list) = 1 /\ list[1] = Node(doc[j].text, <<>>)
    BY <1>2
  <2> QED
    BY <1>0, <2>1 DEF Node
<1>3. ASSUME NEW j \in 1..Len(doc), list = w[j]
      PROVE  Len(list) \in Nat /\ \A p \in 1..Len(list) : list[p].child \in Lists(doc, w)
  <2>0. Fresh.child \in Lists(doc, w)
    BY <1>0 DEF Fresh, Node
  <2>1. list = Contents(doc, w, j)
    BY <1>3 DEF IsWalk
  <2>2. CASE doc[j].kind = "scalar"
    <3>1. list = <<>>
      BY <2>1, <2>2 DEF Contents
    <3> QED
      BY <3>1
  <2>3. CASE doc[j].kind = "sequence"
    <3> DEFINE n == Len(doc[j].items)
               Kid(p) == Hang(doc, w, doc[j].items[p], Fresh)
    <3>1. n \in Nat /\ list = [p \in 1..n |-> Kid(p)]
      BY <2>1, <2>3, NodeCases DEF Contents
    <3>2. \A p \in 1..n : Kid(p).child \in Lists(doc, w)
      BY <2>0, <2>3, NodeCases, HangInTree
    <3> HIDE DEF n, Kid
    <3>3. Len(list) = n
      BY <3>1, ListOf
    <3> QED
      BY <3>1, <3>2, <3>3
  <2>4. CASE doc[j].kind = "mapping"
    <3> DEFINE n == Len(doc[j].pairs)
               Key(p) == Hang(doc, w, doc[j].pairs[p][1], Fresh)
               Kid(p) == Hang(doc, w, doc[j].pairs[p][2], Key(p))
    <3>1. n \in Nat /\ list = [p \in 1..n |-> Kid(p)]
      BY <2>1, <2>4, NodeCases DEF Contents
    <3>2. ASSUME NEW p \in 1..n
          PROVE  Kid(p).child \in Lists(doc, w)
      <4>1. doc[j].pairs[p][1] \in 1..Len(doc) /\ doc[j].pairs[p][2] \in 1..Len(doc)
        <5>1. 1 \in 1..2 /\ 2 \in 1..2
          OBVIOUS
        <5> QED
          BY <2>4, <5>1, NodeCases
      <4>2. Key(p).child \in Lists(doc, w)
        BY <2>0, <4>1, HangInTree
      <4> HIDE DEF Key
      <4> QED
        BY <4>1, <4>2, HangInTree
    <3> HIDE DEF n, Kid
    <3>3. Len(list) = n
      BY <3>1, ListOf
    <3> QED
      BY <3>1, <3>2, <3>3
  <2> QED
    BY <2>2, <2>3, <2>4, NodeCases
<1> QED
  BY <1>1, <1>2, <1>3 DEF Lists

\* Every node that a look-up comes to is one of them.
LEMMA LevelsInTree ==
    ASSUME NEW doc, IsDocument(doc), NEW w, IsWalk(doc, w),
           NEW root, root.child \in Lists(doc, w),
           NEW path, Len(path) \in Nat \ {0}, NEW level, NEW query,
           Searches(root, path, level, query)
    PROVE  \A k \in 1..Len(path) : \A node \in level[k] :
              InTree(doc, w, node) /\ node.child \in Lists(doc, w) /\ Len(node.child) \in Nat
<1> DEFINE In(node) == InTree(doc, w, node) /\ node.child \in Lists(doc, w) /\ Len(node.child) \in Nat
           G == {k \in 0..(Len(path) - 1) : \A node \in level[k + 1] : In(node)}
<1>1. ASSUME NEW list \in Lists(doc, w), NEW p \in 1..Len(list)
      PROVE  In(list[p])
  <2>1. list[p].child \in Lists(doc, w)
    BY ListsOfTree
  <2> QED
    BY <2>1, ListsOfTree DEF InTree
<1> HIDE DEF In
<1>2. 0 \in G
  <2>1. level[0 + 1] = {root.child[i] : i \in 1..Len(root.child)}
    BY DEF Searches, ChildrenOf
  <2> QED
    BY <1>1, <2>1
<1>3. ASSUME NEW k \in 0..(Len(path) - 1 - 1), k \in G
      PROVE  k + 1 \in G
  <2>1. level[k + 1 + 1] = UNION {ChildrenOf(n) : n \in level[k + 1]}
    <3>1. k + 1 \in 1..(Len(path) - 1)
      OBVIOUS
    <3> QED
      BY <3>1 DEF Searches
  <2>2. ASSUME NEW node \in level[k + 1 + 1]
        PROVE  In(node)
    <3>1. PICK n \in level[k + 1] : node \in ChildrenOf(n)
      BY <2>1
    <3>2. PICK i \in 1..Len(n.child) : node = n.child[i]
      BY <3>1 DEF ChildrenOf
    <3>3. n.child \in Lists(doc, w)
      BY <1>3 DEF In
    <3> QED
      BY <1>1, <3>2, <3>3
  <2> QED
    BY <2>2
<1>4. \A k \in 0..(Len(path) - 1) : k \in G
  <2> HIDE DEF G
  <2>1. Len(path) - 1 \in Nat
    OBVIOUS
  <2> QED
    BY <1>2, <1>3, <2>1, Upward
<1>5. \A k \in 1..Len(path) : k - 1 \in 0..(Len(path) - 1) /\ k - 1 + 1 = k
  OBVIOUS
<1> QED
  BY <1>4, <1>5 DEF In

\* An answer is NULL, or that of a node whose string is missing, or of one that
\* the path ends at.
LEMMA AnswersIn ==
    ASSUME NEW root, Len(root.child) \in Nat, NEW path, Len(path) \in Nat \ {0},
           NEW level, NEW query, Searches(root, path, level, query),
           \A k \in 1..Len(path) : \A node \in level[k] : Len(node.child) \in Nat,
           NEW Kinds, "null" \in Kinds,
           \A k \in 1..Len(path) : \A node \in level[k] :
              /\ node.string = NoString => "crash" \in Kinds
              /\ Leaves(node).kind \in Kinds
    PROVE  Query(root, path).kind \in Kinds
<1> DEFINE Good(k) == \A node \in level[k] : query[k][node].answer.kind \in Kinds
           G == {k \in 1..Len(path) : Good(k)}
<1>1. Null.kind \in Kinds /\ Answer(Null, FALSE).answer = Null
  BY DEF Null, Answer
<1>2. \A k \in 1..Len(path) : \A node \in level[k] :
         query[k][node] = QueryNode(node, path, k, query[k + 1])
  BY DEF Searches
<1>3. ASSUME NEW k \in 1..Len(path), NEW node \in level[k],
             k # Len(path) => QueryChildren(node, query[k + 1], TRUE).answer.kind \in Kinds
      PROVE  query[k][node].answer.kind \in Kinds
  <2>1. node.string = NoString => "crash" \in Kinds
    OBVIOUS
  <2>2. Leaves(node).kind \in Kinds
    OBVIOUS
  <2>3. Crash.kind = "crash"
    BY DEF Crash
  <2>4. QueryNode(node, path, k, query[k + 1]).answer.kind \in Kinds
    BY <1>1, <1>3, <2>1, <2>2, <2>3 DEF QueryNode, Answer
  <2> QED
    BY <1>2, <2>4
<1>4. Len(path) \in G
  <2>1. Len(path) \in 1..Len(path)
    OBVIOUS
  <2>2. Good(Len(path))
    BY <1>3, <2>1
  <2> QED
    BY <2>1, <2>2
<1>5. ASSUME NEW k \in 1..(Len(path) - 1), k + 1 \in G
      PROVE  k \in G
  <2>1. k \in 1..Len(path) /\ k # Len(path)
    OBVIOUS
  <2>2. ASSUME NEW node \in level[k]
        PROVE  QueryChildren(node, query[k + 1], TRUE).answer.kind \in Kinds
    <3>1. \A i \in 1..Len(node.child) : node.child[i] \in level[k + 1]
      <4>1. level[k + 1] = UNION {ChildrenOf(n) : n \in level[k]}
        BY DEF Searches
      <4>2. ChildrenOf(node) \subseteq level[k + 1]
        BY <4>1
      <4> QED
        BY <4>2 DEF ChildrenOf
    <3>2. Len(node.child) \in Nat
      BY <2>1
    <3>3. \/ QueryChildren(node, query[k + 1], TRUE).answer = Null
          \/ \E i \in 1..Len(node.child) :
                QueryChildren(node, query[k + 1], TRUE) = query[k + 1][node.child[i]]
      BY <3>2, SearchedChildren
    <3> QED
      BY <1>1, <1>5, <3>1, <3>3
  <2>3. \A node \in level[k] : query[k][node].answer.kind \in Kinds
    BY <1>3, <2>1, <2>2
  <2> QED
    BY <2>1, <2>3
<1>6. 1 \in G
  <2> HIDE DEF G
  <2>1. 1 \in 1..Len(path)
    OBVIOUS
  <2> QED
    BY <1>4, <1>5, <2>1, Downward
<1>7. \A i \in 1..Len(root.child) : root.child[i] \in level[1]
  BY DEF Searches, ChildrenOf
<1>8. \/ QueryChildren(root, query[1], FALSE).answer = Null
      \/ \E i \in 1..Len(root.child) :
            QueryChildren(root, query[1], FALSE) = query[1][root.child[i]]
  BY SearchedChildren
<1>9. Query(root, path) = QueryChildren(root, query[1], FALSE).answer
  BY DEF Searches
<1> QED
  BY <1>1, <1>6, <1>7, <1>8, <1>9

\* Leaves are found or not, or one of them has no string.
LEMMA LeavesKinds ==
    ASSUME NEW node
    PROVE  /\ Leaves(node).kind \in {"found", "null", "crash"}
           /\ (\A i \in 1..Len(node.child) : node.child[i].string # NoString)
                 => Leaves(node).kind \in {"found", "null"}
<1> DEFINE inner == {i \in 1..Len(node.child) : node.child[i].child # <<>>}
           bare  == {i \in 1..Len(node.child) : node.child[i].string = NoString}
           texts == [i \in 1..Len(node.child) |-> node.child[i].string]
<1>1. Leaves(node) = IF node.child = <<>> THEN Null
                     ELSE IF \E i \in inner : \A j \in bare : i <= j THEN Null
                     ELSE IF bare # {} THEN Crash
                     ELSE Found(Join(texts))
  BY DEF Leaves
<1>2. (\A i \in 1..Len(node.child) : node.child[i].string # NoString) => bare = {}
  OBVIOUS
<1>3. Null.kind = "null" /\ Crash.kind = "crash" /\ Found(Join(texts)).kind = "found"
  BY DEF Null, Crash, Found
<1> HIDE DEF inner, bare, texts
<1> QED
  BY <1>1, <1>2, <1>3

\* Answers to a query of any path, in the tree of any document.
LEMMA QueryKinds ==
    ASSUME NEW doc, IsDocument(doc), NEW path, Len(path) \in Nat \ {0}
    PROVE  Query(WalkThrough(doc), path).kind \in {"found", "null", "crash"}
<1>1. PICK w : IsWalk(doc, w) /\ WalkThrough(doc) = Hang(doc, w, 1, Root)
  BY WalkLoop
<1> DEFINE root == Hang(doc, w, 1, Root)
<1>2. root.child \in Lists(doc, w)
  <2>1. 1 \in 1..Len(doc)
    BY DEF IsDocument
  <2>2. Root.child \in Lists(doc, w)
    BY DEF Root, Node, Lists
  <2> QED
    BY <2>1, <2>2, HangInTree
<1> HIDE DEF root
<1>3. PICK level, query : Searches(root, path, level, query)
  BY QueryLoop
<1>4. \A k \in 1..Len(path) : \A node \in level[k] : Len(node.child) \in Nat
  BY <1>1, <1>2, <1>3, LevelsInTree
<1>5. Len(root.child) \in Nat
  BY <1>1, <1>2, ListsOfTree
<1>6. \A node : Leaves(node).kind \in {"found", "null", "crash"}
  BY LeavesKinds
<1> DEFINE Kinds == {"found", "null", "crash"}
<1>7. "null" \in Kinds /\ "crash" \in Kinds /\ \A node : Leaves(node).kind \in Kinds
  BY <1>6
<1> HIDE DEF Kinds
<1>8. Query(root, path).kind \in Kinds
  BY <1>3, <1>4, <1>5, <1>7, AnswersIn
<1> QED
  BY <1>1, <1>8 DEF root, Kinds

\* Where every key and every item is a scalar, every node has a name.
LEMMA NodesHaveNames ==
    ASSUME NEW doc, IsDocument(doc), NEW w, IsWalk(doc, w),
           \A i \in 1..Len(doc) :
              KeysAreTexts(doc, i) /\ (doc[i].kind = "sequence" => IsList(doc, i)),
           NEW node, InTree(doc, w, node)
    PROVE  node.string # NoString
<1>1. PICK list \in Lists(doc, w) : \E p \in 1..Len(list) : node = list[p]
  BY DEF InTree
<1>2. PICK p \in 1..Len(list) : node = list[p]
  BY <1>1
<1>3. CASE list = <<>>
  <2>1. Len(list) = 0
    BY <1>3
  <2> QED
    BY <1>2, <2>1
<1>4. ASSUME NEW j \in 1..Len(doc), doc[j].kind = "scalar", list = <<Node(doc[j].text, <<>>)>>
      PROVE  node.string # NoString
  <2>1. Len(list) = 1 /\ list[1] = Node(doc[j].text, <<>>)
    BY <1>4
  <2>2. node = Node(doc[j].text, <<>>)
    BY <1>2, <2>1
  <2>3. doc[j].text # NoString
    BY <1>4, NodeCases, TextIsNamed
  <2> QED
    BY <2>2, <2>3 DEF Node
<1>5. ASSUME NEW j \in 1..Len(doc), list = w[j]
      PROVE  node.string # NoString
  <2>1. CASE doc[j].kind = "scalar"
    <3>1. list = <<>>
      BY <1>5, <2>1 DEF IsWalk, Contents
    <3> QED
      BY <1>3, <3>1
  <2>2. CASE doc[j].kind = "sequence"
    <3> DEFINE n == Len(Elements(doc, j))
    <3>1. /\ n \in Nat
          /\ \A m \in 1..n : doc[Elements(doc, j)[m]].text \in Texts
          /\ Kids(doc, w, j) = [m \in 1..n |-> Node(doc[Elements(doc, j)[m]].text, <<>>)]
      BY <2>2, ListKids DEF LeafForEach
    <3>2. list = Kids(doc, w, j)
      BY <1>5, <2>2 DEF Kids
    <3> DEFINE text(m) == doc[Elements(doc, j)[m]].text
    <3>3. \A m \in 1..n : text(m) # NoString
      BY <3>1, TextIsNamed
    <3>4. list = [m \in 1..n |-> Node(text(m), <<>>)]
      BY <3>1, <3>2
    <3> HIDE DEF n, text
    <3>5. Len(list) = n
      BY <3>1, <3>4, ListOf
    <3>6. node = Node(text(p), <<>>) /\ p \in 1..n
      BY <1>2, <3>4, <3>5
    <3> QED
      BY <3>3, <3>6 DEF Node
  <2>3. CASE doc[j].kind = "mapping"
    <3>1. KeysAreTexts(doc, j)
      OBVIOUS
    <3>2. p \in 1..Len(doc[j].pairs)
      BY <1>2, <1>5, <2>3, <3>1, PairKids
    <3>3. /\ w[j][p] = Node(doc[doc[j].pairs[p][1]].text, Kids(doc, w, doc[j].pairs[p][2]))
          /\ doc[doc[j].pairs[p][1]].text # NoString
      BY <2>3, <3>1, <3>2, PairKids
    <3> QED
      BY <1>2, <1>5, <3>3 DEF Node
  <2> QED
    BY <2>1, <2>2, <2>3, NodeCases
<1> QED
  BY <1>1, <1>3, <1>4, <1>5 DEF Lists

\* In such a document no look-up comes to a node without one.
LEMMA QueryDoesNotCrash ==
    ASSUME NEW doc, IsDocument(doc), NEW path, Len(path) \in Nat \ {0},
           \A i \in 1..Len(doc) :
              KeysAreTexts(doc, i) /\ (doc[i].kind = "sequence" => IsList(doc, i))
    PROVE  Query(WalkThrough(doc), path).kind \in {"found", "null"}
<1>1. PICK w : IsWalk(doc, w) /\ WalkThrough(doc) = Hang(doc, w, 1, Root)
  BY WalkLoop
<1> DEFINE root == Hang(doc, w, 1, Root)
<1>2. root.child \in Lists(doc, w)
  <2>1. 1 \in 1..Len(doc)
    BY DEF IsDocument
  <2>2. Root.child \in Lists(doc, w)
    BY DEF Root, Node, Lists
  <2> QED
    BY <2>1, <2>2, HangInTree
<1> HIDE DEF root
<1>3. PICK level, query : Searches(root, path, level, query)
  BY QueryLoop
<1>4. \A k \in 1..Len(path) : \A node \in level[k] :
         InTree(doc, w, node) /\ node.child \in Lists(doc, w) /\ Len(node.child) \in Nat
  BY <1>1, <1>2, <1>3, LevelsInTree
<1>5. Len(root.child) \in Nat
  BY <1>1, <1>2, ListsOfTree
<1> DEFINE Kinds == {"found", "null"}
<1>6. ASSUME NEW k \in 1..Len(path), NEW node \in level[k]
      PROVE  node.string # NoString /\ Leaves(node).kind \in Kinds
  <2>1. node.string # NoString
    BY <1>1, <1>4, NodesHaveNames
  <2>2. \A i \in 1..Len(node.child) : node.child[i].string # NoString
    <3>1. \A i \in 1..Len(node.child) : InTree(doc, w, node.child[i])
      BY <1>4 DEF InTree
    <3> QED
      BY <1>1, <3>1, NodesHaveNames
  <2> QED
    BY <2>1, <2>2, LeavesKinds
<1>7. "null" \in Kinds
  OBVIOUS
<1> HIDE DEF Kinds
<1>8. Query(root, path).kind \in Kinds
  BY <1>3, <1>4, <1>5, <1>6, <1>7, AnswersIn
<1> QED
  BY <1>1, <1>8 DEF root, Kinds

-----------------------------------------------------------------------------
(* The way along a path, in the document and in the tree. *)

\* The way is computed from the root.
LEMMA WayExists ==
    ASSUME NEW doc, NEW path, Len(path) \in Nat
    PROVE  \E at : at = [k \in 0..Len(path) |->
                           IF k = 0 THEN 1 ELSE ValueOf(doc, at[k - 1], path[k])]
<1> DEFINE n == Len(path)
           Body(f, k) == IF k = 0 THEN 1 ELSE ValueOf(doc, f[k - 1], path[k])
           Is(f, d) == f = [k \in 0..d |-> Body(f, k)]
           G == {d \in 0..n : \E f : Is(f, d)}
<1> HIDE DEF n
<1>1. 0 \in G
  <2> DEFINE f == [i \in 0..0 |-> 1]
  <2>1. Is(f, 0)
    <3>1. \A k \in 0..0 : k = 0
      OBVIOUS
    <3>2. [i \in 0..0 |-> 1] = [k \in 0..0 |-> Body(f, k)]
      BY <3>1
    <3> QED
      BY <3>2
  <2>2. 0 \in 0..n
    BY DEF n
  <2> HIDE DEF Is
  <2> QED
    BY <2>1, <2>2
<1>2. ASSUME NEW d \in 0..(n - 1), d \in G
      PROVE  d + 1 \in G
  <2>1. PICK f : Is(f, d)
    BY <1>2
  <2> DEFINE e == [k \in 0..(d + 1) |-> Body(f, k)]
  <2>2. ASSUME NEW k \in 0..(d + 1)
        PROVE  Body(f, k) = Body(e, k)
    <3>1. CASE k = 0
      BY <3>1
    <3>2. CASE k # 0
      <4>1. k - 1 \in 0..d /\ k - 1 \in 0..(d + 1)
        BY <2>2, <3>2
      <4> HIDE DEF Body
      <4>2. f[k - 1] = Body(f, k - 1)
        BY <2>1, <4>1
      <4>3. e[k - 1] = Body(f, k - 1)
        BY <4>1
      <4> HIDE DEF e
      <4> QED
        BY <3>2, <4>2, <4>3 DEF Body
    <3> QED
      BY <3>1, <3>2
  <2> HIDE DEF Body
  <2>3. Is(e, d + 1)
    <3>1. e = [k \in 0..(d + 1) |-> Body(e, k)]
      BY <2>2, Zenon
    <3> QED
      BY <3>1
  <2>4. d + 1 \in 0..n
    BY DEF n
  <2> HIDE DEF Is
  <2> QED
    BY <2>3, <2>4
<1>3. n \in G
  <2> HIDE DEF G
  <2>1. n \in Nat /\ n \in 0..n
    BY DEF n
  <2> QED
    BY <1>1, <1>2, <2>1, Upward
<1> QED
  BY <1>3 DEF n

\* The value of a key belongs to a pair with that key.
LEMMA ValueIs ==
    ASSUME NEW doc, IsDocument(doc), NEW i \in 0..Len(doc), NEW key
    PROVE  \/ /\ ValueOf(doc, i, key) = Missing
              /\ i # Missing /\ doc[i].kind = "mapping" =>
                    \A p \in 1..Len(doc[i].pairs) : doc[doc[i].pairs[p][1]] # Scalar(key)
           \/ /\ i \in 1..Len(doc) /\ doc[i].kind = "mapping"
              /\ ValueOf(doc, i, key) \in 1..Len(doc)
              /\ \E p \in 1..Len(doc[i].pairs) :
                    /\ doc[doc[i].pairs[p][1]] = Scalar(key)
                    /\ ValueOf(doc, i, key) = doc[i].pairs[p][2]
<1> DEFINE hits == {p \in 1..Len(doc[i].pairs) : doc[doc[i].pairs[p][1]] = Scalar(key)}
           hit == CHOOSE p \in hits : TRUE
<1>1. ValueOf(doc, i, key) =
         IF i = Missing \/ doc[i].kind # "mapping" \/ hits = {} THEN Missing ELSE doc[i].pairs[hit][2]
  BY DEF ValueOf
<1>2. hits # {} => hit \in hits
  <2> HIDE DEF hits
  <2> QED
    BY Zenon
<1>3. CASE i = Missing \/ doc[i].kind # "mapping" \/ hits = {}
  <2>1. ValueOf(doc, i, key) = Missing
    BY <1>1, <1>3
  <2>2. hits = {} => \A p \in 1..Len(doc[i].pairs) : doc[doc[i].pairs[p][1]] # Scalar(key)
    OBVIOUS
  <2> HIDE DEF hits
  <2> QED
    BY <1>3, <2>1, <2>2
<1>4. CASE i # Missing /\ doc[i].kind = "mapping" /\ hits # {}
  <2>1. i \in 1..Len(doc)
    BY <1>4, SMTT(60) DEF Missing, IsDocument
  <2>2. hit \in 1..Len(doc[i].pairs) /\ doc[doc[i].pairs[hit][1]] = Scalar(key)
    BY <1>2, <1>4, Zenon
  <2> HIDE DEF hits, hit
  <2>3. ValueOf(doc, i, key) = doc[i].pairs[hit][2]
    BY <1>1, <1>4
  <2>4. doc[i].pairs[hit][2] \in 1..Len(doc)
    <3>1. 2 \in 1..2
      OBVIOUS
    <3> QED
      BY <1>4, <2>1, <2>2, <3>1, NodeCases
  <2> QED
    BY <1>4, <2>1, <2>2, <2>3, <2>4
<1> QED
  BY <1>3, <1>4

\* The equation of Way's, and where it leads.
LEMMA WayLoop ==
    ASSUME NEW doc, IsDocument(doc), NEW path, Len(path) \in Nat
    PROVE  /\ Way(doc, path)[0] = 1
           /\ \A k \in 1..Len(path) :
                 Way(doc, path)[k] = ValueOf(doc, Way(doc, path)[k - 1], path[k])
           /\ \A k \in 0..Len(path) : Way(doc, path)[k] \in 0..Len(doc)
<1> DEFINE at[k \in 0..Len(path)] == IF k = 0 THEN 1 ELSE ValueOf(doc, at[k - 1], path[k])
           Is(f) == f = [k \in 0..Len(path) |->
                           IF k = 0 THEN 1 ELSE ValueOf(doc, f[k - 1], path[k])]
<1>1. \E f : Is(f)
  BY WayExists, SMTT(60)
<1>2. Is(at)
  BY <1>1, Zenon
<1>3. Way(doc, path) = at
  BY DEF Way
<1> HIDE DEF at
<1>4. \A k \in 0..Len(path) : at[k] = IF k = 0 THEN 1 ELSE ValueOf(doc, at[k - 1], path[k])
  BY <1>2, Zenon
<1>5. at[0] = 1
  <2>1. 0 \in 0..Len(path)
    OBVIOUS
  <2> QED
    BY <1>4, <2>1, Zenon
<1>6. \A k \in 1..Len(path) : at[k] = ValueOf(doc, at[k - 1], path[k])
  <2>1. \A k \in 1..Len(path) : k \in 0..Len(path) /\ k # 0
    OBVIOUS
  <2> QED
    BY <1>4, <2>1, Zenon
<1> DEFINE G == {k \in 0..Len(path) : at[k] \in 0..Len(doc)}
<1>7. 0 \in G
  BY <1>5 DEF IsDocument
<1>8. ASSUME NEW k \in 0..(Len(path) - 1), k \in G
      PROVE  k + 1 \in G
  <2>1. k + 1 \in 1..Len(path) /\ k + 1 \in 0..Len(path) /\ k + 1 - 1 = k
    OBVIOUS
  <2>2. at[k + 1] = ValueOf(doc, at[k], path[k + 1])
    BY <1>6, <2>1
  <2>3. ValueOf(doc, at[k], path[k + 1]) = Missing \/ ValueOf(doc, at[k], path[k + 1]) \in 1..Len(doc)
    BY <1>8, ValueIs
  <2>4. Len(doc) \in Nat
    BY DEF IsDocument
  <2> QED
    BY <2>1, <2>2, <2>3, <2>4 DEF Missing
<1>9. \A k \in 0..Len(path) : k \in G
  <2> HIDE DEF G
  <2> QED
    BY <1>7, <1>8, Upward
<1> QED
  BY <1>3, <1>5, <1>6, <1>9

\* Children that all answer NULL.
LEMMA SearchInVain ==
    ASSUME NEW node, Len(node.child) \in Nat, NEW deeper, NEW stop,
           \A i \in 1..Len(node.child) : deeper[node.child[i]].answer = Null
    PROVE  QueryChildren(node, deeper, stop).answer = Null
BY SearchedChildren

\* One child that may answer, and others that let the search go on.
LEMMA SearchFinds ==
    ASSUME NEW node, Len(node.child) \in Nat, NEW deeper, NEW stop,
           NEW hit \in 1..Len(node.child),
           \A i \in 1..Len(node.child) : i # hit => deeper[node.child[i]] = Answer(Null, FALSE)
    PROVE  QueryChildren(node, deeper, stop).answer = deeper[node.child[hit]].answer
<1> DEFINE Ends(i) == deeper[node.child[i]].answer # Null \/ deeper[node.child[i]].stop
           ends == {i \in 1..Len(node.child) : Ends(i)}
<1>1. Answer(Null, FALSE).answer = Null /\ ~Answer(Null, FALSE).stop
  BY DEF Answer
<1>2. ASSUME NEW i \in ends
      PROVE  i = hit
  BY <1>1, <1>2
<1>3. CASE ends = {}
  <2>1. deeper[node.child[hit]].answer = Null
    BY <1>3
  <2>2. QueryChildren(node, deeper, stop).answer = Null
    BY <1>3, Zenon DEF QueryChildren, Answer
  <2> QED
    BY <2>1, <2>2
<1>4. CASE ends # {}
  <2> DEFINE first == CHOOSE i \in ends : \A j \in ends : i <= j
  <2>1. QueryChildren(node, deeper, stop) = deeper[node.child[first]]
    BY <1>4, Zenon DEF QueryChildren
  <2>2. first = hit
    <3>1. \E i \in ends : \A j \in ends : i <= j
      <4>1. hit <= hit
        OBVIOUS
      <4> HIDE DEF ends
      <4> QED
        BY <1>2, <1>4, <4>1
    <3>2. first \in ends
      <4> HIDE DEF ends
      <4> QED
        BY <3>1, Zenon
    <3> QED
      BY <1>2, <3>2, Zenon
  <2> QED
    BY <2>1, <2>2, Zenon
<1> QED
  BY <1>3, <1>4

\* A leaf never answers with a string: its string is what the path is compared with.
LEMMA LeafAnswer ==
    ASSUME NEW path, NEW k, NEW text, NEW deeper, text # NoString
    PROVE  QueryNode(Node(text, <<>>), path, k, deeper).answer = Null
<1> DEFINE node == Node(text, <<>>)
<1>1. node.child = <<>> /\ node.string = text /\ Len(node.child) = 0
  BY DEF Node
<1> HIDE DEF node
<1>2. Leaves(node) = Null
  BY <1>1 DEF Leaves
<1>3. QueryChildren(node, deeper, TRUE).answer = Null
  <2>1. \A i \in 1..Len(node.child) : deeper[node.child[i]].answer = Null
    BY <1>1
  <2>2. Len(node.child) \in Nat
    BY <1>1
  <2> QED
    BY <2>1, <2>2, SearchInVain
<1>4. QueryNode(node, path, k, deeper).answer = Null
  BY <1>1, <1>2, <1>3 DEF QueryNode, Answer
<1> QED
  BY <1>4 DEF node

\* deeper has what the children of a node answer.
AnswersOf(node, path, k, deeper, below) ==
    \A q \in 1..Len(node.child) :
        deeper[node.child[q]] = QueryNode(node.child[q], path, k, below)

\* Pair p of mapping i is the one with a key.
PairHasKey(doc, i, p, key) ==
    /\ i \in 1..Len(doc) /\ doc[i].kind = "mapping" /\ KeysAreTexts(doc, i) /\ KeysDiffer(doc, i)
    /\ p \in 1..Len(doc[i].pairs) /\ doc[doc[i].pairs[p][1]] = Scalar(key)

\* One step along the way: the children of the node of a mapping answer what the
\* child with the key answers;
LEMMA KeyIsFound ==
    ASSUME NEW doc, IsDocument(doc), NEW w, IsWalk(doc, w), NEW i, NEW hit,
           NEW path, NEW k, PairHasKey(doc, i, hit, path[k]),
           NEW node, node.child = Kids(doc, w, i),
           NEW deeper, NEW below, AnswersOf(node, path, k, deeper, below)
    PROVE  /\ hit \in 1..Len(node.child)
           /\ node.child[hit] = Node(path[k], Kids(doc, w, doc[i].pairs[hit][2]))
           /\ path[k] # NoString
           /\ \A stop : QueryChildren(node, deeper, stop).answer = deeper[node.child[hit]].answer
<1>0. /\ i \in 1..Len(doc) /\ doc[i].kind = "mapping" /\ KeysAreTexts(doc, i) /\ KeysDiffer(doc, i)
      /\ hit \in 1..Len(doc[i].pairs) /\ doc[doc[i].pairs[hit][1]] = Scalar(path[k])
  BY DEF PairHasKey
<1> DEFINE key(q) == doc[i].pairs[q][1]
           val(q) == doc[i].pairs[q][2]
<1>1. /\ Len(node.child) = Len(doc[i].pairs) /\ Len(node.child) \in Nat
      /\ \A q \in 1..Len(node.child) :
            /\ node.child[q] = Node(doc[key(q)].text, Kids(doc, w, val(q)))
            /\ key(q) \in 1..Len(doc) /\ doc[key(q)].kind = "scalar"
            /\ doc[key(q)].text # NoString
  <2>1. node.child = w[i]
    BY <1>0, PairKids
  <2> QED
    BY <1>0, <2>1, PairKids
<1>2. doc[key(hit)].text = path[k]
  BY <1>0 DEF Scalar
<1>3. ASSUME NEW q \in 1..Len(node.child), q # hit
      PROVE  deeper[node.child[q]] = Answer(Null, FALSE)
  <2>1. doc[key(q)] # doc[key(hit)]
    BY <1>0, <1>1, <1>3 DEF KeysDiffer
  <2>2. doc[key(q)] = Scalar(doc[key(q)].text)
    BY <1>1, NodeCases
  <2>3. doc[key(q)].text # path[k]
    BY <1>0, <2>1, <2>2
  <2>4. deeper[node.child[q]] = QueryNode(node.child[q], path, k, below)
    BY DEF AnswersOf
  <2>5. node.child[q] = Node(doc[key(q)].text, Kids(doc, w, val(q))) /\ doc[key(q)].text # NoString
    BY <1>1
  <2> HIDE DEF key, val
  <2>6. QueryNode(node.child[q], path, k, below) = Answer(Null, FALSE)
    BY <2>3, <2>5 DEF QueryNode, Node
  <2> QED
    BY <2>4, <2>6
<1>4. hit \in 1..Len(node.child)
  BY <1>0, <1>1
<1>5. ASSUME NEW stop
      PROVE  QueryChildren(node, deeper, stop).answer = deeper[node.child[hit]].answer
  <2>1. \A q \in 1..Len(node.child) : q # hit => deeper[node.child[q]] = Answer(Null, FALSE)
    BY <1>3
  <2>2. Len(node.child) \in Nat
    BY <1>1
  <2> HIDE DEF key, val
  <2> QED
    BY <1>4, <2>1, <2>2, SearchFinds
<1> QED
  BY <1>1, <1>2, <1>4, <1>5

\* those of a mapping without the key answer NULL,
LEMMA KeyIsMissing ==
    ASSUME NEW doc, IsDocument(doc), NEW w, IsWalk(doc, w), NEW i \in 1..Len(doc),
           doc[i].kind = "mapping", KeysAreTexts(doc, i),
           NEW path, NEW k,
           \A p \in 1..Len(doc[i].pairs) : doc[doc[i].pairs[p][1]] # Scalar(path[k]),
           NEW node, node.child = Kids(doc, w, i), NEW deeper, NEW stop, NEW below,
           AnswersOf(node, path, k, deeper, below)
    PROVE  QueryChildren(node, deeper, stop).answer = Null
<1> DEFINE key(q) == doc[i].pairs[q][1]
           val(q) == doc[i].pairs[q][2]
<1>1. /\ Len(node.child) = Len(doc[i].pairs) /\ Len(node.child) \in Nat
      /\ \A q \in 1..Len(node.child) :
            /\ node.child[q] = Node(doc[key(q)].text, Kids(doc, w, val(q)))
            /\ key(q) \in 1..Len(doc) /\ doc[key(q)].kind = "scalar"
            /\ doc[key(q)].text # NoString
  <2>1. node.child = w[i]
    BY PairKids
  <2> QED
    BY <2>1, PairKids
<1>2. ASSUME NEW q \in 1..Len(node.child)
      PROVE  deeper[node.child[q]].answer = Null
  <2>1. doc[key(q)] = Scalar(doc[key(q)].text) /\ doc[key(q)] # Scalar(path[k])
    BY <1>1, NodeCases
  <2>2. doc[key(q)].text # path[k]
    BY <2>1
  <2>3. deeper[node.child[q]] = QueryNode(node.child[q], path, k, below)
    BY DEF AnswersOf
  <2>4. node.child[q] = Node(doc[key(q)].text, Kids(doc, w, val(q))) /\ doc[key(q)].text # NoString
    BY <1>1
  <2> HIDE DEF key, val
  <2>5. QueryNode(node.child[q], path, k, below) = Answer(Null, FALSE)
    BY <2>2, <2>4 DEF QueryNode, Node
  <2> QED
    BY <2>3, <2>5 DEF Answer
<1> QED
  BY <1>1, <1>2, SearchInVain

\* and so do those of a list.
LEMMA ListHasNoKeys ==
    ASSUME NEW doc, IsDocument(doc), NEW w, IsWalk(doc, w), NEW i \in 1..Len(doc),
           doc[i].kind # "mapping", IsList(doc, i),
           NEW path, NEW k,
           NEW node, node.child = Kids(doc, w, i), NEW deeper, NEW stop, NEW below,
           AnswersOf(node, path, k, deeper, below)
    PROVE  QueryChildren(node, deeper, stop).answer = Null
<1> DEFINE n == Len(Elements(doc, i))
           text(m) == doc[Elements(doc, i)[m]].text
<1>1. KeysAreTexts(doc, i)
  BY DEF KeysAreTexts
<1>2. /\ n \in Nat /\ \A m \in 1..n : text(m) \in Texts
      /\ node.child = [m \in 1..n |-> Node(text(m), <<>>)]
  BY <1>1, ListKids DEF LeafForEach
<1>3. \A m \in 1..n : text(m) # NoString
  BY <1>2, TextIsNamed
<1> HIDE DEF n, text
<1>4. Len(node.child) = n
  BY <1>2, ListOf
<1>5. ASSUME NEW q \in 1..Len(node.child)
      PROVE  deeper[node.child[q]].answer = Null
  <2>1. node.child[q] = Node(text(q), <<>>) /\ text(q) # NoString
    BY <1>2, <1>3, <1>4
  <2>2. QueryNode(node.child[q], path, k, below).answer = Null
    BY <2>1, LeafAnswer
  <2> QED
    BY <2>2 DEF AnswersOf
<1> QED
  BY <1>2, <1>4, <1>5, SearchInVain

\* A query is answered by the children of every node on the way that it has to
\* pass.
LEMMA FollowsWay ==
    ASSUME NEW doc, IsDocument(doc), NEW w, IsWalk(doc, w),
           NEW path, Len(path) \in Nat \ {0}, Unambiguous(doc, path),
           NEW root, root.child = Kids(doc, w, 1),
           NEW level, NEW query, Searches(root, path, level, query)
    PROVE  /\ \A k \in 0..(Len(path) - 1) : Way(doc, path)[k] # Missing =>
                 \E node, stop :
                    /\ node.child = Kids(doc, w, Way(doc, path)[k])
                    /\ Query(root, path) = QueryChildren(node, query[k + 1], stop).answer
                    /\ AnswersOf(node, path, k + 1, query[k + 1], query[k + 2])
           /\ Way(doc, path)[Len(path)] # Missing =>
                 \E node : /\ node.child = Kids(doc, w, Way(doc, path)[Len(path)])
                           /\ Query(root, path) = Leaves(node)
<1> DEFINE at(k) == Way(doc, path)[k]
           Answers(node, k) ==
              /\ node.child = Kids(doc, w, at(k))
              /\ \A q \in 1..Len(node.child) : node.child[q] \in level[k + 1]
              /\ \E stop : Query(root, path) = QueryChildren(node, query[k + 1], stop).answer
           Good(k) == at(k) # Missing => \E node : Answers(node, k)
           G == {k \in 0..(Len(path) - 1) : Good(k)}
<1>1. /\ at(0) = 1
      /\ \A k \in 1..Len(path) : at(k) = ValueOf(doc, at(k - 1), path[k])
      /\ \A k \in 0..Len(path) : at(k) \in 0..Len(doc)
      /\ \A k \in 0..Len(path) : at(k) # Missing =>
            at(k) \in 1..Len(doc) /\ KeysAreTexts(doc, at(k)) /\ KeysDiffer(doc, at(k))
  <2>1. Len(doc) \in Nat
    BY DEF IsDocument
  <2> QED
    BY <2>1, WayLoop DEF Unambiguous, Missing
<1>2. /\ Query(root, path) = QueryChildren(root, query[1], FALSE).answer
      /\ level[1] = ChildrenOf(root)
      /\ \A k \in 1..(Len(path) - 1) : level[k + 1] = UNION {ChildrenOf(n) : n \in level[k]}
      /\ \A k \in 1..Len(path) : \A node \in level[k] :
            query[k][node] = QueryNode(node, path, k, query[k + 1])
  BY DEF Searches
<1> HIDE DEF at
<1>3. 0 \in G
  <2>1. \A q \in 1..Len(root.child) : root.child[q] \in level[0 + 1]
    BY <1>2 DEF ChildrenOf
  <2>2. Query(root, path) = QueryChildren(root, query[0 + 1], FALSE).answer
    BY <1>2
  <2>3. Answers(root, 0)
    BY <1>1, <2>1, <2>2
  <2>4. 0 \in 0..(Len(path) - 1)
    OBVIOUS
  <2> HIDE DEF Answers
  <2> QED
    BY <2>3, <2>4
\* From a node that the query passes to the one the next key names.
<1>4. ASSUME NEW k \in 0..(Len(path) - 1), Good(k), at(k + 1) # Missing
      PROVE  \E node : /\ node.child = Kids(doc, w, at(k + 1))
                       /\ node.string = path[k + 1] /\ node.string # NoString
                       /\ node \in level[k + 1]
                       /\ Query(root, path) = query[k + 1][node].answer
  <2>1. k + 1 \in 1..Len(path) /\ k \in 0..Len(path) /\ k + 1 - 1 = k
    OBVIOUS
  <2>2. at(k + 1) = ValueOf(doc, at(k), path[k + 1]) /\ at(k) \in 0..Len(doc)
    BY <1>1, <2>1
  <2>3. /\ at(k) \in 1..Len(doc) /\ doc[at(k)].kind = "mapping"
        /\ \E p \in 1..Len(doc[at(k)].pairs) :
              /\ doc[doc[at(k)].pairs[p][1]] = Scalar(path[k + 1])
              /\ at(k + 1) = doc[at(k)].pairs[p][2]
    BY <1>4, <2>2, ValueIs, SMTT(30)
  <2>4. PICK p \in 1..Len(doc[at(k)].pairs) :
              /\ doc[doc[at(k)].pairs[p][1]] = Scalar(path[k + 1])
              /\ at(k + 1) = doc[at(k)].pairs[p][2]
    BY <2>3
  <2>5. at(k) # Missing
    BY <2>3 DEF Missing
  <2>6. PICK node : Answers(node, k)
    <3> HIDE DEF Answers
    <3> QED
      BY <1>4, <2>5
  <2>7. PICK stop : Query(root, path) = QueryChildren(node, query[k + 1], stop).answer
    BY <2>6
  <2>8. AnswersOf(node, path, k + 1, query[k + 1], query[k + 1 + 1])
    BY <1>2, <2>1, <2>6 DEF AnswersOf
  <2>9. /\ p \in 1..Len(node.child)
        /\ node.child[p] = Node(path[k + 1], Kids(doc, w, at(k + 1)))
        /\ path[k + 1] # NoString
        /\ QueryChildren(node, query[k + 1], stop).answer = query[k + 1][node.child[p]].answer
    <3>1. KeysAreTexts(doc, at(k)) /\ KeysDiffer(doc, at(k))
      BY <1>1, <2>1, <2>5
    <3>2. node.child = Kids(doc, w, at(k))
      BY <2>6
    <3> DEFINE i == at(k)
               m == k + 1
               deeper == query[k + 1]
               below == query[k + 1 + 1]
    <3>3. PairHasKey(doc, i, p, path[m]) /\ node.child = Kids(doc, w, i)
      BY <2>3, <2>4, <3>1, <3>2 DEF PairHasKey
    <3>5. AnswersOf(node, path, m, deeper, below)
      BY <2>8
    <3> HIDE DEF i, m, deeper, below
    <3>4. /\ p \in 1..Len(node.child)
          /\ node.child[p] = Node(path[m], Kids(doc, w, doc[i].pairs[p][2]))
          /\ path[m] # NoString
          /\ QueryChildren(node, deeper, stop).answer = deeper[node.child[p]].answer
      BY <3>3, <3>5, KeyIsFound
    <3> QED
      BY <2>4, <3>4 DEF i, m, deeper
  <2>10. node.child[p] \in level[k + 1]
    BY <2>6, <2>9
  <2> DEFINE next == node.child[p]
  <2>11. /\ next.child = Kids(doc, w, at(k + 1))
         /\ next.string = path[k + 1] /\ next.string # NoString
    BY <2>9 DEF Node
  <2> QED
    BY <2>7, <2>9, <2>10, <2>11
<1>5. ASSUME NEW k \in 0..(Len(path) - 1 - 1), k \in G
      PROVE  k + 1 \in G
  <2> SUFFICES ASSUME at(k + 1) # Missing
               PROVE  \E node : Answers(node, k + 1)
    OBVIOUS
  <2>1. k \in 0..(Len(path) - 1) /\ k + 1 \in 1..(Len(path) - 1) /\ k + 1 \in 1..Len(path) /\ k + 1 # Len(path)
    OBVIOUS
  <2>2. Good(k)
    BY <1>5
  <2>3. PICK node : /\ node.child = Kids(doc, w, at(k + 1))
                    /\ node.string = path[k + 1] /\ node.string # NoString
                    /\ node \in level[k + 1]
                    /\ Query(root, path) = query[k + 1][node].answer
    <3> HIDE DEF Good, G
    <3> QED
      BY <1>4, <2>1, <2>2
  <2>4. query[k + 1][node] = QueryChildren(node, query[k + 1 + 1], TRUE)
    <3>1. query[k + 1][node] = QueryNode(node, path, k + 1, query[k + 1 + 1])
      BY <1>2, <2>1, <2>3
    <3>2. QueryNode(node, path, k + 1, query[k + 1 + 1]) = QueryChildren(node, query[k + 1 + 1], TRUE)
      BY <2>1, <2>3 DEF QueryNode
    <3> QED
      BY <3>1, <3>2
  <2>5. \A q \in 1..Len(node.child) : node.child[q] \in level[k + 1 + 1]
    <3>1. level[k + 1 + 1] = UNION {ChildrenOf(n) : n \in level[k + 1]}
      BY <1>2, <2>1
    <3>2. ChildrenOf(node) \subseteq level[k + 1 + 1]
      BY <2>3, <3>1
    <3> QED
      BY <3>2 DEF ChildrenOf
  <2>6. Query(root, path) = QueryChildren(node, query[k + 1 + 1], TRUE).answer
    BY <2>3, <2>4
  <2>7. Answers(node, k + 1)
    BY <2>3, <2>5, <2>6
  <2> HIDE DEF Answers
  <2> QED
    BY <2>7
<1>6. \A k \in 0..(Len(path) - 1) : k \in G
  <2> HIDE DEF G
  <2>1. Len(path) - 1 \in Nat
    OBVIOUS
  <2> QED
    BY <1>3, <1>5, <2>1, Upward
<1>7. ASSUME NEW k \in 0..(Len(path) - 1), at(k) # Missing
      PROVE  \E node, stop :
                /\ node.child = Kids(doc, w, at(k))
                /\ Query(root, path) = QueryChildren(node, query[k + 1], stop).answer
                /\ AnswersOf(node, path, k + 1, query[k + 1], query[k + 2])
  <2>1. k \in G
    BY <1>6
  <2>2. PICK node : Answers(node, k)
    BY <1>7, <2>1
  <2>3. k + 1 \in 1..Len(path) /\ k + 1 + 1 = k + 2
    OBVIOUS
  <2>4. AnswersOf(node, path, k + 1, query[k + 1], query[k + 2])
    BY <1>2, <2>2, <2>3 DEF AnswersOf
  <2> QED
    BY <2>2, <2>4
<1>8. ASSUME at(Len(path)) # Missing
      PROVE  \E node : /\ node.child = Kids(doc, w, at(Len(path)))
                       /\ Query(root, path) = Leaves(node)
  <2> DEFINE k == Len(path) - 1
  <2>1. k \in 0..(Len(path) - 1) /\ k + 1 = Len(path) /\ k + 1 \in 1..Len(path)
    OBVIOUS
  <2> HIDE DEF k
  <2>2. Good(k)
    BY <1>6, <2>1
  <2>3. PICK node : /\ node.child = Kids(doc, w, at(k + 1))
                    /\ node.string = path[k + 1] /\ node.string # NoString
                    /\ node \in level[k + 1]
                    /\ Query(root, path) = query[k + 1][node].answer
    <3> HIDE DEF Good, G
    <3> QED
      BY <1>4, <1>8, <2>1, <2>2
  <2>4. query[k + 1][node].answer = Leaves(node)
    <3>1. query[k + 1][node] = QueryNode(node, path, k + 1, query[k + 1 + 1])
      BY <1>2, <2>1, <2>3
    <3>2. QueryNode(node, path, k + 1, query[k + 1 + 1]) = Answer(Leaves(node), TRUE)
      BY <2>1, <2>3 DEF QueryNode
    <3> QED
      BY <3>1, <3>2 DEF Answer
  <2> QED
    BY <2>1, <2>3, <2>4
<1> QED
  BY <1>7, <1>8 DEF at

\* The leaves of a node are joined if they are named.
LEMMA LeavesOfList ==
    ASSUME NEW texts \in Seq(Texts), texts # <<>>,
           NEW node, node.child = [n \in 1..Len(texts) |-> Node(texts[n], <<>>)]
    PROVE  Leaves(node) = Found(Join(texts))
<1> DEFINE inner == {i \in 1..Len(node.child) : node.child[i].child # <<>>}
           bare  == {i \in 1..Len(node.child) : node.child[i].string = NoString}
           strings == [i \in 1..Len(node.child) |-> node.child[i].string]
<1>1. Leaves(node) = IF node.child = <<>> THEN Null
                     ELSE IF \E i \in inner : \A j \in bare : i <= j THEN Null
                     ELSE IF bare # {} THEN Crash
                     ELSE Found(Join(strings))
  BY DEF Leaves
<1>2. Len(texts) \in Nat /\ Len(texts) # 0 /\ \A n \in 1..Len(texts) : texts[n] \in Texts
  BY LenProperties, ElementOfSeq, EmptySeq
<1>3. Len(node.child) = Len(texts) /\ node.child # <<>>
  BY <1>2, ListOf
<1>4. \A n \in 1..Len(texts) :
         /\ node.child[n].child = <<>> /\ node.child[n].string = texts[n]
         /\ node.child[n].string # NoString
  BY <1>2, TextIsNamed DEF Node
<1>5. inner = {} /\ bare = {}
  BY <1>3, <1>4
<1>6. strings = texts
  <2>1. strings = [n \in 1..Len(texts) |-> texts[n]]
    BY <1>3, <1>4
  <2>2. texts = [n \in 1..Len(texts) |-> texts[n]]
    OBVIOUS
  <2> QED
    BY <2>1, <2>2
<1> HIDE DEF inner, bare, strings
<1> QED
  BY <1>1, <1>3, <1>5, <1>6

\* A node whose value is empty has no leaves, or children that are none.
LEMMA LeavesOfNothing ==
    ASSUME NEW doc, IsDocument(doc), NEW w, IsWalk(doc, w), NEW i \in 1..Len(doc),
           KeysAreTexts(doc, i), Elements(doc, i) = <<>>,
           NEW node, node.child = Kids(doc, w, i)
    PROVE  Leaves(node) = Null
<1>1. doc[i].kind # "scalar"
  BY DEF Elements
<1>2. CASE doc[i].kind = "sequence"
  <2>1. doc[i].items = <<>>
    BY <1>2 DEF Elements
  <2>2. Len(doc[i].items) = 0
    BY <2>1
  <2>3. Kids(doc, w, i) = [p \in 1..Len(doc[i].items) |-> Hang(doc, w, doc[i].items[p], Fresh)]
    BY <1>2 DEF Kids, IsWalk, Contents
  <2>4. node.child = <<>>
    BY <2>2, <2>3
  <2> QED
    BY <2>4 DEF Leaves
<1>3. CASE doc[i].kind = "mapping"
  <2> DEFINE n == Len(doc[i].pairs)
             val(p) == doc[i].pairs[p][2]
             text(p) == doc[doc[i].pairs[p][1]].text
             Void(p) == doc[val(p)] \in {Sequence(<<>>), Mapping(<<>>)}
  <2>1. /\ Len(node.child) = n /\ n \in Nat
        /\ \A p \in 1..n : /\ node.child[p] = Node(text(p), Kids(doc, w, val(p)))
                           /\ val(p) \in 1..Len(doc) /\ text(p) # NoString
    <3>1. node.child = w[i]
      BY <1>3, PairKids
    <3> QED
      BY <1>3, <3>1, PairKids
  <2>2. n = 0 \/ \E p \in 1..n : ~Void(p)
    <3>1. Elements(doc, i) = IF \A p \in 1..n : Void(p)
                             THEN [p \in 1..n |-> doc[i].pairs[p][1]] ELSE <<>>
      BY <1>3 DEF Elements
    <3> DEFINE keys == [p \in 1..n |-> doc[i].pairs[p][1]]
    <3>2. n # 0 => keys # <<>>
      <4>1. keys = [p \in 1..n |-> keys[p]]
        OBVIOUS
      <4> HIDE DEF keys, n
      <4> QED
        BY <2>1, <4>1, ListOf
    <3> HIDE DEF keys, Void, n
    <3> QED
      BY <3>1, <3>2 DEF keys
  <2>3. CASE n = 0
    <3>1. node.child = <<>>
      <4>1. Kids(doc, w, i) = [p \in 1..n |->
                Hang(doc, w, doc[i].pairs[p][2], Hang(doc, w, doc[i].pairs[p][1], Fresh))]
        BY <1>3 DEF Kids, IsWalk, Contents
      <4> HIDE DEF n
      <4> QED
        BY <2>3, <4>1
    <3> QED
      BY <3>1 DEF Leaves
  <2>4. ASSUME NEW p \in 1..n, ~Void(p)
        PROVE  Leaves(node) = Null
    <3> DEFINE v == val(p)
    <3>0. v \in 1..Len(doc) /\ doc[v] \notin {Sequence(<<>>), Mapping(<<>>)}
      BY <2>1, <2>4
    <3>1. Kids(doc, w, v) # <<>>
      <4> HIDE DEF v
      <4>1. CASE doc[v].kind = "scalar"
        BY <4>1 DEF Kids
      <4>2. CASE doc[v].kind = "sequence"
        <5>1. doc[v] = Sequence(doc[v].items) /\ Len(doc[v].items) \in Nat
          BY <3>0, <4>2, NodeCases
        <5>2. Len(doc[v].items) # 0
          <6>1. doc[v].items # <<>> /\ doc[v].items \in Seq((v + 1)..Len(doc))
            BY <3>0, <4>2, <5>1, NodeCases
          <6> QED
            BY <6>1, EmptySeq
        <5> DEFINE kids == Kids(doc, w, v)
        <5>3. kids = [m \in 1..Len(doc[v].items) |-> Hang(doc, w, doc[v].items[m], Fresh)]
          BY <3>0, <4>2 DEF Kids, IsWalk, Contents
        <5>4. kids = [m \in 1..Len(doc[v].items) |-> kids[m]]
          BY <5>3
        <5> HIDE DEF kids
        <5>5. kids # <<>>
          BY <5>1, <5>2, <5>4, ListOf
        <5> QED
          BY <5>5 DEF kids
      <4>3. CASE doc[v].kind = "mapping"
        <5>1. doc[v] = Mapping(doc[v].pairs) /\ Len(doc[v].pairs) \in Nat
          BY <3>0, <4>3, NodeCases
        <5>2. Len(doc[v].pairs) # 0
          <6>1. /\ doc[v].pairs # <<>>
                /\ doc[v].pairs \in Seq(((v + 1)..Len(doc)) \X ((v + 1)..Len(doc)))
            BY <3>0, <4>3, <5>1, NodeCases
          <6> QED
            BY <6>1, EmptySeq
        <5> DEFINE kids == Kids(doc, w, v)
        <5>3. kids = [m \in 1..Len(doc[v].pairs) |->
                  Hang(doc, w, doc[v].pairs[m][2], Hang(doc, w, doc[v].pairs[m][1], Fresh))]
          BY <3>0, <4>3 DEF Kids, IsWalk, Contents
        <5>4. kids = [m \in 1..Len(doc[v].pairs) |-> kids[m]]
          BY <5>3
        <5> HIDE DEF kids
        <5>5. kids # <<>>
          BY <5>1, <5>2, <5>4, ListOf
        <5> QED
          BY <5>5 DEF kids
      <4> QED
        BY <3>0, <4>1, <4>2, <4>3, NodeCases
    <3>2. p \in 1..Len(node.child) /\ node.child[p].child # <<>>
      <4>1. node.child[p] = Node(text(p), Kids(doc, w, v)) /\ p \in 1..Len(node.child)
        BY <2>1
      <4> HIDE DEF n, text, v
      <4> QED
        BY <3>1, <4>1 DEF Node
    <3>3. ASSUME NEW q \in 1..Len(node.child)
          PROVE  node.child[q].string # NoString
      <4>1. node.child[q] = Node(text(q), Kids(doc, w, val(q))) /\ text(q) # NoString
        BY <2>1
      <4> HIDE DEF text, val
      <4> QED
        BY <4>1 DEF Node
    <3> DEFINE inner == {q \in 1..Len(node.child) : node.child[q].child # <<>>}
               bare  == {q \in 1..Len(node.child) : node.child[q].string = NoString}
    <3>4. p \in inner /\ bare = {}
      BY <3>2, <3>3
    <3>5. \E q \in inner : \A j \in bare : q <= j
      BY <3>4
    <3> QED
      BY <3>5 DEF Leaves
  <2> QED
    BY <2>2, <2>3, <2>4
<1> QED
  BY <1>1, <1>2, <1>3, NodeCases

\* The tree as a whole has the children of the first node.
LEMMA RootKids ==
    ASSUME NEW doc, IsDocument(doc), NEW w, IsWalk(doc, w)
    PROVE  Hang(doc, w, 1, Root).child = Kids(doc, w, 1)
<1>1. <<".">> # NoString
  BY DEF NoString
<1>2. 1 \in 1..Len(doc)
  BY DEF IsDocument
<1>3. Hang(doc, w, 1, Root) = Node(<<".">>, Kids(doc, w, 1))
  BY <1>1, <1>2, HangNamed DEF Root
<1> QED
  BY <1>3 DEF Node

\* A list at the end of the way is found.
LEMMA QueryFindsList ==
    ASSUME NEW doc, IsDocument(doc), NEW path, Len(path) \in Nat \ {0},
           Unambiguous(doc, path), NEW i, i = Way(doc, path)[Len(path)], i # Missing,
           IsList(doc, i), Elements(doc, i) # <<>>,
           NEW texts, texts = [n \in 1..Len(Elements(doc, i)) |-> doc[Elements(doc, i)[n]].text]
    PROVE  texts \in Seq(Texts) /\ texts # <<>> /\ Query(WalkThrough(doc), path) = Found(Join(texts))
<1>1. PICK w : IsWalk(doc, w) /\ WalkThrough(doc) = Hang(doc, w, 1, Root)
  BY WalkLoop
<1> DEFINE root == Hang(doc, w, 1, Root)
<1>2. root.child = Kids(doc, w, 1)
  BY <1>1, RootKids
<1> HIDE DEF root
<1>3. PICK level, query : Searches(root, path, level, query)
  BY QueryLoop
<1>4. PICK node : node.child = Kids(doc, w, i) /\ Query(root, path) = Leaves(node)
  BY <1>1, <1>2, <1>3, FollowsWay
<1>5. i \in 1..Len(doc) /\ KeysAreTexts(doc, i)
  <2>1. Len(path) \in 0..Len(path) /\ Len(path) \in Nat /\ Len(doc) \in Nat
    BY DEF IsDocument
  <2>2. i \in 0..Len(doc)
    BY <2>1, WayLoop
  <2> QED
    BY <2>1, <2>2 DEF Unambiguous, Missing
<1> DEFINE n == Len(Elements(doc, i))
           text(m) == doc[Elements(doc, i)[m]].text
<1>6. /\ n \in Nat /\ \A m \in 1..n : text(m) \in Texts
      /\ Kids(doc, w, i) = [m \in 1..n |-> Node(text(m), <<>>)]
  <2>1. LeafForEach(doc, w, i)
    BY <1>1, <1>5, ListKids
  <2> QED
    BY <2>1 DEF LeafForEach
<1>7. n # 0
  <2>1. \E S : Elements(doc, i) \in Seq(S)
    <3>1. CASE doc[i].kind = "scalar"
      <4>1. Elements(doc, i) = <<i>> /\ <<i>> \in Seq({i})
        BY <3>1 DEF Elements
      <4> QED
        BY <4>1
    <3>2. CASE doc[i].kind = "sequence"
      <4>1. Elements(doc, i) = doc[i].items
        BY <3>2 DEF Elements
      <4>2. doc[i].items \in Seq((i + 1)..Len(doc))
        BY <1>5, <3>2, NodeCases
      <4> QED
        BY <4>1, <4>2
    <3>3. CASE doc[i].kind = "mapping"
      <4> DEFINE keys == [p \in 1..Len(doc[i].pairs) |-> doc[i].pairs[p][1]]
      <4>1. Elements(doc, i) = keys
        BY <3>3, Zenon DEF Elements
      <4>2. Len(doc[i].pairs) \in Nat
        BY <1>5, <3>3, NodeCases
      <4>3. \A p \in 1..Len(doc[i].pairs) : doc[i].pairs[p][1] \in 1..Len(doc)
        BY <1>1, <1>5, <3>3, PairKids
      <4>4. keys \in Seq(1..Len(doc))
        BY <4>2, <4>3
      <4> QED
        BY <4>1, <4>4, Zenon
    <3> QED
      BY <1>5, <3>1, <3>2, <3>3, NodeCases
  <2> QED
    BY <2>1, EmptySeq
<1>8. texts = [m \in 1..n |-> text(m)]
  OBVIOUS
<1> HIDE DEF n, text
<1>9. texts \in Seq(Texts) /\ Len(texts) = n /\ texts # <<>>
  <2>1. texts = [m \in 1..n |-> texts[m]]
    BY <1>8
  <2>2. texts \in [1..n -> Texts]
    BY <1>6, <1>8
  <2> QED
    BY <1>6, <1>7, <2>1, <2>2, ListOf
<1>10. node.child = [m \in 1..Len(texts) |-> Node(texts[m], <<>>)]
  BY <1>4, <1>6, <1>8, <1>9
<1>11. Leaves(node) = Found(Join(texts))
  BY <1>9, <1>10, LeavesOfList
<1> QED
  BY <1>1, <1>4, <1>9, <1>11 DEF root

\* Where the way ends before the path does, or in an empty value, nothing is.
LEMMA QueryFindsNull ==
    ASSUME NEW doc, IsDocument(doc), NEW path, Len(path) \in Nat \ {0},
           Unambiguous(doc, path),
           \A k \in 0..Len(path) : Way(doc, path)[k] # Missing => IsList(doc, Way(doc, path)[k]),
           Way(doc, path)[Len(path)] # Missing => Elements(doc, Way(doc, path)[Len(path)]) = <<>>
    PROVE  Query(WalkThrough(doc), path) = Null
<1>1. PICK w : IsWalk(doc, w) /\ WalkThrough(doc) = Hang(doc, w, 1, Root)
  BY WalkLoop
<1> DEFINE root == Hang(doc, w, 1, Root)
           at(k) == Way(doc, path)[k]
<1>2. root.child = Kids(doc, w, 1)
  BY <1>1, RootKids
<1> HIDE DEF root
<1>3. PICK level, query : Searches(root, path, level, query)
  BY QueryLoop
<1>4. /\ at(0) = 1
      /\ \A k \in 1..Len(path) : at(k) = ValueOf(doc, at(k - 1), path[k])
      /\ \A k \in 0..Len(path) : at(k) \in 0..Len(doc)
      /\ \A k \in 0..Len(path) : at(k) # Missing =>
            /\ at(k) \in 1..Len(doc) /\ KeysAreTexts(doc, at(k)) /\ KeysDiffer(doc, at(k))
            /\ IsList(doc, at(k))
  <2>1. Len(doc) \in Nat
    BY DEF IsDocument
  <2> QED
    BY <2>1, WayLoop DEF Unambiguous, Missing
<1>5. /\ \A k \in 0..(Len(path) - 1) : at(k) # Missing =>
            \E node, stop :
               /\ node.child = Kids(doc, w, at(k))
               /\ Query(root, path) = QueryChildren(node, query[k + 1], stop).answer
               /\ AnswersOf(node, path, k + 1, query[k + 1], query[k + 2])
      /\ at(Len(path)) # Missing =>
            \E node : node.child = Kids(doc, w, at(Len(path))) /\ Query(root, path) = Leaves(node)
  BY <1>1, <1>2, <1>3, FollowsWay
<1>6. at(Len(path)) # Missing => Elements(doc, at(Len(path))) = <<>>
  OBVIOUS
<1> HIDE DEF at
<1>7. CASE at(Len(path)) # Missing
  <2>1. PICK node : node.child = Kids(doc, w, at(Len(path))) /\ Query(root, path) = Leaves(node)
    BY <1>5, <1>7
  <2>2. Len(path) \in 0..Len(path)
    OBVIOUS
  <2>3. at(Len(path)) \in 1..Len(doc) /\ KeysAreTexts(doc, at(Len(path)))
    BY <1>4, <1>7, <2>2
  <2>4. Leaves(node) = Null
    BY <1>1, <1>6, <1>7, <2>1, <2>3, LeavesOfNothing
  <2> QED
    BY <1>1, <2>1, <2>4 DEF root
<1>8. CASE at(Len(path)) = Missing
  <2> DEFINE Ends == {k \in 1..Len(path) : at(k) = Missing}
  <2>1. PICK k \in Ends : \A j \in Ends : k <= j
    <3>1. Len(path) \in Ends /\ Ends \in SUBSET (1..Len(path))
      BY <1>8
    <3> HIDE DEF Ends
    <3> QED
      BY <3>1, LeastElement
  <2>2. k \in 1..Len(path) /\ at(k) = Missing /\ k - 1 \in 0..(Len(path) - 1) /\ k - 1 \in 0..Len(path)
    OBVIOUS
  <2>3. at(k - 1) # Missing
    <3>1. CASE k = 1
      <4>1. k - 1 = 0
        BY <3>1
      <4> QED
        BY <1>4, <4>1 DEF Missing
    <3>2. CASE k # 1
      <4>1. k - 1 \in 1..Len(path) /\ ~(k <= k - 1)
        BY <2>2, <3>2
      <4> QED
        BY <2>1, <4>1
    <3> QED
      BY <3>1, <3>2
  <2> DEFINE i == at(k - 1)
  <2>4. /\ i \in 1..Len(doc) /\ KeysAreTexts(doc, i) /\ IsList(doc, i)
        /\ ValueOf(doc, i, path[k]) = Missing
    BY <1>4, <2>2, <2>3
  <2>5. k - 1 + 1 = k /\ k - 1 + 2 = k + 1
    BY <2>2
  <2>6. PICK node, stop :
           /\ node.child = Kids(doc, w, i)
           /\ Query(root, path) = QueryChildren(node, query[k], stop).answer
           /\ AnswersOf(node, path, k, query[k], query[k + 1])
    BY <1>5, <2>2, <2>3, <2>5
  <2> HIDE DEF i
  <2>7. CASE doc[i].kind # "mapping"
    <3>1. QueryChildren(node, query[k], stop).answer = Null
      BY <1>1, <2>4, <2>6, <2>7, ListHasNoKeys
    <3> QED
      BY <1>1, <2>6, <3>1 DEF root
  <2>8. CASE doc[i].kind = "mapping"
    <3>1. \A p \in 1..Len(doc[i].pairs) : doc[doc[i].pairs[p][1]] # Scalar(path[k])
      <4>1. i \in 0..Len(doc) /\ i # Missing /\ Missing \notin 1..Len(doc)
        BY <2>4 DEF Missing, IsDocument
      <4> QED
        BY <2>4, <2>8, <4>1, ValueIs
    <3>2. QueryChildren(node, query[k], stop).answer = Null
      BY <1>1, <2>4, <2>6, <2>8, <3>1, KeyIsMissing
    <3> QED
      BY <1>1, <2>6, <3>2 DEF root
  <2> QED
    BY <2>7, <2>8
<1> QED
  BY <1>7, <1>8

-----------------------------------------------------------------------------
(* The path of a query. *)

\* Every cut of a text is a text, and there is a first one.
LEMMA ComponentsAreTexts ==
    ASSUME NEW s \in Texts
    PROVE  Components(s) \in Seq(Texts) /\ Len(Components(s)) \in Nat \ {0}
<1> DEFINE last == Len(s) + 1
<1>1. s \in Seq(Pieces) /\ Len(s) \in Nat /\ last \in Len(s)..(Len(s) + 1)
  BY LenProperties DEF Texts
<1>2. PICK rest :
         /\ CutUpTo(s, ".", last) = rest[1]
         /\ \A i \in (last + 1)..(Len(s) + 2) : rest[i] = <<>>
         /\ \A i \in 1..last :
              rest[i] = <<SubSeq(s, i, ElementEnd(s, ".", i) - 1)>>
                          \o rest[ElementEnd(s, ".", i) + 1]
  <2> HIDE DEF last
  <2> QED
    BY <1>1, CutLoop
<1> DEFINE n == Len(s) + 2
           Good(i) == \A j \in i..n : rest[j] \in Seq(Texts)
           G == {i \in 1..n : Good(i)}
<1>3. ASSUME NEW i \in 1..last
      PROVE  /\ ElementEnd(s, ".", i) + 1 \in (i + 1)..n
             /\ SubSeq(s, i, ElementEnd(s, ".", i) - 1) \in Texts
  <2>1. ElementEnd(s, ".", i) \in i..(Len(s) + 1)
    BY <1>1, ElementEndIs
  <2>2. \A j \in i..(ElementEnd(s, ".", i) - 1) : s[j] \in Pieces
    BY <1>1, <2>1, ElementOfSeq
  <2>3. ElementEnd(s, ".", i) - 1 \in Int /\ i \in Int
    BY <1>1, <2>1
  <2>4. SubSeq(s, i, ElementEnd(s, ".", i) - 1) \in Seq(Pieces)
    BY <2>2, <2>3, SubSeqProperties
  <2> QED
    BY <1>1, <2>1, <2>4 DEF Texts
<1>4. n \in G
  <2>1. n \in 1..n /\ n \in (last + 1)..(Len(s) + 2) /\ \A j \in n..n : j = n
    BY <1>1
  <2>2. rest[n] = <<>>
    BY <1>2, <2>1
  <2>3. <<>> \in Seq(Texts)
    OBVIOUS
  <2>4. \A j \in n..n : rest[j] \in Seq(Texts)
    <3> HIDE DEF n
    <3> QED
      BY <2>1, <2>2, <2>3
  <2> QED
    <3> HIDE DEF n
    <3> QED
      BY <2>1, <2>4
<1>5. ASSUME NEW i \in 1..(n - 1), i + 1 \in G
      PROVE  i \in G
  <2>1. i \in 1..last /\ i \in 1..n
    BY <1>1
  <2>2. rest[i] = <<SubSeq(s, i, ElementEnd(s, ".", i) - 1)>> \o rest[ElementEnd(s, ".", i) + 1]
    BY <1>2, <2>1
  <2>3. rest[ElementEnd(s, ".", i) + 1] \in Seq(Texts)
    BY <1>3, <1>5, <2>1
  <2>4. <<SubSeq(s, i, ElementEnd(s, ".", i) - 1)>> \in Seq(Texts)
    BY <1>3, <2>1
  <2>5. rest[i] \in Seq(Texts)
    BY <2>2, <2>3, <2>4, ConcatProperties
  <2>6. \A j \in i..n : j = i \/ j \in (i + 1)..n
    BY <1>1
  <2> QED
    BY <1>5, <2>1, <2>5, <2>6
<1>6. rest[1] \in Seq(Texts) /\ rest[ElementEnd(s, ".", 1) + 1] \in Seq(Texts)
  <2>1. 1 \in G
    <3>1. n \in Nat \ {0} /\ 1 \in 1..n
      BY <1>1
    <3> HIDE DEF G, n
    <3> QED
      BY <1>4, <1>5, <3>1, Downward
  <2>2. 1 \in 1..last /\ 1 \in 1..n
    BY <1>1
  <2>3. ElementEnd(s, ".", 1) + 1 \in 1..n
    BY <1>1, <1>3, <2>2
  <2> QED
    BY <2>1, <2>2, <2>3
<1>7. Len(rest[1]) = 1 + Len(rest[ElementEnd(s, ".", 1) + 1])
  <2>1. 1 \in 1..last
    BY <1>1
  <2>2. rest[1] = <<SubSeq(s, 1, ElementEnd(s, ".", 1) - 1)>> \o rest[ElementEnd(s, ".", 1) + 1]
    BY <1>2, <2>1
  <2> DEFINE x == <<SubSeq(s, 1, ElementEnd(s, ".", 1) - 1)>>
  <2>3. x \in Seq(Texts) /\ Len(x) = 1
    BY <1>3, <2>1
  <2> HIDE DEF x
  <2>4. Len(x \o rest[ElementEnd(s, ".", 1) + 1]) = Len(x) + Len(rest[ElementEnd(s, ".", 1) + 1])
    BY <1>6, <2>3, ConcatProperties
  <2> QED
    BY <2>2, <2>3, <2>4 DEF x
<1>8. Components(s) = rest[1]
  BY <1>2 DEF Components
<1>9. Len(rest[ElementEnd(s, ".", 1) + 1]) \in Nat
  BY <1>6, LenProperties
<1> QED
  BY <1>6, <1>7, <1>8, <1>9

\* A text without a dot is a single component.
LEMMA PlainNameIsComponent ==
    ASSUME NEW s \in Texts, Plain(s)
    PROVE  Components(s) = <<s>>
<1> DEFINE last == Len(s) + 1
<1>1. s \in Seq(Pieces) /\ Len(s) \in Nat /\ last \in Len(s)..(Len(s) + 1)
  BY LenProperties DEF Texts
<1>2. PICK rest :
         /\ CutUpTo(s, ".", last) = rest[1]
         /\ \A i \in (last + 1)..(Len(s) + 2) : rest[i] = <<>>
         /\ \A i \in 1..last :
              rest[i] = <<SubSeq(s, i, ElementEnd(s, ".", i) - 1)>>
                          \o rest[ElementEnd(s, ".", i) + 1]
  <2> HIDE DEF last
  <2> QED
    BY <1>1, CutLoop
<1>3. ElementEnd(s, ".", 1) = Len(s) + 1
  <2>1. 1 \in 1..(Len(s) + 1) /\ Len(s) + 1 \in 1..(Len(s) + 1)
    BY <1>1
  <2>2. \A j \in 1..(Len(s) + 1 - 1) : s[j] # "."
    BY <1>1 DEF Plain
  <2> QED
    BY <1>1, <2>1, <2>2, ElementEndIs
<1>4. /\ Len(s) + 1 + 1 \in (last + 1)..(Len(s) + 2) /\ 1 \in 1..last
      /\ Len(s) + 1 - 1 = Len(s)
  BY <1>1
<1>5. rest[1] = <<SubSeq(s, 1, Len(s))>> \o <<>>
  <2> DEFINE e == ElementEnd(s, ".", 1)
  <2> HIDE DEF last
  <2>1. rest[1] = <<SubSeq(s, 1, e - 1)>> \o rest[e + 1]
    BY <1>2, <1>4
  <2>2. e = Len(s) + 1
    BY <1>3
  <2> HIDE DEF e
  <2>3. e - 1 = Len(s) /\ rest[e + 1] = <<>>
    BY <1>2, <1>4, <2>2
  <2> QED
    BY <2>1, <2>3
<1>6. SubSeq(s, 1, Len(s)) = s
  BY <1>1, SubSeqFull
<1>7. <<s>> \o <<>> = <<s>>
  BY ConcatEmptySeq
<1> QED
  BY <1>2, <1>5, <1>6, <1>7 DEF Components

\* A query for any name, whatever stands before and behind it,
AnyQuery == [name : Texts, before : Seq(Texts), after : Seq(Texts)]

\* has a path of at least one component: the path as it is written, if the name
\* has no dot.
LEMMA PathsAreLists ==
    ASSUME NEW q \in AnyQuery
    PROVE  /\ Len(PathOf(q)) \in Nat \ {0}
           /\ Len(WrittenPath(q)) \in Nat \ {0}
           /\ Plain(q.name) => PathOf(q) = WrittenPath(q)
<1> DEFINE b == q.before
           e == q.after
           one == <<q.name>>
<1>1. q.name \in Texts /\ b \in Seq(Texts) /\ e \in Seq(Texts)
  BY DEF AnyQuery
<1>2. ASSUME NEW c \in Seq(Texts), Len(c) \in Nat \ {0}
      PROVE  Len(b \o c \o e) \in Nat \ {0}
  <2> DEFINE y == b \o c
  <2> HIDE DEF b, e
  <2>1. y \in Seq(Texts) /\ Len(y) = Len(b) + Len(c)
    BY <1>1, <1>2, ConcatProperties
  <2>2. Len(b) \in Nat /\ Len(e) \in Nat
    BY <1>1, LenProperties
  <2> HIDE DEF y
  <2>3. Len(y \o e) = Len(y) + Len(e)
    BY <1>1, <2>1, ConcatProperties
  <2>4. Len(y \o e) \in Nat \ {0}
    BY <1>2, <2>1, <2>2, <2>3
  <2> QED
    BY <2>4 DEF y
<1>3. Len(PathOf(q)) \in Nat \ {0}
  <2>1. Components(q.name) \in Seq(Texts) /\ Len(Components(q.name)) \in Nat \ {0}
    BY <1>1, ComponentsAreTexts
  <2> QED
    BY <1>2, <2>1 DEF PathOf
<1>4. Len(WrittenPath(q)) \in Nat \ {0}
  <2>1. one \in Seq(Texts) /\ Len(one) \in Nat \ {0}
    BY <1>1
  <2> HIDE DEF one
  <2>2. Len(b \o one \o e) \in Nat \ {0}
    BY <1>2, <2>1
  <2> QED
    BY <2>2 DEF WrittenPath, one
<1>5. Plain(q.name) => PathOf(q) = WrittenPath(q)
  BY <1>1, PlainNameIsComponent DEF PathOf, WrittenPath
<1> QED
  BY <1>3, <1>4, <1>5

-----------------------------------------------------------------------------
(* The look-ups of icmpd. *)

\* What has been asked has been asked of the tree of the document.
ConfInv ==
    /\ document \in Documents
    /\ parsed => tree = WalkThrough(document)
    /\ IF asked = NoQuery THEN result = Null /\ items = NoItems
       ELSE /\ parsed /\ asked \in AnyQuery
            /\ result = Query(WalkThrough(document), PathOf(asked))
            /\ items = IF result.kind = "found" THEN Split(result.text) ELSE NoItems

LEMMA ConfInvariance == ConfSpec => []ConfInv
<1>1. ConfInit => ConfInv
  BY DEF ConfInit, ConfInv
<1>2. ASSUME ConfInv, Parse
      PROVE  ConfInv'
  BY <1>2 DEF ConfInv, Parse
<1>3. ASSUME ConfInv, NEW who \in Names, NEW format \in Formats, Ask(who, format)
      PROVE  ConfInv'
  <2>1. who \in Texts /\ format.before \in Seq(Texts) /\ format.after \in Seq(Texts)
    BY ConfigurationAssumption
  <2>2. asked' \in AnyQuery /\ asked' # NoQuery
    <3>1. asked' = [name |-> who, before |-> format.before, after |-> format.after]
      BY <1>3 DEF Ask
    <3>2. who # NoString
      BY <2>1, TextIsNamed
    <3> QED
      BY <2>1, <3>1, <3>2 DEF AnyQuery, NoQuery
  <2>3. /\ parsed /\ parsed' = parsed /\ tree' = tree /\ document' = document
        /\ result' = Query(tree, PathOf(asked'))
        /\ items' = IF result'.kind = "found" THEN Split(result'.text) ELSE NoItems
    BY <1>3 DEF Ask
  <2> QED
    BY <1>3, <2>2, <2>3 DEF ConfInv
<1>4. ASSUME ConfInv, UNCHANGED confVars
      PROVE  ConfInv'
  BY <1>4 DEF ConfInv, confVars
<1>5. ConfInv /\ [ConfNext]_confVars => ConfInv'
  BY <1>2, <1>3, <1>4 DEF ConfNext
<1> QED
  BY <1>1, <1>5, PTL DEF ConfSpec

\* What a look-up returns is of one of the kinds its callers tell apart, and a
\* list that it is cut into has an element.
THEOREM AnswersOKCorrect == ConfSpec => []AnswersOK
<1>1. ASSUME ConfInv
      PROVE  AnswersOK
  <2>1. items.kind = "list" => items.list # <<>>
    BY <1>1 DEF ConfInv, Split, Items, NoItems
  <2>2. CASE asked = NoQuery
    BY <1>1, <2>1, <2>2 DEF ConfInv, Null, AnswersOK
  <2>3. CASE asked # NoQuery
    <3>1. IsDocument(document) /\ Len(PathOf(asked)) \in Nat \ {0}
      BY <1>1, <2>3, ConfigurationAssumption, PathsAreLists DEF ConfInv
    <3>2. Query(WalkThrough(document), PathOf(asked)).kind \in {"found", "null", "crash"}
      BY <3>1, QueryKinds
    <3> QED
      BY <1>1, <2>1, <2>3, <3>2 DEF ConfInv, AnswersOK
  <2> QED
    BY <2>2, <2>3
<1> QED
  BY <1>1, ConfInvariance, PTL

\* A scalar or a list under the components of a query is found and cut back into
\* its elements, at any depth of any document; a name with a dot is as many
\* components as it has parts.
THEOREM FindsSettingCorrect == ConfSpec => []FindsSetting
<1>1. ASSUME ConfInv
      PROVE  FindsSetting
  <2> DEFINE path == PathOf(asked)
             i == Way(document, path)[Len(path)]
             texts == [n \in 1..Len(Elements(document, i)) |->
                          document[Elements(document, i)[n]].text]
  <2> SUFFICES ASSUME asked # NoQuery, Unambiguous(document, path),
                      i # Missing, Elements(document, i) # <<>>, IsList(document, i),
                      \A n \in 1..Len(texts) : Plain(texts[n]), texts[Len(texts)] # <<>>
               PROVE  items = Items(texts)
    BY DEF FindsSetting
  <2>1. /\ IsDocument(document) /\ asked \in AnyQuery
        /\ result = Query(WalkThrough(document), PathOf(asked))
        /\ items = IF result.kind = "found" THEN Split(result.text) ELSE NoItems
    BY <1>1, ConfigurationAssumption DEF ConfInv
  <2>2. Len(path) \in Nat \ {0} /\ PathOf(asked) = path
    BY <2>1, PathsAreLists
  <2> HIDE DEF path
  <2>3. /\ texts \in Seq(Texts) /\ texts # <<>>
        /\ Query(WalkThrough(document), path) = Found(Join(texts))
    <3> HIDE DEF i
    <3>1. i = Way(document, path)[Len(path)]
      BY DEF i
    <3> QED
      BY <2>1, <2>2, <3>1, QueryFindsList
  <2>4. result.kind = "found" /\ result.text = Join(texts)
    BY <2>1, <2>2, <2>3 DEF Found
  <2> HIDE DEF texts
  <2>5. \A n \in 1..Len(texts) : \A j \in 1..Len(texts[n]) : texts[n][j] # Colon
    BY DEF Plain
  <2>6. Split(Join(texts)) = Items(texts)
    BY <2>3, <2>5, SplitUndoesJoin DEF Texts
  <2>7. items = Items(texts)
    BY <2>1, <2>4, <2>6
  <2> QED
    BY <2>7 DEF texts
<1> QED
  BY <1>1, ConfInvariance, PTL

\* Where the components of a query lead to nothing, or to no scalar and no list with
\* an element, nothing is found: a setting under a key with a dot never is.
THEOREM FindsNothingElseCorrect == ConfSpec => []FindsNothingElse
<1>1. ASSUME ConfInv
      PROVE  FindsNothingElse
  <2> DEFINE path == PathOf(asked)
  <2> SUFFICES ASSUME asked # NoQuery, Unambiguous(document, path),
                      \A k \in 0..Len(path) : Way(document, path)[k] # Missing =>
                          IsList(document, Way(document, path)[k]),
                      Way(document, path)[Len(path)] # Missing =>
                          Elements(document, Way(document, path)[Len(path)]) = <<>>
               PROVE  result = Null
    BY DEF FindsNothingElse
  <2>1. /\ IsDocument(document) /\ asked \in AnyQuery
        /\ result = Query(WalkThrough(document), PathOf(asked))
    BY <1>1, ConfigurationAssumption DEF ConfInv
  <2>2. Len(path) \in Nat \ {0} /\ PathOf(asked) = path
    BY <2>1, PathsAreLists
  <2> HIDE DEF path
  <2>3. Query(WalkThrough(document), path) = Null
    BY <2>1, <2>2, QueryFindsNull
  <2> QED
    BY <2>1, <2>2, <2>3
<1> QED
  BY <1>1, ConfInvariance, PTL

\* Only a list with an element, or a mapping with a key, that is no scalar lets a
\* look-up follow a missing string.
THEOREM CrashNeedsNestedListCorrect == ConfSpec => []CrashNeedsNestedList
<1>1. ASSUME ConfInv
      PROVE  CrashNeedsNestedList
  <2> SUFFICES ASSUME result = Crash,
                      \A i \in 1..Len(document) :
                         /\ KeysAreTexts(document, i)
                         /\ document[i].kind = "sequence" => IsList(document, i)
               PROVE  FALSE
    BY DEF CrashNeedsNestedList
  <2>1. asked # NoQuery
    BY <1>1 DEF ConfInv, Null, Crash
  <2>2. /\ IsDocument(document) /\ asked \in AnyQuery
        /\ result = Query(WalkThrough(document), PathOf(asked))
    BY <1>1, <2>1, ConfigurationAssumption DEF ConfInv
  <2>3. Len(PathOf(asked)) \in Nat \ {0}
    BY <2>2, PathsAreLists
  <2>4. Query(WalkThrough(document), PathOf(asked)).kind \in {"found", "null"}
    BY <2>2, <2>3, QueryDoesNotCrash
  <2> QED
    BY <2>2, <2>4 DEF Crash
<1> QED
  BY <1>1, ConfInvariance, PTL
=============================================================================
