---------------------------- MODULE SplitString ----------------------------
(***************************************************************************)
(* How a list of strings becomes one string and a list again: the look-up  *)
(* of a setting joins the strings of its list with colons                  *)
(* (lib/string_tree.c), and ic_util_split_string() cuts the result at its  *)
(* colons (lib/util.c).  A string is a sequence of pieces.                 *)
(***************************************************************************)
EXTENDS Naturals, Sequences

Colon == ":"

\* The loop that appends the strings of the children, seen from its end.
Join(list) ==
    LET joined[i \in 1..(Len(list) + 1)] ==
            IF i > Len(list) THEN <<>>
            ELSE IF i = Len(list) THEN list[i]
            ELSE list[i] \o <<Colon>> \o joined[i + 1]
    IN  joined[1]

\* strstr(), or strlen() if there is no delimiter: where the element at i ends.
ElementEnd(s, delim, i) ==
    CHOOSE e \in i..(Len(s) + 1) :
        /\ e = Len(s) + 1 \/ s[e] = delim
        /\ \A j \in i..(e - 1) : s[j] # delim

\* A loop that cuts out one element after the other, from each position it can
\* stand at; an element begins no later than at last.
CutUpTo(s, delim, last) ==
    LET rest[i \in 1..(Len(s) + 2)] ==
            IF i > last THEN <<>>
            ELSE <<SubSeq(s, i, ElementEnd(s, delim, i) - 1)>>
                     \o rest[ElementEnd(s, delim, i) + 1]
    IN  rest[1]

\* The loop of ic_util_split_string() ends when nothing is left, so a colon at
\* the end of the string begins no element.
Cut(s) == CutUpTo(s, Colon, Len(s))

NoItems  == [kind |-> "null", list |-> <<>>]
Items(s) == [kind |-> "list", list |-> s]

\* Fault: a string of no elements is a list of none.
SplitAnything(s) == Items(Cut(s))

\* No element at all is the NULL that its callers take for a failure.
Split(s) == IF Cut(s) = <<>> THEN NoItems ELSE Items(Cut(s))
=============================================================================
