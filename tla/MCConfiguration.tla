-------------------------- MODULE MCConfiguration --------------------------
(* Small documents for Configuration, written as nested values. *)
EXTENDS Configuration

a == <<"a">>
ab == <<"a", ":", "b">>
Host == <<"host">>
Dom0 == <<"dom0">>
Dotted == <<"dom", ".", "monitor">>
Monitor == <<"monitor">>
CommandsKey == <<"commands">>
Acl == <<"acl">>

MCPieces == {"a", "b", ":", ".", "host", "dom0", "dom", "monitor", "commands", "acl"}

\* The nodes of a nested value whose first node gets the number n.
RECURSIVE Number(_, _), NumberAll(_, _)
Number(value, n) ==
    CASE value.kind = "scalar" -> <<value>>
      [] value.kind = "sequence" ->
            LET all == NumberAll(value.items, n + 1)
            IN  <<Sequence(all.at)>> \o all.nodes
      [] value.kind = "mapping" ->
            LET flat == [i \in 1..(2 * Len(value.pairs)) |->
                            value.pairs[(i + 1) \div 2][2 - (i % 2)]]
                all  == NumberAll(flat, n + 1)
            IN  <<Mapping([p \in 1..Len(value.pairs) |-> <<all.at[2 * p - 1], all.at[2 * p]>>])>>
                    \o all.nodes
NumberAll(values, n) ==
    IF values = <<>> THEN [at |-> <<>>, nodes |-> <<>>]
    ELSE LET first == Number(Head(values), n)
             rest  == NumberAll(Tail(values), n + Len(first))
         IN  [at |-> <<n>> \o rest.at, nodes |-> first \o rest.nodes]

SomeKeys == {Monitor, CommandsKey}
Strings == {<<>>, a, ab}

Scalars == {Scalar(s) : s \in Strings}
Lists   == {Sequence(<<>>)} \union {Sequence(<<x>>) : x \in Scalars}
             \union {Sequence(<<x, y>>) : x, y \in Scalars}
Nested  == {Sequence(<<Sequence(<<>>)>>), Sequence(<<Scalar(a), Sequence(<<>>)>>),
            Sequence(<<Sequence(<<Scalar(a)>>), Scalar(a)>>),
            Mapping(<<<<Scalar(a), Scalar(a)>>>>), Mapping(<<<<Scalar(a), Sequence(<<>>)>>>>),
            Mapping(<<<<Scalar(a), Mapping(<<>>)>>, <<Scalar(ab), Sequence(<<>>)>>>>)}
Values  == Scalars \union Lists \union Nested
Few     == {Scalar(a), Sequence(<<>>), Mapping(<<>>)}

Pair(k, v) == <<Scalar(k), v>>

Containers ==
    {Mapping(<<Pair(k, v)>>) : k \in SomeKeys, v \in Values}
      \union {Mapping(<<Pair(k, v), Pair(l, w)>>) : k, l \in SomeKeys, v \in Few, w \in Values}
      \union {Mapping(<<>>), Scalar(a), Sequence(<<Scalar(Monitor), Sequence(<<>>)>>)}

FewContainers ==
    {Mapping(<<Pair(Monitor, Sequence(<<Scalar(a), Scalar(<<"b">>)>>))>>),
     Mapping(<<>>), Sequence(<<Sequence(<<>>)>>)}

\* Documents with another root, keys that are no texts, and settings that are
\* nested deeper, or less deep.
Others ==
    {Scalar(a), Scalar(Host), Sequence(<<>>), Sequence(<<Scalar(Host), Scalar(a)>>), Mapping(<<>>),
     Mapping(<<<<Sequence(<<>>), Scalar(Host)>>, Pair(Host, Scalar(a))>>),
     Mapping(<<<<Mapping(<<Pair(Monitor, Scalar(a))>>), Scalar(Host)>>>>),
     Mapping(<<Pair(Dotted, Mapping(<<Pair(Monitor, Scalar(a))>>))>>),
     Mapping(<<Pair(CommandsKey,
                    Mapping(<<Pair(Dotted, Mapping(<<Pair(Acl, Scalar(a))>>))>>))>>),
     Mapping(<<Pair(<<"dom">>,
                    Mapping(<<Pair(Monitor, Mapping(<<Pair(Monitor, Scalar(a))>>))>>))>>)}
      \union {Mapping(<<Pair(CommandsKey, Mapping(<<Pair(Host, w), Pair(Dom0, v)>>))>>) :
                 w \in FewContainers, v \in {Mapping(<<Pair(Acl, u)>>) : u \in Values}}
      \union {Mapping(<<Pair(Host, v)>>) : v \in Values}

MCDocuments ==
    {Number(v, 1) : v \in
       {Mapping(<<Pair(Host, v)>>) : v \in Containers}
         \union {Mapping(<<Pair(n, w), Pair(Dom0, v)>>) :
                    n \in {Host, Dom0, <<"dom">>}, w \in FewContainers, v \in Containers}
         \union Others}

MCNames == {Host, Dom0, Dotted}

Format(b, e) == [before |-> b, after |-> e]
MCFormats == {Format(<<>>, <<>>), Format(<<>>, <<Monitor>>), Format(<<>>, <<CommandsKey>>),
              Format(<<CommandsKey>>, <<Acl>>)}

\* What check_command_acl() asks for.
MCAclFormats == {Format(<<CommandsKey>>, <<Acl>>)}
=============================================================================
