--------------------------- MODULE Configuration ---------------------------
(***************************************************************************)
(* What icmpd reads from its configuration file: the tree of strings that  *)
(* lib/yaml.c builds from a YAML document, the look-up of a dotted path in *)
(* it (lib/string_tree.c, lib/conf_file.c), and the cutting of the result  *)
(* (SplitString).                                                          *)
(*                                                                         *)
(* A string is a sequence of pieces; "." and ":" are pieces of their own.  *)
(* libyaml hands over a document as its nodes, by numbers; the first is    *)
(* the root.  The recursions of the code are recursive functions: over the *)
(* nodes of a document, or over the levels of the tree.                    *)
(***************************************************************************)
EXTENDS SplitString

CONSTANTS
    Pieces,      \* what strings are made of
    Documents,   \* documents icmpd may be started with
    Names,       \* what is filled into a query: its "%s"
    Formats      \* queries, as what stands before and after the name

\* Nodes of a document.  They refer to what they contain by its number.
Scalar(s)     == [kind |-> "scalar", text |-> s]
Sequence(s)   == [kind |-> "sequence", items |-> s]
Mapping(s)    == [kind |-> "mapping", pairs |-> s]

Texts         == Seq(Pieces)
Plain(s)      == \A i \in 1..Len(s) : s[i] \notin {Colon, "."}

\* No node contains itself, so the nodes can be numbered in such a way that
\* those a node contains come after it.
IsDocument(doc) ==
    /\ Len(doc) \in Nat \ {0}
    /\ DOMAIN doc = 1..Len(doc)
    /\ \A i \in 1..Len(doc) :
          LET later == (i + 1)..Len(doc)
          IN  doc[i] \in [kind : {"scalar"}, text : Texts]
                           \union [kind : {"sequence"}, items : Seq(later)]
                           \union [kind : {"mapping"}, pairs : Seq(later \X later)]

\* The program says NULL for a string that is missing; no text is that.
ASSUME ConfigurationAssumption ==
    /\ "NULL" \notin Pieces
    /\ \A doc \in Documents : IsDocument(doc)
    /\ Names \subseteq Texts
    /\ \A format \in Formats :
          /\ format.before \in Seq(Texts) /\ format.after \in Seq(Texts)
          /\ \A i \in 1..Len(format.before) : Plain(format.before[i])
          /\ \A i \in 1..Len(format.after) : Plain(format.after[i])

\* A node of the string tree.  A string may be missing.
NoString      == <<"NULL">>
Node(s, c)    == [string |-> s, child |-> c]
Fresh         == Node(NoString, <<>>)
Root          == Node(<<".">>, <<>>)

VARIABLES
    document,    \* the file
    parsed,      \* whether it has been read
    tree,        \* string_tree_root
    asked,       \* the name and the format of a query
    result,      \* what the query returned
    items        \* what ic_util_split_string() made of it

confVars == <<document, parsed, tree, asked, result, items>>

NoQuery == [name |-> NoString, before |-> <<>>, after |-> <<>>]

\* What a query can return: a string, NULL, or nothing because it has
\* followed a string that is missing.
Found(s) == [kind |-> "found", text |-> s]
Null     == [kind |-> "null", text |-> <<>>]
Crash    == [kind |-> "crash", text |-> <<>>]

-----------------------------------------------------------------------------
(* Building the tree: walk_through_yaml().  What a node contains has been  *)
(* walked through already: it leaves the children walked[i].               *)

\* Fault: the string of a node is always set on the node itself.
HangOver(doc, walked, i, at) ==
    CASE doc[i].kind = "scalar" -> Node(doc[i].text, at.child)
      [] doc[i].kind = "mapping" -> Node(at.string, walked[i])
      [] doc[i].kind = "sequence" /\ doc[i].items = <<>> -> at
      [] doc[i].kind = "sequence" /\ doc[i].items # <<>> -> Node(at.string, walked[i])

\* A scalar names its node, or becomes its only child if it has a name.  An
\* empty sequence leaves no trace.
Hang(doc, walked, i, at) ==
    CASE doc[i].kind = "scalar" /\ at.string = NoString -> Node(doc[i].text, at.child)
      [] doc[i].kind = "scalar" /\ at.string # NoString ->
            Node(at.string, <<Node(doc[i].text, <<>>)>>)
      [] doc[i].kind = "mapping" -> Node(at.string, walked[i])
      [] doc[i].kind = "sequence" /\ doc[i].items = <<>> -> at
      [] doc[i].kind = "sequence" /\ doc[i].items # <<>> -> Node(at.string, walked[i])

\* Fault: a list has a node too many.
ContentsLonger(doc, walked, i) ==
    CASE doc[i].kind = "scalar" -> <<>>
      [] doc[i].kind = "mapping" ->
            [p \in 1..Len(doc[i].pairs) |->
                Hang(doc, walked, doc[i].pairs[p][2],
                     Hang(doc, walked, doc[i].pairs[p][1], Fresh))]
      [] doc[i].kind = "sequence" ->
            Append([p \in 1..Len(doc[i].items) |-> Hang(doc, walked, doc[i].items[p], Fresh)],
                   Fresh)

\* A pair is a child that first its key and then its value is hung on; an item
\* is a child of its own.
Contents(doc, walked, i) ==
    CASE doc[i].kind = "scalar" -> <<>>
      [] doc[i].kind = "mapping" ->
            [p \in 1..Len(doc[i].pairs) |->
                Hang(doc, walked, doc[i].pairs[p][2],
                     Hang(doc, walked, doc[i].pairs[p][1], Fresh))]
      [] doc[i].kind = "sequence" ->
            [p \in 1..Len(doc[i].items) |-> Hang(doc, walked, doc[i].items[p], Fresh)]

WalkThrough(doc) ==
    LET walked[i \in 1..Len(doc)] == Contents(doc, walked, i)
    IN  Hang(doc, walked, 1, Root)

-----------------------------------------------------------------------------
(* Looking a path up: query_string_tree().  The second result says whether *)
(* the caller is to stop its search.                                       *)

Answer(a, stop) == [answer |-> a, stop |-> stop]

\* The path ends here: the strings of the children, if they are leaves.
Leaves(node) ==
    LET inner == {i \in 1..Len(node.child) : node.child[i].child # <<>>}
        bare  == {i \in 1..Len(node.child) : node.child[i].string = NoString}
    IN  IF node.child = <<>> THEN Null
        ELSE IF \E i \in inner : \A j \in bare : i <= j THEN Null
        ELSE IF bare # {} THEN Crash
        ELSE Found(Join([i \in 1..Len(node.child) |-> node.child[i].string]))

\* Fault: the search gives up after the first child that does not fit.
QueryFirst(node, deeper, stop) ==
    IF node.child = <<>> THEN Answer(Null, stop) ELSE deeper[node.child[1]]

\* The children of a node are searched, in their order; deeper has the answer of
\* each.  A child that has not stopped the search lets it go on, here and, after
\* the last child, in the caller; a node without children stops it.
QueryChildren(node, deeper, stop) ==
    LET Ends(i) == deeper[node.child[i]].answer # Null \/ deeper[node.child[i]].stop
        ends    == {i \in 1..Len(node.child) : Ends(i)}
    IN  IF ends = {} THEN Answer(Null, IF node.child = <<>> THEN stop ELSE FALSE)
        ELSE deeper[node.child[CHOOSE i \in ends : \A j \in ends : i <= j]]

QueryNode(node, path, k, deeper) ==
    IF node.string = NoString THEN Answer(Crash, TRUE)
    ELSE IF node.string # path[k] THEN Answer(Null, FALSE)
    ELSE IF k = Len(path) THEN Answer(Leaves(node), TRUE)
    ELSE QueryChildren(node, deeper, TRUE)

ChildrenOf(node) == {node.child[i] : i \in 1..Len(node.child)}

\* string_tree_query(): the nodes at depth k are asked for what is left of the
\* path from its k-th component on.
Query(root, path) ==
    LET level[k \in 1..Len(path)] ==
            IF k = 1 THEN ChildrenOf(root) ELSE UNION {ChildrenOf(n) : n \in level[k - 1]}
        query[k \in 1..Len(path)] ==
            [node \in level[k] |-> QueryNode(node, path, k, query[k + 1])]
    IN  QueryChildren(root, query[1], FALSE).answer

\* The components of a path: cut at every dot.
Components(s) == CutUpTo(s, ".", Len(s) + 1)

\* ic_conf_file_query(".<before>.%s.<after>", name)
PathOf(query) == query.before \o Components(query.name) \o query.after

-----------------------------------------------------------------------------
ConfInit ==
    /\ document \in Documents
    /\ parsed = FALSE
    /\ tree = Root
    /\ asked = NoQuery
    /\ result = Null
    /\ items = NoItems

Parse ==
    /\ ~parsed
    /\ parsed' = TRUE
    /\ tree' = WalkThrough(document)
    /\ UNCHANGED <<document, asked, result, items>>

Ask(who, format) ==
    /\ parsed
    /\ asked = NoQuery
    /\ asked' = [name |-> who, before |-> format.before, after |-> format.after]
    /\ result' = Query(tree, PathOf(asked'))
    /\ items' = IF result'.kind = "found" THEN Split(result'.text) ELSE NoItems
    /\ UNCHANGED <<document, parsed, tree>>

ConfNext == Parse \/ \E who \in Names, format \in Formats : Ask(who, format)

ConfSpec == ConfInit /\ [][ConfNext]_confVars

-----------------------------------------------------------------------------
(* The same questions asked of the document. *)

Missing == 0

\* The value that mapping i has for a key.
ValueOf(doc, i, key) ==
    LET hits == {p \in 1..Len(doc[i].pairs) : doc[doc[i].pairs[p][1]] = Scalar(key)}
    IN  IF i = Missing \/ doc[i].kind # "mapping" \/ hits = {} THEN Missing
        ELSE doc[i].pairs[CHOOSE p \in hits : TRUE][2]

\* The nodes on the way along a path of keys, from the root.
Way(doc, path) ==
    LET at[k \in 0..Len(path)] ==
            IF k = 0 THEN 1 ELSE ValueOf(doc, at[k - 1], path[k])
    IN  at

\* The path as it is written: a name is one key, dots or no.
WrittenPath(query) == query.before \o <<query.name>> \o query.after

KeysAreTexts(doc, i) ==
    doc[i].kind = "mapping" =>
        \A p \in 1..Len(doc[i].pairs) : doc[doc[i].pairs[p][1]].kind = "scalar"

KeysDiffer(doc, i) ==
    doc[i].kind = "mapping" =>
        \A p, q \in 1..Len(doc[i].pairs) :
            doc[doc[i].pairs[p][1]] = doc[doc[i].pairs[q][1]] => p = q

Unambiguous(doc, path) ==
    \A k \in 0..Len(path) :
        Way(doc, path)[k] # Missing =>
            KeysAreTexts(doc, Way(doc, path)[k]) /\ KeysDiffer(doc, Way(doc, path)[k])

\* A scalar is the list of itself.  A mapping to nothing but empty values is the
\* list of its keys.
Elements(doc, i) ==
    CASE doc[i].kind = "scalar"   -> <<i>>
      [] doc[i].kind = "sequence" -> doc[i].items
      [] doc[i].kind = "mapping"  ->
            IF \A p \in 1..Len(doc[i].pairs) :
                  doc[doc[i].pairs[p][2]] \in {Sequence(<<>>), Mapping(<<>>)}
            THEN [p \in 1..Len(doc[i].pairs) |-> doc[i].pairs[p][1]]
            ELSE <<>>

IsList(doc, i) == \A n \in 1..Len(Elements(doc, i)) : doc[Elements(doc, i)[n]].kind = "scalar"

\* Answers are of the kinds the callers tell apart.
AnswersOK ==
    /\ result.kind \in {"found", "null", "crash"}
    /\ items.kind = "list" => items.list # <<>>

\* A scalar or a list that the file has under the components of a query, one
\* mapping inside the other, is found and cut back into exactly the elements
\* that were written, however deep it is and whatever stands before it in the
\* file, if its elements have no colon and the last one is not empty.  The name
\* in a query counts as one component only if it has no dot (string_tree.c:97).
FindsSetting ==
    LET path  == PathOf(asked)
        node  == Way(document, path)[Len(path)]
        texts == [n \in 1..Len(Elements(document, node)) |->
                     document[Elements(document, node)[n]].text]
    IN  (/\ asked # NoQuery /\ Unambiguous(document, path)
         /\ node # Missing /\ Elements(document, node) # <<>> /\ IsList(document, node)
         /\ \A n \in 1..Len(texts) : Plain(texts[n])
         /\ texts[Len(texts)] # <<>>)
            => items = Items(texts)

\* Where the components of a query lead to nothing, or to no scalar and no list
\* with an element, nothing is found.  So a setting under a key with a dot never
\* is: the same string in a query is two components.  An empty scalar is found,
\* as the empty string.
FindsNothingElse ==
    LET path == PathOf(asked)
        way  == Way(document, path)
        node == way[Len(path)]
    IN  (/\ asked # NoQuery /\ Unambiguous(document, path)
         /\ \A k \in 0..Len(path) : way[k] # Missing => IsList(document, way[k])
         /\ node # Missing => Elements(document, node) = <<>>)
            => result = Null

\* "Not found" (string_tree.c:155) and "commands.%s.acl is not configured"
\* (subcmd_start.c:394): a look-up that finds nothing was not for a setting that
\* the file has, as a scalar or a list, under the very name that was asked for.
NotFoundIsAbsent ==
    LET path == WrittenPath(asked)
        node == Way(document, path)[Len(path)]
    IN  (/\ asked # NoQuery /\ Unambiguous(document, path)
         /\ node # Missing /\ Elements(document, node) # <<>> /\ IsList(document, node))
            => result # Null

\* A look-up follows a missing string only where the file has a list with an
\* element, or a mapping with a key, that is no scalar.
CrashNeedsNestedList ==
    result = Crash =>
        \E i \in 1..Len(document) :
            \/ ~KeysAreTexts(document, i)
            \/ document[i].kind = "sequence" /\ ~IsList(document, i)
=============================================================================
