--------------------------- MODULE MCIcmpService ---------------------------
(* A small instance of IcmpService for TLC. *)
EXTENDS IcmpServiceRefinement, TLC

CONSTANTS c1, c2, c3, ls, cat, top, at, big, pl

Absent   == [kind |-> "absent", items |-> {}]
Wildcard == [kind |-> "wildcard", items |-> {}]
Empty    == [kind |-> "empty", items |-> {}]
List(S)  == [kind |-> "list", items |-> S]

MCPrefixOf == {<<pl, ls>>}

MCPolicy(own, a, b) ==
    [local |-> Ordinary, own |-> own, host |-> Absent,
     acl |-> (ls :> a @@ cat :> b)]

\* ls is granted, then denied; cat is denied, then fails: a restart may turn
\* one configuration into the other.
MCPolicies ==
    { MCPolicy(List({pl}), List({"dom0"}), Absent),
      MCPolicy(Wildcard, List({"dom1"}), Empty) }

\* ls, top, which never ends, at, which ends its output but does not exit, and
\* big, whose output is too long, are granted and cat is denied; a restart may
\* find that all checks fail.
MCLivePrefixOf == {<<pl, ls>>, <<pl, top>>, <<pl, at>>, <<pl, big>>}
MCLivePolicy(acl) == [local |-> Ordinary, own |-> List({pl}), host |-> Absent, acl |-> acl]

MCLivePolicies ==
    { MCLivePolicy([c \in {ls, cat, top, at, big} |-> Absent]),
      MCLivePolicy([c \in {ls, cat, top, at, big} |-> Empty]) }

Symmetry == Permutations(Clients)
=============================================================================
