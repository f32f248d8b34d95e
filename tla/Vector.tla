------------------------------- MODULE Vector -------------------------------
(***************************************************************************)
(* The growing arrays of src/lib/vector.c, in the two layouts their        *)
(* callers create: names of containers, constructed and destroyed one by   *)
(* one (src/lib/lxc.c), and objects that the vector allocates itself (the  *)
(* record of workers, the pieces of a message).  The budget is the table   *)
(* of entries; it grows by whole steps through realloc().                  *)
(***************************************************************************)
EXTENDS Integers, FiniteSets

CONSTANTS
    Values,      \* contents of an object: names, process ids
    Null, Junk,  \* a null pointer, and memory that was never written
    Blank,       \* an object nobody has set
    Step,        \* entries in a step of the budget
    MaxEntries   \* bound: entries in a vector

ASSUME VectorAssumption ==
    /\ Step \in Nat \ {0} /\ MaxEntries \in Nat
    /\ {Null, Junk, Blank} \intersect Values = {}
    /\ Null # Junk /\ Blank \notin {Null, Junk}

VARIABLES
    kind,     \* "names" or "objects"
    state,    \* "live", "destroyed", or "crashed" where the behaviour is undefined
    nr,       \* nr_vector
    cap,      \* budget_size, in entries
    table,    \* what budget points to: "null", "live" or "freed" memory
    slot,     \* the entries, up to nr
    live,     \* object buffers that are allocated
    rc,       \* result of the last call
    want,     \* history: what the caller has put where
    short     \* history: a vector with entries had no memory for more

vars == <<kind, state, nr, cap, table, slot, live, rc, want, short>>

Indices == 1..MaxEntries
Objects(s, n) == {i \in 1..n : s[i] \notin {Null, Junk}}

Init ==
    /\ kind \in {"names", "objects"}
    /\ state = "live" /\ nr = 0 /\ cap = 0 /\ table = "null"
    /\ slot = [i \in Indices |-> Junk]
    /\ live = 0 /\ rc = 0
    /\ want = [i \in Indices |-> Junk]
    /\ short = FALSE

-----------------------------------------------------------------------------
Result(r) ==
    /\ rc' = r
    /\ UNCHANGED <<kind, state, nr, cap, table, slot, live, want, short>>

Crash ==
    /\ state' = "crashed"
    /\ UNCHANGED <<kind, nr, cap, table, slot, live, rc, want, short>>

\* Fault: the budget is rounded down.
BudgetBelow(n) == (n \div Step) * Step

\* The budget of n entries.
Budget(n) == ((n + Step - 1) \div Step) * Step

\* Fault: realloc() is told one entry less than there are.
CarriedShort ==
    [i \in Indices |-> IF table = "live" /\ i < nr THEN slot[i] ELSE Junk]

\* The entries as init_budget() finds them: what was there, unless the pointer
\* to it has been lost.
Carried ==
    [i \in Indices |-> IF table = "live" /\ i <= nr THEN slot[i] ELSE Junk]

\* An expansion by n entries gets its budget.
Budgeted(n) ==
    /\ state = "live" /\ nr + n <= MaxEntries
    /\ table = "live" \/ (table = "null" /\ Budget(nr + n) # cap)

Grow(n) ==
    /\ nr' = nr + n
    /\ cap' = Budget(nr + n)
    /\ table' = "live"
    /\ rc' = 0
    /\ UNCHANGED <<kind, state, short>>

\* vector_increase_obj() of a list of names.  A name for which strdup() has no
\* memory becomes a null pointer, and the call succeeds.
AddName(name) ==
    /\ kind = "names"
    /\ Budgeted(1)
    /\ \E text \in {name, Null} :
          /\ slot' = [Carried EXCEPT ![nr + 1] = text]
          /\ live' = live + (IF text = Null THEN 0 ELSE 1)
    /\ want' = [want EXCEPT ![nr + 1] = name]
    /\ Grow(1)

\* vector_create() or vector_expand() by n objects.  (A vector that could not
\* be created is an empty one here.)
AddObjects(n) ==
    LET Blanks(s) == [i \in Indices |-> IF i \in (nr + 1)..(nr + n) THEN Blank ELSE s[i]]
    IN  /\ kind = "objects"
        /\ Budgeted(n)
        /\ slot' = Blanks(Carried)
        /\ want' = Blanks(want)
        /\ live' = live + n
        /\ Grow(n)

\* A budget of another size that realloc() does not give.
NoBudget(n) ==
    /\ Budgeted(n)
    /\ Budget(nr + n) # cap
    /\ Result(-1)

\* Fault: only the objects of this call are freed.
NoObjectFreesNew(n) ==
    /\ kind = "objects"
    /\ Budgeted(n)
    /\ \E moved \in BOOLEAN :
          table' = IF Budget(nr + n) = cap THEN "live"
                   ELSE IF moved \/ table = "null" THEN "null" ELSE "freed"
    /\ UNCHANGED <<slot, live>>
    /\ rc' = -1
    /\ short' = (short \/ nr > 0)
    /\ UNCHANGED <<kind, state, nr, cap, want>>

\* No memory for an object: init_budget() frees the objects before it, those
\* of earlier calls included, and vector_expand() a budget it has not
\* installed.  That may be the old one, grown where it stood.
NoObject(n) ==
    /\ kind = "objects"
    /\ Budgeted(n)
    /\ \A i \in 1..nr : Carried[i] # Junk
    /\ \E moved \in BOOLEAN :
          table' = IF Budget(nr + n) = cap THEN "live"
                   ELSE IF moved \/ table = "null" THEN "null" ELSE "freed"
    /\ slot' = [i \in Indices |-> IF table' = "live" /\ i <= nr THEN Null ELSE Junk]
    /\ live' = live - Cardinality(Objects(Carried, nr))
    /\ rc' = -1
    /\ short' = (short \/ nr > 0)
    /\ UNCHANGED <<kind, state, nr, cap, want>>

\* The same with entries that were never written: free() of junk.
NoObjectFreesJunk(n) ==
    /\ kind = "objects"
    /\ Budgeted(n)
    /\ \E i \in 1..nr : Carried[i] = Junk
    /\ Crash

\* An expansion of a budget that is gone.
ExpandNothing(n) ==
    /\ state = "live" /\ nr + n <= MaxEntries
    /\ table = "freed" \/ (table = "null" /\ Budget(nr + n) = cap)
    /\ Crash

\* An index is compared as unsigned, so a negative one is out of range.
InRange(index) == index >= 0 /\ index < nr

\* Fault: one entry too many.
SetAfter(index, value) ==
    /\ state = "live" /\ kind = "objects"
    /\ IF index < 0 \/ index > nr THEN Result(-1)
       ELSE IF table # "live" \/ slot[index + 1] \in {Null, Junk} THEN Crash
       ELSE /\ slot' = [slot EXCEPT ![index + 1] = value]
            /\ want' = [want EXCEPT ![index + 1] = value]
            /\ rc' = 0
            /\ UNCHANGED <<kind, state, nr, cap, table, live, short>>

\* vector_set_obj() copies into the object.
SetObject(index, value) ==
    /\ state = "live" /\ kind = "objects"
    /\ IF ~InRange(index) THEN Result(-1)
       ELSE IF table # "live" \/ slot[index + 1] \in {Null, Junk} THEN Crash
       ELSE /\ slot' = [slot EXCEPT ![index + 1] = value]
            /\ want' = [want EXCEPT ![index + 1] = value]
            /\ rc' = 0
            /\ UNCHANGED <<kind, state, nr, cap, table, live, short>>

\* vector_get_obj(), and its caller's use of an object.
GetObject(index) ==
    /\ state = "live" /\ kind = "objects"
    /\ IF ~InRange(index) THEN Result(-1)
       ELSE IF table # "live" \/ slot[index + 1] = Junk THEN Crash
       ELSE Result(0)

\* vector_to_string_array().  vector_get_obj() has already looked into the
\* descriptor of a name; here the name is taken for a descriptor.
ToStringArray ==
    /\ state = "live" /\ kind = "names"
    /\ IF nr = 0 THEN Result(0) ELSE Result(-1) \/ Crash

\* vector_destroy(): only names have a destructor.
Destroy ==
    /\ state = "live"
    /\ IF table = "freed" THEN Crash
       ELSE /\ live' = IF kind = "names" THEN live - Cardinality(Objects(slot, nr)) ELSE live
            /\ nr' = 0 /\ table' = "null" /\ state' = "destroyed"
            /\ UNCHANGED <<kind, cap, slot, rc, want, short>>

Next ==
    \/ \E name \in Values : AddName(name)
    \/ \E n \in 1..MaxEntries :
          AddObjects(n) \/ NoBudget(n) \/ NoObject(n) \/ NoObjectFreesJunk(n) \/ ExpandNothing(n)
    \/ \E index \in -1..(MaxEntries - 1) :
          GetObject(index) \/ \E value \in Values : SetObject(index, value)
    \/ ToStringArray
    \/ Destroy

Spec == Init /\ [][Next]_vars

-----------------------------------------------------------------------------
\* Every variable stays within its type, and the entries within the budget.
TypeOK ==
    /\ kind \in {"names", "objects"}
    /\ state \in {"live", "destroyed", "crashed"}
    /\ nr \in 0..MaxEntries /\ nr <= cap /\ cap \in 0..(MaxEntries + Step)
    /\ table \in {"null", "live", "freed"}
    /\ slot \in [Indices -> Values \union {Null, Junk, Blank}]
    /\ live \in Nat
    /\ rc \in {0, -1}
    /\ want \in [Indices -> Values \union {Junk, Blank}]
    /\ short \in BOOLEAN

\* However often the budget grows, an entry is what the caller has put there;
\* only a name may be missing.  A vector with entries that found no memory for
\* another object promises nothing.
KeepsEntries ==
    state = "live" /\ ~short =>
        \A i \in 1..nr :
            /\ table = "live"
            /\ slot[i] = want[i] \/ (kind = "names" /\ slot[i] = Null)

\* The buffers of a live vector are those its entries point to, after failures
\* as well.  vector_destroy() frees the names of a list, all of them, and not
\* one object of a vector that has allocated its objects itself: it has no
\* destructor, and vector_shrink() calls nothing else (vector.c:188-196).  All
\* its objects stay allocated when the table that points to them is gone.
FreesOnlyNames ==
    /\ state = "live" =>
          live = IF table = "live" THEN Cardinality(Objects(slot, nr)) ELSE 0
    /\ state = "destroyed" =>
          live = IF kind = "names" THEN 0 ELSE Cardinality(Objects(slot, MaxEntries))

\* No call has an undefined effect before such a failure, but for one that
\* does whenever there is anything to convert: a list of names never becomes
\* an array of strings (vector.c:339).
CrashNeedsShortage ==
    state = "crashed" => short \/ (kind = "names" /\ nr > 0)
=============================================================================
