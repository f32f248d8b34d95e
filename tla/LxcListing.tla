----------------------------- MODULE LxcListing -----------------------------
(***************************************************************************)
(* The containers a wildcard stands for: ic_lxc_list_defined_containers()  *)
(* of src/lib/lxc.c scans a directory into a vector of names, and          *)
(* init_context() of src/icmpd/subcmd_start.c turns that into an array.    *)
(* Every step is a call on the vector, or leaves it alone.  The vectors of *)
(* objects have no such story: their callers call what they like.          *)
(***************************************************************************)
EXTENDS Vector, Sequences

CONSTANT Dot    \* the entries "." and ".."

ASSUME ListingAssumption == Dot \notin Values

VARIABLES
    dir,       \* the entries of lxcpath, in the order readdir() gives them
    config,    \* the entries under which there is a file named config
    at,        \* entries read so far
    scan       \* where the listing is

listingVars == <<dir, config, at, scan>>
allVars     == <<vars, listingVars>>

Directories ==
    {d \in UNION {[1..n -> Values \union {Dot}] : n \in 0..MaxEntries} :
        \A i, j \in DOMAIN d : d[i] = d[j] => i = j \/ d[i] = Dot}

ListingInit ==
    /\ Init
    /\ dir \in IF kind = "names" THEN Directories ELSE {<<>>}
    /\ config \in SUBSET {dir[i] : i \in DOMAIN dir}
    /\ at = 0
    /\ scan = "created"

-----------------------------------------------------------------------------
Goto(step) == scan' = step /\ UNCHANGED <<dir, config, at>>
Advance    == at' = at + 1 /\ UNCHANGED <<dir, config, scan>>

OpenDir ==
    /\ scan = "created" /\ kind = "names"
    /\ Goto("reading")
    /\ UNCHANGED vars

\* lxcpath cannot be opened: the empty vector is destroyed.
OpenDirFails ==
    /\ scan = "created" /\ kind = "names"
    /\ Destroy
    /\ Goto("failed")

Entry == dir[at + 1]

\* Fault: "." and ".." are entries like any other.
WantedByConfig == Entry \in config

\* Not "." or "..", and a file config in the directory of that name.  A hidden
\* directory is as good as any other: line 77 compares with "." and ".." only,
\* although the comment above it speaks of hidden directories.
Wanted == Entry # Dot /\ Entry \in config

SkipEntry ==
    /\ scan = "reading" /\ at < Len(dir)
    /\ ~Wanted
    /\ Advance
    /\ UNCHANGED vars

ListEntry ==
    /\ scan = "reading" /\ at < Len(dir)
    /\ Wanted
    /\ AddName(Entry)
    /\ Advance

\* The vector cannot grow: the directory is closed, the vector destroyed.
ListEntryFails ==
    /\ scan = "reading" /\ at < Len(dir)
    /\ Wanted
    /\ NoBudget(1)
    /\ Goto("giving up")

GiveUp ==
    /\ scan = "giving up"
    /\ Destroy
    /\ Goto("failed")

CloseDir ==
    /\ scan = "reading" /\ at = Len(dir)
    /\ Goto("listed")
    /\ UNCHANGED vars

\* readdir() returns a null pointer for an error too, and errno is not looked
\* at: what has been read so far is handed out.
CutShort ==
    /\ scan = "reading"
    /\ Goto("cut short")
    /\ UNCHANGED vars

HandedOut == scan \in {"listed", "cut short"} /\ state = "live"

\* init_context(): the array, and then the vector is no longer needed.
Convert ==
    /\ HandedOut
    /\ ToStringArray
    /\ Goto("converted")

DestroyList ==
    /\ scan = "converted" /\ state = "live"
    /\ Destroy
    /\ Goto("done")

-----------------------------------------------------------------------------
ListingNext ==
    \/ OpenDir \/ OpenDirFails
    \/ SkipEntry \/ ListEntry \/ ListEntryFails \/ GiveUp
    \/ CloseDir \/ CutShort \/ Convert \/ DestroyList

Alone(call) == kind = "objects" /\ call /\ UNCHANGED listingVars

ObjectsNext ==
    \/ \E n \in 1..MaxEntries :
          \/ Alone(AddObjects(n)) \/ Alone(NoBudget(n)) \/ Alone(ExpandNothing(n))
          \/ Alone(NoObject(n)) \/ Alone(NoObjectFreesJunk(n))
    \/ \E index \in -1..(MaxEntries - 1) :
          Alone(GetObject(index)) \/ \E value \in Values : Alone(SetObject(index, value))
    \/ Alone(Destroy)

ListingSpec == ListingInit /\ [][ListingNext \/ ObjectsNext]_allVars

-----------------------------------------------------------------------------
\* Which of the first n entries of the directory are containers.
Defined(n) == {i \in 1..n : dir[i] # Dot /\ dir[i] \in config}

\* A listing that is handed out has a name for every container among the
\* entries that were read and for nothing else, in the directory's order: the
\* k-th container is its k-th name; only the text of a name may be missing.  No
\* failure of the vector shortens it (lxc.c:71-85); an error of readdir() does,
\* and nothing else.
ListsDefined ==
    kind = "names" /\ HandedOut =>
        /\ nr = Cardinality(Defined(at))
        /\ \A i \in Defined(at) : slot[Cardinality(Defined(i))] \in {dir[i], Null}
        /\ at = Len(dir) \/ scan = "cut short"
=============================================================================
