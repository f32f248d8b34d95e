-------------------------- MODULE LxcListingProofs --------------------------
(***************************************************************************)
(* Proofs about Vector and LxcListing for every size of a step, number of  *)
(* entries, set of names and directory.  The vector's invariant is proved  *)
(* of every order of calls (Vector's Spec); a listing is one of them.      *)
(***************************************************************************)
EXTENDS LxcListing, FiniteSetTheorems, SequenceTheorems, TLAPS

-----------------------------------------------------------------------------
(* The budget, and the objects of a vector. *)

\* A budget holds what it is for, and wastes less than a step.
LEMMA BudgetBounds ==
    ASSUME NEW n \in Nat
    PROVE  Budget(n) \in Nat /\ n <= Budget(n) /\ Budget(n) <= n + Step
<1> DEFINE q == (n + Step - 1) \div Step
<1>1. Step \in Nat /\ Step > 0 /\ n + Step - 1 \in Nat
  BY VectorAssumption
<1>2. q \in Nat /\ Step * q <= n + Step - 1 /\ n + Step - 1 < Step * q + Step
  BY <1>1
<1> HIDE DEF q
<1>3. q * Step = Step * q /\ q * Step \in Nat
  BY <1>1, <1>2
<1>4. Budget(n) = q * Step
  BY DEF Budget, q
<1> QED
  BY <1>1, <1>2, <1>3, <1>4

LEMMA ObjectsFinite ==
    ASSUME NEW s, NEW n \in Nat
    PROVE  IsFiniteSet(Objects(s, n)) /\ Cardinality(Objects(s, n)) \in Nat
<1>1. Objects(s, n) \in SUBSET (1..n)
  BY DEF Objects
<1>2. IsFiniteSet(1..n)
  BY FS_Interval
<1>3. IsFiniteSet(Objects(s, n))
  BY <1>1, <1>2, FS_Subset
<1> QED
  BY <1>3, FS_CardinalityType

LEMMA NoObjects ==
    ASSUME NEW s, NEW n, \A i \in 1..n : s[i] \in {Null, Junk}
    PROVE  Cardinality(Objects(s, n)) = 0
<1>1. Objects(s, n) = {}
  BY DEF Objects
<1> QED
  BY <1>1, FS_EmptySet

\* Only which entries are objects counts.
LEMMA SameObjects ==
    ASSUME NEW s, NEW t, NEW n,
           \A i \in 1..n : s[i] \in {Null, Junk} <=> t[i] \in {Null, Junk}
    PROVE  Objects(s, n) = Objects(t, n)
BY DEF Objects

-----------------------------------------------------------------------------
(* The vector's inductive invariant. *)

\* Before a failure in mid-growth, a vector with entries has a table, and one
\* without has never had a budget.
Table ==
    state = "live" /\ ~short =>
        \/ nr = 0 /\ cap = 0 /\ table = "null"
        \/ nr > 0 /\ table = "live"

\* The caller has put something into every entry, if only a blank object.
EntriesAreGiven == \A i \in 1..nr : want[i] # Junk

\* A name needs no object, so a list of names never fails half way.
NamesNeverShort == kind = "names" => ~short

\* Behind the entries, and without a table, there is only what nobody has
\* written.
JunkBehind ==
    state = "live" => \A i \in Indices : i > nr \/ table # "live" => slot[i] = Junk

VectorInv ==
    /\ TypeOK /\ Table /\ EntriesAreGiven /\ NamesNeverShort /\ JunkBehind
    /\ KeepsEntries /\ FreesOnlyNames /\ CrashNeedsShortage

LEMMA VectorInit == Init => VectorInv
<1> SUFFICES ASSUME Init PROVE VectorInv
  OBVIOUS
<1>1. TypeOK
  <2>1. 0 \in 0..MaxEntries /\ 0 \in 0..(MaxEntries + Step) /\ 0 <= 0 /\ 0 \in Nat
    BY VectorAssumption
  <2>2. /\ slot \in [Indices -> Values \union {Null, Junk, Blank}]
        /\ want \in [Indices -> Values \union {Junk, Blank}]
    BY DEF Init
  <2> QED
    BY <2>1, <2>2 DEF Init, TypeOK
<1>2. FreesOnlyNames
  BY DEF Init, FreesOnlyNames
<1>3. Table /\ EntriesAreGiven /\ NamesNeverShort /\ JunkBehind /\ KeepsEntries /\ CrashNeedsShortage
  BY DEF Init, JunkBehind, Table, EntriesAreGiven, NamesNeverShort, KeepsEntries, CrashNeedsShortage
<1> QED
  BY <1>1, <1>2, <1>3 DEF VectorInv

\* A call that changes nothing but its result.
LEMMA ResultStep ==
    ASSUME VectorInv, NEW r \in {0, -1}, Result(r)
    PROVE  VectorInv'
<1>1. /\ rc' = r
      /\ kind' = kind /\ state' = state /\ nr' = nr /\ cap' = cap /\ table' = table
      /\ slot' = slot /\ live' = live /\ want' = want /\ short' = short
  BY DEF Result
<1>2. TypeOK'
  BY <1>1 DEF VectorInv, TypeOK
<1>3. FreesOnlyNames'
  BY <1>1 DEF VectorInv, FreesOnlyNames, Objects
<1> QED
  BY <1>1, <1>2, <1>3
     DEF VectorInv, Table, EntriesAreGiven, NamesNeverShort, JunkBehind, KeepsEntries,
         CrashNeedsShortage

\* An undefined effect that the invariant allows for.
LEMMA CrashStep ==
    ASSUME VectorInv, Crash, short \/ (kind = "names" /\ nr > 0)
    PROVE  VectorInv'
<1>1. /\ state' = "crashed"
      /\ kind' = kind /\ nr' = nr /\ cap' = cap /\ table' = table /\ rc' = rc
      /\ slot' = slot /\ live' = live /\ want' = want /\ short' = short
  BY DEF Crash
<1>2. TypeOK'
  BY <1>1 DEF VectorInv, TypeOK
<1> QED
  BY <1>1, <1>2 DEF VectorInv, Table, EntriesAreGiven, NamesNeverShort, JunkBehind,
                    KeepsEntries, FreesOnlyNames, CrashNeedsShortage

LEMMA StutterStep == ASSUME VectorInv, UNCHANGED vars PROVE VectorInv'
<1>1. rc \in {0, -1} /\ Result(rc)
  BY DEF VectorInv, TypeOK, vars, Result
<1> QED
  BY <1>1, ResultStep

\* Before a failure in mid-growth, every entry below nr is an object, or a name
\* or its absence.
LEMMA EntriesAreThere ==
    ASSUME VectorInv, state = "live", ~short, NEW i \in 1..nr
    PROVE  /\ table = "live" /\ slot[i] # Junk
           /\ kind = "objects" => slot[i] # Null
<1>1. nr > 0 /\ i \in Indices /\ kind \in {"names", "objects"}
  BY VectorAssumption DEF VectorInv, TypeOK, Indices
<1>2. table = "live" /\ (slot[i] = want[i] \/ (kind = "names" /\ slot[i] = Null))
  BY <1>1 DEF VectorInv, KeepsEntries
<1>3. want[i] # Junk /\ want[i] # Null
  BY <1>1, VectorAssumption DEF VectorInv, TypeOK, EntriesAreGiven
<1> QED
  BY <1>2, <1>3, VectorAssumption

-----------------------------------------------------------------------------
(* Growth. *)

\* What init_budget() finds: the type of the entries, and as many objects as
\* are allocated.
LEMMA CarriedEntries ==
    ASSUME VectorInv, state = "live"
    PROVE  /\ Carried \in [Indices -> Values \union {Null, Junk, Blank}]
           /\ Cardinality(Objects(Carried, nr)) = live
           /\ ~short => \A i \in 1..nr : Carried[i] = slot[i]
           /\ \A i \in Indices : i > nr => Carried[i] = Junk
<1>1. nr \in 0..MaxEntries /\ slot \in [Indices -> Values \union {Null, Junk, Blank}]
  BY DEF VectorInv, TypeOK
<1>2. Carried \in [Indices -> Values \union {Null, Junk, Blank}]
  BY <1>1 DEF Carried
<1>3. \A i \in 1..nr : Carried[i] = IF table = "live" THEN slot[i] ELSE Junk
  BY <1>1, VectorAssumption DEF Carried, Indices
<1>4. Cardinality(Objects(Carried, nr)) = live
  <2>1. CASE table = "live"
    <3>1. Objects(Carried, nr) = Objects(slot, nr)
      BY <1>3, <2>1 DEF Objects
    <3> QED
      BY <2>1, <3>1 DEF VectorInv, FreesOnlyNames
  <2>2. CASE table # "live"
    <3>1. Cardinality(Objects(Carried, nr)) = 0
      BY <1>3, <2>2, NoObjects
    <3> QED
      BY <2>2, <3>1 DEF VectorInv, FreesOnlyNames
  <2> QED
    BY <2>1, <2>2
<1>5. ~short => \A i \in 1..nr : table = "live"
  BY DEF VectorInv, KeepsEntries
<1>6. \A i \in Indices : i > nr => Carried[i] = Junk
  BY <1>1, VectorAssumption DEF Carried, Indices
<1> QED
  BY <1>2, <1>3, <1>4, <1>5, <1>6

\* A vector that has grown: what remains to be shown is that of its entries.
LEMMA GrowStep ==
    ASSUME VectorInv, NEW n \in 1..MaxEntries, Budgeted(n), Grow(n),
           slot' \in [Indices -> Values \union {Null, Junk, Blank}],
           want' \in [Indices -> Values \union {Junk, Blank}],
           \A i \in 1..(nr + n) : want'[i] # Junk,
           ~short => \A i \in 1..(nr + n) :
                        slot'[i] = want'[i] \/ (kind = "names" /\ slot'[i] = Null),
           live' = Cardinality(Objects(slot', nr + n)),
           \A i \in Indices : i > nr + n => slot'[i] = Junk
    PROVE  VectorInv'
<1>1. /\ nr' = nr + n /\ cap' = Budget(nr + n) /\ table' = "live" /\ rc' = 0
      /\ kind' = kind /\ state' = state /\ short' = short
      /\ state = "live" /\ nr + n <= MaxEntries
  BY DEF Grow, Budgeted
<1>2. nr \in Nat /\ nr + n \in 1..MaxEntries /\ MaxEntries \in Nat /\ Step \in Nat
  BY <1>1, VectorAssumption DEF VectorInv, TypeOK
<1>3. live' \in Nat
  BY <1>2, ObjectsFinite
<1>4. nr' <= cap' /\ cap' \in 0..(MaxEntries + Step)
  BY <1>1, <1>2, BudgetBounds
<1>5. TypeOK'
  BY <1>1, <1>2, <1>3, <1>4 DEF VectorInv, TypeOK
<1>6. FreesOnlyNames'
  BY <1>1 DEF FreesOnlyNames, Objects
<1>7. KeepsEntries'
  BY <1>1 DEF KeepsEntries
<1>8. Table' /\ EntriesAreGiven' /\ NamesNeverShort' /\ CrashNeedsShortage'
  BY <1>1, <1>2 DEF VectorInv, Table, EntriesAreGiven, NamesNeverShort, CrashNeedsShortage
<1>9. JunkBehind'
  BY <1>1 DEF JunkBehind
<1> QED
  BY <1>5, <1>6, <1>7, <1>8, <1>9 DEF VectorInv

LEMMA AddNameStep ==
    ASSUME VectorInv, NEW name \in Values, AddName(name)
    PROVE  VectorInv'
<1>1. PICK text \in {name, Null} :
         /\ slot' = [Carried EXCEPT ![nr + 1] = text]
         /\ live' = live + (IF text = Null THEN 0 ELSE 1)
  BY DEF AddName
<1>2. /\ kind = "names" /\ Budgeted(1) /\ Grow(1) /\ state = "live"
      /\ want' = [want EXCEPT ![nr + 1] = name]
      /\ nr + 1 <= MaxEntries
  BY DEF AddName, Budgeted
<1>3. nr \in Nat /\ nr + 1 \in Indices /\ 1 \in 1..MaxEntries
  BY <1>2, VectorAssumption DEF VectorInv, TypeOK, Indices
<1>4. /\ Carried \in [Indices -> Values \union {Null, Junk, Blank}]
      /\ Cardinality(Objects(Carried, nr)) = live
      /\ ~short => \A i \in 1..nr : Carried[i] = slot[i]
      /\ \A i \in Indices : i > nr => Carried[i] = Junk
  BY <1>2, CarriedEntries
<1>5. name \notin {Null, Junk}
  BY VectorAssumption
<1> HIDE DEF Carried
<1>6. /\ slot' \in [Indices -> Values \union {Null, Junk, Blank}]
      /\ \A i \in Indices : slot'[i] = IF i = nr + 1 THEN text ELSE Carried[i]
  BY <1>1, <1>3, <1>4
<1>7. /\ want' \in [Indices -> Values \union {Junk, Blank}]
      /\ \A i \in Indices : want'[i] = IF i = nr + 1 THEN name ELSE want[i]
  BY <1>2, <1>3 DEF VectorInv, TypeOK
<1>8. \A i \in 1..(nr + 1) : i \in Indices /\ (i = nr + 1 \/ i \in 1..nr)
  BY <1>2, <1>3, VectorAssumption DEF Indices
<1>9. \A i \in 1..(nr + 1) : want'[i] # Junk
  BY <1>5, <1>7, <1>8 DEF VectorInv, EntriesAreGiven
<1>10. ASSUME ~short, NEW i \in 1..(nr + 1)
       PROVE  slot'[i] = want'[i] \/ (kind = "names" /\ slot'[i] = Null)
  <2>1. CASE i = nr + 1
    BY <1>1, <1>2, <1>6, <1>7, <1>8, <2>1
  <2>2. CASE i # nr + 1
    <3>1. i \in 1..nr /\ slot'[i] = slot[i] /\ want'[i] = want[i]
      BY <1>3, <1>4, <1>6, <1>7, <1>8, <1>10, <2>2
    <3> QED
      BY <1>2, <1>10, <3>1 DEF VectorInv, KeepsEntries
  <2> QED
    BY <2>1, <2>2
<1>11. live' = Cardinality(Objects(slot', nr + 1))
  <2>1. IsFiniteSet(Objects(Carried, nr))
    BY <1>3, ObjectsFinite
  <2>2. nr + 1 \notin Objects(Carried, nr)
    BY <1>3 DEF Objects
  <2>3. CASE text = Null
    <3>1. Objects(slot', nr + 1) = Objects(Carried, nr)
      BY <1>3, <1>6, <1>8, <2>3 DEF Objects
    <3> QED
      BY <1>1, <1>4, <2>3, <3>1 DEF VectorInv, TypeOK
  <2>4. CASE text # Null
    <3>1. text \notin {Null, Junk}
      BY <1>5, <2>4
    <3>2. Objects(slot', nr + 1) = Objects(Carried, nr) \union {nr + 1}
      BY <1>3, <1>6, <1>8, <3>1 DEF Objects
    <3> QED
      BY <1>1, <1>4, <2>1, <2>2, <2>4, <3>2, FS_AddElement
  <2> QED
    BY <2>3, <2>4
<1>12. \A i \in Indices : i > nr + 1 => slot'[i] = Junk
  BY <1>3, <1>4, <1>6 DEF Indices
<1> QED
  BY <1>2, <1>3, <1>6, <1>7, <1>9, <1>10, <1>11, <1>12, GrowStep

LEMMA AddObjectsStep ==
    ASSUME VectorInv, NEW n \in 1..MaxEntries, AddObjects(n)
    PROVE  VectorInv'
<1> DEFINE New == (nr + 1)..(nr + n)
<1>1. /\ kind = "objects" /\ Budgeted(n) /\ Grow(n) /\ live' = live + n
      /\ slot' = [i \in Indices |-> IF i \in New THEN Blank ELSE Carried[i]]
      /\ want' = [i \in Indices |-> IF i \in New THEN Blank ELSE want[i]]
  BY DEF AddObjects
<1>2. state = "live" /\ nr + n <= MaxEntries
  BY <1>1 DEF Budgeted
<1>3. nr \in Nat /\ n \in Nat /\ MaxEntries \in Nat
  BY VectorAssumption DEF VectorInv, TypeOK
<1>4. /\ Carried \in [Indices -> Values \union {Null, Junk, Blank}]
      /\ Cardinality(Objects(Carried, nr)) = live
      /\ ~short => \A i \in 1..nr : Carried[i] = slot[i]
      /\ \A i \in Indices : i > nr => Carried[i] = Junk
  BY <1>2, CarriedEntries
<1> HIDE DEF Carried
<1>5. slot' \in [Indices -> Values \union {Null, Junk, Blank}]
  BY <1>1, <1>4
<1>6. want' \in [Indices -> Values \union {Junk, Blank}]
  BY <1>1 DEF VectorInv, TypeOK
<1>7. \A i \in 1..(nr + n) : i \in Indices /\ (i \in New \/ i \in 1..nr) /\ ~(i \in New /\ i \in 1..nr)
  BY <1>2, <1>3 DEF Indices
<1>8. \A i \in 1..(nr + n) : /\ i \in New => slot'[i] = Blank /\ want'[i] = Blank
                             /\ i \in 1..nr => slot'[i] = Carried[i] /\ want'[i] = want[i]
  BY <1>1, <1>7
<1>9. New \subseteq 1..(nr + n) /\ 1..nr \subseteq 1..(nr + n)
  BY <1>3
<1> HIDE DEF New
<1>10. \A i \in 1..(nr + n) : want'[i] # Junk
  BY <1>7, <1>8, VectorAssumption DEF VectorInv, EntriesAreGiven
<1>11. ASSUME ~short, NEW i \in 1..(nr + n)
       PROVE  slot'[i] = want'[i] \/ (kind = "names" /\ slot'[i] = Null)
  <2>1. CASE i \in New
    BY <1>8, <2>1
  <2>2. CASE i \in 1..nr
    <3>1. slot'[i] = slot[i] /\ want'[i] = want[i]
      BY <1>4, <1>8, <1>11, <2>2
    <3> QED
      BY <1>2, <1>11, <2>2, <3>1 DEF VectorInv, KeepsEntries
  <2> QED
    BY <1>7, <2>1, <2>2
<1>12. live' = Cardinality(Objects(slot', nr + n))
  <2>1. Objects(slot', nr + n) = Objects(Carried, nr) \union New
    <3>1. ASSUME NEW i \in 1..(nr + n)
          PROVE  i \in Objects(slot', nr + n) <=> i \in Objects(Carried, nr) \union New
      <4>1. CASE i \in New
        BY <1>8, <4>1, VectorAssumption DEF Objects
      <4>2. CASE i \notin New
        BY <1>7, <1>8, <4>2 DEF Objects
      <4> QED
        BY <4>1, <4>2
    <3>2. Objects(slot', nr + n) \subseteq 1..(nr + n) /\ Objects(Carried, nr) \subseteq 1..(nr + n)
      BY <1>9 DEF Objects
    <3> QED
      BY <1>9, <3>1, <3>2
  <2>2. Objects(Carried, nr) \intersect New = {}
    BY <1>7, <1>9 DEF Objects
  <2>3. IsFiniteSet(New) /\ Cardinality(New) = n
    <3>1. /\ IsFiniteSet((nr + 1)..(nr + n))
          /\ Cardinality((nr + 1)..(nr + n)) = IF nr + 1 > nr + n THEN 0 ELSE nr + n - (nr + 1) + 1
      BY <1>3, FS_Interval
    <3> QED
      BY <1>3, <3>1 DEF New
  <2>4. IsFiniteSet(Objects(Carried, nr))
    BY <1>3, ObjectsFinite
  <2>5. Cardinality(Objects(Carried, nr) \intersect New) = 0
    BY <2>2, FS_EmptySet
  <2>6. Cardinality(Objects(Carried, nr) \union New) = live + n - 0
    BY <1>4, <2>3, <2>4, <2>5, FS_Union
  <2> QED
    BY <1>1, <1>3, <2>1, <2>6 DEF VectorInv, TypeOK
<1>13. \A i \in Indices : i > nr + n => slot'[i] = Junk
  <2> SUFFICES ASSUME NEW i \in Indices, i > nr + n PROVE slot'[i] = Junk
    OBVIOUS
  <2>1. i \notin New /\ i > nr
    BY <1>3 DEF New, Indices
  <2>2. slot'[i] = Carried[i]
    BY <1>1, <2>1
  <2> QED
    BY <1>4, <2>1, <2>2
<1> QED
  BY <1>1, <1>5, <1>6, <1>10, <1>11, <1>12, <1>13, GrowStep

-----------------------------------------------------------------------------
(* Growth that fails. *)

LEMMA NoBudgetStep ==
    ASSUME VectorInv, NEW n \in 1..MaxEntries, NoBudget(n)
    PROVE  VectorInv'
BY ResultStep DEF NoBudget

\* The objects of a vector are freed with the call that fails: all of them, and
\* where entries remain they are null pointers.
LEMMA NoObjectStep ==
    ASSUME VectorInv, NEW n \in 1..MaxEntries, NoObject(n)
    PROVE  VectorInv'
<1>1. /\ kind = "objects" /\ Budgeted(n)
      /\ table' \in {"null", "live", "freed"}
      /\ slot' = [i \in Indices |-> IF table' = "live" /\ i <= nr THEN Null ELSE Junk]
      /\ live' = live - Cardinality(Objects(Carried, nr))
      /\ rc' = -1 /\ short' = (short \/ nr > 0)
      /\ kind' = kind /\ state' = state /\ nr' = nr /\ cap' = cap /\ want' = want
  BY DEF NoObject
<1>2. state = "live" /\ (table = "live" \/ (table = "null" /\ Budget(nr + n) # cap))
  BY <1>1 DEF Budgeted
<1>3. live \in Nat /\ nr \in Nat /\ nr <= MaxEntries /\ MaxEntries \in Nat
  BY VectorAssumption DEF VectorInv, TypeOK
<1>s. ~short' => ~short /\ nr = 0
  <2>1. short' <=> (short \/ nr > 0)
    BY <1>1
  <2> QED
    BY <1>3, <2>1
<1>4. live' = 0
  BY <1>1, <1>2, <1>3, CarriedEntries
<1>5. slot' \in [Indices -> Values \union {Null, Junk, Blank}]
  BY <1>1
<1>6. TypeOK'
  BY <1>1, <1>4, <1>5 DEF VectorInv, TypeOK
<1>7. Table'
  <2> SUFFICES ASSUME ~short, nr = 0 PROVE nr' = 0 /\ cap' = 0 /\ table' = "null"
    BY <1>s DEF Table
  <2>1. cap = 0 /\ table = "null"
    BY <1>2 DEF VectorInv, Table
  <2>2. Budget(nr + n) # cap
    BY <1>2, <2>1
  <2> QED
    BY <1>1, <2>1, <2>2 DEF NoObject
<1>8. FreesOnlyNames'
  <2>1. CASE table' = "live"
    <3>1. \A i \in 1..nr : slot'[i] = Null
      BY <1>1, <1>3, <2>1 DEF Indices
    <3>2. Cardinality(Objects(slot', nr)) = 0
      BY <3>1, NoObjects
    <3> QED
      BY <1>1, <1>2, <1>4, <2>1, <3>2 DEF FreesOnlyNames, Objects
  <2>2. CASE table' # "live"
    BY <1>1, <1>2, <1>4, <2>2 DEF FreesOnlyNames
  <2> QED
    BY <2>1, <2>2
<1>9. KeepsEntries'
  BY <1>1, <1>s DEF KeepsEntries
<1>10. EntriesAreGiven' /\ NamesNeverShort' /\ CrashNeedsShortage'
  BY <1>1, <1>2 DEF VectorInv, EntriesAreGiven, NamesNeverShort, CrashNeedsShortage
<1>11. JunkBehind'
  BY <1>1, <1>3 DEF JunkBehind, Indices
<1> QED
  BY <1>6, <1>7, <1>8, <1>9, <1>10, <1>11 DEF VectorInv

LEMMA NoObjectFreesJunkStep ==
    ASSUME VectorInv, NEW n \in 1..MaxEntries, NoObjectFreesJunk(n)
    PROVE  VectorInv'
<1>1. Crash /\ state = "live"
  BY DEF NoObjectFreesJunk, Budgeted
<1>2. PICK i \in 1..nr : Carried[i] = Junk
  BY DEF NoObjectFreesJunk
<1>3. short
  <2> SUFFICES ASSUME ~short PROVE FALSE
    OBVIOUS
  <2>1. Carried[i] = slot[i]
    BY <1>1, CarriedEntries
  <2> QED
    BY <1>1, <1>2, <2>1, EntriesAreThere
<1> QED
  BY <1>1, <1>3, CrashStep

LEMMA ExpandNothingStep ==
    ASSUME VectorInv, NEW n \in 1..MaxEntries, ExpandNothing(n)
    PROVE  VectorInv'
<1>1. /\ state = "live" /\ Crash
      /\ table = "freed" \/ (table = "null" /\ Budget(nr + n) = cap)
  BY DEF ExpandNothing
<1>2. short
  <2> SUFFICES ASSUME ~short PROVE FALSE
    OBVIOUS
  <2>1. nr = 0 /\ cap = 0 /\ Budget(nr + n) = cap
    BY <1>1 DEF VectorInv, Table
  <2>2. nr + n \in Nat /\ nr + n > 0
    BY <2>1
  <2>3. Budget(nr + n) \in Nat /\ nr + n <= Budget(nr + n)
    BY <2>2, BudgetBounds
  <2> QED
    BY <2>1, <2>2, <2>3
<1> QED
  BY <1>1, <1>2, CrashStep

-----------------------------------------------------------------------------
(* Access, conversion and destruction. *)

LEMMA SetObjectStep ==
    ASSUME VectorInv, NEW index \in -1..(MaxEntries - 1), NEW value \in Values,
           SetObject(index, value)
    PROVE  VectorInv'
<1>1. state = "live" /\ kind = "objects"
  BY DEF SetObject
<1>2. CASE ~InRange(index)
  BY <1>2, ResultStep DEF SetObject
<1>3. ASSUME InRange(index) PROVE index + 1 \in 1..nr /\ index + 1 \in Indices
  BY <1>3, VectorAssumption DEF InRange, VectorInv, TypeOK, Indices
<1>4. CASE InRange(index) /\ (table # "live" \/ slot[index + 1] \in {Null, Junk})
  <2>1. Crash
    BY <1>4 DEF SetObject
  <2>2. short
    BY <1>1, <1>3, <1>4, EntriesAreThere
  <2> QED
    BY <2>1, <2>2, CrashStep
<1>5. CASE InRange(index) /\ table = "live" /\ slot[index + 1] \notin {Null, Junk}
  <2>1. /\ slot' = [slot EXCEPT ![index + 1] = value]
        /\ want' = [want EXCEPT ![index + 1] = value]
        /\ rc' = 0
        /\ kind' = kind /\ state' = state /\ nr' = nr /\ cap' = cap /\ table' = table
        /\ live' = live /\ short' = short
    BY <1>5 DEF SetObject
  <2>2. value \notin {Null, Junk}
    BY VectorAssumption
  <2>3. TypeOK'
    BY <2>1 DEF VectorInv, TypeOK
  <2>4. \A i \in 1..nr : i \in Indices
    BY VectorAssumption DEF VectorInv, TypeOK, Indices
  <2>5. \A i \in 1..nr : /\ slot'[i] = IF i = index + 1 THEN value ELSE slot[i]
                         /\ want'[i] = IF i = index + 1 THEN value ELSE want[i]
    BY <2>1, <2>4 DEF VectorInv, TypeOK
  <2>6. FreesOnlyNames'
    <3>1. \A i \in 1..nr : slot'[i] \in {Null, Junk} <=> slot[i] \in {Null, Junk}
      BY <1>5, <2>2, <2>5
    <3>2. Objects(slot', nr) = Objects(slot, nr)
      BY <3>1, SameObjects
    <3>3. live = Cardinality(Objects(slot', nr))
      BY <1>1, <1>5, <3>2 DEF VectorInv, FreesOnlyNames
    <3> QED
      BY <1>1, <1>5, <2>1, <3>3 DEF FreesOnlyNames, Objects
  <2>7. KeepsEntries'
    BY <2>1, <2>5 DEF VectorInv, KeepsEntries
  <2>8. EntriesAreGiven'
    BY <2>1, <2>2, <2>5 DEF VectorInv, EntriesAreGiven
  <2>9. Table' /\ NamesNeverShort' /\ CrashNeedsShortage'
    BY <2>1 DEF VectorInv, Table, NamesNeverShort, CrashNeedsShortage
  <2>10. JunkBehind'
    <3>1. \A i \in Indices : i > nr => i # index + 1
      BY <1>3, <1>5, VectorAssumption DEF VectorInv, TypeOK, Indices
    <3>2. \A i \in Indices : i # index + 1 => slot'[i] = slot[i]
      BY <2>1 DEF VectorInv, TypeOK
    <3>3. table' = "live"
      BY <1>5, <2>1
    <3>4. \A i \in Indices : i > nr => slot[i] = Junk
      BY <1>1 DEF VectorInv, JunkBehind
    <3>5. nr' = nr
      BY <2>1
    <3> QED
      BY <3>1, <3>2, <3>3, <3>4, <3>5 DEF JunkBehind
  <2> QED
    BY <2>3, <2>6, <2>7, <2>8, <2>9, <2>10 DEF VectorInv
<1> QED
  BY <1>2, <1>4, <1>5

LEMMA GetObjectStep ==
    ASSUME VectorInv, NEW index \in -1..(MaxEntries - 1), GetObject(index)
    PROVE  VectorInv'
<1>1. state = "live" /\ kind = "objects"
  BY DEF GetObject
<1>2. CASE Result(0) \/ Result(-1)
  BY <1>2, ResultStep
<1>3. CASE InRange(index) /\ (table # "live" \/ slot[index + 1] = Junk)
  <2>1. Crash
    BY <1>3 DEF GetObject
  <2>2. index + 1 \in 1..nr
    BY <1>3, VectorAssumption DEF InRange, VectorInv, TypeOK
  <2>3. short
    BY <1>1, <1>3, <2>2, EntriesAreThere
  <2> QED
    BY <2>1, <2>3, CrashStep
<1> QED
  BY <1>2, <1>3 DEF GetObject

LEMMA ToStringArrayStep == ASSUME VectorInv, ToStringArray PROVE VectorInv'
<1>1. CASE Result(0) \/ Result(-1)
  BY <1>1, ResultStep
<1>2. CASE nr # 0 /\ Crash
  <2>1. kind = "names" /\ nr > 0
    BY <1>2 DEF ToStringArray, VectorInv, TypeOK
  <2> QED
    BY <1>2, <2>1, CrashStep
<1> QED
  BY <1>1, <1>2 DEF ToStringArray

\* The objects of a live vector, counted over all of its slots.
LEMMA ObjectsOfEntries ==
    ASSUME VectorInv, state = "live", kind = "objects"
    PROVE  live = Cardinality(Objects(slot, MaxEntries))
<1>1. nr \in 0..MaxEntries /\ MaxEntries \in Nat
  BY VectorAssumption DEF VectorInv, TypeOK
<1>2. Objects(slot, MaxEntries) = Objects(slot, nr)
  <2>1. \A i \in 1..MaxEntries : i \in 1..nr \/ slot[i] = Junk
    BY <1>1 DEF VectorInv, JunkBehind, Indices
  <2>2. 1..nr \subseteq 1..MaxEntries
    BY <1>1
  <2> QED
    BY <2>1, <2>2 DEF Objects
<1>3. CASE table = "live"
  BY <1>2, <1>3 DEF VectorInv, FreesOnlyNames
<1>4. CASE table # "live"
  <2>1. \A i \in 1..nr : slot[i] \in {Null, Junk}
    BY <1>1, <1>4 DEF VectorInv, JunkBehind, Indices
  <2> QED
    BY <1>2, <1>4, <2>1, NoObjects DEF VectorInv, FreesOnlyNames
<1> QED
  BY <1>3, <1>4

LEMMA DestroyStep == ASSUME VectorInv, Destroy PROVE VectorInv'
<1>1. state = "live"
  BY DEF Destroy
<1>2. CASE table = "freed"
  <2>1. short
    BY <1>1, <1>2 DEF VectorInv, Table
  <2> QED
    BY <1>2, <2>1, CrashStep DEF Destroy
<1>3. CASE table # "freed"
  <2>1. /\ live' = IF kind = "names" THEN live - Cardinality(Objects(slot, nr)) ELSE live
        /\ nr' = 0 /\ table' = "null" /\ state' = "destroyed"
        /\ kind' = kind /\ cap' = cap /\ slot' = slot /\ rc' = rc /\ want' = want
        /\ short' = short
    BY <1>3 DEF Destroy
  <2>2. kind = "names" => live = Cardinality(Objects(slot, nr))
    <3>1. CASE table = "live"
      BY <1>1, <3>1 DEF VectorInv, FreesOnlyNames
    <3>2. CASE kind = "names" /\ table # "live"
      <4>1. nr = 0 /\ live = 0
        BY <1>1, <3>2 DEF VectorInv, Table, NamesNeverShort, FreesOnlyNames
      <4>2. Cardinality(Objects(slot, nr)) = 0
        BY <4>1, NoObjects
      <4> QED
        BY <4>1, <4>2
    <3> QED
      BY <3>1, <3>2
  <2>3. live \in Nat /\ cap \in Nat /\ MaxEntries \in Nat
    BY VectorAssumption DEF VectorInv, TypeOK
  <2>4. live' \in Nat /\ (kind = "names" => live' = 0)
    BY <2>1, <2>2, <2>3
  <2>5. TypeOK'
    BY <2>1, <2>3, <2>4 DEF VectorInv, TypeOK
  <2>6. FreesOnlyNames'
    <3>1. kind = "objects" => live = Cardinality(Objects(slot, MaxEntries))
      BY <1>1, ObjectsOfEntries DEF VectorInv
    <3> QED
      BY <2>1, <2>4, <3>1 DEF FreesOnlyNames, VectorInv, TypeOK, Objects
  <2> QED
    BY <2>1, <2>5, <2>6 DEF VectorInv, Table, EntriesAreGiven, NamesNeverShort, JunkBehind,
                            KeepsEntries, CrashNeedsShortage
<1> QED
  BY <1>2, <1>3

\* Every call a caller may make keeps the invariant.
LEMMA VectorNext == VectorInv /\ [Next]_vars => VectorInv'
<1> SUFFICES ASSUME VectorInv, [Next]_vars PROVE VectorInv'
  OBVIOUS
<1>1. CASE \E name \in Values : AddName(name)
  BY <1>1, AddNameStep
<1>2. ASSUME NEW n \in 1..MaxEntries,
             \/ AddObjects(n) \/ NoBudget(n) \/ NoObject(n)
             \/ NoObjectFreesJunk(n) \/ ExpandNothing(n)
      PROVE  VectorInv'
  BY <1>2, AddObjectsStep, NoBudgetStep, NoObjectStep, NoObjectFreesJunkStep, ExpandNothingStep
<1>3. ASSUME NEW index \in -1..(MaxEntries - 1),
             GetObject(index) \/ \E value \in Values : SetObject(index, value)
      PROVE  VectorInv'
  BY <1>3, GetObjectStep, SetObjectStep
<1>4. CASE ToStringArray
  BY <1>4, ToStringArrayStep
<1>5. CASE Destroy
  BY <1>5, DestroyStep
<1>6. CASE UNCHANGED vars
  BY <1>6, StutterStep
<1> QED
  BY <1>1, <1>2, <1>3, <1>4, <1>5, <1>6 DEF Next

-----------------------------------------------------------------------------
(* The listing. *)

\* What a scan has read, and where it ends.
ScanTypes ==
    /\ dir \in Seq(Values \union {Dot})
    /\ at \in 0..Len(dir)
    /\ scan = "listed" => at = Len(dir)

\* The vector has a name for every container that has been read, at its rank
\* among them.
ListedSoFar ==
    kind = "names" /\ state = "live" =>
        /\ nr = Cardinality(Defined(at))
        /\ \A i \in Defined(at) : slot[Cardinality(Defined(i))] \in {dir[i], Null}

IInv == VectorInv /\ ScanTypes /\ ListedSoFar

LEMMA DefinedFinite ==
    ASSUME NEW n \in Nat
    PROVE  IsFiniteSet(Defined(n)) /\ Cardinality(Defined(n)) \in Nat
<1>1. Defined(n) \in SUBSET (1..n)
  BY DEF Defined
<1>2. IsFiniteSet(1..n)
  BY FS_Interval
<1>3. IsFiniteSet(Defined(n))
  BY <1>1, <1>2, FS_Subset
<1> QED
  BY <1>3, FS_CardinalityType

\* The rank of a container is at most the number of containers.
LEMMA RankInRange ==
    ASSUME NEW n \in Nat, NEW i \in Defined(n)
    PROVE  Cardinality(Defined(i)) \in 1..Cardinality(Defined(n))
<1>1. i \in 1..n /\ i \in Nat /\ i \in Defined(i) /\ Defined(i) \in SUBSET Defined(n)
  BY DEF Defined
<1>2. /\ IsFiniteSet(Defined(i)) /\ Cardinality(Defined(i)) \in Nat
      /\ IsFiniteSet(Defined(n)) /\ Cardinality(Defined(n)) \in Nat
  BY <1>1, DefinedFinite
<1>3. Cardinality(Defined(i)) <= Cardinality(Defined(n))
  BY <1>1, <1>2, FS_Subset
<1>4. Cardinality(Defined(i)) # 0
  BY <1>1, <1>2, FS_EmptySet
<1> QED
  BY <1>2, <1>3, <1>4

\* Reading an entry: one container more, or none.
LEMMA DefinedNext ==
    ASSUME NEW n \in Nat
    PROVE  IF dir[n + 1] # Dot /\ dir[n + 1] \in config
           THEN /\ Defined(n + 1) = Defined(n) \union {n + 1}
                /\ Cardinality(Defined(n + 1)) = Cardinality(Defined(n)) + 1
           ELSE Defined(n + 1) = Defined(n)
<1>1. 1..(n + 1) = (1..n) \union {n + 1} /\ n + 1 \notin 1..n
  OBVIOUS
<1>2. CASE dir[n + 1] # Dot /\ dir[n + 1] \in config
  <2>1. Defined(n + 1) = Defined(n) \union {n + 1} /\ n + 1 \notin Defined(n)
    BY <1>1, <1>2 DEF Defined
  <2>2. Cardinality(Defined(n) \union {n + 1}) = Cardinality(Defined(n)) + 1
    BY <2>1, DefinedFinite, FS_AddElement
  <2> QED
    BY <1>2, <2>1, <2>2
<1>3. CASE ~(dir[n + 1] # Dot /\ dir[n + 1] \in config)
  <2>1. Defined(n + 1) = Defined(n)
    BY <1>1, <1>3 DEF Defined
  <2> QED
    BY <1>3, <2>1
<1> QED
  BY <1>2, <1>3

LEMMA ListingInitInv == ListingInit => IInv
<1> SUFFICES ASSUME ListingInit PROVE IInv
  OBVIOUS
<1>1. VectorInv
  BY VectorInit DEF ListingInit
<1>2. dir \in Seq(Values \union {Dot})
  <2>1. CASE dir \in Directories
    <3>1. dir \in UNION {[1..n -> Values \union {Dot}] : n \in 0..MaxEntries}
      BY <2>1 DEF Directories
    <3>2. PICK n \in 0..MaxEntries : dir \in [1..n -> Values \union {Dot}]
      BY <3>1
    <3>3. n \in Nat
      BY VectorAssumption
    <3> QED
      BY <3>2, <3>3
  <2>2. CASE dir \in {<<>>}
    BY <2>2
  <2> QED
    BY <2>1, <2>2 DEF ListingInit
<1>3. at = 0 /\ at \in 0..Len(dir) /\ scan # "listed"
  BY <1>2, LenProperties DEF ListingInit
<1>4. Defined(at) = {}
  BY <1>3 DEF Defined
<1>5. nr = Cardinality(Defined(at))
  BY <1>4, FS_EmptySet DEF ListingInit, Init
<1> QED
  BY <1>1, <1>2, <1>3, <1>4, <1>5 DEF IInv, ScanTypes, ListedSoFar

\* A step that reads no entry and leaves the names alone, or ends the vector.
LEMMA NamesKept ==
    ASSUME IInv, VectorInv', dir' = dir, config' = config, at' = at,
           scan' = "listed" => at = Len(dir), kind' = kind,
           kind = "names" => \/ state' # "live"
                             \/ state' = state /\ nr' = nr /\ slot' = slot
    PROVE  IInv'
<1>1. ScanTypes'
  BY DEF IInv, ScanTypes
<1>2. ListedSoFar'
  BY DEF IInv, ListedSoFar, Defined
<1> QED
  BY <1>1, <1>2 DEF IInv

LEMMA ListEntryStep == ASSUME IInv, ListEntry PROVE IInv'
<1>1. /\ at < Len(dir) /\ Entry # Dot /\ Entry \in config
      /\ AddName(Entry)
      /\ at' = at + 1 /\ dir' = dir /\ config' = config /\ scan' = "reading"
  BY DEF ListEntry, Wanted, Advance
<1>2. at \in Nat /\ Len(dir) \in Nat /\ at + 1 \in 1..Len(dir)
  BY <1>1, LenProperties DEF IInv, ScanTypes
<1>3. Entry \in Values
  BY <1>1, <1>2, ElementOfSeq DEF IInv, ScanTypes, Entry
<1>4. VectorInv'
  BY <1>1, <1>3, AddNameStep DEF IInv
<1>5. ScanTypes'
  BY <1>1, <1>2 DEF IInv, ScanTypes
<1>6. PICK text \in {Entry, Null} : slot' = [Carried EXCEPT ![nr + 1] = text]
  BY <1>1 DEF AddName
<1>7. /\ kind = "names" /\ state = "live" /\ ~short
      /\ nr' = nr + 1 /\ nr \in Nat /\ nr + 1 <= MaxEntries
  BY <1>1 DEF AddName, Budgeted, Grow, IInv, VectorInv, TypeOK, NamesNeverShort
<1>8. /\ Carried \in [Indices -> Values \union {Null, Junk, Blank}]
      /\ \A i \in 1..nr : Carried[i] = slot[i]
  BY <1>7, CarriedEntries DEF IInv
<1>9. slot'[nr + 1] = text /\ \A i \in 1..nr : slot'[i] = slot[i]
  <2>1. nr + 1 \in Indices /\ \A i \in 1..nr : i \in Indices /\ i # nr + 1
    BY <1>7, VectorAssumption DEF Indices
  <2> HIDE DEF Carried
  <2> QED
    BY <1>6, <1>8, <2>1
<1>10. /\ nr = Cardinality(Defined(at))
       /\ \A i \in Defined(at) : slot[Cardinality(Defined(i))] \in {dir[i], Null}
  BY <1>7 DEF IInv, ListedSoFar
<1>11. /\ Defined(at + 1) = Defined(at) \union {at + 1}
       /\ Cardinality(Defined(at + 1)) = nr + 1
  BY <1>1, <1>2, <1>10, DefinedNext DEF Entry
<1>12. \A i \in Defined(at + 1) : slot'[Cardinality(Defined(i))] \in {dir[i], Null}
  <2>1. ASSUME NEW i \in Defined(at)
        PROVE  slot'[Cardinality(Defined(i))] \in {dir[i], Null}
    BY <1>2, <1>9, <1>10, RankInRange
  <2>2. slot'[Cardinality(Defined(at + 1))] \in {dir[at + 1], Null}
    BY <1>6, <1>9, <1>11 DEF Entry
  <2> QED
    BY <1>11, <2>1, <2>2
<1>13. ListedSoFar'
  BY <1>1, <1>7, <1>11, <1>12 DEF ListedSoFar, Defined
<1> QED
  BY <1>4, <1>5, <1>13 DEF IInv

LEMMA SkipEntryStep == ASSUME IInv, SkipEntry PROVE IInv'
<1>1. /\ at < Len(dir) /\ ~(Entry # Dot /\ Entry \in config)
      /\ at' = at + 1 /\ dir' = dir /\ config' = config /\ scan' = "reading"
      /\ UNCHANGED vars
  BY DEF SkipEntry, Wanted, Advance
<1>2. at \in Nat /\ Len(dir) \in Nat /\ at + 1 \in 0..Len(dir)
  BY <1>1, LenProperties DEF IInv, ScanTypes
<1>3. VectorInv'
  BY <1>1, StutterStep DEF IInv
<1>4. ScanTypes'
  BY <1>1, <1>2 DEF IInv, ScanTypes
<1>5. Defined(at + 1) = Defined(at)
  BY <1>1, <1>2, DefinedNext DEF Entry
<1>6. ListedSoFar'
  BY <1>1, <1>5 DEF IInv, ListedSoFar, Defined, vars
<1> QED
  BY <1>3, <1>4, <1>6 DEF IInv

\* A call on the vector that is no entry's.
LEMMA CallKept ==
    ASSUME IInv, dir' = dir, config' = config, at' = at,
           scan' = "listed" => at = Len(dir),
           \/ Destroy
           \/ ToStringArray
           \/ \E n \in 1..MaxEntries : NoBudget(n)
    PROVE  IInv'
<1>1. VectorInv /\ [Next]_vars
  <2>1. ASSUME NEW n \in 1..MaxEntries, NoBudget(n) PROVE Next
    BY <2>1 DEF Next
  <2> QED
    BY <2>1 DEF IInv, Next
<1>2. VectorInv'
  BY <1>1, VectorNext
<1>3. kind' = kind /\ (state' # "live" \/ (state' = state /\ nr' = nr /\ slot' = slot))
  <2>1. CASE Destroy
    BY <2>1 DEF Destroy, Crash
  <2>2. CASE ToStringArray
    BY <2>2 DEF ToStringArray, Result, Crash
  <2>3. CASE \E n \in 1..MaxEntries : NoBudget(n)
    BY <2>3 DEF NoBudget, Result
  <2> QED
    BY <2>1, <2>2, <2>3
<1> QED
  BY <1>2, <1>3, NamesKept

\* The objects' callers keep the listing's variables, and have no names.
LEMMA ObjectsStep == ASSUME IInv, ObjectsNext PROVE IInv'
<1>1. kind = "objects" /\ UNCHANGED listingVars /\ Next
  BY DEF ObjectsNext, Alone, Next
<1>2. VectorInv'
  BY <1>1, VectorNext DEF IInv
<1>3. kind' = kind
  BY <1>1 DEF Next, AddName, AddObjects, NoBudget, NoObject, NoObjectFreesJunk, ExpandNothing,
              GetObject, SetObject, ToStringArray, Destroy, Grow, Result, Crash
<1>4. scan' = "listed" => at = Len(dir)
  BY <1>1 DEF IInv, ScanTypes, listingVars
<1> QED
  BY <1>1, <1>2, <1>3, <1>4, NamesKept DEF listingVars

LEMMA ListingNextInv == IInv /\ [ListingNext \/ ObjectsNext]_allVars => IInv'
<1> SUFFICES ASSUME IInv, [ListingNext \/ ObjectsNext]_allVars PROVE IInv'
  OBVIOUS
<1>1. CASE OpenDir \/ CloseDir \/ CutShort
  <2>1. /\ UNCHANGED vars /\ dir' = dir /\ config' = config /\ at' = at
        /\ scan' = "listed" => at = Len(dir)
    BY <1>1 DEF OpenDir, CloseDir, CutShort, Goto
  <2>2. VectorInv'
    BY <2>1, StutterStep DEF IInv
  <2> QED
    BY <2>1, <2>2, NamesKept DEF vars
<1>2. CASE OpenDirFails \/ GiveUp \/ DestroyList
  BY <1>2, CallKept DEF OpenDirFails, GiveUp, DestroyList, Goto
<1>3. CASE SkipEntry
  BY <1>3, SkipEntryStep
<1>4. CASE ListEntry
  BY <1>4, ListEntryStep
<1>5. CASE ListEntryFails
  <2>1. 1 \in 1..MaxEntries
    <3>1. nr + 1 <= MaxEntries
      BY <1>5 DEF ListEntryFails, NoBudget, Budgeted
    <3>2. nr \in Nat /\ MaxEntries \in Nat
      BY VectorAssumption DEF IInv, VectorInv, TypeOK
    <3> QED
      BY <3>1, <3>2
  <2> QED
    BY <1>5, <2>1, CallKept DEF ListEntryFails, Goto
<1>6. CASE Convert
  BY <1>6, CallKept DEF Convert, Goto
<1>7. CASE ObjectsNext
  BY <1>7, ObjectsStep
<1>8. CASE UNCHANGED allVars
  <2>1. UNCHANGED vars /\ UNCHANGED listingVars
    BY <1>8 DEF allVars
  <2>2. VectorInv'
    BY <2>1, StutterStep DEF IInv
  <2>3. scan' = "listed" => at = Len(dir)
    BY <2>1 DEF IInv, ScanTypes, listingVars
  <2> QED
    BY <2>1, <2>2, <2>3, NamesKept DEF vars, listingVars
<1> QED
  BY <1>1, <1>2, <1>3, <1>4, <1>5, <1>6, <1>7, <1>8 DEF ListingNext

\* The invariant of the vector under a listing, or under the calls that the
\* owners of objects make.
LEMMA Invariant == ListingSpec => []IInv
BY ListingInitInv, ListingNextInv, PTL DEF ListingSpec

-----------------------------------------------------------------------------
\* Every variable of the vector stays within its type, and the entries within
\* the budget (vector.c:3-22).
THEOREM TypeCorrect == ListingSpec => []TypeOK
<1>1. IInv => TypeOK
  BY DEF IInv, VectorInv
<1> QED
  BY <1>1, Invariant, PTL

\* An entry keeps what the caller has put there however often the budget is
\* reallocated, until a vector with entries lacks memory (vector.c:24-165).
THEOREM KeepsEntriesCorrect == ListingSpec => []KeepsEntries
<1>1. IInv => KeepsEntries
  BY DEF IInv, VectorInv
<1> QED
  BY <1>1, Invariant, PTL

\* As many buffers are allocated as entries point to, after every failure, and
\* the end of a vector frees all its names or none of its objects.
THEOREM FreesOnlyNamesCorrect == ListingSpec => []FreesOnlyNames
<1>1. IInv => FreesOnlyNames
  BY DEF IInv, VectorInv
<1> QED
  BY <1>1, Invariant, PTL

\* Undefined behaviour needs a shortage of memory in a vector with entries, or
\* the conversion of a list of names (vector.c:339).
THEOREM CrashNeedsShortageCorrect == ListingSpec => []CrashNeedsShortage
<1>1. IInv => CrashNeedsShortage
  BY DEF IInv, VectorInv
<1> QED
  BY <1>1, Invariant, PTL

\* A listing that is handed out has all containers that were read, in order,
\* and nothing else, whatever the vector could not do; only where readdir()
\* failed it may not be of the whole directory (lxc.c:71-85).
THEOREM ListsDefinedCorrect == ListingSpec => []ListsDefined
<1>1. IInv => ListsDefined
  BY DEF IInv, ScanTypes, ListedSoFar, ListsDefined, HandedOut
<1> QED
  BY <1>1, Invariant, PTL

\* The same of the vector for whoever calls it, in whatever order.
THEOREM VectorCorrect ==
    Spec => [](TypeOK /\ KeepsEntries /\ FreesOnlyNames /\ CrashNeedsShortage)
<1>1. VectorInv => TypeOK /\ KeepsEntries /\ FreesOnlyNames /\ CrashNeedsShortage
  BY DEF VectorInv
<1> QED
  BY <1>1, VectorInit, VectorNext, PTL DEF Spec

=============================================================================
