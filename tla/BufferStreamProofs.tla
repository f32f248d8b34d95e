------------------------ MODULE BufferStreamProofs ------------------------
(***************************************************************************)
(* Proofs about BufferStream for every alphabet of bytes, every limit of   *)
(* malloc() and every offset and length a caller may pass.                 *)
(***************************************************************************)
EXTENDS BufferStream, TLAPS

\* The history of appended bytes is given up for good or fits the buffer.
LogInv ==
    \/ log = NotAppending
    \/ log.count \in 0..Memory

IInv == TypeOK /\ LogInv /\ RoomIsThere /\ AppendedIsKept

LEMMA InitInv == Init => IInv
<1> SUFFICES ASSUME Init PROVE IInv
  OBVIOUS
<1> USE BufferAssumption DEF Init, IInv, TypeOK, LogInv, RoomIsThere, AppendedIsKept,
        Buffer, Source, Log, NotAppending
<1>1. CASE size = 0
  BY <1>1
<1>2. CASE size \in 1..Memory
  BY <1>2
<1> QED
  BY <1>1, <1>2

-----------------------------------------------------------------------------
\* A call that fails without an effect keeps the invariant.
LEMMA FailStep == ASSUME IInv, Fail PROVE IInv'
BY DEF Fail, IInv, TypeOK, LogInv, RoomIsThere, AppendedIsKept

\* The calls that only move the cursor.
LEMMA SeekStep ==
    ASSUME IInv, NEW o \in Int, Seek(o) \/ SeekAt(o) PROVE IInv'
<1>1. CASE Fail
  BY <1>1, FailStep
<1>2. ASSUME NEW new \in 0..(size - 1), current' = new, rc' = 0, room' = 0,
             log' = NotAppending, UNCHANGED <<size, abandoned, data>>
      PROVE  IInv'
  BY <1>2, BufferAssumption
     DEF IInv, TypeOK, LogInv, RoomIsThere, AppendedIsKept, NotAppending
<1>3. CASE Seek(o)
  BY <1>1, <1>2, <1>3, BufferAssumption DEF Seek, IInv, TypeOK
<1>4. CASE SeekAt(o)
  BY <1>1, <1>2, <1>4, BufferAssumption DEF SeekAt, AbsOffset, IInv, TypeOK
<1> QED
  BY <1>3, <1>4

LEMMA GetStep ==
    ASSUME IInv, NEW n \in Nat, NEW post \in BOOLEAN, NEW o \in Int, GetAt(n, post, o)
    PROVE  IInv'
<1>1. CASE Fail
  BY <1>1, FailStep
<1>2. CASE ~Fail
  <2>1. /\ AbsOffset(o) \in Nat /\ AbsOffset(o) + n <= size
        /\ current' = IF post THEN AbsOffset(o) + n ELSE AbsOffset(o)
        /\ rc' = 0 /\ room' = 0 /\ log' = NotAppending
        /\ size' = size /\ abandoned' = abandoned /\ data' = data
    BY <1>2, BufferAssumption DEF GetAt, AbsOffset, IInv, TypeOK
  <2>2. current' \in 0..size'
    BY <2>1, BufferAssumption DEF IInv, TypeOK
  <2> QED
    BY <2>1, <2>2, BufferAssumption
       DEF IInv, TypeOK, LogInv, RoomIsThere, AppendedIsKept, NotAppending
<1> QED
  BY <1>1, <1>2

\* A reserve keeps every byte, and what it promises is there.
LEMMA ReserveStep ==
    ASSUME IInv, NEW n \in Nat, NEW o \in Int, ReserveAt(n, o)
    PROVE  IInv'
<1>1. CASE Fail
  BY <1>1, FailStep
<1>2. CASE ~Fail
  <2> DEFINE newLen == IF o + n > size THEN o + n ELSE size
             seekTo == IF o < 0 THEN newLen + o ELSE o
  <2>1. /\ size' = newLen /\ newLen \in 0..Memory /\ newLen >= size
        /\ abandoned' \in 0..(Memory - newLen)
        /\ o + n \in Nat /\ newLen >= o + n
        /\ data' = IF o + n > size THEN Grown(newLen) ELSE data
        /\ rc' \in {0, -1}
        /\ \/ /\ seekTo \in 0..(newLen - 1)
              /\ current' = seekTo
              /\ room' = IF o >= 0 THEN n ELSE 0
           \/ /\ seekTo \notin 0..(newLen - 1)
              /\ current' = current
              /\ room' = room
        /\ log' = IF o = current /\ current = size THEN log ELSE NotAppending
    BY <1>2, BufferAssumption DEF ReserveAt, CanGrow, IInv, TypeOK
  <2>2. /\ size \in 0..Memory /\ current \in 0..size /\ room \in Nat
        /\ data \in Buffer(size) /\ Memory \in Nat
    BY BufferAssumption DEF IInv, TypeOK
  <2>3. data' \in Buffer(size') /\ \A i \in 0..(size - 1) : data'[i] = data[i]
    <3>1. CASE o + n > size
      BY <3>1, <2>1, <2>2 DEF Buffer, Grown
    <3>2. CASE ~(o + n > size)
      BY <3>2, <2>1, <2>2 DEF Buffer
    <3> QED
      BY <3>1, <3>2
  <2>4. current' \in 0..size' /\ room' \in Nat /\ current' + room' <= size'
    BY <2>1, <2>2 DEF IInv, RoomIsThere
  <2>5. LogInv' /\ log.count' \in -1..Memory
    BY <2>1, BufferAssumption DEF IInv, TypeOK, LogInv, NotAppending
  <2>6. AppendedIsKept'
    <3>1. CASE log' = NotAppending
      BY <3>1 DEF AppendedIsKept, NotAppending
    <3>2. CASE log' # NotAppending
      <4>1. o = size /\ current = size /\ log' = log
        BY <3>2, <2>1
      <4>2. log.count \in 0..Memory
        BY <4>1, <3>2 DEF IInv, LogInv
      <4>3. log.count = size /\ room = 0
        BY <4>1, <4>2, <2>2 DEF IInv, AppendedIsKept
      <4>4. size' = size + n /\ current' = size /\ size' = current' + room'
        BY <4>1, <4>3, <2>1, <2>2
      <4>5. \A i \in 0..(log.count - 1) : data'[i] = log.bytes[i]
        BY <2>3, <4>2, <4>3 DEF IInv, AppendedIsKept
      <4> QED
        BY <4>1, <4>3, <4>4, <4>5 DEF AppendedIsKept
    <3> QED
      BY <3>1, <3>2
  <2> QED
    BY <2>1, <2>3, <2>4, <2>5, <2>6 DEF IInv, TypeOK, RoomIsThere
<1> QED
  BY <1>1, <1>2

\* A put writes where it says and nowhere else, and appends in order.
LEMMA PutStep ==
    ASSUME IInv, NEW n \in Nat, NEW src \in Source(n), NEW post \in BOOLEAN,
           NEW o \in Int, PutAt(src, n, post, o)
    PROVE  IInv'
<1>1. CASE Fail
  BY <1>1, FailStep
<1>2. CASE ~Fail
  <2> DEFINE to == AbsOffset(o)
  <2>1. /\ to \in Nat /\ to + n <= size /\ rc' = 0 /\ size' = size
        /\ abandoned' = abandoned /\ abandoned \in 0..(Memory - size)
        /\ data' = [i \in 0..(size - 1) |->
                      IF i >= to /\ i < to + n THEN src[i - to] ELSE data[i]]
        /\ current' = IF post THEN to + n ELSE to
        /\ Appends(src, n, post, to)
    BY <1>2, BufferAssumption DEF PutAt, AbsOffset, IInv, TypeOK
  <2> HIDE DEF to
  <2>2. /\ size \in 0..Memory /\ current \in 0..size /\ room \in Nat
        /\ data \in Buffer(size) /\ Memory \in Nat /\ current + room <= size
    BY BufferAssumption DEF IInv, TypeOK, RoomIsThere
  <2>3. data' \in Buffer(size')
    <3>1. \A i \in 0..(size - 1) : i >= to /\ i < to + n => src[i - to] \in Bytes
      BY <2>1, <2>2 DEF Source
    <3> QED
      BY <3>1, <2>1, <2>2 DEF Buffer
  <2>4. CASE ~(post /\ to = current /\ n <= room)
    <3>1. room' = 0 /\ log' = NotAppending
      BY <2>1, <2>4 DEF Appends
    <3> QED
      BY <3>1, <2>1, <2>2, <2>3
         DEF IInv, TypeOK, LogInv, RoomIsThere, AppendedIsKept, NotAppending
  <2>5. CASE post /\ to = current /\ n <= room
    <3>1. /\ room' = room - n /\ current' = current + n
          /\ log = NotAppending => log' = log
          /\ log # NotAppending =>
                log' = Log(log.count + n,
                           [i \in 0..(log.count + n - 1) |->
                              IF i < log.count THEN log.bytes[i]
                                               ELSE src[i - log.count]])
      BY <2>1, <2>5 DEF Appends
    <3>2. CASE log = NotAppending
      <4>1. log' = NotAppending
        BY <3>1, <3>2
      <4>2. LogInv' /\ AppendedIsKept' /\ log'.count \in -1..Memory
        BY <4>1, <2>2 DEF LogInv, AppendedIsKept, NotAppending
      <4>3. room' \in Nat /\ current' \in 0..size' /\ current' + room' <= size'
        BY <3>1, <2>1, <2>2, <2>5
      <4> QED
        BY <4>2, <4>3, <2>1, <2>2, <2>3 DEF IInv, TypeOK, RoomIsThere
    <3>3. CASE log # NotAppending
      <4>1. /\ log.count \in 0..Memory /\ log.count = current
            /\ size = current + room
            /\ \A i \in 0..(log.count - 1) : data[i] = log.bytes[i]
        BY <3>3, <2>2 DEF IInv, LogInv, AppendedIsKept
      <4>2. /\ log'.count = log.count + n
            /\ log'.bytes = [i \in 0..(log.count + n - 1) |->
                              IF i < log.count THEN log.bytes[i]
                                               ELSE src[i - log.count]]
        BY <3>1, <3>3 DEF Log
      <4>3. log'.count \in 0..Memory /\ current' = log'.count /\ size' = current' + room'
        <5>1. size' = size
          BY <2>1
        <5>2. log'.count = current + n /\ current' = current + n /\ room' = room - n
          BY <4>1, <4>2, <3>1
        <5> QED
          BY <5>1, <5>2, <4>1, <2>2, <2>5
      <4>4. ASSUME NEW i \in 0..(log'.count - 1) PROVE data'[i] = log'.bytes[i]
        <5>1. i \in 0..(size - 1) /\ i \in 0..(log.count + n - 1)
          <6> SUFFICES i \in 0..(size - 1) /\ i \in 0..(current + n - 1)
            BY <4>1
          <6>1. log'.count = current + n
            BY <4>1, <4>2
          <6>2. size = current + room
            BY <4>1
          <6> QED
            BY <6>1, <6>2, <2>2, <2>5
        <5>2. CASE i < log.count
          <6>1. i \in 0..(log.count - 1) /\ ~(i >= to)
            BY <5>1, <5>2, <4>1, <2>1, <2>2, <2>5
          <6>2. data'[i] = data[i]
            BY <5>1, <6>1, <2>1
          <6>3. log'.bytes[i] = log.bytes[i]
            BY <5>1, <5>2, <4>2
          <6> QED
            BY <6>1, <6>2, <6>3, <4>1
        <5>3. CASE ~(i < log.count)
          BY <5>1, <5>3, <4>1, <4>2, <2>1, <2>2, <2>5
        <5> QED
          BY <5>2, <5>3
      <4>5. AppendedIsKept' /\ LogInv'
        BY <4>3, <4>4 DEF AppendedIsKept, LogInv
      <4>6. room' \in Nat /\ current' \in 0..size' /\ current' + room' <= size'
        BY <3>1, <2>1, <2>2, <2>5
      <4>7. log'.count \in -1..Memory
        BY <4>3, <2>2
      <4> QED
        BY <4>5, <4>6, <4>7, <2>1, <2>2, <2>3 DEF IInv, TypeOK, RoomIsThere
    <3> QED
      BY <3>2, <3>3
  <2> QED
    BY <2>4, <2>5
<1> QED
  BY <1>1, <1>2

-----------------------------------------------------------------------------
\* Every call, at the cursor or at an offset, keeps the invariant.
LEMMA StepInv == ASSUME IInv, [Next]_vars PROVE IInv'
<1>1. current \in Int /\ Offsets \subseteq Int /\ Lengths \subseteq Nat
  BY BufferAssumption DEF IInv, TypeOK, Offsets, Lengths
<1>2. ASSUME NEW o \in Offsets, Seek(o) \/ SeekAt(o) PROVE IInv'
  BY <1>1, <1>2, SeekStep
<1>3. ASSUME NEW n \in Lengths, Reserve(n) \/ \E o \in Offsets : ReserveAt(n, o) PROVE IInv'
  BY <1>1, <1>3, ReserveStep DEF Reserve
<1>4. ASSUME NEW n \in Lengths, NEW post \in BOOLEAN,
             Get(n, post) \/ \E o \in Offsets : GetAt(n, post, o)
      PROVE  IInv'
  BY <1>1, <1>4, GetStep DEF Get
<1>5. ASSUME NEW n \in Lengths, NEW post \in BOOLEAN, NEW src \in Source(n),
             Put(src, n, post) \/ \E o \in Offsets : PutAt(src, n, post, o)
      PROVE  IInv'
  BY <1>1, <1>5, PutStep DEF Put
<1>6. CASE UNCHANGED vars
  BY <1>6 DEF vars, IInv, TypeOK, LogInv, RoomIsThere, AppendedIsKept
<1> QED
  BY <1>2, <1>3, <1>4, <1>5, <1>6 DEF Next

\* The inductive invariant holds in every reachable state.
THEOREM Invariance == Spec => []IInv
<1> QED
  BY InitInv, StepInv, PTL DEF Spec

\* Every variable stays within its type.
THEOREM TypeCorrect == Spec => []TypeOK
<1>1. IInv => TypeOK
  BY DEF IInv
<1> QED
  BY Invariance, <1>1, PTL

\* What a reserve has promised at the cursor is inside the buffer.
THEOREM RoomIsThereCorrect == Spec => []RoomIsThere
<1>1. IInv => RoomIsThere
  BY DEF IInv
<1> QED
  BY Invariance, <1>1, PTL

\* A caller that only appends finds what it appended, in order.
THEOREM AppendedIsKeptCorrect == Spec => []AppendedIsKept
<1>1. IInv => AppendedIsKept
  BY DEF IInv
<1> QED
  BY Invariance, <1>1, PTL

\* A call that fails moves no cursor and loses no byte.
THEOREM FailureKeepsCorrect == Spec => FailureKeeps
<1> DEFINE Keeps == rc' = -1 => /\ current' = current
                                /\ size' >= size
                                /\ \A i \in 0..(size - 1) : data'[i] = data[i]
<1>1. ASSUME IInv, [Next]_vars PROVE [Keeps]_vars
  <2>1. size \in Nat /\ Offsets \subseteq Int /\ Lengths \subseteq Nat /\ current \in Int
    BY <1>1, BufferAssumption DEF IInv, TypeOK, Offsets, Lengths
  <2>2. ASSUME Fail PROVE Keeps
    BY <2>1, <2>2 DEF Fail
  <2>3. ASSUME NEW n \in Lengths, NEW o \in Int, ReserveAt(n, o) PROVE Keeps
    <3>1. CASE Fail
      BY <2>2, <3>1
    <3>2. CASE ~Fail /\ rc' = -1
      <4>1. /\ current' = current
            /\ size' = IF o + n > size THEN o + n ELSE size
            /\ data' = IF o + n > size THEN Grown(o + n) ELSE data
        BY <2>3, <3>2 DEF ReserveAt
      <4>2. CASE o + n > size
        BY <4>1, <4>2, <2>1 DEF Grown
      <4>3. CASE ~(o + n > size)
        BY <4>1, <4>3, <2>1
      <4> QED
        BY <4>2, <4>3
    <3> QED
      BY <3>1, <3>2
  <2>4. ASSUME NEW n \in Lengths, Reserve(n) \/ \E o \in Offsets : ReserveAt(n, o) PROVE Keeps
    BY <2>1, <2>3, <2>4 DEF Reserve
  <2>5. ASSUME NEW o \in Offsets, Seek(o) \/ SeekAt(o) PROVE Keeps
    BY <2>2, <2>5 DEF Seek, SeekAt
  <2>6. ASSUME NEW n \in Lengths, NEW post \in BOOLEAN,
               Get(n, post) \/ \E o \in Offsets : GetAt(n, post, o)
        PROVE  Keeps
    BY <2>2, <2>6 DEF Get, GetAt
  <2>7. ASSUME NEW n \in Lengths, NEW post \in BOOLEAN, NEW src \in Source(n),
               Put(src, n, post) \/ \E o \in Offsets : PutAt(src, n, post, o)
        PROVE  Keeps
    BY <2>2, <2>7 DEF Put, PutAt
  <2> HIDE DEF Keeps
  <2> QED
    BY <1>1, <2>4, <2>5, <2>6, <2>7 DEF Next
<1> QED
  BY Invariance, <1>1, PTL DEF Spec, FailureKeeps
=============================================================================
