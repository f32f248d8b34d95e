---------------------------- MODULE BufferStream ----------------------------
(***************************************************************************)
(* The byte buffer with a cursor that every message is built in, read from *)
(* and collected in (src/lib/buffer_stream.c).  Contents are a function of *)
(* the offsets; a byte malloc() has not been given a value for is Junk.    *)
(* Lengths come from 32-bit header fields and from read(), so a sum with a *)
(* non-negative offset does not wrap an unsigned long; a negative sum does *)
(* and is more than malloc() can give.  A buffer that grows abandons its   *)
(* old memory, which nobody can free any more: all buffers a stream has    *)
(* had share what malloc() can give.                                       *)
(***************************************************************************)
EXTENDS Integers

CONSTANTS
    Bytes,
    Junk,
    Memory,     \* bytes malloc() has for this stream
    MaxOffset   \* bound: offsets and lengths a caller passes

ASSUME BufferAssumption ==
    /\ Junk \notin Bytes
    /\ Bytes # {}
    /\ Memory \in Nat /\ MaxOffset \in Nat

VARIABLES
    size,      \* buf_len
    current,   \* the cursor
    abandoned, \* bytes in buffers it had before
    data,      \* the bytes at buf
    rc,        \* what the last call returned
    room,      \* history: bytes a reserve has promised at the cursor
    log        \* history: bytes appended so far, while all calls append

vars == <<size, current, abandoned, data, rc, room, log>>

Buffer(n)  == [0..(n - 1) -> Bytes \union {Junk}]
Source(n)  == [0..(n - 1) -> Bytes]
Offsets    == -MaxOffset..MaxOffset
Lengths    == 0..MaxOffset

\* The log of a client that does anything but append is NotAppending.
NotAppending == [count |-> -1, bytes |-> [i \in {} |-> Junk]]
Log(n, f)    == [count |-> n, bytes |-> f]

\* bs_init(bs, NULL, 0), and bs_init() on a message that was received.
Init ==
    /\ rc = 0 /\ current = 0 /\ abandoned = 0 /\ room = 0
    /\ \/ /\ size = 0
          /\ data = [i \in {} |-> Junk]
          /\ log = Log(0, [i \in {} |-> Junk])
       \/ /\ size \in 1..Memory
          /\ data \in Source(size)
          /\ log = NotAppending

AbsOffset(offset) == IF offset < 0 THEN size + offset ELSE offset

Fail == rc' = -1 /\ UNCHANGED <<size, current, abandoned, data, room, log>>

-----------------------------------------------------------------------------
Seek(offset) ==
    LET new == current + offset
    IN  \/ /\ new < 0 \/ new >= size
           /\ Fail
        \/ /\ new >= 0 /\ new < size
           /\ rc' = 0 /\ current' = new
           /\ room' = 0 /\ log' = NotAppending
           /\ UNCHANGED <<size, abandoned, data>>

SeekAt(offset) ==
    LET new == AbsOffset(offset)
    IN  \/ /\ new < 0 \/ new >= size
           /\ Fail
        \/ /\ new >= 0 /\ new < size
           /\ rc' = 0 /\ current' = new
           /\ room' = 0 /\ log' = NotAppending
           /\ UNCHANGED <<size, abandoned, data>>

\* malloc() has room for n bytes beside all that the stream has had.
CanGrow(n) == abandoned + size + n <= Memory

\* memcpy() of the old contents into the new buffer.
Grown(n) == [i \in 0..(n - 1) |-> IF i < size THEN data[i] ELSE Junk]

\* Fault: the new buffer is only as large as the extension.
ReserveShort(extLen, offset) ==
    LET seekTo == IF offset < 0 THEN size + offset ELSE offset
    IN  /\ extLen > size => CanGrow(extLen)
        /\ size' = IF extLen > size THEN extLen ELSE size
        /\ data' = IF extLen > size THEN Grown(extLen) ELSE data
        /\ abandoned' = IF extLen > size THEN abandoned + size ELSE abandoned
        /\ IF seekTo \in 0..(size' - 1)
           THEN rc' = 0 /\ current' = seekTo
           ELSE rc' = -1 /\ current' = current
        /\ room' = IF rc' = 0 /\ offset >= 0 THEN extLen ELSE 0
        /\ log' = IF offset = current /\ room = 0 /\ current = size THEN log ELSE NotAppending

\* Fault: the old contents stay behind.
ReserveAnew(extLen, offset) ==
    LET outLen == offset + extLen
        newLen == IF outLen > size THEN outLen ELSE size
        seekTo == IF offset < 0 THEN newLen + offset ELSE offset
    IN  /\ outLen >= 0 /\ (outLen > size => CanGrow(outLen))
        /\ size' = newLen
        /\ abandoned' = IF outLen > size THEN abandoned + size ELSE abandoned
        /\ data' = IF outLen > size THEN [i \in 0..(newLen - 1) |-> Junk] ELSE data
        /\ IF seekTo \in 0..(newLen - 1)
           THEN rc' = 0 /\ current' = seekTo
           ELSE rc' = -1 /\ current' = current
        /\ room' = IF rc' = 0 /\ offset >= 0 THEN extLen ELSE 0
        /\ log' = IF offset = current /\ room = 0 /\ current = size THEN log ELSE NotAppending

\* bs_reserve_at(): grow to offset + ext_len if need be, then seek there.
\* The size is taken from the offset as given, the seek from its absolute
\* value; a seek that fails leaves the larger buffer.
ReserveAt(extLen, offset) ==
    LET outLen == offset + extLen
        newLen == IF outLen > size THEN outLen ELSE size
        seekTo == IF offset < 0 THEN newLen + offset ELSE offset
    IN  \/ /\ outLen < 0 \/ (outLen > size /\ ~CanGrow(outLen))
           /\ Fail
        \/ /\ outLen >= 0 /\ (outLen > size => CanGrow(outLen))
           /\ size' = newLen
           /\ abandoned' = IF outLen > size THEN abandoned + size ELSE abandoned
           /\ data' = IF outLen > size THEN Grown(newLen) ELSE data
           /\ IF seekTo \in 0..(newLen - 1)
              THEN /\ rc' = 0 /\ current' = seekTo
                   /\ room' = IF offset >= 0 THEN extLen ELSE 0
              ELSE /\ rc' = -1 /\ current' = current
                   /\ room' = room
           /\ log' = IF offset = current /\ current = size THEN log ELSE NotAppending

\* bs_reserve()
Reserve(extLen) == ReserveAt(extLen, current)

\* __bs_get_at(): the caller gets a pointer to inLen bytes at the offset.
GetAt(inLen, post, offset) ==
    LET from == AbsOffset(offset)
    IN  \/ /\ from < 0 \/ from + inLen > size
           /\ Fail
        \/ /\ from >= 0 /\ from + inLen <= size
           /\ rc' = 0
           /\ current' = IF post THEN from + inLen ELSE from
           /\ room' = 0 /\ log' = NotAppending
           /\ UNCHANGED <<size, abandoned, data>>

\* bs_get() and bs_post_get()
Get(inLen, post) == GetAt(inLen, post, current)

\* What a put at the cursor does to the histories.
Appends(src, n, post, to) ==
    IF post /\ to = current /\ n <= room
    THEN /\ room' = room - n
         /\ log' = IF log = NotAppending THEN log
                   ELSE Log(log.count + n,
                            [i \in 0..(log.count + n - 1) |->
                                IF i < log.count THEN log.bytes[i]
                                                 ELSE src[i - log.count]])
    ELSE room' = 0 /\ log' = NotAppending

\* Fault: the cursor stays where the bytes were put.
PutStays(src, n, post, offset) ==
    LET to == AbsOffset(offset)
    IN  /\ to >= 0 /\ to + n <= size
        /\ rc' = 0
        /\ data' = [i \in 0..(size - 1) |->
                      IF i >= to /\ i < to + n THEN src[i - to] ELSE data[i]]
        /\ current' = to
        /\ Appends(src, n, post, to)
        /\ UNCHANGED <<size, abandoned>>

\* __bs_put_at()
PutAt(src, n, post, offset) ==
    LET to == AbsOffset(offset)
    IN  \/ /\ to < 0 \/ to + n > size
           /\ Fail
        \/ /\ to >= 0 /\ to + n <= size
           /\ rc' = 0
           /\ data' = [i \in 0..(size - 1) |->
                         IF i >= to /\ i < to + n THEN src[i - to] ELSE data[i]]
           /\ current' = IF post THEN to + n ELSE to
           /\ Appends(src, n, post, to)
           /\ UNCHANGED <<size, abandoned>>

\* bs_put() and bs_post_put()
Put(src, n, post) == PutAt(src, n, post, current)

-----------------------------------------------------------------------------
Next ==
    \/ \E o \in Offsets : Seek(o) \/ SeekAt(o)
    \/ \E n \in Lengths :
         \/ Reserve(n)
         \/ \E o \in Offsets : ReserveAt(n, o)
         \/ \E post \in BOOLEAN :
              \/ Get(n, post)
              \/ \E o \in Offsets : GetAt(n, post, o)
              \/ \E src \in Source(n) :
                   \/ Put(src, n, post)
                   \/ \E o \in Offsets : PutAt(src, n, post, o)

Spec == Init /\ [][Next]_vars

-----------------------------------------------------------------------------
\* Every variable stays within its type; the cursor never leaves the buffer.
TypeOK ==
    /\ size \in 0..Memory
    /\ abandoned \in 0..(Memory - size)
    /\ current \in 0..size
    /\ data \in Buffer(size)
    /\ rc \in {0, -1}
    /\ room \in Nat
    /\ log.count \in -1..Memory

\* What a reserve has promised is there: the bytes it was asked for can be
\* put at the cursor, whatever failed in between (icmp_marshal() and
\* execute_cmd() ignore the result of the put).
RoomIsThere == current + room <= size

\* A caller that only reserves at the end and puts what it has reserved
\* finds in the buffer exactly what it put, in order (the read loop of
\* execute_cmd(), subcmd_start.c:260-283).
AppendedIsKept ==
    log.count >= 0 =>
        /\ current = log.count
        /\ size = current + room
        /\ \A i \in 0..(log.count - 1) : data[i] = log.bytes[i]

\* A call that fails moves no cursor and loses no byte.
FailureKeeps ==
    [][rc' = -1 => /\ current' = current
                   /\ size' >= size
                   /\ \A i \in 0..(size - 1) : data'[i] = data[i]]_vars
=============================================================================
