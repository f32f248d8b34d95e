---------------------------- MODULE IcmpMessage ----------------------------
(***************************************************************************)
(* The messages of one exchange, end to end: icmpc marshals a request, the *)
(* worker unmarshals it and marshals its reply, icmpc unmarshals and       *)
(* prints that (src/lib/icmp.c, src/include/icmp.h).  Header fields keep   *)
(* their width: payload_length, and the sum it is checked in, are taken    *)
(* modulo Word (2^32 in the code).  A message is as long as the memory at  *)
(* hand allows, but the socket it is sent to takes no more than MaxReceive *)
(* bytes (NN_RCVMAXSIZE, 1 MiB unless it is set, and src/ never sets it),  *)
(* and both ends of lib/nanomsg.c put a length through an int.             *)
(***************************************************************************)
EXTENDS Naturals, Sequences

CONSTANTS
    Text,          \* bytes of a text other than NUL
    Nul,
    HeaderLength,  \* sizeof(icmp_message_v1_header_t)
    V0Length,      \* sizeof(icmp_message_v0_header_t)
    MaxReceive,    \* the longest message a socket receives
    MaxInt,        \* the longest message nanomsg_send_data() can tell was sent
    Word,          \* values of a uint32_t
    MaxText,       \* bound: bytes of a request's text
    MaxOutput      \* bound: bytes of output that are collected

ASSUME MessageAssumption ==
    /\ Nul \notin Text
    /\ HeaderLength \in Nat /\ V0Length \in 1..HeaderLength
    /\ MaxReceive \in Nat /\ MaxInt \in Nat /\ Word \in Nat \ {0}
    /\ MaxReceive <= MaxInt /\ MaxInt < Word
    /\ MaxText \in Nat /\ MaxOutput \in Nat

VARIABLES
    at,        \* how far the exchange is
    cc,        \* the command code icmpc asked with
    message,   \* the message in flight
    reply,     \* history: the payload the worker marshalled
    shown,     \* what icmpc printed
    starved    \* history: an allocation has failed

vars == <<at, cc, message, reply, shown, starved>>

Codes == {"ECHO", "COMMANDLINE"}
Bytes == Text \union {Nul}

TextsUpTo(S, n) == UNION {[1..k -> S] : k \in 0..n}

HeaderBytes == [i \in 1..HeaderLength |-> "header"]

\* The message of a marshalling that had no memory: no bytes at all.
Nothing == [cc |-> "ECHO", headerLength |-> 0, payloadLength |-> 0, bytes |-> <<>>]

Init ==
    /\ at = "idle" /\ cc = "ECHO"
    /\ message = Nothing
    /\ reply = <<>> /\ shown = <<>>
    /\ starved = FALSE

-----------------------------------------------------------------------------
\* Fault: a length field without a limit.
MarshalWide(code, payload) ==
    [cc            |-> code,
     headerLength  |-> HeaderLength,
     payloadLength |-> Len(payload),
     bytes         |-> HeaderBytes \o payload]

\* Fault: the payload is put over the header.
MarshalInPlace(code, payload) ==
    [cc            |-> code,
     headerLength  |-> HeaderLength,
     payloadLength |-> Len(payload) % Word,
     bytes         |-> payload \o HeaderBytes]

\* Fault: a field of half the range.
MarshalNarrow(code, payload) ==
    [cc            |-> code,
     headerLength  |-> HeaderLength,
     payloadLength |-> Len(payload) % (Word \div 2),
     bytes         |-> HeaderBytes \o payload]

\* icmp_marshal() of a payload, with memory for the message.
Marshal(code, payload) ==
    [cc            |-> code,
     headerLength  |-> HeaderLength,
     payloadLength |-> Len(payload) % Word,
     bytes         |-> HeaderBytes \o payload]

\* Fault: a message must be longer than what it announces.
AcceptsLonger(m, expected) ==
    /\ Len(m.bytes) >= V0Length
    /\ m.cc \in Codes
    /\ expected \in {"NOT_SPECIFIED", m.cc}
    /\ m.headerLength >= HeaderLength
    /\ (m.headerLength + m.payloadLength) % Word < Len(m.bytes)

\* sanity_check_header(), and the check of an empty message before it.
Accepts(m, expected) ==
    /\ Len(m.bytes) >= V0Length
    /\ m.cc \in Codes
    /\ expected \in {"NOT_SPECIFIED", m.cc}
    /\ m.headerLength >= HeaderLength
    /\ (m.headerLength + m.payloadLength) % Word <= Len(m.bytes)

\* What icmp_unmarshal() hands to its handler: a pointer behind the header,
\* and the announced length.
Payload(m) == SubSeq(m.bytes, m.headerLength + 1, m.headerLength + m.payloadLength)
FromPayload(m) == SubSeq(m.bytes, m.headerLength + 1, Len(m.bytes))

\* bs_get_at() checks the length without overflow.  Its result is ignored, and
\* the pointer it has not set is used.
Unmarshal(m, expected, refused, handled) ==
    IF ~Accepts(m, expected) THEN refused
    ELSE IF m.headerLength + m.payloadLength <= Len(m.bytes) THEN handled
    ELSE "unset"

\* A string as printf("%s") sees it.
Terminated(s) == \E i \in 1..Len(s) : s[i] = Nul
UpToNul(s) ==
    LET end == CHOOSE i \in 1..Len(s) : s[i] = Nul /\ \A j \in 1..(i - 1) : s[j] # Nul
    IN  SubSeq(s, 1, end - 1)

-----------------------------------------------------------------------------
(* The transport: lib/nanomsg.c, and what nanomsg does with a long message. *)

Sendable(m) == Len(m.bytes) <= MaxInt
Arrives(m)  == Len(m.bytes) <= MaxReceive

\* nanomsg_send_data() compares the int it gets with the length it gave: the
\* caller takes the message for unsent.
SendFails ==
    /\ at \in {"requested", "replied"}
    /\ ~Sendable(message)
    /\ at' = "unsent"
    /\ UNCHANGED <<cc, message, reply, shown, starved>>

\* The other socket refuses the message and drops its connection.
NeverArrives ==
    /\ at \in {"requested", "replied"}
    /\ Sendable(message) /\ ~Arrives(message)
    /\ at' = "undelivered"
    /\ UNCHANGED <<cc, message, reply, shown, starved>>

-----------------------------------------------------------------------------
\* icmp_marshal() ignores a failed bs_reserve(): every later call on the
\* buffer fails too, and the header is written through a pointer that was
\* never set.  The process crashes, or goes on and sends nothing.
WithoutMemory(next) ==
    /\ at' \in {"crashed", next}
    /\ message' = Nothing
    /\ starved' = TRUE

\* icmpc: the text with its terminating NUL.
Request(code, text, hasMemory) ==
    /\ at = "idle"
    /\ cc' = code
    /\ \/ /\ hasMemory
          /\ at' = "requested"
          /\ message' = Marshal(code, Append(text, Nul))
          /\ UNCHANGED starved
       \/ ~hasMemory /\ WithoutMemory("requested")
    /\ UNCHANGED <<reply, shown>>

\* handle_protocol() of the worker.
ReceiveRequest ==
    /\ at = "requested"
    /\ Arrives(message)
    /\ at' = Unmarshal(message, "NOT_SPECIFIED", "dropped", "serving")
    /\ UNCHANGED <<cc, message, reply, shown, starved>>

\* The worker marshals a payload; icmp_marshal() refuses one of no bytes, and
\* an ic_assert() ends the worker.
Answer(code, payload, hasMemory) ==
    /\ reply' = payload
    /\ \/ payload = <<>> /\ at' = "crashed" /\ UNCHANGED message
       \/ /\ payload # <<>> /\ hasMemory
          /\ at' = "replied" /\ message' = Marshal(code, payload)

\* echo_data(): the payload comes back as it was received.
ServeEcho(hasMemory) ==
    /\ at = "serving"
    /\ message.cc = "ECHO"
    /\ \/ Answer("ECHO", Payload(message), hasMemory) /\ UNCHANGED starved
       \/ ~hasMemory /\ WithoutMemory("replied") /\ reply' = Payload(message)
    /\ UNCHANGED <<cc, shown>>

\* Fault: the output is not terminated.
ServeUnterminated(output, terminated, hasMemory) ==
    /\ at = "serving"
    /\ message.cc = "COMMANDLINE"
    /\ terminated /\ hasMemory /\ output # <<>>
    /\ Answer("COMMANDLINE", output, hasMemory)
    /\ UNCHANGED <<cc, shown, starved>>

\* execute_cmd(): what was collected, and a NUL if there was memory for it.
ServeCommand(output, terminated, hasMemory) ==
    /\ at = "serving"
    /\ message.cc = "COMMANDLINE"
    /\ LET payload == IF terminated THEN Append(output, Nul) ELSE output
       IN  \/ /\ Answer("COMMANDLINE", payload, hasMemory)
              /\ starved' = (starved \/ ~terminated)
           \/ /\ payload # <<>> /\ ~hasMemory
              /\ WithoutMemory("replied") /\ reply' = payload
    /\ UNCHANGED <<cc, shown>>

\* print_result() ignores the length: it prints up to the first NUL, and reads
\* past the message if there is none.
ReceiveReply ==
    /\ at = "replied"
    /\ Arrives(message)
    /\ at' = Unmarshal(message, cc, "rejected",
                       IF Terminated(FromPayload(message)) THEN "shown" ELSE "overread")
    /\ shown' = IF at' = "shown" THEN UpToNul(FromPayload(message)) ELSE shown
    /\ UNCHANGED <<cc, message, reply, starved>>

Next ==
    \/ \E hasMemory \in BOOLEAN :
         \/ \E code \in Codes, text \in TextsUpTo(Text, MaxText) :
              Request(code, text, hasMemory)
         \/ ServeEcho(hasMemory)
         \/ \E output \in TextsUpTo(Bytes, MaxOutput), terminated \in BOOLEAN :
              ServeCommand(output, terminated, hasMemory)
    \/ SendFails \/ NeverArrives
    \/ ReceiveRequest \/ ReceiveReply

Spec == Init /\ [][Next]_vars

-----------------------------------------------------------------------------
\* Every variable stays within its type.
TypeOK ==
    /\ at \in {"idle", "requested", "serving", "replied", "shown", "rejected", "dropped",
               "unsent", "undelivered", "overread", "unset", "crashed"}
    /\ cc \in Codes
    /\ message.payloadLength \in 0..(Word - 1)
    /\ \A i \in 1..Len(reply) : reply[i] \in Bytes
    /\ \A i \in 1..Len(shown) : shown[i] \in Text
    /\ starved \in BOOLEAN

\* What icmpc prints is what the worker replied, up to its first NUL: the
\* payload is found behind the header and none of it is lost, although
\* print_result() is given a length and does not look at it.
WholeAnswer == at = "shown" => shown = UpToNul(reply)

\* A message whose handler is called announces exactly the bytes it carries.
\* icmp_marshal() cuts the length to 32 bits and sanity_check_header() would
\* not notice (icmp.c:107, 180); what saves both is that no message so long
\* gets through the sockets.
LengthIsTrue ==
    at \in {"serving", "shown", "overread"} =>
        message.headerLength + message.payloadLength = Len(message.bytes)

\* No handler is given a pointer that was never set (icmp.c:242), and icmpc
\* reads past the message only if memory has failed on the way, for then the
\* NUL may be missing (subcmd_start.c:281-283).
StaysInMessage ==
    /\ at # "unset"
    /\ at = "overread" => starved

\* Nothing that one side marshals and the sockets deliver is refused by the
\* other side's checks, and no side crashes over it, unless memory has failed
\* before.
RejectedNeedsShortage ==
    at \in {"rejected", "dropped", "crashed"} => starved
=============================================================================
