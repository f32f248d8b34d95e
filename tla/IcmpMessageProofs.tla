-------------------------- MODULE IcmpMessageProofs --------------------------
(***************************************************************************)
(* Proofs about IcmpMessage for every width of a length field above the    *)
(* sockets' limits, every size of a header and every text and output, of   *)
(* whatever length.                                                        *)
(***************************************************************************)
EXTENDS IcmpMessage, Integers, SequenceTheorems, FiniteSetTheorems,
        WellFoundedInduction, TLAPS

-----------------------------------------------------------------------------
(* Strings: the first NUL. *)

\* A set of numbers that is not empty and has a bound has a least element: the
\* smallest of the intervals that its elements end.
LEMMA LeastElement ==
    ASSUME NEW n \in Nat, NEW S \in SUBSET (1..n), S # {}
    PROVE  \E m \in S : \A k \in S : m <= k
<1> DEFINE T == {1..k : k \in S}
<1>1. T \subseteq FiniteSubsetsOf(1..n) /\ T # {}
  <2>1. \A k \in S : k \in Nat /\ 1..k \subseteq 1..n
    OBVIOUS
  <2>2. IsFiniteSet(1..n)
    BY FS_Interval
  <2>3. \A k \in S : IsFiniteSet(1..k)
    BY <2>1, <2>2, FS_Subset
  <2> QED
    BY <2>1, <2>3 DEF FiniteSubsetsOf
<1>2. IsWellFoundedOn(StrictSubsetOrdering(1..n), FiniteSubsetsOf(1..n))
  BY FS_StrictSubsetOrderingWellFounded
<1>3. PICK x \in T : \A y \in T : ~(<<y, x>> \in StrictSubsetOrdering(1..n))
  <2> HIDE DEF T
  <2> QED
    BY <1>1, <1>2, WFMin
<1>4. PICK m \in S : x = 1..m
  BY <1>3
<1>5. ASSUME NEW k \in S, k < m PROVE FALSE
  <2>1. 1..k \subseteq 1..m /\ 1..k # 1..m /\ 1..k \subseteq 1..n /\ 1..m \subseteq 1..n
    <3>1. m \in 1..m /\ m \notin 1..k
      BY <1>5
    <3> QED
      BY <1>5, <3>1
  <2>2. 1..k \in T
    OBVIOUS
  <2>3. <<1..k, 1..m>> \in StrictSubsetOrdering(1..n)
    BY <2>1 DEF StrictSubsetOrdering
  <2> QED
    BY <1>3, <1>4, <2>2, <2>3
<1> QED
  BY <1>5

\* What is printed of a terminated string: a text without a NUL.
LEMMA UpToNulIsText ==
    ASSUME NEW s \in Seq(Bytes), Terminated(s)
    PROVE  UpToNul(s) \in Seq(Text)
<1> DEFINE First(i) == s[i] = Nul /\ \A j \in 1..(i - 1) : s[j] # Nul
           end == CHOOSE i \in 1..Len(s) : First(i)
<1>1. \E i \in 1..Len(s) : First(i)
  <2> DEFINE Nuls == {i \in 1..Len(s) : s[i] = Nul}
  <2>1. Len(s) \in Nat
    BY LenProperties
  <2>2. Nuls \in SUBSET (1..Len(s)) /\ Nuls # {}
    BY <2>1 DEF Terminated
  <2>3. PICK i \in Nuls : \A k \in Nuls : i <= k
    BY <2>1, <2>2, LeastElement
  <2>4. i \in 1..Len(s) /\ s[i] = Nul
    BY <2>3
  <2>5. \A j \in 1..(i - 1) : s[j] # Nul
    BY <2>1, <2>3, <2>4
  <2> QED
    BY <2>4, <2>5
<1>2. end \in 1..Len(s) /\ First(end)
  BY <1>1
<1>3. UpToNul(s) = SubSeq(s, 1, end - 1)
  BY DEF UpToNul
<1> HIDE DEF end
<1>4. Len(s) \in Nat /\ \A i \in 1..Len(s) : s[i] \in Bytes
  BY LenProperties, ElementOfSeq
<1>5. \A i \in 1..(end - 1) : s[i] \in Text
  BY <1>2, <1>4 DEF Bytes
<1>6. SubSeq(s, 1, end - 1) \in Seq(Text)
  BY <1>2, <1>4, <1>5, SubSeqProperties
<1> QED
  BY <1>3, <1>6

-----------------------------------------------------------------------------
(* A message is what was marshalled. *)

\* A field holds at most what it is given, and that if it is wide enough.
LEMMA Field ==
    ASSUME NEW n \in Nat
    PROVE  /\ n % Word \in 0..(Word - 1)
           /\ n % Word <= n
           /\ n < Word => n % Word = n
BY MessageAssumption

\* What a sequence has behind its first h elements.
LEMMA Behind ==
    ASSUME NEW S, NEW s \in Seq(S), NEW p \in Seq(S), NEW h \in Nat,
           Len(s) = h + Len(p), \A i \in 1..Len(p) : s[h + i] = p[i]
    PROVE  SubSeq(s, h + 1, h + Len(p)) = p
<1> DEFINE lo == h + 1
           hi == h + Len(p)
<1>1. Len(p) \in Nat /\ lo \in Int /\ hi \in Int
  BY LenProperties
<1>2. \A i \in lo..hi : s[i] \in S
  BY <1>1, ElementOfSeq
<1>3. hi - lo + 1 = Len(p) /\ (lo <= hi <=> Len(p) # 0) /\ \A i \in 1..Len(p) : lo + i - 1 = h + i
  BY <1>1
<1> HIDE DEF lo, hi
<1>4. /\ SubSeq(s, lo, hi) \in Seq(S)
      /\ Len(SubSeq(s, lo, hi)) = IF lo <= hi THEN hi - lo + 1 ELSE 0
      /\ \A i \in 1..(hi - lo + 1) : SubSeq(s, lo, hi)[i] = s[lo + i - 1]
  BY <1>1, <1>2, SubSeqProperties
<1>5. Len(SubSeq(s, lo, hi)) = Len(p)
  BY <1>1, <1>3, <1>4
<1>6. \A i \in 1..Len(p) : SubSeq(s, lo, hi)[i] = p[i]
  BY <1>3, <1>4
<1>7. SubSeq(s, lo, hi) = p
  BY <1>4, <1>5, <1>6, SeqEqual
<1> QED
  BY <1>7 DEF lo, hi

\* The payload lies behind the header, whole, whatever the length field says.
LEMMA MarshalBytes ==
    ASSUME NEW code, NEW payload \in Seq(Bytes)
    PROVE  LET m == Marshal(code, payload)
           IN  /\ Len(m.bytes) = HeaderLength + Len(payload)
               /\ FromPayload(m) = payload
               /\ Len(payload) < Word => Payload(m) = payload
<1> DEFINE All == Bytes \union {"header"}
           m == Marshal(code, payload)
<1>1. payload \in Seq(All) /\ Len(payload) \in Nat
  BY LenProperties
<1>2. HeaderBytes \in Seq(All) /\ Len(HeaderBytes) = HeaderLength /\ HeaderLength \in Nat
  BY MessageAssumption DEF HeaderBytes
<1>3. m.bytes = HeaderBytes \o payload /\ m.headerLength = HeaderLength
      /\ m.payloadLength = Len(payload) % Word
  BY DEF Marshal
<1>4. /\ m.bytes \in Seq(All)
      /\ Len(m.bytes) = HeaderLength + Len(payload)
      /\ \A i \in 1..(HeaderLength + Len(payload)) :
            m.bytes[i] = IF i <= HeaderLength THEN HeaderBytes[i] ELSE payload[i - HeaderLength]
  <2> HIDE DEF m, All
  <2>1. /\ HeaderBytes \o payload \in Seq(All)
        /\ Len(HeaderBytes \o payload) = Len(HeaderBytes) + Len(payload)
        /\ \A i \in 1..(Len(HeaderBytes) + Len(payload)) :
              (HeaderBytes \o payload)[i] =
                 IF i <= Len(HeaderBytes) THEN HeaderBytes[i] ELSE payload[i - Len(HeaderBytes)]
    BY <1>1, <1>2, ConcatProperties
  <2> QED
    BY <1>2, <1>3, <2>1
<1> HIDE DEF m
<1>5. SubSeq(m.bytes, HeaderLength + 1, HeaderLength + Len(payload)) = payload
  <2>1. \A i \in 1..Len(payload) : m.bytes[HeaderLength + i] = payload[i]
    BY <1>1, <1>2, <1>4
  <2> HIDE DEF All
  <2> QED
    BY <1>1, <1>2, <1>4, <2>1, Behind
<1>6. FromPayload(m) = payload
  BY <1>3, <1>4, <1>5 DEF FromPayload
<1>7. Len(payload) < Word => Payload(m) = payload
  BY <1>1, <1>3, <1>5, Field DEF Payload
<1> QED
  BY <1>4, <1>6, <1>7 DEF m

\* Neither side's checks refuse what the other has marshalled: the sum of the
\* two lengths may wrap, but only to something smaller.
LEMMA MarshalAccepted ==
    ASSUME NEW code \in Codes, NEW payload \in Seq(Bytes),
           NEW expected \in {"NOT_SPECIFIED", code},
           NEW refused, NEW handled
    PROVE  Unmarshal(Marshal(code, payload), expected, refused, handled) = handled
<1> DEFINE m == Marshal(code, payload)
<1>1. Len(payload) \in Nat /\ HeaderLength \in Nat
  BY LenProperties, MessageAssumption
<1>2. /\ m.cc = code /\ m.headerLength = HeaderLength
      /\ m.payloadLength = Len(payload) % Word
  BY DEF Marshal
<1>3. Len(m.bytes) = HeaderLength + Len(payload)
  BY MarshalBytes
<1> HIDE DEF m
<1>4. m.payloadLength \in Nat /\ m.payloadLength <= Len(payload)
  <2>1. \A k : k \in 0..(Word - 1) => k \in Nat
    BY MessageAssumption
  <2> QED
    BY <1>1, <1>2, <2>1, Field
<1>5. (m.headerLength + m.payloadLength) % Word <= m.headerLength + m.payloadLength
      /\ (m.headerLength + m.payloadLength) % Word \in Nat
  <2>1. \A k : k \in 0..(Word - 1) => k \in Nat
    BY MessageAssumption
  <2>2. m.headerLength + m.payloadLength \in Nat
    BY <1>1, <1>2, <1>4
  <2> QED
    BY <2>1, <2>2, Field
<1>6. m.headerLength + m.payloadLength <= Len(m.bytes)
  BY <1>1, <1>2, <1>3, <1>4
<1>7. Accepts(m, expected)
  <2>1. Len(m.bytes) >= V0Length
    BY <1>1, <1>3, MessageAssumption
  <2>2. (m.headerLength + m.payloadLength) % Word <= Len(m.bytes)
    BY <1>1, <1>2, <1>3, <1>4, <1>5, <1>6
  <2> QED
    BY <1>1, <1>2, <2>1, <2>2 DEF Accepts
<1> QED
  BY <1>6, <1>7 DEF Unmarshal, m

-----------------------------------------------------------------------------
(* The inductive invariant: what is in flight is what was marshalled. *)

\* The variables' types, and how an exchange may stand.
Types ==
    /\ at \in {"idle", "requested", "serving", "replied", "shown", "rejected", "dropped",
               "unsent", "undelivered", "overread", "crashed"}
    /\ cc \in Codes
    /\ message.payloadLength \in 0..(Word - 1)
    /\ reply \in Seq(Bytes)
    /\ shown \in Seq(Text)
    /\ starved \in BOOLEAN

\* A request is a terminated text, or nothing for want of memory.
Asked ==
    at \in {"requested", "serving"} =>
        \/ \E text \in TextsUpTo(Text, MaxText) : message = Marshal(cc, Append(text, Nul))
        \/ at = "requested" /\ message = Nothing /\ starved

\* A request that is served has come through the socket.
Received == at = "serving" => Arrives(message)

\* A reply is what was marshalled, terminated if there was memory for that, or
\* nothing for want of memory.
Answered ==
    at = "replied" =>
        \/ message = Marshal(cc, reply) /\ (Terminated(reply) \/ starved)
        \/ message = Nothing /\ starved

Safe == WholeAnswer /\ LengthIsTrue /\ StaysInMessage /\ RejectedNeedsShortage

IInv == Types /\ Asked /\ Received /\ Answered /\ Safe

-----------------------------------------------------------------------------
\* The texts of a bounded length are sequences.
LEMMA TextIsSeq ==
    ASSUME NEW S, NEW n \in Nat, NEW text \in TextsUpTo(S, n)
    PROVE  text \in Seq(S) /\ Len(text) \in 0..n
BY DEF TextsUpTo

\* A NUL is added: the string is terminated, and not empty.
LEMMA AppendNul ==
    ASSUME NEW s \in Seq(Bytes)
    PROVE  /\ Append(s, Nul) \in Seq(Bytes)
           /\ Append(s, Nul) # <<>>
           /\ Terminated(Append(s, Nul))
<1>1. Nul \in Bytes /\ Len(s) \in Nat
  BY LenProperties DEF Bytes
<1>2. /\ Append(s, Nul) \in Seq(Bytes)
      /\ Len(Append(s, Nul)) = Len(s) + 1
      /\ Append(s, Nul)[Len(s) + 1] = Nul
  BY <1>1, AppendProperties
<1>3. Len(s) + 1 \in 1..Len(Append(s, Nul))
  BY <1>1, <1>2
<1>4. Append(s, Nul) # <<>>
  BY <1>1, <1>2
<1> QED
  BY <1>2, <1>3, <1>4 DEF Terminated

\* The payload of a request.
LEMMA RequestPayload ==
    ASSUME NEW text \in TextsUpTo(Text, MaxText)
    PROVE  /\ Append(text, Nul) \in Seq(Bytes)
           /\ Append(text, Nul) # <<>>
           /\ Terminated(Append(text, Nul))
<1>1. text \in Seq(Text)
  BY TextIsSeq, MessageAssumption
<1>2. text \in Seq(Bytes)
  BY <1>1, SeqMonotonic DEF Bytes
<1> QED
  BY <1>2, AppendNul

\* A length field holds a word.
LEMMA MarshalField ==
    ASSUME NEW code, NEW payload \in Seq(Bytes)
    PROVE  Marshal(code, payload).payloadLength \in 0..(Word - 1)
<1>1. Marshal(code, payload).payloadLength = Len(payload) % Word /\ Len(payload) \in Nat
  BY LenProperties DEF Marshal
<1> QED
  BY <1>1, Field

\* A message that arrives is not as long as a word can say, so its field
\* tells its length.
LEMMA ArrivedIsTrue ==
    ASSUME NEW code, NEW payload \in Seq(Bytes), Arrives(Marshal(code, payload))
    PROVE  LET m == Marshal(code, payload)
           IN  /\ Payload(m) = payload
               /\ FromPayload(m) = payload
               /\ m.headerLength + m.payloadLength = Len(m.bytes)
<1> DEFINE m == Marshal(code, payload)
<1>1. /\ Len(m.bytes) = HeaderLength + Len(payload)
      /\ FromPayload(m) = payload
      /\ Len(payload) < Word => Payload(m) = payload
  BY MarshalBytes
<1>2. m.headerLength = HeaderLength /\ m.payloadLength = Len(payload) % Word
  BY DEF Marshal
<1>3. Len(payload) \in Nat /\ Len(m.bytes) <= MaxReceive
  BY LenProperties DEF Arrives
<1> HIDE DEF m
<1>4. Len(payload) < Word
  BY <1>1, <1>3, MessageAssumption
<1>5. Len(payload) % Word = Len(payload)
  BY <1>3, <1>4, Field
<1> QED
  BY <1>1, <1>2, <1>4, <1>5 DEF m

\* No bytes at all are no message.
LEMMA NothingRefused ==
    ASSUME NEW expected, NEW refused, NEW handled
    PROVE  /\ Unmarshal(Nothing, expected, refused, handled) = refused
           /\ Nothing.payloadLength \in 0..(Word - 1)
<1>1. ~Accepts(Nothing, expected)
  BY MessageAssumption DEF Accepts, Nothing
<1>2. Nothing.payloadLength \in 0..(Word - 1)
  BY MessageAssumption DEF Nothing
<1> QED
  BY <1>1, <1>2 DEF Unmarshal

LEMMA InitInv == Init => IInv
<1> SUFFICES ASSUME Init PROVE IInv
  OBVIOUS
<1>1. message.payloadLength \in 0..(Word - 1)
  BY NothingRefused DEF Init
<1>2. starved \in BOOLEAN
  BY Zenon DEF Init
<1>3. Types
  BY <1>1, <1>2 DEF Init, Types, Codes
<1> QED
  BY <1>3 DEF Init, IInv, Asked, Received, Answered, Safe, WholeAnswer, LengthIsTrue,
              StaysInMessage, RejectedNeedsShortage

\* Where an exchange may end without an answer.
LEMMA EndStep ==
    ASSUME IInv, at' \in {"unsent", "undelivered"},
           UNCHANGED <<cc, message, reply, shown, starved>>
    PROVE  IInv'
BY DEF IInv, Types, Asked, Received, Answered, Safe, WholeAnswer, LengthIsTrue,
       StaysInMessage, RejectedNeedsShortage

\* A process without memory for a message crashes or sends nothing.
LEMMA StarvedStep ==
    ASSUME IInv, NEW next \in {"requested", "replied"}, WithoutMemory(next),
           cc' \in Codes, reply' \in Seq(Bytes), shown' = shown
    PROVE  IInv'
<1>1. starved' = TRUE /\ message' = Nothing /\ at' \in {"crashed", "requested", "replied"}
  BY DEF WithoutMemory
<1>2. message'.payloadLength \in 0..(Word - 1)
  BY <1>1, NothingRefused
<1>3. starved' \in BOOLEAN
  BY <1>1, Zenon
<1>4. Types'
  BY <1>1, <1>2, <1>3 DEF IInv, Types
<1> QED
  BY <1>1, <1>4 DEF IInv, Asked, Received, Answered, Safe, WholeAnswer, LengthIsTrue,
                    StaysInMessage, RejectedNeedsShortage

LEMMA RequestStep ==
    ASSUME IInv, NEW code \in Codes, NEW text \in TextsUpTo(Text, MaxText),
           NEW hasMemory \in BOOLEAN, Request(code, text, hasMemory)
    PROVE  IInv'
<1>1. CASE ~hasMemory
  BY <1>1, StarvedStep DEF Request, IInv, Types
<1>2. CASE hasMemory
  <2>1. /\ at' = "requested" /\ cc' = code /\ message' = Marshal(code, Append(text, Nul))
        /\ UNCHANGED <<reply, shown, starved>>
    BY <1>2 DEF Request
  <2>2. message'.payloadLength \in 0..(Word - 1)
    BY <2>1, RequestPayload, MarshalField
  <2>3. Types'
    BY <2>1, <2>2 DEF IInv, Types
  <2>4. Asked'
    BY <2>1 DEF Asked
  <2> QED
    BY <2>1, <2>3, <2>4 DEF IInv, Received, Answered, Safe, WholeAnswer, LengthIsTrue,
                            StaysInMessage, RejectedNeedsShortage
<1> QED
  BY <1>1, <1>2

\* A request that arrives passes the worker's check, unless it is nothing.
LEMMA ReceiveRequestStep == ASSUME IInv, ReceiveRequest PROVE IInv'
<1>1. /\ at = "requested" /\ Arrives(message)
      /\ at' = Unmarshal(message, "NOT_SPECIFIED", "dropped", "serving")
      /\ UNCHANGED <<cc, message, reply, shown, starved>>
  BY DEF ReceiveRequest
<1>2. cc \in Codes
  BY DEF IInv, Types
<1>3. CASE \E text \in TextsUpTo(Text, MaxText) : message = Marshal(cc, Append(text, Nul))
  <2>1. PICK text \in TextsUpTo(Text, MaxText) : message = Marshal(cc, Append(text, Nul))
    BY <1>3
  <2>2. Append(text, Nul) \in Seq(Bytes)
    BY RequestPayload
  <2>3. Unmarshal(message, "NOT_SPECIFIED", "dropped", "serving") = "serving"
    <3>1. ASSUME NEW p \in Seq(Bytes)
          PROVE  Unmarshal(Marshal(cc, p), "NOT_SPECIFIED", "dropped", "serving") = "serving"
      BY <1>2, MarshalAccepted
    <3> QED
      BY <2>1, <2>2, <3>1
  <2>4. message.headerLength + message.payloadLength = Len(message.bytes)
    <3>1. ASSUME NEW p \in Seq(Bytes), Arrives(Marshal(cc, p))
          PROVE  Marshal(cc, p).headerLength + Marshal(cc, p).payloadLength
                    = Len(Marshal(cc, p).bytes)
      BY <3>1, ArrivedIsTrue
    <3> QED
      BY <1>1, <2>1, <2>2, <3>1
  <2>5. at' = "serving"
    BY <1>1, <2>3
  <2>6. Types'
    BY <1>1, <2>5 DEF IInv, Types
  <2>7. Asked'
    BY <1>1, <2>1, <2>5 DEF Asked
  <2>8. Received' /\ LengthIsTrue'
    BY <1>1, <2>4 DEF Received, LengthIsTrue, Arrives
  <2> QED
    BY <2>5, <2>6, <2>7, <2>8
       DEF IInv, Answered, Safe, WholeAnswer, StaysInMessage, RejectedNeedsShortage
<1>4. CASE message = Nothing /\ starved
  <2>1. at' = "dropped"
    BY <1>1, <1>4, NothingRefused
  <2> QED
    BY <1>1, <1>4, <2>1
       DEF IInv, Types, Asked, Received, Answered, Safe, WholeAnswer, LengthIsTrue,
           StaysInMessage, RejectedNeedsShortage
<1> QED
  BY <1>1, <1>3, <1>4 DEF IInv, Asked

\* The payload of the request that is served.
LEMMA ServedPayload ==
    ASSUME IInv, at = "serving"
    PROVE  /\ message.cc = cc
           /\ Payload(message) \in Seq(Bytes)
           /\ Payload(message) # <<>>
           /\ Terminated(Payload(message))
<1>1. PICK text \in TextsUpTo(Text, MaxText) : message = Marshal(cc, Append(text, Nul))
  BY DEF IInv, Asked
<1>2. /\ Append(text, Nul) \in Seq(Bytes) /\ Append(text, Nul) # <<>>
      /\ Terminated(Append(text, Nul))
  BY RequestPayload
<1>3. Payload(message) = Append(text, Nul)
  <2>1. ASSUME NEW p \in Seq(Bytes), Arrives(Marshal(cc, p)) PROVE Payload(Marshal(cc, p)) = p
    BY <2>1, ArrivedIsTrue
  <2> QED
    BY <1>1, <1>2, <2>1 DEF IInv, Received
<1>4. message.cc = cc
  BY <1>1 DEF Marshal
<1> QED
  BY <1>2, <1>3, <1>4

\* A payload for which there was memory, or one of no bytes.
LEMMA AnswerStep ==
    ASSUME IInv, NEW payload \in Seq(Bytes), NEW hasMemory, Answer(cc, payload, hasMemory),
           starved' \in BOOLEAN, (Terminated(payload) /\ payload # <<>>) \/ starved',
           starved => starved', UNCHANGED <<cc, shown>>
    PROVE  IInv'
<1>1. reply' = payload
  BY DEF Answer
<1>2. CASE payload = <<>> /\ at' = "crashed" /\ UNCHANGED message
  <2>1. Types'
    BY <1>1, <1>2 DEF IInv, Types
  <2> QED
    BY <1>1, <1>2, <2>1
       DEF IInv, Asked, Received, Answered, Safe, WholeAnswer, LengthIsTrue,
           StaysInMessage, RejectedNeedsShortage
<1>3. CASE at' = "replied" /\ message' = Marshal(cc, payload)
  <2>1. message'.payloadLength \in 0..(Word - 1)
    BY <1>3, MarshalField
  <2>2. Types'
    BY <1>1, <1>3, <2>1 DEF IInv, Types
  <2>3. Answered'
    BY <1>1, <1>3 DEF Answered, Terminated
  <2> QED
    BY <1>1, <1>3, <2>2, <2>3
       DEF IInv, Asked, Received, Safe, WholeAnswer, LengthIsTrue,
           StaysInMessage, RejectedNeedsShortage
<1> QED
  BY <1>2, <1>3 DEF Answer

LEMMA ServeEchoStep ==
    ASSUME IInv, NEW hasMemory \in BOOLEAN, ServeEcho(hasMemory) PROVE IInv'
<1>1. /\ message.cc = cc /\ Payload(message) \in Seq(Bytes)
      /\ Payload(message) # <<>> /\ Terminated(Payload(message))
  BY ServedPayload DEF ServeEcho
<1>2. CASE Answer("ECHO", Payload(message), hasMemory) /\ UNCHANGED starved
  <2>1. cc = "ECHO" /\ UNCHANGED <<cc, shown>> /\ starved' \in BOOLEAN /\ starved' = starved
    BY <1>1, <1>2 DEF ServeEcho, IInv, Types
  <2> QED
    BY <1>1, <1>2, <2>1, AnswerStep
<1>3. CASE WithoutMemory("replied") /\ reply' = Payload(message)
  BY <1>1, <1>3, StarvedStep DEF ServeEcho, IInv, Types
<1> QED
  BY <1>2, <1>3 DEF ServeEcho

LEMMA ServeCommandStep ==
    ASSUME IInv, NEW output \in TextsUpTo(Bytes, MaxOutput), NEW terminated \in BOOLEAN,
           NEW hasMemory \in BOOLEAN, ServeCommand(output, terminated, hasMemory)
    PROVE  IInv'
<1> DEFINE payload == IF terminated THEN Append(output, Nul) ELSE output
<1>1. message.cc = cc /\ cc = "COMMANDLINE"
  BY ServedPayload DEF ServeCommand
<1>2. output \in Seq(Bytes)
  BY TextIsSeq, MessageAssumption
<1>3. payload \in Seq(Bytes) /\ (terminated => payload # <<>> /\ Terminated(payload))
  BY <1>2, AppendNul
<1>4. /\ \/ Answer("COMMANDLINE", payload, hasMemory) /\ starved' = (starved \/ ~terminated)
         \/ WithoutMemory("replied") /\ reply' = payload
      /\ UNCHANGED <<cc, shown>>
  BY DEF ServeCommand
<1> HIDE DEF payload
<1>5. CASE Answer("COMMANDLINE", payload, hasMemory) /\ starved' = (starved \/ ~terminated)
  <2>1. starved' \in BOOLEAN /\ (starved => starved') /\ (~terminated => starved')
    BY <1>5, Zenon
  <2>2. (Terminated(payload) /\ payload # <<>>) \/ starved'
    BY <1>3, <2>1
  <2> QED
    BY <1>1, <1>3, <1>4, <1>5, <2>1, <2>2, AnswerStep
<1>6. CASE WithoutMemory("replied") /\ reply' = payload
  BY <1>3, <1>4, <1>6, StarvedStep DEF IInv, Types
<1> QED
  BY <1>4, <1>5, <1>6

LEMMA ReceiveReplyStep == ASSUME IInv, ReceiveReply PROVE IInv'
<1> DEFINE handled == IF Terminated(FromPayload(message)) THEN "shown" ELSE "overread"
<1>1. /\ at = "replied" /\ Arrives(message)
      /\ at' = Unmarshal(message, cc, "rejected", handled)
      /\ shown' = IF at' = "shown" THEN UpToNul(FromPayload(message)) ELSE shown
      /\ UNCHANGED <<cc, message, reply, starved>>
  BY DEF ReceiveReply
<1>2. reply \in Seq(Bytes) /\ cc \in Codes /\ shown \in Seq(Text)
  BY DEF IInv, Types
<1>3. CASE message = Marshal(cc, reply) /\ (Terminated(reply) \/ starved)
  <2>1. /\ FromPayload(message) = reply
        /\ message.headerLength + message.payloadLength = Len(message.bytes)
    BY <1>1, <1>2, <1>3, ArrivedIsTrue
  <2>2. at' = handled /\ handled \in {"shown", "overread"}
    <3>1. Unmarshal(Marshal(cc, reply), cc, "rejected", handled) = handled
      <4> HIDE DEF handled
      <4> QED
        BY <1>2, MarshalAccepted
    <3> QED
      BY <1>1, <1>3, <3>1
  <2>3. /\ at' = "shown" => shown' = UpToNul(reply) /\ Terminated(reply)
        /\ at' = "overread" => starved' /\ shown' = shown
    BY <1>1, <1>3, <2>1, <2>2
  <2>4. shown' \in Seq(Text)
    BY <1>2, <2>2, <2>3, UpToNulIsText
  <2>5. Types'
    BY <1>1, <2>2, <2>4 DEF IInv, Types
  <2>6. LengthIsTrue'
    BY <1>1, <2>1 DEF LengthIsTrue
  <2>7. WholeAnswer'
    BY <1>1, <2>3 DEF WholeAnswer, UpToNul
  <2> QED
    BY <2>2, <2>3, <2>5, <2>6, <2>7
       DEF IInv, Asked, Received, Answered, Safe, StaysInMessage, RejectedNeedsShortage
<1>4. CASE message = Nothing /\ starved
  <2>1. at' = "rejected" /\ shown' = shown
    BY <1>1, <1>4, NothingRefused
  <2> QED
    BY <1>1, <1>4, <2>1
       DEF IInv, Types, Asked, Received, Answered, Safe, WholeAnswer, LengthIsTrue,
           StaysInMessage, RejectedNeedsShortage
<1> QED
  BY <1>1, <1>3, <1>4 DEF IInv, Answered

LEMMA StutterStep == ASSUME IInv, UNCHANGED vars PROVE IInv'
BY DEF IInv, vars, Types, Asked, Received, Answered, Safe, WholeAnswer, LengthIsTrue,
       StaysInMessage, RejectedNeedsShortage, Terminated, Arrives, UpToNul

LEMMA NextInv == IInv /\ [Next]_vars => IInv'
<1> SUFFICES ASSUME IInv, [Next]_vars PROVE IInv'
  OBVIOUS
<1>1. ASSUME NEW hasMemory \in BOOLEAN, NEW code \in Codes,
             NEW text \in TextsUpTo(Text, MaxText), Request(code, text, hasMemory)
      PROVE  IInv'
  BY <1>1, RequestStep
<1>2. ASSUME NEW hasMemory \in BOOLEAN, ServeEcho(hasMemory) PROVE IInv'
  BY <1>2, ServeEchoStep
<1>3. ASSUME NEW hasMemory \in BOOLEAN, NEW output \in TextsUpTo(Bytes, MaxOutput),
             NEW terminated \in BOOLEAN, ServeCommand(output, terminated, hasMemory)
      PROVE  IInv'
  BY <1>3, ServeCommandStep
<1>4. CASE SendFails \/ NeverArrives
  BY <1>4, EndStep DEF SendFails, NeverArrives
<1>5. CASE ReceiveRequest
  BY <1>5, ReceiveRequestStep
<1>6. CASE ReceiveReply
  BY <1>6, ReceiveReplyStep
<1>7. CASE UNCHANGED vars
  BY <1>7, StutterStep
<1> QED
  BY <1>1, <1>2, <1>3, <1>4, <1>5, <1>6, <1>7 DEF Next

\* What is in flight is what was marshalled, in every state of an exchange.
LEMMA Invariant == Spec => []IInv
BY InitInv, NextInv, PTL DEF Spec

-----------------------------------------------------------------------------
\* Every variable stays within its type (icmp.h:33-60).
THEOREM TypeCorrect == Spec => []TypeOK
<1>1. IInv => TypeOK
  <2> SUFFICES ASSUME IInv PROVE TypeOK
    OBVIOUS
  <2>1. \A i \in 1..Len(reply) : reply[i] \in Bytes
    BY ElementOfSeq DEF IInv, Types
  <2>2. \A i \in 1..Len(shown) : shown[i] \in Text
    BY ElementOfSeq DEF IInv, Types
  <2> QED
    BY <2>1, <2>2 DEF IInv, Types, TypeOK
<1> QED
  BY <1>1, Invariant, PTL

\* What icmpc prints is the whole payload the worker marshalled, up to its
\* first NUL (icmp.c, subcmd_commandline.c).
THEOREM WholeAnswerCorrect == Spec => []WholeAnswer
<1>1. IInv => WholeAnswer
  BY DEF IInv, Safe
<1> QED
  BY <1>1, Invariant, PTL

\* A message that gets through the sockets announces its own length: the limit
\* of the receiving socket is below what a uint32_t and an int can say.
THEOREM LengthIsTrueCorrect == Spec => []LengthIsTrue
<1>1. IInv => LengthIsTrue
  BY DEF IInv, Safe
<1> QED
  BY <1>1, Invariant, PTL

\* No handler of either side is given a pointer that was never set, and icmpc
\* reads past a message only after an allocation has failed.
THEOREM StaysInMessageCorrect == Spec => []StaysInMessage
<1>1. IInv => StaysInMessage
  BY DEF IInv, Safe
<1> QED
  BY <1>1, Invariant, PTL

\* What one side marshals and the sockets deliver passes the other side's
\* checks, unless an allocation has failed.
THEOREM RejectedNeedsShortageCorrect == Spec => []RejectedNeedsShortage
<1>1. IInv => RejectedNeedsShortage
  BY DEF IInv, Safe
<1> QED
  BY <1>1, Invariant, PTL

=============================================================================
