--------------------------- MODULE MessageFramer ---------------------------
(***************************************************************************)
(* The codec of the wire's messages (messages/mod.rs) in the framed reader *)
(* that calls it: bytes arrive in pieces of any size, decode is called     *)
(* until it asks for more, and the end of the stream calls it once more.   *)
(*                                                                         *)
(* The other end of the stream is this encoder, or a client that also      *)
(* sends keep-alives, message types unknown here, frames too large and     *)
(* payloads too short to be read, at which the task panics.                *)
(***************************************************************************)
EXTENDS Naturals, Sequences, SequencesExt

CONSTANTS
  KnownType,        \* the numbers of the message types that are known
  ForeignType,      \* and of the others that the remote sends
  Shortest,         \* of each known type: the bytes that its payload must have
  Payloads,         \* the bytes of payloads that are sent
  MaxLength,        \* MAX (8 MiB)
  MaxMessages       \* bound: the remote sends no more

Byte == 0..255

ASSUME FramerAssumption ==
  /\ KnownType \subseteq Byte /\ ForeignType \subseteq Byte \ KnownType
  /\ Shortest \in [KnownType -> Nat] /\ Payloads \subseteq Seq(Byte)
  /\ \A p \in Payloads : (((Len(p) + 1) \div 256) \div 256) \div 256 \in Byte
  /\ MaxLength \in Nat \ {0} /\ MaxMessages \in Nat

VARIABLES
  wire,             \* bytes that were sent and have not arrived
  src,              \* the reader's buffer
  items,            \* what decode has returned
  reader,           \* "Decoding", "Reading", "Ended", "Failed" or "Panicked"
  eof,              \* whether the reader saw the end of the stream
  closed,           \* whether the remote has closed it
  messages          \* the messages that the remote sent, as it means them

vars == <<wire, src, items, reader, eof, closed, messages>>

NoType == 256
KeepAlive == [type |-> NoType, payload |-> <<>>]

\* The type's from_be_bytes finds all its fields in the payload.
IsReadable(m) == m.type \in KnownType /\ Len(m.payload) >= Shortest[m.type]
IsKnown(m) == m = KeepAlive \/ IsReadable(m)

Carried == {m \in [type : KnownType, payload : Payloads] : IsReadable(m)}
Foreign == {m \in [type : KnownType \cup ForeignType, payload : Payloads] : ~IsReadable(m)}

-----------------------------------------------------------------------------
(* Encoding. *)

\* A length in four bytes, the highest first.
U32(n) == <<((n \div 256) \div 256) \div 256, ((n \div 256) \div 256) % 256,
            (n \div 256) % 256, n % 256>>

FrameOf(m) ==
  IF m = KeepAlive THEN U32(0)
  ELSE U32(Len(m.payload) + 1) \o <<m.type>> \o m.payload

\* encode writes nothing for a keep-alive and fails on what is too large.
Fits(m) == m = KeepAlive \/ Len(m.payload) + 1 <= MaxLength
Encoded(m) == IF m = KeepAlive THEN <<>> ELSE FrameOf(m)

-----------------------------------------------------------------------------
(* Decoding: what decode makes of the buffer. *)

DataLength == ((src[1] * 256 + src[2]) * 256 + src[3]) * 256 + src[4]

\* mutant: the message type is awaited before the length is looked at
LacksType ==
  \/ Len(src) < 5
  \/ DataLength \in 1..MaxLength /\ Len(src) < 4 + DataLength

\* The next frame is not complete.
LacksBytes ==
  \/ Len(src) < 4
  \/ DataLength # 0 /\ Len(src) < 5
  \/ DataLength \in 1..MaxLength /\ Len(src) < 4 + DataLength

Advanced(n) == SubSeq(src, n + 1, Len(src))

\* decode has no message: Framed reads on. At the end of the stream it calls
\* decode_eof, to which bytes that are left over are an error.
NoMessage(rest) ==
  /\ src' = rest
  /\ reader' = IF ~eof THEN "Reading" ELSE IF rest = <<>> THEN "Ended" ELSE "Failed"
  /\ UNCHANGED items

\* decode has one: Framed calls it again.
Yields(m, rest) ==
  /\ src' = rest
  /\ items' = Append(items, m)
  /\ UNCHANGED reader

\* mutant: the whole buffer is discarded
ClearsBuffer == NoMessage(<<>>)

\* An unknown type is skipped, with the answer that asks for more bytes.
SkipsUnknown == NoMessage(Advanced(4 + DataLength))

TooLarge == reader' = "Failed" /\ UNCHANGED <<src, items>>

\* A slice of the payload that is out of range, or an unwrap.
Panics == reader' = "Panicked" /\ UNCHANGED <<src, items>>

\* The frame at the head of the buffer.
First == [type |-> src[5], payload |-> SubSeq(src, 6, 4 + DataLength)]

Decode ==
  /\ reader = "Decoding"
  /\ IF LacksBytes THEN NoMessage(src) ELSE
     \/ DataLength = 0 /\ Yields(KeepAlive, Advanced(4))
     \/ DataLength > MaxLength /\ TooLarge
     \/ DataLength \in 1..MaxLength /\ src[5] \notin KnownType /\ SkipsUnknown
     \/ DataLength \in 1..MaxLength /\ IsReadable(First) /\ Yields(First, Advanced(4 + DataLength))
     \/ DataLength \in 1..MaxLength /\ src[5] \in KnownType /\ ~IsReadable(First) /\ Panics
  /\ UNCHANGED <<wire, eof, closed, messages>>

-----------------------------------------------------------------------------
(* The reader's other steps. *)

\* Some of the bytes on the wire arrive.
Read ==
  /\ reader = "Reading" /\ wire # <<>>
  /\ \E n \in 1..Len(wire) :
       /\ src' = src \o SubSeq(wire, 1, n)
       /\ wire' = SubSeq(wire, n + 1, Len(wire))
  /\ reader' = "Decoding"
  /\ UNCHANGED <<items, eof, closed, messages>>

ReadEnd ==
  /\ reader = "Reading" /\ wire = <<>> /\ closed
  /\ eof' = TRUE
  /\ reader' = "Decoding"
  /\ UNCHANGED <<wire, src, items, closed, messages>>

-----------------------------------------------------------------------------
(* The remote. *)

Writes(m, bytes) ==
  /\ ~closed /\ Len(messages) < MaxMessages
  /\ wire' = wire \o bytes
  /\ messages' = Append(messages, m)
  /\ UNCHANGED <<src, items, reader, eof, closed>>

\* This encoder, in a peer of this client; an error closes its connection.
Encode ==
  \E m \in {KeepAlive} \cup Carried : Fits(m) /\ Writes(m, Encoded(m))

\* Another client's.
ForeignMessage ==
  \E m \in {KeepAlive} \cup Foreign : Writes(m, FrameOf(m))

Close == ~closed /\ closed' = TRUE /\ UNCHANGED <<wire, src, items, reader, eof, messages>>

-----------------------------------------------------------------------------

Init ==
  /\ wire = <<>> /\ src = <<>> /\ items = <<>> /\ messages = <<>>
  /\ reader = "Reading"
  /\ eof = FALSE /\ closed = FALSE

Next == Decode \/ Read \/ ReadEnd \/ Encode \/ ForeignMessage \/ Close

Spec == Init /\ [][Next]_vars
FairSpec == Spec /\ WF_vars(Decode) /\ WF_vars(Read) /\ WF_vars(ReadEnd) /\ WF_vars(Close)

-----------------------------------------------------------------------------

\* A sequence without the elements in T. (The prover cannot expand SelectSeq.)
Without(s, T) == FlattenSeq([i \in DOMAIN s |-> IF s[i] \in T THEN <<>> ELSE <<s[i]>>])

\* What of the messages is to be decoded; a keep-alive may have been written
\* as nothing.
Meant == Without(messages, {KeepAlive} \cup Foreign)
Got == Without(items, {KeepAlive})

\* However the bytes are cut into reads, whatever frames stand between them:
\* the messages come out complete, unchanged and in order.
DecodesInOrder == IsPrefix(Got, Meant)

\* To its user the codec is a channel in order, whose end is seen behind the
\* last message and by nobody who missed one.
Channel == INSTANCE MessageChannel WITH
  Data <- Carried, sent <- Meant, received <- Got, ended <- (reader = "Ended")
ImplementsChannel == Channel!ChannelSpec

\* A stream that ends without an error has given all its messages.
EndedIsComplete == reader = "Ended" => Got = Meant

\* A stream of messages that are known, readable and not too large never fails,
\* and is decoded to its end.
IsFine == \A i \in 1..Len(messages) : IsKnown(messages[i]) /\ Fits(messages[i])
FineIsDecoded == <>(~IsFine \/ reader = "Ended")

-----------------------------------------------------------------------------
(* What the repository says and the code does not keep: the model refutes  *)
(* each of these (README, section 4).                                       *)

\* The reader asks for more bytes only if it needs them (messages/mod.rs, "We
\* inform the Framed that we need more bytes to form the next frame").
ReadsWhenNeeded == reader = "Reading" => LacksBytes

\* What is encoded arrives (messages/mod.rs, a keep-alive "has a length of 0
\* but is discarded afterwards").
EncodedIsReceived == reader = "Ended" => items = Without(messages, Foreign)
=============================================================================
