-------------------------------- MODULE Codec --------------------------------
(***************************************************************************)
(* Frames as bytes: pkg/protocol/frame.go.  The widths of the two kinds of *)
(* identifiers and the number of byte values are parameters (16, 32 and    *)
(* 256 in the code); the rest of the layout is the code's.                 *)
(***************************************************************************)
EXTENDS Integers, Sequences

CONSTANTS
    Base,           \* number of byte values
    RequestIDSize,  \* bytes of a RequestID
    IDSize          \* bytes of SourceID and DestID

ASSUME CodecAssumption ==
    /\ Base \in Nat /\ Base > 1
    /\ RequestIDSize \in Nat
    /\ IDSize \in Nat

Byte == 0..(Base - 1)
Version == 1

\* version, type, length, request, source, destination, flags and two reserved
HeaderSize == 9 + RequestIDSize + 2 * IDSize

\* Byte strings of length n
Bytes(n) == [1..n -> Byte]

\* What the length field can say
Lengths == 0..(Base * Base * Base * Base - 1)

Frames == [version : {Version}, type : Byte, request : Bytes(RequestIDSize),
           source : Bytes(IDSize), dest : Bytes(IDSize), flags : Byte,
           payload : {p \in Seq(Byte) : Len(p) \in Lengths}]

-----------------------------------------------------------------------------
(* Fields. *)

\* Big endian; what does not fit is cut off.
PutUint32(n) ==
    LET q == n \div Base
        r == q \div Base
        s == r \div Base
    IN  <<s % Base, r % Base, q % Base, n % Base>>

Uint32(d) == ((d[1] * Base + d[2]) * Base + d[3]) * Base + d[4]

\* Faulty variant: room is left for a terminating zero.
PadID_Terminated(id) == [i \in 1..IDSize |-> IF i <= Len(id) /\ i < IDSize THEN id[i] ELSE 0]

\* A longer identity is cut.
PadID(id) == [i \in 1..IDSize |-> IF i <= Len(id) THEN id[i] ELSE 0]

\* What stands before the first zero, or all of it.
IDLength(field) ==
    CHOOSE n \in 0..IDSize :
        /\ \A i \in 1..n : field[i] # 0
        /\ n = IDSize \/ field[n + 1] = 0

ParseID(field) == SubSeq(field, 1, IDLength(field))

-----------------------------------------------------------------------------
(* Frames. *)

NewFrame(type, request, source, dest, flags, payload) ==
    [version |-> Version, type |-> type, request |-> request,
     source |-> PadID(source), dest |-> PadID(dest), flags |-> flags, payload |-> payload]

Encode(f) ==
    <<f.version, f.type>> \o PutUint32(Len(f.payload)) \o f.request
        \o f.source \o f.dest \o <<f.flags, 0, 0>> \o f.payload

\* What Decode returns in place of a frame
Refused == [version |-> 0]

\* Faulty variant: a length that goes beyond the data is taken to end with them.
PayloadLength_Clipped(data) ==
    LET n == Uint32(SubSeq(data, 3, 6))
        room == Len(data) - HeaderSize
    IN  IF n <= room THEN n ELSE room

PayloadLength(data) == Uint32(SubSeq(data, 3, 6))

\* Faulty variant: the version is not looked at.
Decodable_AnyVersion(data) ==
    /\ Len(data) >= HeaderSize
    /\ Len(data) >= HeaderSize + PayloadLength(data)

Decodable(data) ==
    /\ Len(data) >= HeaderSize
    /\ data[1] = Version
    /\ Len(data) >= HeaderSize + PayloadLength(data)

\* Faulty variant: everything behind the header is payload.
Payload_AllThatFollows(data) == SubSeq(data, HeaderSize + 1, Len(data))

Payload(data) == SubSeq(data, HeaderSize + 1, HeaderSize + PayloadLength(data))

Decode(data) ==
    IF Decodable(data)
      THEN LET source == 6 + RequestIDSize
               dest == source + IDSize
           IN  [version |-> data[1], type |-> data[2],
                request |-> SubSeq(data, 7, source),
                source |-> SubSeq(data, source + 1, dest),
                dest |-> SubSeq(data, dest + 1, dest + IDSize),
                flags |-> data[dest + IDSize + 1],
                payload |-> Payload(data)]
      ELSE Refused

=============================================================================
