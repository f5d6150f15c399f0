------------------------------ MODULE Exchange ------------------------------
(***************************************************************************)
(* A question and its answer as bytes: one side builds a frame and encodes *)
(* it, the bytes arrive as they are, cut short, with more behind them or   *)
(* with a byte changed (the other end is another program), and the agent   *)
(* decodes them and answers the identity it finds in SourceID, as every    *)
(* handler of internal/agent/agent.go does.                                *)
(***************************************************************************)
EXTENDS Codec

CONSTANTS
    Names,      \* identities, as byte strings without a zero byte
    Payloads,   \* byte strings
    Extras      \* what may follow a frame

ASSUME ExchangeAssumption ==
    /\ Names \subseteq Seq(Byte \ {0})
    /\ Payloads \subseteq {p \in Seq(Byte) : Len(p) \in Lengths}
    /\ Extras \subseteq Seq(Byte)

VARIABLES
    at,         \* how far the exchange is
    asked,      \* the arguments of the question's NewFrame
    data,       \* the bytes under way
    damage,     \* what has happened to them
    got,        \* what the agent has decoded
    answer      \* the agent's answer

vars == <<at, asked, data, damage, got, answer>>

None == [version |-> -1]

ExchangeInit ==
    /\ at = "start"
    /\ asked \in [type : {0, 1}, request : Bytes(RequestIDSize), source : Names,
                  dest : Names, flags : {0, 1}, payload : Payloads]
    /\ data = <<>>
    /\ damage = "none"
    /\ got = None
    /\ answer = None

Question == NewFrame(asked.type, asked.request, asked.source, asked.dest, asked.flags, asked.payload)

Ask ==
    /\ at = "start"
    /\ data' = Encode(Question)
    /\ at' = "sent"
    /\ UNCHANGED <<asked, damage, got, answer>>

Damage(what, bytes) ==
    /\ at = "sent" /\ damage = "none"
    /\ data' = bytes
    /\ damage' = what
    /\ UNCHANGED <<at, asked, got, answer>>

Cut == \E n \in 0..(Len(data) - 1) : Damage("cut", SubSeq(data, 1, n))
Extend == \E e \in Extras : Damage("extended", data \o e)
Change == \E i \in 1..Len(data), b \in Byte :
              b # data[i] /\ Damage("changed", [data EXCEPT ![i] = b])

Receive ==
    /\ at = "sent"
    /\ got' = Decode(data)
    /\ at' = IF Decodable(data) THEN "decoded" ELSE "refused"
    /\ UNCHANGED <<asked, data, damage, answer>>

\* Faulty variant: the answer carries a RequestID of its own.
Reply_NewRequest(f) ==
    NewFrame(f.type, [i \in 1..RequestIDSize |-> 0], asked.dest, ParseID(f.source), 0, <<>>)

\* From the agent's own identity, which is the whole of its name.  The types of
\* questions and answers are not told apart.
Reply(f) == NewFrame(f.type, f.request, asked.dest, ParseID(f.source), 0, <<>>)

Answer ==
    /\ at = "decoded"
    /\ answer' = Decode(Encode(Reply(got)))
    /\ at' = "answered"
    /\ UNCHANGED <<asked, data, damage, got>>

ExchangeNext == Ask \/ Cut \/ Extend \/ Change \/ Receive \/ Answer

ExchangeSpec == ExchangeInit /\ [][ExchangeNext]_vars

-----------------------------------------------------------------------------
(* Properties. *)

ExchangeTypeOK ==
    /\ at \in {"start", "sent", "refused", "decoded", "answered"}
    /\ data \in Seq(Byte)
    /\ damage \in {"none", "cut", "extended", "changed"}
    /\ got \in Frames \cup {None, Refused}
    /\ answer \in Frames \cup {None}

Intact == damage \in {"none", "extended"}

\* A frame with a type that arrives, with or without something behind it,
\* decodes to what its sender built, and an identity that fits its field is read
\* back whole (Encode, Decode, PadID, ParseID).  Type 0 is no type, and nothing
\* is asked of a frame that has it (docs/protocol.md, Message Types).
FrameSurvives ==
    Intact /\ asked.type # 0 /\ at \in {"refused", "decoded", "answered"} =>
        /\ got = Question
        /\ Len(asked.source) <= IDSize => ParseID(got.source) = asked.source

\* A frame that is cut anywhere is refused: it is never taken for a shorter one
\* (the two length checks of Decode).
CutIsRefused == damage = "cut" => at \in {"sent", "refused"}

\* Whatever arrives: a frame that is decoded is the beginning of what arrived,
\* byte by byte, but for the two reserved ones.
NothingInvented ==
    at \in {"decoded", "answered"} =>
        LET bytes == Encode(got)
        IN  /\ Len(bytes) <= Len(data)
            /\ \A i \in 1..Len(bytes) \ {HeaderSize - 1, HeaderSize} : bytes[i] = data[i]

\* The answer is addressed to the field the question came from, also when the
\* asking identity was cut there, and carries the question's RequestID.
AnswerReachesAsker ==
    at = "answered" /\ Intact =>
        answer.dest = PadID(asked.source) /\ answer.request = asked.request

=============================================================================
