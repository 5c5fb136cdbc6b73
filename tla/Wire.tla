-------------------------------- MODULE Wire --------------------------------
(***************************************************************************)
(* The pure frame layer of the HDL (Wire.hs), which the host mirrors       *)
(* (tamal-abi wire.rs): opcode, payload and CRC, COBS-stuffed, then the    *)
(* delimiter 0.  A word is the sequence of its bytes, least significant    *)
(* first, so that splitting and reassembling words is regrouping bytes.    *)
(***************************************************************************)
EXTENDS Cobs

CONSTANTS
    WordBytes,                  \* bytes of a word (4 in the code)
    LOAD, TRIGGER, DRAIN,       \* opcodes (0x01, 0x02 and 0x81)
    CrcUpdate                   \* the CRC step, a function of CRC and byte

ASSUME WireAssumption ==
    /\ WordBytes \in Nat \ {0}
    /\ {LOAD, TRIGGER, DRAIN} \subseteq WireByte \ {0}
    /\ LOAD # TRIGGER
    /\ CrcUpdate \in [WireByte \X WireByte -> WireByte]

Crc(bytes) ==
    LET crc[i \in 0..Len(bytes)] == IF i = 0 THEN 0 ELSE CrcUpdate[<<crc[i-1], bytes[i]>>]
    IN  crc[Len(bytes)]

FrameEncode(logical) == CobsEncode(Append(logical, Crc(logical))) \o <<0>>

\* The logical bytes of a frame stripped of its delimiter, if its CRC is good.
FrameDecode(stripped) ==
    LET content == CobsDecode(stripped)
    IN  IF content = None \/ content = Some(<<>>) THEN None
        ELSE LET logical == Front(content[1])
             IN  IF Crc(logical) = Last(content[1]) THEN Some(logical) ELSE None

BytesOf(words) == FlattenSeq(words)

\* The whole words at the front of a payload.
WholeWords(payload) ==
    [k \in 1..Len(payload) \div WordBytes |->
        SubSeq(payload, (k-1) * WordBytes + 1, k * WordBytes)]

LoadMsg(words) == [kind |-> "LoadProgram", words |-> words]
TriggerMsg == [kind |-> "Trigger"]
BadMsg == [kind |-> "Bad"]

EncodeControl(msg) ==
    IF msg = TriggerMsg THEN FrameEncode(<<TRIGGER>>)
                        ELSE FrameEncode(<<LOAD>> \o BytesOf(msg.words))

\* The message of a frame; the reasons to reject one are not told apart.
DecodeControl(stripped) ==
    LET logical == FrameDecode(stripped)
    IN  IF logical = None \/ logical = Some(<<>>) THEN BadMsg
        ELSE LET op == Head(logical[1])
                 payload == Tail(logical[1])
             IN  CASE op = LOAD /\ Len(payload) % WordBytes = 0 ->
                        LoadMsg(WholeWords(payload))
                   [] op = TRIGGER /\ payload = <<>> -> TriggerMsg
                   [] OTHER -> BadMsg

EncodeResult(words) == FrameEncode(<<DRAIN>> \o BytesOf(words))

\* The drained words, or None of a bad frame.
DecodeResult(stripped) ==
    LET logical == FrameDecode(stripped)
    IN  IF logical = None \/ logical = Some(<<>>) THEN None
        ELSE LET payload == Tail(logical[1])
             IN  IF Head(logical[1]) = DRAIN /\ Len(payload) % WordBytes = 0
                 THEN Some(WholeWords(payload)) ELSE None

=============================================================================
