----------------------------- MODULE HostTrace -----------------------------
(***************************************************************************)
(* The host's decoder of the drained ring (tamal-abi trace.rs).  It sees   *)
(* 32-bit words only: the first is the REVISION, and a later one is the    *)
(* raw payload of a MARK only by its place, whatever its tag bits say.     *)
(* A number of the host is the set of its bits, as a word is.              *)
(***************************************************************************)
EXTENDS Integers, Sequences, Bits, Result

\* The bits a word of the engine's ring puts on the wire: the layouts of
\* revisionWord, captureWord, markLabelWord and haltWith.
RingBits(w) ==
    CASE w.tag = "REVISION" -> {16}
      [] w.tag = "BLANK"    -> {}
      [] w.tag = "CAPTURE"  -> ShiftLeft(ToBits(w.nbits, 4), 8, 12) \cup w.byte
      [] w.tag = "MARK"     -> {31} \cup ToBits(w.label, 14)
      [] w.tag = "PAYLOAD"  -> w.value
      [] w.tag = "HALT"     -> {31, 30} \cup ShiftLeft(ToBits(w.reason, 3), 10, 13)
                                 \cup (IF w.trap THEN {9} ELSE {})
                                 \cup (IF w.ovf THEN {8} ELSE {})
                                 \cup ToBits(w.status, 8)

\* Bits lo..lo+n-1 of a word.
Field(b, lo, n) == ShiftRight(b, lo, n)

OneWordEach(tag) == 1       \* a plausible bug: see the mutants

\* The tag of a record: bits 31 and 30.
Tag(w) == Field(w, 30, 2)
CaptureTag == {}
MarkTag == {1}
HaltTag == {0, 1}

\* The words a record takes.
WordsOf(tag) == IF tag = MarkTag THEN 2 ELSE 1

TrapReasonOf(n) ==
    CASE n = {}     -> "None"
      [] n = {0}    -> "Decode"
      [] n = {1}    -> "Config"
      [] n = {0, 1} -> "Rdsr"
      [] OTHER      -> "Illegal"

HaltOf(w) == [reason |-> TrapReasonOf(Field(w, 10, 3)), trap |-> 9 \in w,
              ovf |-> 8 \in w, status |-> Field(w, 0, 8)]

\* A record and what is decoded behind it.
Before(record, rest) ==
    Bind(rest, LAMBDA t : Ok([t EXCEPT !.records = <<record>> \o @]))

\* The records from word i on, and the terminator they end in.
RecordsFrom(words) ==
    LET from[i \in 2..Len(words) + 1] ==
          IF i > Len(words) THEN Err("MissingTerminator")
          ELSE LET w == words[i]
                   next == i + WordsOf(Tag(w))
               IN  CASE Tag(w) = CaptureTag ->
                          Before([nbits |-> Field(w, 8, 4), byte |-> Field(w, 0, 8)],
                                 from[next])
                     [] Tag(w) = MarkTag /\ i = Len(words) -> Err("TruncatedMark")
                     [] Tag(w) = MarkTag /\ i < Len(words) ->
                          Before([label |-> Field(w, 0, 14), payload |-> words[i+1]],
                                 from[next])
                     [] Tag(w) = HaltTag -> Ok([records |-> <<>>, halt |-> HaltOf(w)])
                     [] OTHER -> Err("UnknownRecordTag")
    IN  from[2]

\* The REVISION word, the records after it, and the terminator they end in.
DecodeTrace(words) ==
    IF words = <<>> THEN Err("Empty")
    ELSE LET w == words[1]
             revision == <<Field(w, 24, 8), Field(w, 16, 8), Field(w, 0, 16)>>
         IN  Bind(RecordsFrom(words),
                  LAMBDA t : Ok([revision |-> revision, records |-> t.records,
                                 halt |-> t.halt]))

=============================================================================
