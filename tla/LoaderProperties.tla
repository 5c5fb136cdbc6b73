-------------------------- MODULE LoaderProperties --------------------------
(***************************************************************************)
(* What the loader promises, said with the pure wire layer of Wire.tla.    *)
(***************************************************************************)
EXTENDS Loader

Phases == {"RxControl", "Run", "Drain"}
DrainPhases == {"DrOpcode", "DrFetch", "DrLatch", "DrWordByte", "DrCrcByte",
                "DrDrainOut", "DrDelim"}
Slots == 0..InstrSlots - 1
Partial == UNION {[1..n -> WireByte] : n \in 0..WordBytes - 1}
Optional(S) == {None} \cup {Some(x) : x \in S}

\* Every register keeps its width, and the group buffer of the encoder its
\* MaxGroup bytes (Loader.hs LoaderSt, Loader/Cobs.hs EncSt).
TypeOK ==
    /\ phase \in Phases /\ addr \in Slots /\ full \in BOOLEAN
    /\ rx \in [dec : [cnt : 0..MaxGroup, full : BOOLEAN, pend : BOOLEAN, got : BOOLEAN],
               held : Optional(WireByte), crc : WireByte, haveOp : BOOLEAN,
               opcode : WireByte, acc : Partial, hadPay : BOOLEAN]
    /\ drain.at \in DrainPhases /\ drain.word \in Words /\ drain.wIx \in 0..WordBytes - 1
    /\ drain.crc \in WireByte /\ drain.cnt \in 0..TermAddr /\ drain.term \in BOOLEAN
    /\ enc.mode \in {"Filling", "Emitting"} /\ Len(enc.buf) <= MaxGroup
    /\ enc.ix \in 0..MaxGroup + 1 /\ enc.pend \in Optional([byte : WireByte, last : BOOLEAN])
    /\ imem \in [Slots -> Words] /\ base \in [Slots -> Words]
    /\ ring \in [0..TermAddr -> Words] /\ ringPtr \in 0..TermAddr /\ ringData \in Words

-----------------------------------------------------------------------------
(* Receiving.                                                              *)

\* The engine starts on a delimiter exactly when the bytes since the last one
\* are a good TRIGGER by the pure decoder, whatever frames, good, damaged or
\* cut short, came before (finalize, resetFrame; Wire.hs decodeControl).
TriggerIffGood ==
    [][Delimiter => (phase' = "Run" <=> DecodeControl(seen) = TriggerMsg)]_vars

\* The store with the first words replaced, those beyond its end ignored.
Overlay(words) ==
    [a \in Slots |-> IF a < Len(words) THEN words[a+1] ELSE base[a]]

\* What a well-formed frame leaves in the store, its CRC good or bad: the
\* whole words of a LOAD from slot 0 up, the slots behind them as they were,
\* and of any other frame nothing (confirm, and wire-format design D5).
StoreFollowsFrame ==
    [][Delimiter /\ Len(seen) > 0 /\ CobsDecode(seen) # None =>
         LET content == CobsDecode(seen)[1]
             payload == SubSeq(content, 2, Len(content) - 1)
         IN  imem = IF Len(content) > 1 /\ Head(content) = LOAD
                    THEN Overlay(WholeWords(payload)) ELSE base]_vars

-----------------------------------------------------------------------------
(* Draining.                                                               *)

\* The words of a drain: the records and the terminator.
Trace == [k \in 1..ringPtr |-> ring[k-1]] \o <<ring[TermAddr]>>

\* The bytes of a whole drain, whatever the transmitter's pace, are the pure
\* encoding of REVISION, every record and the HALT word: no word twice, none
\* left out, none from a stale RAM read (drainStep; Wire.hs encodeResult).
\* A pointer of 0 is left only by a MARK on an exactly full ring, whose drain
\* has nothing to be compared with.
DrainIsTheTrace ==
    [][phase = "Drain" /\ phase' = "RxControl" /\ ringPtr > 0
         => Append(sent, 0) = EncodeResult(Trace)]_vars

\* Once the engine has halted the loader sends its result and listens again.
DrainEnds == (phase = "Run" /\ engine = "halted") ~> phase = "RxControl"

FairSpec == Spec /\ Progress

=============================================================================
