------------------------------- MODULE Loader -------------------------------
(***************************************************************************)
(* The loader (hdl/src/Tamal/Loader.hs) with the two block RAMs and a      *)
(* shadow of the engine around it (Top.hs): bytes come from the UART, one  *)
(* action each; a drain runs clock by clock, against a UART transmitter    *)
(* that is ready or not as it likes.  While the loader runs or drains it   *)
(* does not look at received bytes: such a byte is a stuttering step.  A   *)
(* step of EngineHalts stands for a whole run of Engine.tla.               *)
(***************************************************************************)
EXTENDS Wire

CONSTANTS
    InstrSlots,       \* words of the instruction store, 2^AW
    RingSlots,        \* words of the trace ring, 2^RW
    InitialStore,     \* what the instruction store holds at power-up
    Runs              \* what runs of the engine may leave: [ring, ringPtr]

Words == [1..WordBytes -> WireByte]
ZeroWord == [i \in 1..WordBytes |-> 0]
TermAddr == RingSlots - 1

ASSUME LoaderAssumption ==
    /\ InstrSlots \in Nat \ {0} /\ RingSlots \in Nat /\ RingSlots >= 2
    /\ InitialStore \in [0..InstrSlots - 1 -> Words]
    /\ Runs \subseteq [ring : [0..TermAddr -> Words], ringPtr : 0..TermAddr]

VARIABLES
    phase,            \* lPhase
    rx,               \* the frame being received: what resetFrame resets
    addr, full,       \* next store slot, and whether the last was written
    drain,            \* the drain's own registers
    enc,              \* lEnc
    imem,             \* the instruction store
    engine,           \* "idle", "running" or "halted"
    ring, ringPtr,    \* what the engine leaves behind
    ringData,         \* the ring RAM's output register
    seen,             \* history: bytes received since the frame began
    base,             \* history: imem when the frame began
    sent              \* history: bytes sent of the drain under way

store == <<imem, addr, full>>
outside == <<engine, ring, ringPtr>>
out == <<drain, enc, ringData, sent>>
vars == <<phase, rx, addr, full, drain, enc, imem, engine, ring, ringPtr,
          ringData, seen, base, sent>>

InitFrame == [dec |-> InitDec, held |-> None, crc |-> 0, haveOp |-> FALSE,
              opcode |-> 0, acc |-> <<>>, hadPay |-> FALSE]

InitDrain == [at |-> "DrOpcode", word |-> ZeroWord, wIx |-> 0, crc |-> 0, cnt |-> 0,
              term |-> FALSE]

Init ==
    /\ phase = "RxControl" /\ rx = InitFrame /\ addr = 0 /\ full = FALSE
    /\ drain = InitDrain /\ enc = InitEnc
    /\ imem = InitialStore /\ base = InitialStore /\ engine = "idle"
    /\ ring = [a \in 0..TermAddr |-> ZeroWord] /\ ringPtr = 1 /\ ringData = ZeroWord
    /\ seen = <<>> /\ sent = <<>>

-----------------------------------------------------------------------------
(* Plausible bugs, for showing that the properties notice them.            *)

KeepsOpcode == [InitFrame EXCEPT !.haveOp = rx.haveOp, !.opcode = rx.opcode]
NeverFull == [addr |-> addr + 1, full |-> full]
WrapsAtTheTop == [addr |-> (addr + 1) % InstrSlots, full |-> FALSE]
OneWordShort == drain.cnt + 2 >= ringPtr

-----------------------------------------------------------------------------
(* Receiving: a decoded byte is held back until the next one shows that it *)
(* is not the CRC; then it is confirmed.                                   *)

Hold(r) == [rx EXCEPT !.dec = r.dec, !.held = IF r.out = None THEN @ ELSE r.out]

Confirmed(r) == r.out # None /\ rx.held # None

\* The opcode; that of a LOAD rewinds the write slot at once.
Rewind(h) == IF h = LOAD THEN addr' = 0 /\ full' = FALSE ELSE UNCHANGED <<addr, full>>

ConfirmOpcode(r, h) ==
    /\ ~rx.haveOp
    /\ rx' = [Hold(r) EXCEPT !.haveOp = TRUE, !.opcode = h, !.crc = CrcUpdate[<<@, h>>]]
    /\ Rewind(h)
    /\ UNCHANGED imem

\* The slot after the one written; the last one is never left.
NextSlot == IF addr = InstrSlots - 1 THEN [addr |-> addr, full |-> TRUE]
                                     ELSE [addr |-> addr + 1, full |-> full]

ConfirmPayload(r, h) ==
    LET word  == Append(rx.acc, h)
        whole == Len(word) = WordBytes
    IN  /\ rx.haveOp
        /\ rx' = [Hold(r) EXCEPT !.hadPay = TRUE, !.crc = CrcUpdate[<<@, h>>],
                                 !.acc = IF whole THEN <<>> ELSE word]
        /\ IF whole /\ rx.opcode = LOAD
           THEN /\ addr' = NextSlot.addr /\ full' = NextSlot.full
                /\ imem' = IF full THEN imem ELSE [imem EXCEPT ![addr] = word]
           ELSE UNCHANGED store

\* A byte other than the delimiter.
Receive(b) ==
    /\ phase = "RxControl" /\ b # 0
    /\ LET r == DecodeByte(rx.dec, b)
       IN  \/ ~Confirmed(r) /\ rx' = Hold(r) /\ UNCHANGED store
           \/ Confirmed(r) /\ ConfirmOpcode(r, rx.held[1])
           \/ Confirmed(r) /\ ConfirmPayload(r, rx.held[1])
    /\ seen' = Append(seen, b)
    /\ UNCHANGED <<phase, base, outside, out>>

\* finalize: the held byte is the CRC.
CrcGood == ~Malformed(rx.dec) /\ rx.held = Some(rx.crc) /\ rx.haveOp
TriggerOk == rx.opcode = TRIGGER /\ ~rx.hadPay

FreshFrame == InitFrame

Delimiter ==
    /\ phase = "RxControl"
    /\ rx' = FreshFrame /\ seen' = <<>> /\ base' = imem
    /\ \/ CrcGood /\ TriggerOk /\ phase' = "Run" /\ engine' = "running"
       \/ ~(CrcGood /\ TriggerOk) /\ UNCHANGED <<phase, engine>>
    /\ UNCHANGED <<store, ring, ringPtr, out>>

-----------------------------------------------------------------------------
(* Running and draining.                                                   *)

\* The engine's HALT, which may never come.
EngineHalts ==
    /\ engine = "running" /\ engine' = "halted"
    /\ \E run \in Runs : ring' = run.ring /\ ringPtr' = run.ringPtr
    /\ UNCHANGED <<phase, rx, store, out, seen, base>>

BeginDrain ==
    /\ phase = "Run" /\ engine = "halted"
    /\ phase' = "Drain" /\ enc' = InitEnc /\ sent' = <<>>
    /\ drain' = [InitDrain EXCEPT !.word = drain.word]
    /\ UNCHANGED <<rx, store, outside, ringData, seen, base>>

\* The address given to the ring RAM in the two fetch phases, else 0.
FetchAddress == IF drain.term THEN TermAddr ELSE drain.cnt
Presented == IF drain.at \in {"DrFetch", "DrLatch"} THEN FetchAddress ELSE 0

\* One clock of the encoder with the offered byte; `next` is the generator's
\* state once the encoder has taken it.
Clock(in, ready, next) ==
    LET r == EncodeStep(enc, in, ready)
    IN  /\ phase = "Drain"
        /\ enc' = r.enc /\ sent' = sent \o r.out /\ ringData' = ring[Presented]
        /\ drain' = IF r.took THEN next ELSE drain
        /\ UNCHANGED <<phase, rx, store, outside, seen, base>>

Offer(b, last) == Some([byte |-> b, last |-> last])

SendOpcode(ready) ==
    /\ drain.at = "DrOpcode"
    /\ Clock(Offer(DRAIN, FALSE), ready,
             [drain EXCEPT !.at = "DrFetch", !.cnt = 0, !.term = FALSE,
                           !.crc = CrcUpdate[<<@, DRAIN>>]])

\* The address goes out, and a clock later the word is there.
FetchWord(ready) ==
    /\ drain.at \in {"DrFetch", "DrLatch"} /\ phase = "Drain"
    /\ LET r == EncodeStep(enc, None, ready)
       IN  enc' = r.enc /\ sent' = sent \o r.out
    /\ ringData' = ring[Presented]
    /\ drain' = IF drain.at = "DrFetch" THEN [drain EXCEPT !.at = "DrLatch"]
                ELSE [drain EXCEPT !.at = "DrWordByte", !.word = ringData, !.wIx = 0]
    /\ UNCHANGED <<phase, rx, store, outside, seen, base>>

LastRecordWord == drain.cnt + 1 >= ringPtr

\* afterWordByte: the next byte, the next word, the terminator or the CRC.
AfterWordByte(d) ==
    CASE d.wIx # WordBytes - 1             -> [d EXCEPT !.wIx = @ + 1]
      [] d.wIx = WordBytes - 1 /\ d.term   -> [d EXCEPT !.at = "DrCrcByte"]
      [] d.wIx = WordBytes - 1 /\ ~d.term /\ LastRecordWord  ->
            [d EXCEPT !.term = TRUE, !.at = "DrFetch"]
      [] d.wIx = WordBytes - 1 /\ ~d.term /\ ~LastRecordWord ->
            [d EXCEPT !.cnt = @ + 1, !.at = "DrFetch"]

SendWordByte(ready) ==
    /\ drain.at = "DrWordByte"
    /\ LET b == drain.word[drain.wIx + 1]
       IN  Clock(Offer(b, FALSE), ready,
                 AfterWordByte([drain EXCEPT !.crc = CrcUpdate[<<@, b>>]]))

SendCrc(ready) ==
    /\ drain.at = "DrCrcByte"
    /\ Clock(Offer(drain.crc, TRUE), ready, [drain EXCEPT !.at = "DrDrainOut"])

DrainOut(ready) ==
    /\ drain.at = "DrDrainOut" /\ phase = "Drain"
    /\ LET r == EncodeStep(enc, None, ready)
       IN  /\ enc' = r.enc /\ sent' = sent \o r.out
           /\ drain' = IF r.done THEN [drain EXCEPT !.at = "DrDelim"] ELSE drain
    /\ ringData' = ring[Presented]
    /\ UNCHANGED <<phase, rx, store, outside, seen, base>>

\* The closing delimiter; then the loader listens again.
SendDelimiter ==
    /\ drain.at = "DrDelim" /\ phase = "Drain"
    /\ phase' = "RxControl" /\ rx' = InitFrame /\ seen' = <<>> /\ base' = imem
    /\ sent' = <<>> /\ ringData' = ring[Presented]
    /\ UNCHANGED <<store, outside, drain, enc>>

Draining(ready) ==
    \/ SendOpcode(ready) \/ FetchWord(ready) \/ SendWordByte(ready)
    \/ SendCrc(ready) \/ DrainOut(ready) \/ (ready /\ SendDelimiter)

Cycle == BeginDrain \/ \E ready \in BOOLEAN : Draining(ready)

Next == (\E b \in WireByte : Receive(b)) \/ Delimiter \/ EngineHalts \/ Cycle

Spec == Init /\ [][Next]_vars

\* The clock runs, and a transmitter that is busy is ready again after a byte.
Progress == WF_vars(BeginDrain) /\ WF_vars(Draining(TRUE))

=============================================================================
