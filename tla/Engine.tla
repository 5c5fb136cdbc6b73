------------------------------- MODULE Engine -------------------------------
(***************************************************************************)
(* The tamal engine (hdl/src/Tamal/Engine.hs): one action per fabric cycle *)
(* of the Mealy machine `step`, dispatched on `phase`.  Every cycle the    *)
(* environment chooses the inputs io1 (the sampled IO[1] lane) and alert   *)
(* (the synchronized ALERT# level).  The two block RAMs are the variables  *)
(* imem and ring; the 1-cycle read latency of imem is the Fetch phase.     *)
(* LoadProgram stands for the loader, which writes imem between runs.      *)
(*                                                                         *)
(* `step` returns the pins either of the old or of the new state; the pin  *)
(* variables here are those of the state, the same sequence of levels.     *)
(***************************************************************************)
EXTENDS Integers, Sequences, Alu, Crc

CONSTANTS InstrSlots,    \* words of the instruction store, 2^AW
          RingSlots,     \* words of the trace ring, 2^RW
          Programs       \* the contents the loader may leave in imem

ASSUME SlotsAssumption ==
    /\ InstrSlots \in Nat \ {0} /\ 2048 % InstrSlots = 0
    /\ RingSlots \in Nat /\ RingSlots >= 4

ASSUME ProgramsAssumption == Programs \subseteq [0..InstrSlots-1 -> InstrWord]

XLEN == 32
Word == BitVec(XLEN)
TermAddr == RingSlots - 1       \* the terminator slot, maxBound

-----------------------------------------------------------------------------
VARIABLES
    phase, pc, regs, alertSource, rxCrc,       \* architectural state
    csN, sck, rstN, lanes,                     \* registered pin drives
    busPhase, beatIx, beatTot, shifter,        \* bus micro-FSM scratch
    pending, waitTimer,                        \* deferred work
    ringPtr, ovf,                              \* trace write pointer, sticky overflow
    imem, instrWord, ring,                     \* the BRAMs and the fetched word
    written,     \* history: ring slots written since the last start
    wrapped,     \* history: a MARK was accepted on an exactly full ring
    edges        \* history: what crossed the bus at each SCK rising edge of
                 \* the current instruction: a GET's IO[1] sample, else the
                 \* drive of IO[0]

arch  == <<regs, alertSource, rxCrc>>
pins  == <<csN, sck, rstN, lanes>>
beat  == <<busPhase, beatIx, beatTot, shifter, edges>>
wait  == <<pending, waitTimer>>
slots == <<ring, written>>
trace == <<ringPtr, ovf, ring, written, wrapped>>
store == <<imem, instrWord>>
vars  == <<phase, pc, arch, pins, beat, wait, trace, store>>

Level == {0, 1}
Phases == {"Idle", "Preamble", "Fetch", "Exec", "BusBeat", "TraceEmit",
           "WaitAlert", "Halted"}

\* A lane is tri-stated or drives a level.
Drive == {"z", "0", "1"}
Lanes == [0..3 -> Drive]
hiZ == [l \in 0..3 |-> "z"]
driveHigh == [l \in 0..3 |-> "1"]

\* Ring words carry their record's tag and fields; PAYLOAD is the second,
\* raw, word of a MARK, known by its place after the label word.
Revision == [tag |-> "REVISION"]
Capture(n, b) == [tag |-> "CAPTURE", nbits |-> n, byte |-> b]
MarkLabel(l) == [tag |-> "MARK", label |-> l]
Payload(v) == [tag |-> "PAYLOAD", value |-> v]
HaltWord(trap, reason, o, st) ==
    [tag |-> "HALT", trap |-> trap, reason |-> reason, ovf |-> o, status |-> st]
Blank == [tag |-> "BLANK"]      \* the ring's power-up word 0

RingWord ==
    {Revision, Blank}
      \cup [tag : {"CAPTURE"}, nbits : 1..8, byte : Byte]
      \cup [tag : {"MARK"}, label : 0..2047]
      \cup [tag : {"PAYLOAD"}, value : Word]
      \cup [tag : {"HALT"}, trap : BOOLEAN, reason : 0..3, ovf : BOOLEAN,
            status : 0..255]

NoWork == [kind |-> "None"]
Get(rd, n, crc) == [kind |-> "Get", rd |-> rd, nbits |-> n, crc |-> crc]
MarkWork(v) == [kind |-> "Mark", payload |-> v]
Tar == [kind |-> "Tar"]
Wait(rd) == [kind |-> "Wait", rd |-> rd]

Pending == {NoWork, Tar}
             \cup [kind : {"Get"}, rd : 0..31, nbits : 1..8, crc : BOOLEAN]
             \cup [kind : {"Mark"}, payload : Word]
             \cup [kind : {"Wait"}, rd : 0..31]

-----------------------------------------------------------------------------
(* Plausible bugs, put in the place of a definition below to show that the *)
(* properties notice them.  Nothing here is part of the specification.     *)

LsbFirstLanes(b, i) == [hiZ EXCEPT ![0] = IF i \in b THEN "1" ELSE "0"]
BitCountLessOne == instrWord.imm \div 256
MoreBeatsOffByOne == beatIx < beatTot
ClockLeftHigh == UNCHANGED sck
StaysInPhase == UNCHANGED phase /\ pc' = (pc + 1) % InstrSlots
MarkFitsOneSlot == ~ovf /\ ringPtr <= TermAddr - 1
PushFitsOffByOne == ~ovf /\ ringPtr <= TermAddr
PushIgnoresOvf == ringPtr <= TermAddr - 1
PreambleNoRevision ==
    /\ phase = "Preamble"
    /\ phase' = "Fetch"
    /\ UNCHANGED <<pc, arch, pins, beat, wait, trace, store>>

-----------------------------------------------------------------------------
(* Leaves.                                                                 *)

ReadReg(r) == IF r % 16 = 0 THEN {} ELSE regs[r % 16]
WriteReg(r, v) == IF r % 16 = 0 THEN regs ELSE [regs EXCEPT ![r % 16] = v]

Bit(l) == IF l = 1 THEN {0} ELSE {}

\* Lane drive of beat i of a PUT: bit 7-i on IO[0], the rest tri-stated.
PutLanes(b, i) == [hiZ EXCEPT ![0] = IF 7 - i \in b THEN "1" ELSE "0"]
TarLanes(i) == IF i = 0 THEN driveHigh ELSE hiZ

BeatLanes(i) == CASE pending.kind = "Get" -> hiZ
                  [] pending.kind = "Tar" -> TarLanes(i)
                  [] OTHER                -> PutLanes(shifter, i)

SckOf(p) == IF p >= 3 THEN 1 ELSE 0

\* v1 has controller / x1 / 20 MHz only; bit 0 selects the alert source.
ConfigOk(p) == p \div 2 = 0
AlertSourceOf(p) == IF p % 2 = 0 THEN "AlertPin" ELSE "AlertIo1"

AlertLevel(io1, alert) == IF alertSource = "AlertPin" THEN alert ELSE io1

-----------------------------------------------------------------------------
(* Pieces of a step.                                                       *)

Advance == phase' = "Fetch" /\ pc' = (pc + 1) % InstrSlots

WriteRing(a, w) == /\ ring' = [ring EXCEPT ![a] = w]
                   /\ written' = written \cup {a}

PushFits == ~ovf /\ ringPtr <= TermAddr - 1

PushWord(w) ==
    \/ /\ PushFits
       /\ WriteRing(ringPtr, w)
       /\ ringPtr' = ringPtr + 1
       /\ UNCHANGED ovf
    \/ /\ ~PushFits
       /\ ovf' = TRUE
       /\ UNCHANGED <<ringPtr, slots>>

SafePins == csN' = 1 /\ sck' = 0 /\ rstN' = 1 /\ lanes' = hiZ

HaltWith(trap, reason, status) ==
    /\ phase' = "Halted"
    /\ WriteRing(TermAddr, HaltWord(trap, reason, ovf, status))
    /\ UNCHANGED <<pc, arch, beat, wait, ringPtr, ovf, wrapped, store>>

Trap(reason) == SafePins /\ HaltWith(TRUE, reason, 0)

-----------------------------------------------------------------------------
(* Lifecycle.                                                              *)

InitRegs == [r \in 0..15 |-> {}]

Init ==
    /\ phase = "Idle" /\ pc = 0
    /\ regs = InitRegs /\ alertSource = "AlertPin" /\ rxCrc = {}
    /\ csN = 1 /\ sck = 0 /\ rstN = 1 /\ lanes = hiZ
    /\ busPhase = 0 /\ beatIx = 0 /\ beatTot = 0 /\ shifter = {} /\ edges = <<>>
    /\ pending = NoWork /\ waitTimer = 0
    /\ ringPtr = 1 /\ ovf = FALSE /\ written = {} /\ wrapped = FALSE
    /\ ring = [a \in 0..TermAddr |-> Blank]
    /\ imem \in Programs /\ instrWord = imem[0]

\* softInit: everything but the two RAMs goes back to its power-up value.
SoftInit ==
    /\ pc' = 0
    /\ regs' = InitRegs /\ alertSource' = "AlertPin" /\ rxCrc' = {}
    /\ csN' = 1 /\ sck' = 0 /\ rstN' = 1 /\ lanes' = hiZ
    /\ busPhase' = 0 /\ beatIx' = 0 /\ beatTot' = 0 /\ shifter' = {} /\ edges' = <<>>
    /\ pending' = NoWork /\ waitTimer' = 0
    /\ ringPtr' = 1 /\ ovf' = FALSE /\ written' = {} /\ wrapped' = FALSE

LoadProgram ==
    /\ phase \in {"Idle", "Halted"}
    /\ imem' \in Programs
    /\ UNCHANGED <<phase, pc, arch, pins, beat, wait, trace, instrWord>>

\* Idle or Halted with startIn.  The ring keeps the words of earlier runs.
Start ==
    /\ phase \in {"Idle", "Halted"}
    /\ phase' = "Preamble" /\ SoftInit
    /\ UNCHANGED <<ring, store>>

Preamble ==
    /\ phase = "Preamble"
    /\ phase' = "Fetch"
    /\ WriteRing(0, Revision)
    /\ UNCHANGED <<pc, arch, pins, beat, wait, ringPtr, ovf, wrapped, store>>

Fetch ==
    /\ phase = "Fetch"
    /\ phase' = "Exec"
    /\ instrWord' = imem[pc]
    /\ UNCHANGED <<pc, arch, pins, beat, wait, trace, imem>>

-----------------------------------------------------------------------------
(* Exec: decode the fetched word and dispatch.                             *)

Op == Decode(instrWord)

Executing(ops) == phase = "Exec" /\ Op \in ops

ExecData ==
    /\ Executing(DataOps)
    /\ regs' = WriteReg(instrWord.rd,
                   DataResult(Op, instrWord, ReadReg(instrWord.rs1),
                              ReadReg(instrWord.rs2), XLEN))
    /\ Advance
    /\ UNCHANGED <<alertSource, rxCrc, pins, beat, wait, trace, store>>

ExecRdsr ==
    /\ Executing({"RDSR"})
    /\ instrWord.imm % 32 = 0
    /\ regs' = WriteReg(instrWord.rd, rxCrc)
    /\ Advance
    /\ UNCHANGED <<alertSource, rxCrc, pins, beat, wait, trace, store>>

\* The offset is relative to the branch; its low AW bits are added to pc.
ExecBranch ==
    /\ Executing(Branches)
    /\ phase' = "Fetch"
    /\ pc' = (pc + IF BranchTaken(Op, ReadReg(instrWord.rs1),
                                      ReadReg(instrWord.rs2))
                   THEN instrWord.imm ELSE 1) % InstrSlots
    /\ UNCHANGED <<arch, pins, beat, wait, trace, store>>

ExecPin ==
    /\ \/ Executing({"CS_ASSERT"}) /\ csN' = 0 /\ UNCHANGED <<rstN, lanes>>
       \/ Executing({"CS_DEASSERT"}) /\ csN' = 1 /\ lanes' = hiZ /\ UNCHANGED rstN
       \/ Executing({"RST_ASSERT"}) /\ rstN' = 0 /\ UNCHANGED <<csN, lanes>>
       \/ Executing({"RST_DEASSERT"}) /\ rstN' = 1 /\ UNCHANGED <<csN, lanes>>
    /\ Advance
    /\ UNCHANGED <<sck, arch, beat, wait, trace, store>>

ExecCrcReset ==
    /\ Executing({"CRC_RESET"})
    /\ rxCrc' = {}
    /\ Advance
    /\ UNCHANGED <<regs, alertSource, pins, beat, wait, trace, store>>

ExecSetConfig ==
    /\ Executing({"SET_CONFIG"})
    /\ ConfigOk(instrWord.imm)
    /\ alertSource' = AlertSourceOf(instrWord.imm)
    /\ Advance
    /\ UNCHANGED <<regs, rxCrc, pins, beat, wait, trace, store>>

ExecGetAlert(io1, alert) ==
    /\ Executing({"GET_ALERT"})
    /\ regs' = WriteReg(instrWord.rd, Bit(AlertLevel(io1, alert)))
    /\ Advance
    /\ UNCHANGED <<alertSource, rxCrc, pins, beat, wait, trace, store>>

ExecHalt ==
    /\ Executing({"HALT"})
    /\ HaltWith(FALSE, 0, instrWord.imm)
    /\ UNCHANGED pins

ExecTrap ==
    \/ Executing(DecodeErrors) /\ Trap(1)
    \/ Executing({"SET_CONFIG"}) /\ ~ConfigOk(instrWord.imm) /\ Trap(2)
    \/ Executing({"RDSR"}) /\ instrWord.imm % 32 # 0 /\ Trap(3)

\* Begin a transfer of total beats: the first beat's lanes go out with it.
StartBeats(total, byte, work, firstLanes) ==
    /\ phase' = "BusBeat"
    /\ busPhase' = 0 /\ beatIx' = 0 /\ beatTot' = total
    /\ shifter' = byte /\ pending' = work /\ lanes' = firstLanes
    /\ edges' = <<>>
    /\ UNCHANGED <<pc, arch, csN, sck, rstN, waitTimer, trace, store>>

BitCount == instrWord.imm \div 256 + 1      \* the n-1 field, imm[10:8]

ExecPut ==
    LET imm8 == ToBits(instrWord.imm % 256, 8)
        reg8 == Truncate(ReadReg(instrWord.rs1), 8)
        Put(total, byte) == StartBeats(total, byte, NoWork, PutLanes(byte, 0))
    IN  \/ Executing({"PUT_BYTE_IMM"}) /\ Put(8, imm8)
        \/ Executing({"PUT_BYTE_REG"}) /\ Put(8, reg8)
        \/ Executing({"PUT_BITS_IMM"}) /\ Put(BitCount, imm8)
        \/ Executing({"PUT_BITS_REG"}) /\ Put(BitCount, reg8)

ExecGet ==
    \/ /\ Executing({"GET_BYTE"})
       /\ StartBeats(8, {}, Get(instrWord.rd, 8, TRUE), hiZ)
    \/ /\ Executing({"GET_BITS"})
       /\ StartBeats(BitCount, {}, Get(instrWord.rd, BitCount, FALSE), hiZ)

\* The low four bits of a register value, as a number.
Nibble(v) == (IF 0 \in v THEN 1 ELSE 0) + (IF 1 \in v THEN 2 ELSE 0)
           + (IF 2 \in v THEN 4 ELSE 0) + (IF 3 \in v THEN 8 ELSE 0)

TarClocks == IF Op = "TAR_IMM" THEN instrWord.imm % 16
                               ELSE Nibble(ReadReg(instrWord.rs1))

ExecTar ==
    /\ Executing({"TAR_IMM", "TAR_REG"})
    /\ \/ /\ TarClocks > 0
          /\ StartBeats(TarClocks, {}, Tar, TarLanes(0))
       \/ /\ TarClocks = 0
          /\ Advance
          /\ UNCHANGED <<arch, pins, beat, wait, trace, store>>

\* `ringPtr + 1 <= termAddr - 1`, added at the width of ringPtr.
MarkFits == ~ovf /\ (ringPtr + 1) % RingSlots <= TermAddr - 1

ExecMark ==
    /\ Executing({"MARK"})
    /\ \/ /\ MarkFits
          /\ phase' = "TraceEmit"
          /\ WriteRing(ringPtr, MarkLabel(instrWord.imm))
          /\ ringPtr' = (ringPtr + 1) % RingSlots
          /\ pending' = MarkWork(ReadReg(instrWord.rs1))
          /\ wrapped' = (wrapped \/ ringPtr = TermAddr)
          /\ UNCHANGED <<pc, ovf>>
       \/ /\ ~MarkFits
          /\ Advance
          /\ ovf' = TRUE
          /\ UNCHANGED <<ringPtr, slots, wrapped, pending>>
    /\ UNCHANGED <<arch, pins, beat, waitTimer, store>>

\* The cond field (imm[10:9]) is not looked at.
ExecWaitOn ==
    /\ Executing({"WAIT_ON"})
    /\ phase' = "WaitAlert"
    /\ waitTimer' = instrWord.imm % 512
    /\ pending' = Wait(instrWord.rd)
    /\ UNCHANGED <<pc, arch, pins, beat, trace, store>>

-----------------------------------------------------------------------------
(* BusBeat: SCK is low in phases 0..2 and high in 3..4 of every beat.      *)

MoreBeats == beatIx + 1 < beatTot
ClockLow == sck' = 0

Seen(io1) == IF pending.kind # "Get" THEN lanes[0]
             ELSE IF io1 = 1 THEN "1" ELSE "0"

Tick(io1) ==
    /\ phase = "BusBeat" /\ busPhase < 4
    /\ busPhase' = busPhase + 1
    /\ sck' = SckOf(busPhase + 1)
    /\ shifter' = IF busPhase + 1 = 3 /\ pending.kind = "Get"
                  THEN ShiftLeft(shifter, 1, 8) \cup Bit(io1) ELSE shifter
    /\ edges' = IF sck = 0 /\ sck' = 1 THEN Append(edges, Seen(io1)) ELSE edges
    /\ UNCHANGED <<phase, pc, arch, csN, rstN, lanes, beatIx, beatTot, wait,
                   trace, store>>

NextBeat ==
    /\ phase = "BusBeat" /\ busPhase = 4 /\ MoreBeats
    /\ busPhase' = 0 /\ beatIx' = beatIx + 1
    /\ ClockLow /\ lanes' = BeatLanes(beatIx + 1)
    /\ UNCHANGED <<phase, pc, arch, csN, rstN, beatTot, shifter, edges, wait,
                   trace, store>>

\* Finish: a GET writes rd, folds the RX CRC (GET_BYTE) and records a CAPTURE.
Complete ==
    /\ phase = "BusBeat" /\ busPhase = 4 /\ ~MoreBeats
    /\ Advance
    /\ ClockLow /\ busPhase' = 0 /\ beatIx' = 0 /\ pending' = NoWork
    /\ \/ /\ pending.kind = "Get"
          /\ regs' = WriteReg(pending.rd, shifter)
          /\ rxCrc' = IF pending.crc THEN CrcUpdate(rxCrc, shifter) ELSE rxCrc
          /\ PushWord(Capture(pending.nbits, shifter))
       \/ /\ pending.kind # "Get"
          /\ UNCHANGED <<regs, rxCrc, ringPtr, ovf, slots>>
    /\ UNCHANGED <<alertSource, csN, rstN, lanes, beatTot, shifter, edges,
                   waitTimer, wrapped, store>>

-----------------------------------------------------------------------------
TraceEmit ==
    /\ phase = "TraceEmit" /\ pending.kind = "Mark"
    /\ Advance
    /\ WriteRing(ringPtr, Payload(pending.payload))
    /\ ringPtr' = (ringPtr + 1) % RingSlots
    /\ pending' = NoWork
    /\ UNCHANGED <<arch, pins, beat, waitTimer, ovf, wrapped, store>>

Expired == waitTimer = 0

\* Asserted wins over an expired timer; both write rd and go on.
WaitAlert(io1, alert) ==
    /\ phase = "WaitAlert" /\ pending.kind = "Wait"
    /\ LET asserted == AlertLevel(io1, alert) = 0
       IN  \/ /\ asserted \/ Expired
              /\ regs' = WriteReg(pending.rd, IF asserted THEN {0} ELSE {})
              /\ Advance
              /\ pending' = NoWork
              /\ UNCHANGED waitTimer
           \/ /\ ~asserted /\ ~Expired
              /\ waitTimer' = waitTimer - 1
              /\ UNCHANGED <<phase, pc, regs, pending>>
    /\ UNCHANGED <<alertSource, rxCrc, pins, beat, trace, store>>

-----------------------------------------------------------------------------
Exec(io1, alert) ==
    \/ ExecData \/ ExecRdsr \/ ExecBranch \/ ExecPin \/ ExecCrcReset
    \/ ExecSetConfig \/ ExecGetAlert(io1, alert) \/ ExecHalt \/ ExecTrap
    \/ ExecPut \/ ExecGet \/ ExecTar \/ ExecMark \/ ExecWaitOn

\* A fabric cycle of a running program.
Cycle == \E io1, alert \in Level :
    \/ Preamble \/ Fetch \/ Exec(io1, alert)
    \/ Tick(io1) \/ NextBeat \/ Complete
    \/ TraceEmit \/ WaitAlert(io1, alert)

Next == LoadProgram \/ Start \/ Cycle

Spec == Init /\ [][Next]_vars

\* The clock never stops: a running program takes its next cycle.
FairSpec == Spec /\ WF_vars(Cycle)

=============================================================================
