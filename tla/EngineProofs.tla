---------------------------- MODULE EngineProofs ----------------------------
(***************************************************************************)
(* Theorems about the engine, for every program store, ring size and set   *)
(* of programs the assumptions of Engine allow: its invariants, what the   *)
(* host decodes of the words it leaves, and that it implements the         *)
(* instruction-level machine.                                              *)
(***************************************************************************)
EXTENDS DrainProperties, TLAPS, SequenceTheorems, WellFoundedInduction

-----------------------------------------------------------------------------
(* The leaves stay within their widths.                                    *)

\* Whatever two words a DATA instruction is given, it writes a word.
LEMMA DataResultWord ==
    ASSUME NEW op \in DataOps, NEW i \in InstrWord, NEW a \in Word, NEW b \in Word
    PROVE  DataResult(op, i, a, b, XLEN) \in Word
<1>1. ASSUME NEW f \in {"Add", "Sub", "And", "Or", "Xor", "Sll", "Srl", "Sra"},
             NEW y \in SUBSET Int, NEW sh \in Int, f \in {"And", "Or", "Xor"} => y \in Word
      PROVE  Alu(f, a, y, sh, XLEN) \in Word
  BY <1>1 DEF Alu, Word, BitVec, XLEN, Add, Sub, AddCarry, Xor, ShiftLeft,
              ShiftRight, ArithShiftRight
<1>2. SImm(i, XLEN) \in Word
  BY DEF SImm, SignExtend, ToBits, Word, BitVec, XLEN
<1>3. SignExtend(Imm21(i), 21, XLEN) \in Word
  BY DEF Imm21, SignExtend, ToBits, ShiftLeft, Word, BitVec, XLEN
<1>4. ShiftLeft(Imm21(i), 11, XLEN) \in Word
  BY DEF ShiftLeft, Word, BitVec, XLEN
<1>5. ShiftOp(i) \in {"Sll", "Srl", "Sra"}
  <2>1. i.imm \div 512 \in 0..3
    BY DEF InstrWord
  <2>2. QED BY <2>1 DEF ShiftOp
<1>6. i.imm % 32 \in Int
  BY DEF InstrWord
<1>7. Word \subseteq SUBSET Int /\ {} \in SUBSET Int
  BY DEF Word, BitVec, XLEN
<1>8. QED
  BY <1>1, <1>2, <1>3, <1>4, <1>5, <1>6, <1>7
  DEF DataOps, Immediates, RegReg, RegImm, DataResult

\* The CRC register stays a byte.
LEMMA CrcByte ==
    ASSUME NEW c \in Byte, NEW b \in Byte
    PROVE  CrcUpdate(c, b) \in Byte
<1>1. ASSUME NEW x \in Byte, NEW in \in {0, 1}
      PROVE  Feed[x][in] \in Byte
  BY DEF Feed, Byte, BitVec, Xor, ShiftLeft, Poly
<1> DEFINE G(x, j) == Feed[x][IF j \in b THEN 1 ELSE 0]
<1>2. ASSUME NEW x \in Byte, NEW j \in 0..7
      PROVE  G(x, j) \in Byte
  BY <1>1
<1> HIDE DEF G
<1>3. DEFINE four == G(G(G(G(c, 7), 6), 5), 4)
<1>4. four \in Byte
  BY <1>2
<1>5. G(G(G(G(four, 3), 2), 1), 0) \in Byte
  <2> HIDE DEF four
  <2> QED BY <1>2, <1>4
<1>6. QED
  BY <1>5 DEF CrcUpdate, G

-----------------------------------------------------------------------------
(* Type correctness.                                                       *)

\* A word that decodes to an instruction has its reserved fields zero.
LEMMA DecodedIsCanonical ==
    ASSUME NEW w, Decode(w) \notin DecodeErrors
    PROVE  ReservedZero(Decode(w), w)
BY DEF Decode, DecodeErrors

\* The slots of the ring are 0..TermAddr, at least four of them.
LEMMA RingSize == TermAddr \in Nat /\ TermAddr >= 3 /\ RingSlots = TermAddr + 1
BY SlotsAssumption DEF TermAddr

\* Register reads and writes keep the register file's type.
LEMMA RegTypes ==
    ASSUME regs \in [0..15 -> Word], NEW r \in 0..31, NEW v \in Word
    PROVE  ReadReg(r) \in Word /\ WriteReg(r, v) \in [0..15 -> Word]
<1>1. r % 16 \in 0..15
  OBVIOUS
<1>2. {} \in Word
  BY DEF Word, BitVec
<1>3. QED
  BY <1>1, <1>2 DEF ReadReg, WriteReg

\* The power-up values of the pins and of the words.
LEMMA ResetTypes == hiZ \in Lanes /\ {} \in Byte /\ {} \in Word /\ {0} \in Word
BY DEF hiZ, Lanes, Drive, Byte, Word, BitVec, XLEN

\* Every beat drives the lanes with levels or releases them.
LEMMA LaneTypes ==
    ASSUME NEW b, NEW i
    PROVE  PutLanes(b, i) \in Lanes /\ TarLanes(i) \in Lanes
BY DEF PutLanes, TarLanes, hiZ, driveHigh, Lanes, Drive

\* Conversions between bytes, words and single bits.
LEMMA ByteIsWord == ASSUME NEW b \in Byte PROVE b \in Word
BY DEF Byte, Word, BitVec, XLEN

LEMMA ByteTypes ==
    ASSUME NEW v \in Word, NEW n
    PROVE  Truncate(v, 8) \in Byte /\ ToBits(n, 8) \in Byte /\ Bit(n) \in Word
BY DEF Byte, Word, BitVec, XLEN, Truncate, ToBits, Bit

\* The program counter wraps within the store.
LEMMA StoreSize ==
    /\ InstrSlots \in Nat /\ InstrSlots > 0
    /\ \A n \in Nat : n % InstrSlots \in 0..InstrSlots-1
BY SlotsAssumption

\* The fields of the fetched word.
LEMMA FieldTypes ==
    ASSUME TypeOK
    PROVE  /\ instrWord \in InstrWord
           /\ instrWord.rd \in 0..31 /\ instrWord.rs1 \in 0..31
           /\ instrWord.rs2 \in 0..31 /\ instrWord.imm \in 0..2047
           /\ BitCount \in 1..8
           /\ instrWord.imm % 512 \in 0..511
           /\ TarClocks \in 0..15
<1>1. instrWord \in InstrWord
  BY DEF TypeOK
<1>2. /\ instrWord.rd \in 0..31 /\ instrWord.rs1 \in 0..31
      /\ instrWord.rs2 \in 0..31 /\ instrWord.imm \in 0..2047
  BY <1>1 DEF InstrWord
<1> DEFINE imm == instrWord.imm
<1>3. \A n \in 0..2047 : n \div 256 \in 0..7 /\ n % 512 \in 0..511 /\ n % 16 \in 0..15
  BY SMTT(40)
<1>4. imm \div 256 \in 0..7 /\ imm % 512 \in 0..511 /\ imm % 16 \in 0..15
  <2>1. imm \in 0..2047
    BY <1>2
  <2> HIDE DEF imm
  <2>2. QED BY <2>1, <1>3, SMTT(40)
<1>5. BitCount \in 1..8
  <2> DEFINE q == instrWord.imm \div 256
  <2>1. q \in 0..7
    BY <1>4
  <2>2. BitCount = q + 1
    BY DEF BitCount
  <2> HIDE DEF q
  <2> QED BY <2>1, <2>2
<1>6. \A v : Nibble(v) \in 0..15
  BY DEF Nibble
<1>7. TarClocks \in 0..15
  BY <1>4, <1>6 DEF TarClocks
<1>8. QED
  BY <1>1, <1>2, <1>4, <1>5, <1>7

\* A HALT carries an eight-bit status, so the terminator is a ring word.
LEMMA HaltWordType ==
    ASSUME NEW reason \in 0..3, NEW o \in BOOLEAN, NEW st \in 0..255
    PROVE  /\ HaltWord(TRUE, reason, o, st) \in RingWord
           /\ HaltWord(FALSE, reason, o, st) \in RingWord
BY DEF HaltWord, RingWord

\* What a step pushes to the ring has a ring word's type.
LEMMA LabelType == ASSUME NEW l \in 0..2047 PROVE MarkLabel(l) \in RingWord
BY DEF MarkLabel, RingWord

LEMMA RecordTypes ==
    /\ Revision \in RingWord /\ Blank \in RingWord
    /\ \A n \in 1..8, b \in Byte : Capture(n, b) \in RingWord
    /\ \A l \in 0..2047 : MarkLabel(l) \in RingWord
    /\ \A v \in Word : Payload(v) \in RingWord
<1>1. Revision \in RingWord /\ Blank \in RingWord
  BY DEF RingWord
<1>2. \A n \in 1..8, b \in Byte : Capture(n, b) \in RingWord
  BY DEF Capture, RingWord
<1>3. \A l \in 0..2047 : MarkLabel(l) \in RingWord
  BY LabelType
<1>4. \A v \in Word : Payload(v) \in RingWord
  BY DEF Payload, RingWord
<1>5. QED
  BY <1>1, <1>2, <1>3, <1>4

\* The deferred work of each kind carries what its completion needs.
LEMMA PendingTypes ==
    /\ NoWork \in Pending /\ Tar \in Pending
    /\ \A rd \in 0..31, n \in 1..8 :
         Get(rd, n, TRUE) \in Pending /\ Get(rd, n, FALSE) \in Pending
    /\ \A v \in Word : MarkWork(v) \in Pending
    /\ \A rd \in 0..31 : Wait(rd) \in Pending
    /\ \A p \in Pending :
         /\ p.kind = "Get" => p.rd \in 0..31 /\ p.nbits \in 1..8 /\ p.crc \in BOOLEAN
         /\ p.kind = "Mark" => p.payload \in Word
         /\ p.kind = "Wait" => p.rd \in 0..31
<1>1. NoWork \in Pending /\ Tar \in Pending
  BY DEF Pending
<1>2. \A rd \in 0..31, n \in 1..8 :
        Get(rd, n, TRUE) \in Pending /\ Get(rd, n, FALSE) \in Pending
  BY DEF Get, Pending
<1>3. \A v \in Word : MarkWork(v) \in Pending
  BY DEF MarkWork, Pending
<1>4. \A rd \in 0..31 : Wait(rd) \in Pending
  BY DEF Wait, Pending
<1>5. ASSUME NEW p \in Pending
      PROVE  /\ p.kind = "Get" => p.rd \in 0..31 /\ p.nbits \in 1..8 /\ p.crc \in BOOLEAN
             /\ p.kind = "Mark" => p.payload \in Word
             /\ p.kind = "Wait" => p.rd \in 0..31
  BY <1>5 DEF NoWork, Tar, Pending
<1>6. QED
  BY <1>1, <1>2, <1>3, <1>4, <1>5

LEMMA TypeInit == Init => TypeOK
<1> SUFFICES ASSUME Init PROVE TypeOK
  OBVIOUS
<1>1. InstrSlots \in Nat /\ InstrSlots > 0
  BY StoreSize
<1>2. imem \in [0..InstrSlots-1 -> InstrWord] /\ instrWord \in InstrWord
  BY <1>1, ProgramsAssumption DEF Init
<1>3. ring \in [0..TermAddr -> RingWord]
  BY RingSize, RecordTypes DEF Init
<1>4. regs \in [0..15 -> Word]
  BY ResetTypes DEF Init, InitRegs
<1>5. NoWork \in Pending
  BY PendingTypes
<1>6. edges \in Seq(Drive)
  BY DEF Init
<1>7. /\ phase \in Phases /\ pc \in 0..InstrSlots-1
      /\ alertSource \in {"AlertPin", "AlertIo1"} /\ rxCrc \in Byte
      /\ csN \in Level /\ sck \in Level /\ rstN \in Level /\ lanes \in Lanes
      /\ busPhase \in 0..4 /\ beatIx \in 0..15 /\ beatTot \in 0..15
      /\ shifter \in Byte /\ pending \in Pending /\ waitTimer \in 0..511
  BY <1>1, <1>5, ResetTypes DEF Init, Phases, Level
<1>8. 1 \in 0..TermAddr
  BY RingSize
<1>9. ringPtr \in 0..TermAddr /\ ovf \in BOOLEAN /\ wrapped \in BOOLEAN
  BY <1>8 DEF Init
<1>10. written \subseteq 0..TermAddr
  <2>1. written = {}
    BY DEF Init
  <2>2. QED BY <2>1
<1>11. QED
  BY <1>2, <1>3, <1>4, <1>6, <1>7, <1>9, <1>10 DEF TypeOK

LEMMA TypeStep == TypeOK /\ [Next]_vars => TypeOK'
<1> SUFFICES ASSUME TypeOK, [Next]_vars PROVE TypeOK'
  OBVIOUS
<1> USE RingSize
<1>a. (pc + 1) % InstrSlots \in 0..InstrSlots-1
  BY StoreSize DEF TypeOK
<1>b. /\ instrWord \in InstrWord
      /\ instrWord.rd \in 0..31 /\ instrWord.rs1 \in 0..31
      /\ instrWord.rs2 \in 0..31 /\ instrWord.imm \in 0..2047
      /\ BitCount \in 1..8 /\ instrWord.imm % 512 \in 0..511
      /\ TarClocks \in 0..15
  BY FieldTypes
<1>c. regs \in [0..15 -> Word]
  BY DEF TypeOK
<1>h. ASSUME NEW r \in 0..31 PROVE ReadReg(r) \in Word
  <2>1. {} \in Word
    BY ResetTypes
  <2>2. QED
    BY <1>c, <2>1, RegTypes
<1>d. ReadReg(instrWord.rs1) \in Word /\ ReadReg(instrWord.rs2) \in Word
  BY <1>b, <1>h
<1>e. ASSUME NEW r \in 0..31, NEW v \in Word
      PROVE  WriteReg(r, v) \in [0..15 -> Word]
  BY <1>c, RegTypes
<1>f. (ringPtr + 1) % RingSlots \in 0..TermAddr
  BY SlotsAssumption DEF TypeOK
<1>g. pending \in Pending /\ NoWork \in Pending /\ Tar \in Pending
  BY PendingTypes DEF TypeOK
<1>1. CASE UNCHANGED vars
  BY <1>1 DEF TypeOK, vars, arch, pins, beat, wait, trace, store
<1>2. CASE LoadProgram
  <2>1. imem' \in [0..InstrSlots-1 -> InstrWord]
    BY <1>2, ProgramsAssumption DEF LoadProgram
  <2>2. QED
    BY <1>2, <2>1 DEF LoadProgram, TypeOK, arch, pins, beat, wait, trace
<1>3. CASE Start
  <2>1. regs' \in [0..15 -> Word]
    BY <1>3, ResetTypes DEF Start, SoftInit, InitRegs
  <2>2. 0 \in 0..InstrSlots-1
    BY StoreSize
  <2>3. <<>> \in Seq(Drive)
    OBVIOUS
  <2>4. /\ (phase \in Phases /\ pc \in 0..InstrSlots-1)'
        /\ (alertSource \in {"AlertPin", "AlertIo1"} /\ rxCrc \in Byte)'
        /\ (csN \in Level /\ sck \in Level /\ rstN \in Level /\ lanes \in Lanes)'
        /\ (busPhase \in 0..4 /\ beatIx \in 0..15 /\ beatTot \in 0..15)'
        /\ (shifter \in Byte /\ pending \in Pending /\ waitTimer \in 0..511)'
    BY <1>3, <1>g, <2>2, ResetTypes DEF Start, SoftInit, Phases, Level
  <2>5. /\ (ringPtr \in 0..TermAddr /\ ovf \in BOOLEAN)'
        /\ (written \subseteq 0..TermAddr /\ wrapped \in BOOLEAN)'
        /\ (edges \in Seq(Drive))'
    <3>1. 1 \in 0..TermAddr
      OBVIOUS
    <3>2. ringPtr' = 1 /\ ovf' = FALSE /\ written' = {} /\ wrapped' = FALSE
      BY <1>3 DEF Start, SoftInit
    <3>3. edges' = <<>>
      BY <1>3 DEF Start, SoftInit
    <3>4. QED
      BY <2>3, <3>1, <3>2, <3>3
  <2>6. QED
    BY <1>3, <2>1, <2>4, <2>5 DEF Start, TypeOK, store
<1>4. CASE Preamble
  <2>1. Revision \in RingWord
    BY RecordTypes
  <2>2. QED
    BY <1>4, <2>1
    DEF Preamble, WriteRing, TypeOK, Phases, arch, pins, beat, wait, store
<1>5. CASE Fetch
  BY <1>5 DEF Fetch, TypeOK, Phases, arch, pins, beat, wait, trace
<1>6. CASE ExecData
  <2>1. Op \in DataOps
    BY <1>6 DEF ExecData, Executing
  <2>2. DataResult(Op, instrWord, ReadReg(instrWord.rs1),
                   ReadReg(instrWord.rs2), XLEN) \in Word
    BY <1>b, <1>d, <2>1, DataResultWord
  <2>3. regs' \in [0..15 -> Word]
    BY <1>6, <1>b, <1>e, <2>2 DEF ExecData
  <2>4. QED
    BY <1>6, <1>a, <2>3
    DEF ExecData, Advance, TypeOK, Phases, pins, beat, wait, trace, store
<1>7. CASE ExecRdsr
  <2>1. rxCrc \in Word
    BY ByteIsWord DEF TypeOK
  <2>2. regs' \in [0..15 -> Word]
    BY <1>7, <1>b, <1>e, <2>1 DEF ExecRdsr
  <2>3. QED
    BY <1>7, <1>a, <2>2
    DEF ExecRdsr, Advance, TypeOK, Phases, pins, beat, wait, trace, store
<1>8. CASE ExecBranch
  <2>a. pc \in Nat
    BY StoreSize DEF TypeOK
  <2>1. pc' = (pc + instrWord.imm) % InstrSlots \/ pc' = (pc + 1) % InstrSlots
    BY <1>8 DEF ExecBranch
  <2>2. pc' \in 0..InstrSlots-1
    <3> DEFINE imm == instrWord.imm
    <3>1. imm \in 0..2047
      BY <1>b
    <3>2. pc' = (pc + imm) % InstrSlots \/ pc' = (pc + 1) % InstrSlots
      BY <2>1
    <3> HIDE DEF imm
    <3>3. pc + imm \in Nat /\ pc + 1 \in Nat
      BY <2>a, <3>1
    <3>4. /\ (pc + imm) % InstrSlots \in 0..InstrSlots-1
          /\ (pc + 1) % InstrSlots \in 0..InstrSlots-1
      BY <3>3, StoreSize
    <3>5. QED
      BY <3>2, <3>4
  <2>3. QED
    BY <1>8, <2>2, SMTT(60) DEF ExecBranch, TypeOK, Phases, arch, pins, beat, wait, trace, store
<1>9. CASE ExecPin
  BY <1>9, <1>a, ResetTypes
  DEF ExecPin, Advance, TypeOK, Phases, Level, arch, beat, wait, trace, store
<1>10. CASE ExecCrcReset
  BY <1>10, <1>a, ResetTypes
  DEF ExecCrcReset, Advance, TypeOK, Phases, pins, beat, wait, trace, store
<1>11. CASE ExecSetConfig
  BY <1>11, <1>a
  DEF ExecSetConfig, AlertSourceOf, Advance, TypeOK, Phases, pins, beat, wait, trace, store
<1>12. ASSUME NEW io1 \in Level, NEW alert \in Level, ExecGetAlert(io1, alert)
       PROVE  TypeOK'
  <2>1. Bit(AlertLevel(io1, alert)) \in Word
    BY ResetTypes DEF Bit
  <2>2. regs' \in [0..15 -> Word]
    BY <1>12, <1>b, <1>e, <2>1 DEF ExecGetAlert
  <2>3. QED
    BY <1>12, <1>a, <2>2
    DEF ExecGetAlert, Advance, TypeOK, Phases, pins, beat, wait, trace, store
<1>13. ASSUME NEW reason \in 0..3, NEW st \in 0..255,
              HaltWith(TRUE, reason, st) \/ HaltWith(FALSE, reason, st),
              csN' \in Level, sck' \in Level, rstN' \in Level, lanes' \in Lanes
       PROVE  TypeOK'
  <2>1. /\ HaltWord(TRUE, reason, ovf, st) \in RingWord
        /\ HaltWord(FALSE, reason, ovf, st) \in RingWord
    BY HaltWordType DEF TypeOK
  <2>2. PICK w \in RingWord : WriteRing(TermAddr, w)
    BY <1>13, <2>1 DEF HaltWith
  <2>3. TermAddr \in 0..TermAddr
    OBVIOUS
  <2>4. ring' \in [0..TermAddr -> RingWord] /\ written' \subseteq 0..TermAddr
    BY <2>2, <2>3 DEF WriteRing, TypeOK
  <2>5. /\ phase' = "Halted"
        /\ UNCHANGED <<pc, arch, beat, wait, ringPtr, ovf, wrapped, store>>
    BY <1>13 DEF HaltWith
  <2>6. QED
    BY <1>13, <2>4, <2>5 DEF TypeOK, Phases, arch, beat, wait, store
<1>14. CASE ExecHalt
  <2>1. Op = "HALT" /\ HaltWith(FALSE, 0, instrWord.imm) /\ UNCHANGED pins
    BY <1>14 DEF ExecHalt, Executing
  <2>2. ImmOk("HALT", instrWord.imm)
    BY <2>1, DecodedIsCanonical DEF Op, DecodeErrors, ReservedZero
  <2>3. instrWord.imm \div 256 = 0
    BY <2>2 DEF ImmOk, Immediates, RegImm, Branches
  <2>4. \A n \in 0..2047 : n \div 256 = 0 => n \in 0..255
    OBVIOUS
  <2>5. instrWord.imm \in 0..255
    BY <1>b, <2>3, <2>4, SMTT(60)
  <2>6. csN' \in Level /\ sck' \in Level /\ rstN' \in Level /\ lanes' \in Lanes
    BY <2>1 DEF TypeOK, pins
  <2>7. 0 \in 0..3
    OBVIOUS
  <2>8. QED
    BY <1>13, <2>1, <2>5, <2>6, <2>7
<1>15. CASE ExecTrap
  <2>1. PICK reason \in 1..3 : Trap(reason)
    BY <1>15 DEF ExecTrap
  <2>2. csN' \in Level /\ sck' \in Level /\ rstN' \in Level /\ lanes' \in Lanes
    BY <2>1, ResetTypes DEF Trap, SafePins, Level
  <2>3. HaltWith(TRUE, reason, 0)
    BY <2>1 DEF Trap
  <2>4. reason \in 0..3 /\ 0 \in 0..255
    OBVIOUS
  <2>5. QED
    BY <1>13, <2>2, <2>3, <2>4
<1>16. ASSUME NEW total \in 1..15, NEW byte \in Byte, NEW work \in Pending,
              NEW first \in Lanes, StartBeats(total, byte, work, first)
       PROVE  TypeOK'
  BY <1>16 DEF StartBeats, TypeOK, Phases, arch, trace, store
<1>17. CASE ExecPut
  <2>1. /\ ToBits(instrWord.imm % 256, 8) \in Byte
        /\ Truncate(ReadReg(instrWord.rs1), 8) \in Byte
    BY <1>d, ByteTypes
  <2>2. 8 \in 1..15 /\ BitCount \in 1..15
    BY <1>b
  <2>3. PICK total \in 1..15, byte \in Byte :
            StartBeats(total, byte, NoWork, PutLanes(byte, 0))
    BY <1>17, <2>1, <2>2 DEF ExecPut
  <2>4. QED
    BY <1>16, <1>g, <2>3, LaneTypes
<1>18. CASE ExecGet
  <2>1. 8 \in 1..8 /\ 8 \in 1..15 /\ BitCount \in 1..15
    BY <1>b
  <2>2. /\ Get(instrWord.rd, 8, TRUE) \in Pending
        /\ Get(instrWord.rd, BitCount, FALSE) \in Pending
    <3>1. ASSUME NEW n \in 1..8, NEW rd \in 0..31
          PROVE  Get(rd, n, TRUE) \in Pending /\ Get(rd, n, FALSE) \in Pending
      BY PendingTypes
    <3>2. instrWord.rd \in 0..31 /\ BitCount \in 1..8
      BY <1>b
    <3>3. QED
      BY <2>1, <3>1, <3>2, Zenon
  <2>3. PICK total \in 1..15, work \in Pending : StartBeats(total, {}, work, hiZ)
    BY <1>18, <2>1, <2>2 DEF ExecGet
  <2>4. QED
    BY <1>16, <2>3, ResetTypes
<1>19. CASE ExecTar
  <2>1. CASE TarClocks > 0 /\ StartBeats(TarClocks, {}, Tar, TarLanes(0))
    <3>1. TarClocks \in 1..15
      BY <1>b, <2>1
    <3>2. QED
      BY <1>16, <1>g, <2>1, <3>1, LaneTypes, ResetTypes
  <2>2. CASE Advance /\ UNCHANGED <<arch, pins, beat, wait, trace, store>>
    BY <2>2, <1>a DEF Advance, TypeOK, Phases, arch, pins, beat, wait, trace, store
  <2>3. QED
    BY <1>19, <2>1, <2>2 DEF ExecTar
<1>20. CASE ExecMark
  <2>1. MarkLabel(instrWord.imm) \in RingWord
    <3>1. instrWord.imm \in 0..2047
      BY <1>b
    <3>2. QED
      BY <3>1 DEF MarkLabel, RingWord
  <2>2. MarkWork(ReadReg(instrWord.rs1)) \in Pending
    BY <1>d, PendingTypes
  <2>3. CASE phase' = "TraceEmit"
    <3>0. /\ WriteRing(ringPtr, MarkLabel(instrWord.imm))
          /\ ringPtr' = (ringPtr + 1) % RingSlots
          /\ pending' = MarkWork(ReadReg(instrWord.rs1))
          /\ wrapped' = (wrapped \/ ringPtr = TermAddr)
          /\ UNCHANGED <<pc, ovf, arch, pins, beat, waitTimer, store>>
      BY <1>20, <2>3 DEF ExecMark, Advance
    <3>a. ringPtr \in 0..TermAddr /\ ringPtr' \in 0..TermAddr
      BY <1>f, <3>0 DEF TypeOK
    <3>b. ring' \in [0..TermAddr -> RingWord] /\ written' \subseteq 0..TermAddr
      BY <2>1, <3>0, <3>a DEF WriteRing, TypeOK
    <3>1. /\ pending' \in Pending /\ ringPtr' \in 0..TermAddr
          /\ ring' \in [0..TermAddr -> RingWord] /\ written' \subseteq 0..TermAddr
          /\ wrapped' \in BOOLEAN
          /\ UNCHANGED <<pc, ovf, arch, pins, beat, waitTimer, store>>
      BY <2>2, <3>0, <3>a, <3>b DEF TypeOK
    <3>2. QED
      BY <2>3, <3>1 DEF TypeOK, Phases, arch, pins, beat, store
  <2>4. CASE phase' # "TraceEmit"
    BY <1>20, <1>a, <2>4
    DEF ExecMark, Advance, TypeOK, Phases, arch, pins, beat, slots, store
  <2>5. QED
    BY <2>3, <2>4
<1>21. CASE ExecWaitOn
  <2>1. Wait(instrWord.rd) \in Pending
    BY <1>b, PendingTypes
  <2>2. /\ phase' = "WaitAlert" /\ waitTimer' = instrWord.imm % 512
        /\ pending' = Wait(instrWord.rd)
        /\ UNCHANGED <<pc, arch, pins, beat, trace, store>>
    BY <1>21 DEF ExecWaitOn
  <2>3. waitTimer' \in 0..511 /\ pending' \in Pending
    BY <1>b, <2>1, <2>2
  <2>4. QED
    BY <2>2, <2>3, SMTT(60) DEF TypeOK, Phases, arch, pins, beat, trace, store
<1>22. ASSUME NEW io1 \in Level, Tick(io1) PROVE TypeOK'
  <2>1. shifter' \in Byte
    BY <1>22, SMTT(60) DEF Tick, TypeOK, ShiftLeft, Bit, Byte, BitVec
  <2>2. Seen(io1) \in Drive
    BY DEF Seen, TypeOK, Lanes, Drive
  <2>3. edges' \in Seq(Drive)
    BY <1>22, <2>2 DEF Tick, TypeOK
  <2>4. QED
    BY <1>22, <2>1, <2>3 DEF Tick, SckOf, TypeOK, Level, arch, wait, trace, store
<1>23. CASE NextBeat
  <2>1. BeatLanes(beatIx + 1) \in Lanes
    BY LaneTypes, ResetTypes DEF BeatLanes
  <2>2. beatIx + 1 \in 0..15
    BY <1>23 DEF NextBeat, MoreBeats, TypeOK
  <2>3. QED
    BY <1>23, <2>1, <2>2 DEF NextBeat, ClockLow, TypeOK, Level, arch, wait, trace, store
<1>24. CASE Complete
  <2>1. CASE pending.kind = "Get"
    <3>1. pending.rd \in 0..31 /\ pending.nbits \in 1..8
      BY <1>g, <2>1, PendingTypes
    <3>2. shifter \in Byte /\ shifter \in Word /\ rxCrc \in Byte
      BY ByteIsWord DEF TypeOK
    <3>3. regs' \in [0..15 -> Word]
      BY <1>24, <1>e, <2>1, <3>1, <3>2 DEF Complete
    <3>4. rxCrc' \in Byte
      BY <1>24, <2>1, <3>2, CrcByte DEF Complete
    <3>5. Capture(pending.nbits, shifter) \in RingWord
      BY <3>1, <3>2, RecordTypes
    <3>6. /\ ringPtr' \in 0..TermAddr /\ ovf' \in BOOLEAN
          /\ ring' \in [0..TermAddr -> RingWord] /\ written' \subseteq 0..TermAddr
      <4>1. PushWord(Capture(pending.nbits, shifter))
        BY <1>24, <2>1 DEF Complete
      <4>2. CASE PushFits
        <5>1. /\ WriteRing(ringPtr, Capture(pending.nbits, shifter))
              /\ ringPtr' = ringPtr + 1 /\ UNCHANGED ovf
          BY <4>1, <4>2 DEF PushWord
        <5>2. ringPtr \in 0..TermAddr /\ ringPtr + 1 \in 0..TermAddr
          BY <4>2 DEF PushFits, TypeOK
        <5>3. ring' \in [0..TermAddr -> RingWord] /\ written' \subseteq 0..TermAddr
          BY <3>5, <5>1, <5>2 DEF WriteRing, TypeOK
        <5>4. QED
          BY <5>1, <5>2, <5>3 DEF TypeOK
      <4>3. CASE ~PushFits
        BY <4>1, <4>3 DEF PushWord, slots, TypeOK
      <4>4. QED
        BY <4>2, <4>3
    <3>7. QED
      BY <1>24, <1>a, <1>g, <3>3, <3>4, <3>6, SMTT(60)
      DEF Complete, Advance, ClockLow, TypeOK, Phases, Level, store
  <2>2. CASE pending.kind # "Get"
    <3>1. UNCHANGED <<regs, rxCrc, ringPtr, ovf, slots>>
      BY <1>24, <2>2 DEF Complete
    <3>2. QED
      BY <1>24, <1>a, <1>g, <3>1, SMTT(60)
      DEF Complete, Advance, ClockLow, TypeOK, Phases, Level, slots, store
  <2>3. QED
    BY <2>1, <2>2
<1>25. CASE TraceEmit
  <2>1. pending.payload \in Word
    BY <1>25, <1>g, PendingTypes DEF TraceEmit
  <2>2. Payload(pending.payload) \in RingWord
    BY <2>1, RecordTypes
  <2>3. QED
    BY <1>25, <1>a, <1>f, <1>g, <2>2
    DEF TraceEmit, Advance, WriteRing, TypeOK, Phases, arch, pins, beat, store
<1>26. ASSUME NEW io1 \in Level, NEW alert \in Level, WaitAlert(io1, alert)
       PROVE  TypeOK'
  <2>1. pending.rd \in 0..31
    BY <1>26, <1>g, PendingTypes DEF WaitAlert
  <2>2. WriteReg(pending.rd, {}) \in [0..15 -> Word]
        /\ WriteReg(pending.rd, {0}) \in [0..15 -> Word]
    BY <1>e, <2>1, ResetTypes
  <2>3. regs' \in [0..15 -> Word]
    BY <1>26, <1>c, <2>2 DEF WaitAlert
  <2>a. waitTimer \in 0..511
    BY DEF TypeOK
  <2>4. waitTimer' \in 0..511
    BY <1>26, <2>a DEF WaitAlert, Expired
  <2>5. QED
    BY <1>26, <1>a, <1>g, <2>3, <2>4
    DEF WaitAlert, Advance, TypeOK, Phases, pins, beat, trace, store
<1>27. ASSUME NEW io1 \in Level, NEW alert \in Level, Exec(io1, alert)
       PROVE  TypeOK'
  BY <1>6, <1>7, <1>8, <1>9, <1>10, <1>11, <1>12, <1>14, <1>15, <1>17, <1>18,
     <1>19, <1>20, <1>21, <1>27 DEF Exec
<1>28. CASE Cycle
  BY <1>4, <1>5, <1>22, <1>23, <1>24, <1>25, <1>26, <1>27, <1>28 DEF Cycle
<1>29. QED
  BY <1>1, <1>2, <1>3, <1>28 DEF Next

\* Every reachable state is well typed: no width is exceeded, for any program
\* store and ring the assumptions allow (Engine.hs, State).
THEOREM TypeCorrect == Spec => []TypeOK
<1>1. QED
  BY TypeInit, TypeStep, PTL DEF Spec

-----------------------------------------------------------------------------
(* The trace ring, for every size of it and every program: the records     *)
(* below the pointer are whole and fresh, the terminator slot is kept, and *)
(* an overflow freezes the stream.                                         *)

\* A cycle of a running program that writes no record.
Quiet ==
    /\ UNCHANGED <<ringPtr, ring, written, wrapped>>
    /\ phase \notin {"Idle", "Preamble", "TraceEmit", "Halted"}
    /\ phase' \notin {"Idle", "Preamble", "TraceEmit", "Halted"}

LEMMA QuietStep == ASSUME RingInv, Quiet PROVE RingInv'
<1>1. WrittenSlots'
  BY DEF Quiet, RingInv, WrittenSlots, Running
<1>2. PendingMark'
  BY DEF Quiet, PendingMark
<1>3. WholeRecords'
  BY DEF Quiet, RingInv, WholeRecords, Running
<1>4. QED
  BY <1>1, <1>2, <1>3 DEF RingInv

\* Nothing of the ring or of the phase moves.
LEMMA StillStep ==
    ASSUME RingInv, UNCHANGED <<phase, trace>> PROVE RingInv'
<1>1. UNCHANGED <<phase, ringPtr, ovf, ring, written, wrapped>>
  BY DEF trace
<1>2. WrittenSlots'
  BY <1>1 DEF RingInv, WrittenSlots, Running
<1>3. PendingMark'
  BY <1>1 DEF RingInv, PendingMark
<1>4. WholeRecords'
  BY <1>1 DEF RingInv, WholeRecords, Running
<1>5. QED
  BY <1>2, <1>3, <1>4 DEF RingInv

LEMMA RingInit == Init => RingInv
<1> SUFFICES ASSUME Init PROVE RingInv
  OBVIOUS
<1>1. phase = "Idle" /\ written = {} /\ ringPtr = 1 /\ wrapped = FALSE
  BY DEF Init
<1>2. QED
  BY <1>1 DEF RingInv, WrittenSlots, PendingMark, WholeRecords, Running

LEMMA StartRing == Start => RingInv'
<1> SUFFICES ASSUME Start PROVE RingInv'
  OBVIOUS
<1>1. phase' = "Preamble" /\ written' = {} /\ ringPtr' = 1 /\ wrapped' = FALSE
  BY DEF Start, SoftInit
<1>2. QED
  BY <1>1 DEF RingInv, WrittenSlots, PendingMark, WholeRecords, Running

LEMMA PreambleRing == ASSUME TypeOK, RingInv, Preamble PROVE RingInv'
<1>1. /\ phase = "Preamble" /\ phase' = "Fetch" /\ WriteRing(0, Revision)
      /\ ringPtr' = ringPtr /\ wrapped' = wrapped
  BY DEF Preamble
<1>2. written = {} /\ ringPtr = 1 /\ ~wrapped
  BY <1>1 DEF RingInv, WrittenSlots, Running
<1>3. written' = 0..ringPtr'-1
  BY <1>1, <1>2 DEF WriteRing
<1>4. ring' = [ring EXCEPT ![0] = Revision] /\ ring \in [0..TermAddr -> RingWord]
  BY <1>1 DEF WriteRing, TypeOK
<1>5. ring'[0] = Revision
  BY <1>4, RingSize
<1>6. WrittenSlots'
  BY <1>1, <1>2, <1>3 DEF WrittenSlots, Running
<1>7. PendingMark'
  BY <1>1 DEF PendingMark
<1>8. WholeRecords'
  BY <1>1, <1>2, <1>5 DEF WholeRecords, Running
<1>9. QED
  BY <1>6, <1>7, <1>8 DEF RingInv

\* What the phases' names leave to be said of a running, unwrapped trace.
LEMMA RunningRing ==
    ASSUME TypeOK, RingInv, phase \notin {"Idle", "Preamble", "Halted"}, ~wrapped
    PROVE  /\ written = 0..ringPtr-1
           /\ ring[0] = Revision /\ ringPtr \in 1..TermAddr
           /\ \A a \in 1..ringPtr-1 :
                /\ ring[a].tag \in {"CAPTURE", "MARK", "PAYLOAD"}
                /\ ring[a].tag = "PAYLOAD" <=> ring[a-1].tag = "MARK"
                /\ ring[a].tag = "MARK" /\ a = ringPtr-1 => phase = "TraceEmit"
<1>1. Running
  BY DEF Running
<1>2. written = 0..ringPtr-1
  BY <1>1 DEF RingInv, WrittenSlots
<1>3. ringPtr \in 1..TermAddr
  BY <1>1, RingSize DEF RingInv, WholeRecords, TypeOK
<1>4. QED
  BY <1>1, <1>2, <1>3 DEF RingInv, WholeRecords

LEMMA HaltRing ==
    ASSUME TypeOK, RingInv, phase = "Exec", NEW w,
           phase' = "Halted", WriteRing(TermAddr, w),
           UNCHANGED <<ringPtr, ovf, wrapped>>
    PROVE  RingInv'
<1>1. /\ ring' = [ring EXCEPT ![TermAddr] = w] /\ written' = written \cup {TermAddr}
      /\ ring \in [0..TermAddr -> RingWord]
  BY DEF WriteRing, TypeOK
<1>2. WrittenSlots'
  <2>1. CASE wrapped
    BY <1>1, <2>1 DEF RingInv, WrittenSlots, Running
  <2>2. CASE ~wrapped
    BY <1>1, <2>2, RunningRing DEF WrittenSlots, Running
  <2>3. QED BY <2>1, <2>2
<1>3. PendingMark'
  BY DEF PendingMark
<1>4. WholeRecords'
  <2> SUFFICES ASSUME ~wrapped
               PROVE  /\ ring'[0] = Revision
                      /\ ringPtr >= 1
                      /\ \A a \in 1..ringPtr-1 :
                           /\ ring'[a].tag \in {"CAPTURE", "MARK", "PAYLOAD"}
                           /\ ring'[a].tag = "PAYLOAD" <=> ring'[a-1].tag = "MARK"
                           /\ ring'[a].tag = "MARK" /\ a = ringPtr-1 => FALSE
    BY DEF WholeRecords
  <2>1. ringPtr \in 1..TermAddr
    BY RunningRing
  <2>2. \A a \in 0..ringPtr-1 : ring'[a] = ring[a]
    BY <1>1, <2>1, RingSize
  <2>3. ring'[0] = Revision
    BY <2>1, <2>2, RunningRing
  <2>4. ASSUME NEW a \in 1..ringPtr-1
        PROVE  /\ ring'[a].tag \in {"CAPTURE", "MARK", "PAYLOAD"}
               /\ ring'[a].tag = "PAYLOAD" <=> ring'[a-1].tag = "MARK"
               /\ ring'[a].tag = "MARK" /\ a = ringPtr-1 => FALSE
    <3>1. a \in 0..ringPtr-1 /\ a-1 \in 0..ringPtr-1
      BY <2>1
    <3>2. ring'[a] = ring[a] /\ ring'[a-1] = ring[a-1]
      BY <2>2, <3>1
    <3>3. QED
      BY <3>2, RunningRing
  <2>5. QED
    BY <2>1, <2>3, <2>4
<1>5. QED
  BY <1>2, <1>3, <1>4 DEF RingInv

\* A word of tag t appended to the records: what the shape of the stream
\* asks of it.
LEMMA AppendRing ==
    ASSUME TypeOK, RingInv, phase \notin {"Idle", "Preamble", "Halted"}, ~wrapped,
           ringPtr < TermAddr, NEW w \in RingWord,
           w.tag \in {"CAPTURE", "MARK", "PAYLOAD"},
           WriteRing(ringPtr, w), ringPtr' = ringPtr + 1, ~wrapped',
           phase' \notin {"Idle", "Preamble", "Halted"},
           w.tag = "PAYLOAD" <=> phase = "TraceEmit",
           w.tag = "MARK" <=> phase' = "TraceEmit"
    PROVE  /\ WrittenSlots' /\ WholeRecords'
           /\ ring'[ringPtr'-1].tag = w.tag
<1>1. /\ ring' = [ring EXCEPT ![ringPtr] = w] /\ written' = written \cup {ringPtr}
      /\ ring \in [0..TermAddr -> RingWord]
  BY DEF WriteRing, TypeOK
<1>2. ringPtr \in 1..TermAddr-1 /\ ringPtr' - 1 = ringPtr
  BY RunningRing, RingSize
<1>3. \A a \in 0..ringPtr-1 : ring'[a] = ring[a]
  BY <1>1, <1>2, RingSize
<1>4. ring'[ringPtr] = w
  BY <1>1, <1>2, RingSize
<1>5. WrittenSlots'
  <2>1. written' = 0..ringPtr'-1
    BY <1>1, <1>2, RunningRing
  <2>2. QED
    BY <2>1 DEF WrittenSlots, Running
<1>6. ring[ringPtr-1].tag = "MARK" <=> phase = "TraceEmit"
  <2>1. CASE ringPtr = 1
    <3>1. ring[ringPtr-1].tag # "MARK"
      BY <2>1, RunningRing DEF Revision
    <3>2. phase # "TraceEmit"
      BY <2>1 DEF RingInv, PendingMark
    <3>3. QED BY <3>1, <3>2
  <2>2. CASE ringPtr # 1
    <3>1. ringPtr - 1 \in 1..ringPtr-1
      BY <1>2, <2>2
    <3>2. ring[ringPtr-1].tag = "MARK" => phase = "TraceEmit"
      BY <3>1, RunningRing
    <3>3. phase = "TraceEmit" => ring[ringPtr-1].tag = "MARK"
      BY DEF RingInv, PendingMark
    <3>4. QED BY <3>2, <3>3
  <2>3. QED BY <2>1, <2>2
<1>7. WholeRecords'
  <2>1. ASSUME NEW a \in 1..ringPtr
        PROVE  /\ ring'[a].tag \in {"CAPTURE", "MARK", "PAYLOAD"}
               /\ ring'[a].tag = "PAYLOAD" <=> ring'[a-1].tag = "MARK"
               /\ ring'[a].tag = "MARK" /\ a = ringPtr => phase' = "TraceEmit"
    <3>1. CASE a = ringPtr
      <4>1. ring'[a] = w /\ ring'[a-1] = ring[ringPtr-1]
        BY <1>2, <1>3, <1>4, <3>1
      <4>2. QED
        BY <1>6, <4>1
    <3>2. CASE a # ringPtr
      <4>1. a \in 1..ringPtr-1 /\ a \in 0..ringPtr-1 /\ a-1 \in 0..ringPtr-1
        BY <1>2, <3>2
      <4>2. ring'[a] = ring[a] /\ ring'[a-1] = ring[a-1]
        BY <1>3, <4>1
      <4>3. QED
        BY <3>2, <4>1, <4>2, RunningRing
    <3>3. QED BY <3>1, <3>2
  <2>2. ring'[0] = Revision
    BY <1>2, <1>3, RunningRing
  <2>3. ringPtr' >= 1 /\ 1..ringPtr'-1 = 1..ringPtr
    BY <1>2
  <2>4. QED
    BY <1>2, <2>1, <2>2, <2>3 DEF WholeRecords
<1>8. QED
  BY <1>2, <1>4, <1>5, <1>7

\* Once a MARK was accepted on a full ring every slot has been written, and
\* nothing more is said of the stream.
LEMMA WrappedRing ==
    ASSUME wrapped', 0..TermAddr \subseteq written', phase' # "TraceEmit" \/ ~ovf',
           TermAddr \in written', Running'
    PROVE  RingInv'
<1>1. WrittenSlots'
  BY DEF WrittenSlots
<1>2. PendingMark'
  BY DEF PendingMark
<1>3. WholeRecords'
  BY DEF WholeRecords
<1>4. QED
  BY <1>1, <1>2, <1>3 DEF RingInv

LEMMA MarkRing == ASSUME TypeOK, RingInv, ExecMark PROVE RingInv'
<1>0. phase = "Exec"
  BY DEF ExecMark, Executing
<1>a. RingSlots = TermAddr + 1 /\ ringPtr \in 0..TermAddr /\ TermAddr \in Nat
  BY RingSize DEF TypeOK
<1>1. CASE /\ MarkFits /\ phase' = "TraceEmit"
           /\ WriteRing(ringPtr, MarkLabel(instrWord.imm))
           /\ ringPtr' = (ringPtr + 1) % RingSlots
           /\ wrapped' = (wrapped \/ ringPtr = TermAddr)
           /\ UNCHANGED <<pc, ovf>>
  <2>1. ~ovf'
    BY <1>1 DEF MarkFits
  <2>2. CASE wrapped
    <3>1. 0..TermAddr \subseteq written' /\ TermAddr \in written'
      BY <1>1, <1>a, <2>2 DEF RingInv, WrittenSlots, WriteRing
    <3>2. QED
      BY <1>1, <2>1, <2>2, <3>1, WrappedRing DEF Running
  <2>3. CASE ~wrapped /\ ringPtr = TermAddr
    <3>1. written = 0..TermAddr-1 /\ written' = written \cup {TermAddr}
      BY <1>0, <1>1, <2>3, RunningRing DEF WriteRing
    <3>2. 0..TermAddr \subseteq written' /\ TermAddr \in written'
      BY <1>a, <3>1
    <3>3. QED
      BY <1>1, <2>1, <2>3, <3>2, WrappedRing DEF Running
  <2>4. CASE ~wrapped /\ ringPtr # TermAddr
    <3>1. (ringPtr + 1) % RingSlots = ringPtr + 1
      BY <1>a, <2>4
    <3>2. ringPtr + 1 < TermAddr
      BY <1>1, <1>a, <3>1 DEF MarkFits
    <3>3. MarkLabel(instrWord.imm) \in RingWord /\ MarkLabel(instrWord.imm).tag = "MARK"
      <4>1. instrWord.imm \in 0..2047
        BY FieldTypes
      <4>2. MarkLabel(instrWord.imm) \in RingWord
        BY <4>1 DEF MarkLabel, RingWord
      <4>3. MarkLabel(instrWord.imm).tag = "MARK"
        BY DEF MarkLabel
      <4>4. QED BY <4>2, <4>3
    <3>4. WrittenSlots' /\ WholeRecords' /\ ring'[ringPtr'-1].tag = "MARK"
      <4> DEFINE w == MarkLabel(instrWord.imm)
      <4>1. /\ w \in RingWord /\ w.tag = "MARK" /\ WriteRing(ringPtr, w)
            /\ phase = "Exec" /\ phase' = "TraceEmit"
        BY <1>0, <1>1, <3>3
      <4>a. ~wrapped' /\ ~wrapped
        BY <1>1, <2>4
      <4>b. ringPtr' = ringPtr + 1
        BY <1>1, <3>1
      <4>2. ~wrapped' /\ ~wrapped /\ ringPtr' = ringPtr + 1 /\ ringPtr < TermAddr
        BY <1>a, <3>2, <4>a, <4>b
      <4> HIDE DEF w
      <4>3. QED
        BY <4>1, <4>2, AppendRing
    <3>5. PendingMark'
      BY <1>0, <1>1, <2>1, <2>4, <3>1, <3>2, <3>4, RunningRing DEF PendingMark
    <3>6. QED
      BY <3>4, <3>5 DEF RingInv
  <2>5. QED BY <2>2, <2>3, <2>4
<1>2. CASE phase' = "Fetch" /\ UNCHANGED <<ringPtr, slots, wrapped>>
  <2>1. Quiet
    BY <1>0, <1>2 DEF Quiet, slots
  <2>2. QED BY <2>1, QuietStep
<1>3. QED
  BY <1>1, <1>2 DEF ExecMark, Advance

LEMMA CompleteRing == ASSUME TypeOK, RingInv, Complete PROVE RingInv'
<1>1. /\ phase = "BusBeat" /\ phase' = "Fetch" /\ wrapped' = wrapped
      /\ \/ /\ pending.kind = "Get"
            /\ PushWord(Capture(pending.nbits, shifter))
         \/ UNCHANGED <<ringPtr, slots>>
  BY DEF Complete, Advance
<1>2. CASE UNCHANGED <<ringPtr, slots>>
  <2>1. Quiet
    BY <1>1, <1>2 DEF Quiet, slots
  <2>2. QED BY <2>1, QuietStep
<1>3. CASE /\ pending.kind = "Get" /\ PushFits
           /\ WriteRing(ringPtr, Capture(pending.nbits, shifter))
           /\ ringPtr' = ringPtr + 1
  <2>1. CASE wrapped
    <3>1. 0..TermAddr \subseteq written' /\ TermAddr \in written'
      BY <1>3, <2>1, RingSize DEF RingInv, WrittenSlots, WriteRing
    <3>2. QED
      BY <1>1, <2>1, <3>1, WrappedRing DEF Running
  <2>2. CASE ~wrapped
    <3>1. pending.nbits \in 1..8 /\ shifter \in Byte
      BY <1>3, PendingTypes DEF TypeOK
    <3>2. /\ Capture(pending.nbits, shifter) \in RingWord
          /\ Capture(pending.nbits, shifter).tag = "CAPTURE"
      BY <3>1, RecordTypes DEF Capture
    <3>3. ringPtr < TermAddr
      BY <1>3, RingSize DEF PushFits, TypeOK
    <3>4. WrittenSlots' /\ WholeRecords'
      BY <1>1, <1>3, <2>2, <3>2, <3>3, AppendRing
    <3>5. PendingMark'
      BY <1>1 DEF PendingMark
    <3>6. QED
      BY <3>4, <3>5 DEF RingInv
  <2>3. QED BY <2>1, <2>2
<1>4. QED
  BY <1>1, <1>2, <1>3 DEF PushWord

LEMMA TraceEmitRing == ASSUME TypeOK, RingInv, TraceEmit PROVE RingInv'
<1>1. /\ phase = "TraceEmit" /\ pending.kind = "Mark" /\ phase' = "Fetch"
      /\ WriteRing(ringPtr, Payload(pending.payload))
      /\ ringPtr' = (ringPtr + 1) % RingSlots /\ wrapped' = wrapped
  BY DEF TraceEmit, Advance
<1>2. CASE wrapped
  <2>1. 0..TermAddr \subseteq written' /\ TermAddr \in written'
    BY <1>1, <1>2, RingSize DEF RingInv, WrittenSlots, WriteRing
  <2>2. QED
    BY <1>1, <1>2, <2>1, WrappedRing DEF Running
<1>3. CASE ~wrapped
  <2>1. ringPtr \in 2..TermAddr-1
    BY <1>1, <1>3, RingSize DEF RingInv, PendingMark, TypeOK
  <2>2. ringPtr' = ringPtr + 1
    BY <1>1, <2>1, RingSize
  <2>3. pending.payload \in Word
    BY <1>1, PendingTypes DEF TypeOK
  <2>4. /\ Payload(pending.payload) \in RingWord
        /\ Payload(pending.payload).tag = "PAYLOAD"
    BY <2>3, RecordTypes DEF Payload
  <2>5. WrittenSlots' /\ WholeRecords'
    BY <1>1, <1>3, <2>1, <2>2, <2>4, RingSize, AppendRing
  <2>6. PendingMark'
    BY <1>1 DEF PendingMark
  <2>7. QED
    BY <2>5, <2>6 DEF RingInv
<1>4. QED BY <1>2, <1>3

\* Whatever the program and the run before it, the records stay whole, the
\* drained words fresh and the terminator slot free.
LEMMA RingStep == TypeOK /\ RingInv /\ [Next]_vars => RingInv'
<1> SUFFICES ASSUME TypeOK, RingInv, [Next]_vars PROVE RingInv'
  OBVIOUS
<1>1. CASE UNCHANGED vars
  BY <1>1, StillStep DEF vars
<1>2. CASE LoadProgram
  BY <1>2, StillStep DEF LoadProgram
<1>3. CASE Start
  BY <1>3, StartRing
<1>4. CASE Preamble
  BY <1>4, PreambleRing
<1>5. CASE Fetch
  <2>1. Quiet
    BY <1>5 DEF Fetch, Quiet, trace
  <2>2. QED BY <2>1, QuietStep
<1>6. ASSUME NEW io1 \in Level, NEW alert \in Level, Exec(io1, alert)
      PROVE  RingInv'
  <2>1. CASE ExecData \/ ExecRdsr \/ ExecBranch \/ ExecPin \/ ExecCrcReset
               \/ ExecSetConfig \/ ExecGetAlert(io1, alert) \/ ExecWaitOn
    <3>1. Quiet
      BY <2>1 DEF ExecData, ExecRdsr, ExecBranch, ExecPin, ExecCrcReset,
                  ExecSetConfig, ExecGetAlert, ExecWaitOn, Executing, Advance,
                  Quiet, trace
    <3>2. QED BY <3>1, QuietStep
  <2>2. CASE ExecHalt \/ ExecTrap
    <3>1. PICK w : /\ phase = "Exec" /\ phase' = "Halted" /\ WriteRing(TermAddr, w)
                   /\ UNCHANGED <<ringPtr, ovf, wrapped>>
      BY <2>2 DEF ExecHalt, ExecTrap, Executing, Trap, HaltWith
    <3>2. QED
      BY <3>1, HaltRing
  <2>3. CASE ExecPut \/ ExecGet \/ ExecTar
    <3>1. Quiet
      BY <2>3 DEF ExecPut, ExecGet, ExecTar, Executing, StartBeats, Advance,
                  Quiet, trace
    <3>2. QED BY <3>1, QuietStep
  <2>4. CASE ExecMark
    BY <2>4, MarkRing
  <2>5. QED
    BY <1>6, <2>1, <2>2, <2>3, <2>4 DEF Exec
<1>7. ASSUME NEW io1 \in Level, Tick(io1) \/ NextBeat PROVE RingInv'
  <2>1. Quiet
    BY <1>7 DEF Tick, NextBeat, Quiet, trace
  <2>2. QED BY <2>1, QuietStep
<1>8. CASE Complete
  BY <1>8, CompleteRing
<1>9. CASE TraceEmit
  BY <1>9, TraceEmitRing
<1>10. ASSUME NEW io1 \in Level, NEW alert \in Level, WaitAlert(io1, alert)
       PROVE  RingInv'
  <2>1. Quiet
    BY <1>10 DEF WaitAlert, Advance, Quiet, trace
  <2>2. QED BY <2>1, QuietStep
<1>11. CASE Cycle
  BY <1>4, <1>5, <1>6, <1>7, <1>8, <1>9, <1>10, <1>11 DEF Cycle
<1>12. QED
  BY <1>1, <1>2, <1>3, <1>11 DEF Next

LEMMA RingCorrect == Spec => []RingInv
<1>1. TypeOK /\ RingInv /\ [TypeOK /\ Next]_vars => RingInv'
  BY RingStep
<1>2. QED
  BY TypeCorrect, RingInit, RingStep, PTL DEF Spec

\* The words below the write pointer are whole records behind REVISION, for a
\* ring of any size, until a MARK is accepted on a full ring (Engine.hs,
\* pushWord, execInstr Mark and stepTraceEmit).
THEOREM RecordsStayWhole == Spec => []WholeRecords
<1>1. RingInv => WholeRecords
  BY DEF RingInv
<1>2. QED
  BY <1>1, RingCorrect, PTL

\* No drained word is left over from an earlier run (the ring is not cleared
\* by softInit).
THEOREM DrainIsFresh == Spec => []DrainedWordsAreFresh
<1>1. TypeOK /\ RingInv => DrainedWordsAreFresh
  <2> SUFFICES ASSUME TypeOK, RingInv, phase = "Halted"
               PROVE  (0..ringPtr-1) \cup {TermAddr} \subseteq written
    BY DEF DrainedWordsAreFresh
  <2>1. CASE wrapped
    <3>1. 0..ringPtr-1 \subseteq 0..TermAddr
      BY RingSize DEF TypeOK
    <3>2. QED
      BY <2>1, <3>1 DEF RingInv, WrittenSlots
  <2>2. CASE ~wrapped
    BY <2>2 DEF RingInv, WrittenSlots, Running
  <2>3. QED BY <2>1, <2>2
<1>2. QED
  BY <1>1, TypeCorrect, RingCorrect, PTL

\* Until a MARK is accepted on a full ring, only the HALT word reaches the
\* terminator slot (Engine.hs, haltWith and termAddr).
THEOREM TerminatorIsReserved == Spec => []TerminatorReserved
<1>1. TypeOK /\ RingInv => TerminatorReserved
  <2> SUFFICES ASSUME TypeOK, RingInv, ~wrapped, TermAddr \in written,
                      phase # "Halted"
               PROVE  FALSE
    BY DEF TerminatorReserved
  <2>1. CASE ~Running
    BY <2>1 DEF RingInv, WrittenSlots
  <2>2. CASE Running
    <3>1. written = 0..ringPtr-1
      BY <2>2 DEF RingInv, WrittenSlots
    <3>2. QED
      BY <3>1, RingSize DEF TypeOK
  <2>3. QED BY <2>1, <2>2
<1>2. QED
  BY <1>1, TypeCorrect, RingCorrect, PTL

\* After a record was dropped none is added until the next start
\* (Engine.hs, pushWord and execInstr Mark).
THEOREM OverflowFreezes == Spec => OverflowFreezesTrace
<1> DEFINE Frozen == ovf /\ phase' # "Preamble" => ovf' /\ ringPtr' = ringPtr
<1>1. RingInv /\ [Next]_vars => Frozen
  <2> SUFFICES ASSUME RingInv, [Next]_vars, ovf, phase' # "Preamble"
               PROVE  ovf' /\ ringPtr' = ringPtr
    OBVIOUS
  <2>1. CASE UNCHANGED vars \/ LoadProgram \/ Start
    BY <2>1 DEF vars, LoadProgram, Start, trace
  <2>2. CASE Preamble \/ Fetch
    BY <2>2 DEF Preamble, Fetch, trace
  <2>3. ASSUME NEW io1 \in Level, NEW alert \in Level, Exec(io1, alert)
        PROVE  ovf' /\ ringPtr' = ringPtr
    <3>1. CASE ExecData \/ ExecRdsr \/ ExecBranch \/ ExecPin \/ ExecCrcReset
                 \/ ExecSetConfig \/ ExecGetAlert(io1, alert) \/ ExecWaitOn
      BY <3>1 DEF ExecData, ExecRdsr, ExecBranch, ExecPin, ExecCrcReset,
                  ExecSetConfig, ExecGetAlert, ExecWaitOn, trace
    <3>2. CASE ExecHalt \/ ExecTrap
      BY <3>2 DEF ExecHalt, ExecTrap, Trap, HaltWith
    <3>3. CASE ExecPut \/ ExecGet \/ ExecTar
      BY <3>3 DEF ExecPut, ExecGet, ExecTar, StartBeats, trace
    <3>4. CASE ExecMark
      BY <3>4 DEF ExecMark, MarkFits
    <3>5. QED
      BY <2>3, <3>1, <3>2, <3>3, <3>4 DEF Exec
  <2>4. ASSUME NEW io1 \in Level, Tick(io1) \/ NextBeat
        PROVE  ovf' /\ ringPtr' = ringPtr
    BY <2>4 DEF Tick, NextBeat, trace
  <2>5. CASE Complete
    BY <2>5 DEF Complete, PushWord, PushFits
  <2>6. CASE TraceEmit
    BY <2>6 DEF TraceEmit, RingInv, PendingMark
  <2>7. ASSUME NEW io1 \in Level, NEW alert \in Level, WaitAlert(io1, alert)
        PROVE  ovf' /\ ringPtr' = ringPtr
    BY <2>7 DEF WaitAlert, trace
  <2>8. QED
    BY <2>1, <2>2, <2>3, <2>4, <2>5, <2>6, <2>7 DEF Next, Cycle
<1>2. RingInv /\ [Next]_vars => [Frozen]_vars
  BY <1>1
<1>3. QED
  BY <1>2, RingCorrect, PTL DEF Spec, OverflowFreezesTrace

-----------------------------------------------------------------------------
(* The bus, for every program: what crosses it at the rising edges of SCK, *)
(* how many edges there are, and that the lanes and CS# keep still while   *)
(* the clock is high.                                                      *)

\* Cycles that begin and end outside a transfer, and leave SCK low.
Aside ==
    /\ phase # "BusBeat" /\ phase' # "BusBeat"
    /\ sck' = 0 \/ sck' = sck

LEMMA AsideStep == ASSUME BusInv, Aside PROVE BusInv'
BY DEF BusInv, SckIdlesLow, EdgesCarryTheData, Aside

LEMMA BusInit == Init => BusInv
BY DEF Init, BusInv, SckIdlesLow, EdgesCarryTheData

\* The lanes of a first beat.
LEMMA StartBus ==
    ASSUME TypeOK, BusInv, phase = "Exec",
           NEW total \in 1..15, NEW byte, NEW work, NEW first,
           StartBeats(total, byte, work, first), total = ClocksOf,
           \/ work.kind = "None" /\ first = PutLanes(byte, 0)
           \/ work.kind = "Get" /\ first = hiZ /\ byte = {} /\ total <= 8
           \/ work.kind = "Tar" /\ first = TarLanes(0)
    PROVE  BusInv'
<1>1. /\ phase' = "BusBeat" /\ busPhase' = 0 /\ beatIx' = 0 /\ beatTot' = total
      /\ shifter' = byte /\ pending' = work /\ lanes' = first /\ edges' = <<>>
      /\ sck' = sck /\ instrWord' = instrWord /\ regs' = regs
  BY DEF StartBeats, arch, store
<1>2. sck' = 0
  BY <1>1 DEF BusInv, SckIdlesLow, TypeOK, Level
<1>3. SckIdlesLow'
  BY <1>1, <1>2 DEF SckIdlesLow
<1>4. ClocksOf' = ClocksOf
  BY <1>1 DEF ClocksOf, Op, BitCount, TarClocks, ReadReg
<1>5. EdgesCarryTheData'
  <2>1. Len(edges') = 0
    BY <1>1
  <2>2. lanes' = BeatLanes(beatIx)'
    BY <1>1 DEF BeatLanes
  <2>3. CASE work.kind = "Get"
    <3>1. lanes' = hiZ /\ pending'.kind = "Get" /\ shifter' = {}
      BY <1>1, <2>3
    <3>2. {Len(edges') - n : n \in {m \in 1..Len(edges') : edges'[m] = "1"}} = {}
      BY <2>1
    <3>3. QED
      BY <1>1, <1>2, <2>1, <2>2, <3>1, <3>2 DEF EdgesCarryTheData
  <2>4. CASE work.kind # "Get"
    BY <1>1, <1>2, <2>1, <2>2, <2>4 DEF EdgesCarryTheData
  <2>5. QED BY <2>3, <2>4
<1>6. QED
  BY <1>1, <1>3, <1>4, <1>5 DEF BusInv

LEMMA TickBus ==
    ASSUME TypeOK, BusInv, NEW io1 \in Level, Tick(io1)
    PROVE  BusInv'
<1>0. busPhase \in 0..4
  BY DEF TypeOK
<1>1. /\ phase = "BusBeat" /\ phase' = "BusBeat" /\ busPhase \in 0..3
      /\ busPhase' = busPhase + 1 /\ sck' = SckOf(busPhase + 1)
      /\ shifter' = (IF busPhase + 1 = 3 /\ pending.kind = "Get"
                     THEN ShiftLeft(shifter, 1, 8) \cup Bit(io1) ELSE shifter)
      /\ edges' = (IF sck = 0 /\ sck' = 1 THEN Append(edges, Seen(io1)) ELSE edges)
      /\ UNCHANGED <<lanes, beatIx, beatTot, pending, instrWord, regs>>
  <2>1. phase = "BusBeat" /\ phase' = "BusBeat" /\ busPhase \in 0..3
    BY <1>0 DEF Tick
  <2>2. busPhase' = busPhase + 1 /\ sck' = SckOf(busPhase + 1)
    BY DEF Tick
  <2>3. /\ shifter' = (IF busPhase + 1 = 3 /\ pending.kind = "Get"
                       THEN ShiftLeft(shifter, 1, 8) \cup Bit(io1) ELSE shifter)
        /\ edges' = (IF sck = 0 /\ sck' = 1 THEN Append(edges, Seen(io1)) ELSE edges)
    BY Zenon DEF Tick
  <2>4. UNCHANGED <<lanes, beatIx, beatTot, pending, instrWord, regs>>
    BY DEF Tick, arch, wait, store
  <2>5. QED
    BY <2>1, <2>2, <2>3, <2>4
<1>2. /\ sck = IF busPhase = 3 THEN 1 ELSE 0
      /\ sck' = IF busPhase \in {2, 3} THEN 1 ELSE 0
  <2>1. sck = IF busPhase = 3 THEN 1 ELSE 0
    BY <1>1, SMTT(60) DEF BusInv, SckIdlesLow, TypeOK, Level
  <2>2. sck' = IF busPhase \in {2, 3} THEN 1 ELSE 0
    BY <1>1, SMTT(60) DEF SckOf
  <2>3. QED
    BY <2>1, <2>2
<1>3. SckIdlesLow'
  BY <1>1, <1>2 DEF SckIdlesLow
<1>4. ClocksOf' = ClocksOf
  BY <1>1 DEF ClocksOf, Op, BitCount, TarClocks, ReadReg
<1>5. beatTot' = ClocksOf' /\ (pending'.kind = "Get" => beatTot' <= 8)
  BY <1>1, <1>4 DEF BusInv
<1>6. BeatLanes(beatIx)' = lanes'
  <2>1. pending.kind # "Get" => shifter' = shifter
    BY <1>1
  <2>2. QED
    BY <1>1, <2>1 DEF BeatLanes, BusInv, EdgesCarryTheData
<1>7. CASE busPhase # 2
  <2>1. edges' = edges /\ shifter' = shifter
    BY <1>1, <1>2, <1>7
  <2>2. (IF sck' = 1 THEN 1 ELSE 0) = (IF sck = 1 THEN 1 ELSE 0)
    BY <1>1, <1>2, <1>7
  <2>3. EdgesCarryTheData'
    BY <1>1, <1>6, <2>1, <2>2 DEF BusInv, EdgesCarryTheData
  <2>4. QED
    BY <1>3, <1>5, <2>3 DEF BusInv
<1>8. CASE busPhase = 2
  <2>1. /\ edges' = Append(edges, Seen(io1)) /\ sck = 0 /\ sck' = 1
        /\ Len(edges) = beatIx /\ beatIx \in 0..15 /\ beatIx < beatTot
        /\ edges \in Seq(Drive)
    BY <1>1, <1>2, <1>8, SMTT(60) DEF BusInv, EdgesCarryTheData, TypeOK
  <2>2. /\ Len(edges') = beatIx + 1 /\ edges'[beatIx + 1] = Seen(io1)
        /\ \A n \in 1..beatIx : edges'[n] = edges[n]
    BY <2>1
  <2>3. CASE pending.kind = "Get"
    <3>1. /\ lanes = hiZ /\ beatIx \in 0..7
          /\ shifter = {beatIx - n : n \in {m \in 1..beatIx : edges[m] = "1"}}
      <4>1. /\ lanes = hiZ
            /\ shifter = {Len(edges) - n : n \in {m \in 1..Len(edges) : edges[m] = "1"}}
        BY <1>1, <2>3 DEF BusInv, EdgesCarryTheData
      <4>2. shifter = {beatIx - n : n \in {m \in 1..beatIx : edges[m] = "1"}}
        BY <2>1, <4>1, Zenon
      <4>3. beatIx \in 0..7
        <5>1. beatTot <= 8
          BY <1>1, <2>3 DEF BusInv
        <5>2. beatTot \in 0..15
          BY DEF TypeOK
        <5>3. QED BY <2>1, <5>1, <5>2
      <4>4. QED BY <4>1, <4>2, <4>3
    <3>2. shifter' = ShiftLeft(shifter, 1, 8) \cup Bit(io1)
      BY <1>1, <1>8, <2>3
    <3>3. Seen(io1) = "1" <=> io1 = 1
      BY <2>3 DEF Seen
    <3>4. \A k \in 0..7 : k \in shifter <=>
            \E n \in 1..beatIx : edges[n] = "1" /\ k = beatIx - n
      BY <3>1
    <3>5. shifter' = {(beatIx + 1) - n : n \in {m \in 1..beatIx+1 : edges'[m] = "1"}}
      <4>1. ASSUME NEW k \in shifter'
            PROVE  \E n \in 1..beatIx+1 : edges'[n] = "1" /\ k = (beatIx + 1) - n
        BY <2>2, <3>1, <3>2, <3>3, <4>1 DEF ShiftLeft, Bit
      <4>2. ASSUME NEW n \in 1..beatIx+1, edges'[n] = "1"
            PROVE  (beatIx + 1) - n \in shifter'
        <5>1. CASE n = beatIx + 1
          BY <2>2, <3>1, <3>2, <3>3, <4>2, <5>1 DEF Bit
        <5>2. CASE n # beatIx + 1
          <6>1. n \in 1..beatIx /\ edges[n] = "1"
            BY <2>2, <3>1, <4>2, <5>2
          <6>2. beatIx - n \in shifter /\ (beatIx + 1) - n \in 0..7
            BY <3>1, <6>1
          <6>3. QED
            BY <3>1, <3>2, <6>1, <6>2 DEF ShiftLeft
        <5>3. QED BY <5>1, <5>2
      <4>3. QED BY <4>1, <4>2
    <3>6. EdgesCarryTheData'
      <4>1. shifter' = {Len(edges') - n : n \in {m \in 1..Len(edges') : edges'[m] = "1"}}
        <5>1. Len(edges') = beatIx + 1
          BY <2>2
        <5>2. QED BY <3>5, <5>1, Zenon
      <4>2. lanes' = hiZ /\ pending'.kind = "Get"
        BY <1>1, <2>3, <3>1
      <4>3. Len(edges') = beatIx' + (IF sck' = 1 THEN 1 ELSE 0) /\ beatIx' < beatTot'
        BY <1>1, <2>1, <2>2
      <4>4. QED
        BY <1>6, <4>1, <4>2, <4>3 DEF EdgesCarryTheData
    <3>7. QED
      BY <1>3, <1>5, <3>6 DEF BusInv
  <2>4. CASE pending.kind # "Get"
    <3>1. shifter' = shifter /\ Seen(io1) = lanes[0] /\ lanes = BeatLanes(beatIx)
      BY <1>1, <2>4 DEF Seen, BusInv, EdgesCarryTheData
    <3>2. CASE pending.kind = "Tar"
      <4>1. Seen(io1) = IF beatIx = 0 THEN "1" ELSE "z"
        BY <3>1, <3>2 DEF BeatLanes, TarLanes, driveHigh, hiZ
      <4>2. \A n \in 1..beatIx : edges[n] = IF n = 1 THEN "1" ELSE "z"
        BY <1>1, <2>1, <3>2 DEF BusInv, EdgesCarryTheData
      <4>3. \A n \in 1..beatIx+1 : edges'[n] = IF n = 1 THEN "1" ELSE "z"
        BY <2>1, <2>2, <4>1, <4>2
      <4>4. EdgesCarryTheData'
        BY <1>1, <1>6, <2>1, <2>2, <3>2, <4>3 DEF EdgesCarryTheData
      <4>5. QED
        BY <1>3, <1>5, <4>4 DEF BusInv
    <3>3. CASE pending.kind # "Tar"
      <4>1. Seen(io1) = IF 7 - beatIx \in shifter THEN "1" ELSE "0"
        BY <2>4, <3>1, <3>3 DEF BeatLanes, PutLanes, hiZ
      <4>2. \A n \in 1..beatIx : edges[n] = IF 8 - n \in shifter THEN "1" ELSE "0"
        BY <1>1, <2>1, <2>4, <3>3 DEF BusInv, EdgesCarryTheData
      <4>3. \A n \in 1..beatIx+1 : edges'[n] = IF 8 - n \in shifter THEN "1" ELSE "0"
        <5>1. 8 - (beatIx + 1) = 7 - beatIx
          BY <2>1
        <5>2. QED
          BY <2>1, <2>2, <4>1, <4>2, <5>1
      <4>4. EdgesCarryTheData'
        BY <1>1, <1>6, <2>1, <2>2, <2>4, <3>1, <3>3, <4>3 DEF EdgesCarryTheData
      <4>5. QED
        BY <1>3, <1>5, <4>4 DEF BusInv
    <3>4. QED BY <3>2, <3>3
  <2>5. QED BY <2>3, <2>4
<1>9. QED BY <1>7, <1>8

LEMMA NextBeatBus == ASSUME TypeOK, BusInv, NextBeat PROVE BusInv'
<1>1. /\ phase = "BusBeat" /\ phase' = "BusBeat" /\ busPhase = 4 /\ busPhase' = 0
      /\ beatIx' = beatIx + 1 /\ beatIx + 1 < beatTot /\ sck' = 0
      /\ lanes' = BeatLanes(beatIx + 1)
      /\ UNCHANGED <<beatTot, shifter, edges, pending, instrWord, regs>>
  BY DEF NextBeat, MoreBeats, ClockLow, arch, wait, store
<1>2. sck = 1
  BY <1>1 DEF BusInv, SckIdlesLow
<1>3. SckIdlesLow'
  BY <1>1 DEF SckIdlesLow
<1>4. ClocksOf' = ClocksOf
  BY <1>1 DEF ClocksOf, Op, BitCount, TarClocks, ReadReg
<1>5. BeatLanes(beatIx)' = lanes'
  BY <1>1 DEF BeatLanes
<1>6. Len(edges) = beatIx + 1 /\ beatIx \in 0..15
  BY <1>1, <1>2 DEF BusInv, EdgesCarryTheData, TypeOK
<1>7. pending.kind = "Get" => lanes' = hiZ
  BY <1>1 DEF BeatLanes
<1>8. EdgesCarryTheData'
  <2>1. Len(edges') = beatIx' + (IF sck' = 1 THEN 1 ELSE 0) /\ beatIx' < beatTot'
    BY <1>1, <1>6
  <2>2. CASE pending.kind = "Get"
    <3>1. shifter = {Len(edges) - n : n \in {m \in 1..Len(edges) : edges[m] = "1"}}
      BY <1>1, <2>2 DEF BusInv, EdgesCarryTheData
    <3>2. shifter' = {Len(edges') - n : n \in {m \in 1..Len(edges') : edges'[m] = "1"}}
      BY <1>1, <3>1, Zenon
    <3>3. pending'.kind = "Get"
      BY <1>1, <2>2
    <3>4. QED
      BY <1>5, <1>7, <2>1, <2>2, <3>2, <3>3 DEF EdgesCarryTheData
  <2>3. CASE pending.kind # "Get"
    BY <1>1, <1>5, <2>1, <2>3 DEF BusInv, EdgesCarryTheData
  <2>4. QED BY <2>2, <2>3
<1>9. QED
  BY <1>1, <1>3, <1>4, <1>8 DEF BusInv

LEMMA ExecBus ==
    ASSUME TypeOK, BusInv, NEW io1 \in Level, NEW alert \in Level, Exec(io1, alert)
    PROVE  BusInv'
<1>1. CASE ExecData \/ ExecRdsr \/ ExecBranch \/ ExecPin \/ ExecCrcReset
             \/ ExecSetConfig \/ ExecGetAlert(io1, alert) \/ ExecMark \/ ExecWaitOn
  <2>1. Aside
    BY <1>1 DEF ExecData, ExecRdsr, ExecBranch, ExecPin, ExecCrcReset,
                ExecSetConfig, ExecGetAlert, ExecMark, ExecWaitOn, Executing,
                Advance, Aside, pins
  <2>2. QED BY <2>1, AsideStep
<1>2. CASE ExecHalt \/ ExecTrap
  <2>1. Aside
    BY <1>2 DEF ExecHalt, ExecTrap, Executing, Trap, SafePins, HaltWith, Aside, pins
  <2>2. QED BY <2>1, AsideStep
<1>3. BitCount \in 1..8 /\ TarClocks \in 0..15
  BY FieldTypes
<1>4. CASE ExecPut
  <2>1. PICK total, byte : total \in 1..15 /\
            StartBeats(total, byte, NoWork, PutLanes(byte, 0)) /\ total = ClocksOf
    BY <1>3, <1>4 DEF ExecPut, Executing, ClocksOf
  <2>2. phase = "Exec" /\ NoWork.kind = "None"
    BY <1>4 DEF ExecPut, Executing, NoWork
  <2>3. QED BY <2>1, <2>2, StartBus
<1>5. CASE ExecGet
  <2>1. PICK total, work :
            /\ total \in 1..15 /\ StartBeats(total, {}, work, hiZ) /\ total = ClocksOf
            /\ total <= 8 /\ work.kind = "Get"
    BY <1>3, <1>5 DEF ExecGet, Executing, ClocksOf, Get
  <2>2. phase = "Exec"
    BY <1>5 DEF ExecGet, Executing
  <2>3. QED BY <2>1, <2>2, StartBus
<1>6. CASE ExecTar
  <2>1. phase = "Exec" /\ Op \in {"TAR_IMM", "TAR_REG"}
    BY <1>6 DEF ExecTar, Executing
  <2>2. CASE TarClocks > 0 /\ StartBeats(TarClocks, {}, Tar, TarLanes(0))
    <3>1. TarClocks \in 1..15 /\ Tar.kind = "Tar"
      BY <1>3, <2>2 DEF Tar
    <3>2. TarClocks = ClocksOf
      BY <2>1 DEF ClocksOf
    <3>3. QED BY <2>1, <2>2, <3>1, <3>2, StartBus
  <2>3. CASE Advance /\ UNCHANGED <<arch, pins, beat, wait, trace, store>>
    <3>1. Aside
      BY <2>1, <2>3 DEF Advance, Aside, pins
    <3>2. QED BY <3>1, AsideStep
  <2>4. QED BY <1>6, <2>2, <2>3 DEF ExecTar
<1>7. QED
  BY <1>1, <1>2, <1>4, <1>5, <1>6 DEF Exec

LEMMA BusStep == TypeOK /\ BusInv /\ [Next]_vars => BusInv'
<1> SUFFICES ASSUME TypeOK, BusInv, [Next]_vars PROVE BusInv'
  OBVIOUS
<1>1. CASE UNCHANGED vars \/ LoadProgram
  <2>1. UNCHANGED <<phase, regs, sck, lanes, busPhase, beatIx, beatTot, shifter,
                    edges, pending, instrWord>>
    BY <1>1 DEF vars, LoadProgram, arch, pins, beat, wait, store
  <2>2. ClocksOf' = ClocksOf /\ BeatLanes(beatIx)' = BeatLanes(beatIx)
    BY <2>1 DEF ClocksOf, Op, BitCount, TarClocks, ReadReg, BeatLanes
  <2>3. EdgesCarryTheData'
    BY <2>1, <2>2 DEF BusInv, EdgesCarryTheData
  <2>4. QED
    BY <2>1, <2>2, <2>3 DEF BusInv, SckIdlesLow
<1>2. CASE Start
  <2>1. Aside
    BY <1>2 DEF Start, SoftInit, Aside
  <2>2. QED BY <2>1, AsideStep
<1>3. CASE Preamble \/ Fetch \/ TraceEmit
  <2>1. Aside
    BY <1>3 DEF Preamble, Fetch, TraceEmit, Advance, Aside, pins
  <2>2. QED BY <2>1, AsideStep
<1>4. ASSUME NEW io1 \in Level, NEW alert \in Level, WaitAlert(io1, alert)
      PROVE  BusInv'
  <2>1. Aside
    BY <1>4 DEF WaitAlert, Advance, Aside, pins
  <2>2. QED BY <2>1, AsideStep
<1>5. CASE Complete
  <2>1. phase' = "Fetch" /\ sck' = 0
    BY <1>5 DEF Complete, Advance, ClockLow
  <2>2. QED
    BY <2>1 DEF BusInv, SckIdlesLow, EdgesCarryTheData
<1>6. QED
  BY <1>1, <1>2, <1>3, <1>4, <1>5, TickBus, NextBeatBus, ExecBus DEF Next, Cycle

LEMMA BusCorrect == Spec => []BusInv
<1>1. QED
  BY TypeCorrect, BusInit, BusStep, PTL DEF Spec

\* What a peripheral sees and answers at the rising edges of SCK is the byte of
\* the instruction, in the order of the wire (Serdes.hs, Engine.hs stepBusBeat).
THEOREM EdgesAreTheData == Spec => []EdgesCarryTheData
<1>1. BusInv => EdgesCarryTheData
  BY DEF BusInv
<1>2. QED
  BY <1>1, BusCorrect, PTL

\* A bus instruction ends after exactly the clocks it names (Engine.hs,
\* stepBusBeat and complete).
THEOREM ClocksAreExact == Spec => ExactClocks
<1> DEFINE Ends == phase = "BusBeat" /\ phase' # "BusBeat" => Len(edges) = ClocksOf
<1>1. TypeOK /\ BusInv /\ [Next]_vars => Ends
  <2> SUFFICES ASSUME TypeOK, BusInv, [Next]_vars, phase = "BusBeat", phase' # "BusBeat"
               PROVE  Len(edges) = ClocksOf
    OBVIOUS
  <2>1. Complete
    BY DEF Next, Cycle, vars, LoadProgram, Start, Preamble, Fetch, Tick, NextBeat,
           TraceEmit, WaitAlert, Exec, ExecData, ExecRdsr, ExecBranch, ExecPin,
           ExecCrcReset, ExecSetConfig, ExecGetAlert, ExecHalt, ExecTrap, ExecPut,
           ExecGet, ExecTar, ExecMark, ExecWaitOn, Executing
  <2>2. busPhase = 4 /\ ~(beatIx + 1 < beatTot)
    BY <2>1 DEF Complete, MoreBeats
  <2>3. sck = 1
    BY <2>2 DEF BusInv, SckIdlesLow
  <2>4. Len(edges) = beatIx + 1 /\ beatIx < beatTot /\ beatTot = ClocksOf
    BY <2>3 DEF BusInv, EdgesCarryTheData
  <2>5. QED
    BY <2>2, <2>4 DEF TypeOK
<1>2. TypeOK /\ BusInv /\ [Next]_vars => [Ends]_vars
  BY <1>1
<1>3. QED
  BY <1>2, TypeCorrect, BusCorrect, PTL DEF Spec, ExactClocks

\* The lanes keep still while SCK is high, and CS# moves only at rest
\* (Engine.hs, sckOf, pinOp and safePins).
THEOREM SetupAndHold == Spec => BusSetupAndHold
<1> DEFINE Keeps == /\ lanes' # lanes => sck' = 0
                    /\ csN' # csN => sck = 0 /\ sck' = 0
<1>1. TypeOK /\ BusInv /\ [Next]_vars => Keeps
  <2> SUFFICES ASSUME TypeOK, BusInv, [Next]_vars PROVE Keeps
    OBVIOUS
  <2>1. phase # "BusBeat" => sck = 0
    BY DEF BusInv, SckIdlesLow, TypeOK, Level
  <2>2. CASE UNCHANGED vars \/ LoadProgram
    BY <2>2 DEF vars, LoadProgram, pins
  <2>3. CASE Start
    BY <2>1, <2>3 DEF Start, SoftInit
  <2>4. CASE Preamble \/ Fetch \/ TraceEmit
    BY <2>4 DEF Preamble, Fetch, TraceEmit, pins
  <2>5. ASSUME NEW io1 \in Level, NEW alert \in Level, Exec(io1, alert)
        PROVE  Keeps
    <3>1. sck = 0
      BY <2>1, <2>5 DEF Exec, ExecData, ExecRdsr, ExecBranch, ExecPin, ExecCrcReset,
           ExecSetConfig, ExecGetAlert, ExecHalt, ExecTrap, ExecPut, ExecGet,
           ExecTar, ExecMark, ExecWaitOn, Executing
    <3>2. sck' = 0
      BY <2>5, <3>1 DEF Exec, ExecData, ExecRdsr, ExecBranch, ExecPin, ExecCrcReset,
           ExecSetConfig, ExecGetAlert, ExecHalt, ExecTrap, ExecPut, ExecGet,
           ExecTar, ExecMark, ExecWaitOn, Trap, SafePins, StartBeats, pins
    <3>3. QED BY <3>1, <3>2
  <2>6. ASSUME NEW io1 \in Level, Tick(io1) PROVE Keeps
    BY <2>6 DEF Tick
  <2>7. CASE NextBeat \/ Complete
    BY <2>7 DEF NextBeat, Complete, ClockLow
  <2>8. ASSUME NEW io1 \in Level, NEW alert \in Level, WaitAlert(io1, alert)
        PROVE  Keeps
    BY <2>8 DEF WaitAlert, pins
  <2>9. QED
    BY <2>2, <2>3, <2>4, <2>5, <2>6, <2>7, <2>8 DEF Next, Cycle
<1>2. TypeOK /\ BusInv /\ [Next]_vars => [Keeps]_vars
  BY <1>1
<1>3. QED
  BY <1>2, TypeCorrect, BusCorrect, PTL DEF Spec, BusSetupAndHold

-----------------------------------------------------------------------------
(* The verdict.                                                            *)

\* A step that leaves a halted engine halted leaves the verdict.
LEMMA RestingVerdict ==
    ASSUME VerdictInv, UNCHANGED <<phase, ovf, ring, instrWord>> PROVE VerdictInv'
BY DEF VerdictInv, TerminatorWord, Op

LEMMA VerdictInit == Init => VerdictInv
BY DEF Init, VerdictInv

\* A step that ends a run writes its verdict.
LEMMA HaltVerdict ==
    ASSUME TypeOK, ExecHalt \/ ExecTrap PROVE VerdictInv'
<1>1. /\ phase = "Exec" /\ Op \in DecodeErrors \cup {"HALT", "SET_CONFIG", "RDSR"}
      /\ UNCHANGED <<ovf, instrWord>>
  BY DEF ExecHalt, ExecTrap, Executing, Trap, HaltWith, store
<1>2. ring' = [ring EXCEPT ![TermAddr] = TerminatorWord]
  <2>1. CASE ExecHalt
    <3>1. Op = "HALT"
      BY <2>1 DEF ExecHalt, Executing
    <3>2. TerminatorWord = HaltWord(FALSE, 0, ovf, instrWord.imm)
      <4>1. "HALT" \notin DecodeErrors
        BY DEF DecodeErrors
      <4> QED
        BY <3>1, <4>1 DEF TerminatorWord
    <3>3. ring' = [ring EXCEPT ![TermAddr] = HaltWord(FALSE, 0, ovf, instrWord.imm)]
      BY <2>1, Zenon DEF ExecHalt, HaltWith, WriteRing
    <3> QED
      BY <3>2, <3>3
  <2>2. CASE ExecTrap
    BY <2>2 DEF ExecTrap, Executing, Trap, HaltWith, WriteRing, TerminatorWord, DecodeErrors
  <2> QED
    BY <2>1, <2>2
<1>3. ring'[TermAddr] = TerminatorWord
  BY <1>2, RingSize DEF TypeOK
<1>4. Op' = Op /\ TerminatorWord' = TerminatorWord
  BY <1>1 DEF Op, TerminatorWord
<1> QED
  BY <1>1, <1>3, <1>4 DEF VerdictInv

LEMMA VerdictStep == TypeOK /\ VerdictInv /\ [Next]_vars => VerdictInv'
<1> SUFFICES ASSUME TypeOK, VerdictInv, [Next]_vars PROVE VerdictInv'
  OBVIOUS
<1>1. CASE UNCHANGED vars
  BY <1>1, RestingVerdict DEF vars, trace, store
<1>2. CASE LoadProgram
  BY <1>2, RestingVerdict DEF LoadProgram, trace
<1>3. CASE ExecHalt \/ ExecTrap
  BY <1>3, HaltVerdict
<1>4. ASSUME phase' # "Halted" PROVE VerdictInv'
  BY <1>4 DEF VerdictInv
<1>5. CASE Start \/ Preamble \/ Fetch \/ Complete \/ TraceEmit
  BY <1>5, <1>4 DEF Start, Preamble, Fetch, Complete, TraceEmit, Advance
<1>6. ASSUME NEW io1 \in Level, NEW alert \in Level, Exec(io1, alert)
      PROVE  VerdictInv'
  <2>1. CASE ExecHalt \/ ExecTrap
    BY <2>1, <1>3
  <2>2. CASE ExecData \/ ExecRdsr \/ ExecBranch \/ ExecPin \/ ExecCrcReset
               \/ ExecSetConfig \/ ExecGetAlert(io1, alert) \/ ExecWaitOn
    BY <2>2, <1>4 DEF ExecData, ExecRdsr, ExecBranch, ExecPin, ExecCrcReset,
                  ExecSetConfig, ExecGetAlert, ExecWaitOn, Advance
  <2>3. CASE ExecPut \/ ExecGet \/ ExecTar \/ ExecMark
    BY <2>3, <1>4 DEF ExecPut, ExecGet, ExecTar, ExecMark, StartBeats, Advance
  <2> QED
    BY <1>6, <2>1, <2>2, <2>3 DEF Exec
<1>7. ASSUME NEW io1 \in Level, Tick(io1) \/ NextBeat PROVE VerdictInv'
  BY <1>7, <1>4 DEF Tick, NextBeat
<1>8. ASSUME NEW io1 \in Level, NEW alert \in Level, WaitAlert(io1, alert)
      PROVE  VerdictInv'
  BY <1>8, <1>4 DEF WaitAlert, Advance
<1>9. CASE Cycle
  BY <1>5, <1>6, <1>7, <1>8, <1>9 DEF Cycle
<1> QED
  BY <1>1, <1>2, <1>5, <1>9 DEF Next

LEMMA VerdictCorrect == Spec => []VerdictInv
BY TypeCorrect, VerdictInit, VerdictStep, PTL DEF Spec

-----------------------------------------------------------------------------
(* Bits.                                                                   *)

\* A field is known by its bits.
HasField(b, lo, n, r) == r \subseteq 0..n-1 /\ \A i \in 0..n-1 : i + lo \in b <=> i \in r

LEMMA FieldIs ==
    ASSUME NEW b, NEW lo \in Int, NEW n \in Nat, NEW r, HasField(b, lo, n, r)
    PROVE  Field(b, lo, n) = r
BY DEF HasField, Field, ShiftRight

\* The fields the host reads in the words of the ring.
LEMMA CaptureBits ==
    ASSUME NEW w, w \in [tag : {"CAPTURE"}, nbits : 1..8, byte : Byte]
    PROVE  /\ Tag(RingBits(w)) = CaptureTag
           /\ Field(RingBits(w), 8, 4) = ToBits(w.nbits, 4)
           /\ Field(RingBits(w), 0, 8) = w.byte
<1> DEFINE n == ToBits(w.nbits, 4)
<1>1. n \subseteq 0..4-1
  BY DEF ToBits
<1>2. w.byte \subseteq 0..8-1
  BY DEF Byte, BitVec
<1>3. RingBits(w) = ShiftLeft(n, 8, 12) \cup w.byte
  BY DEF RingBits
<1> HIDE DEF n
<1>4. \A i \in Int : i \in RingBits(w) <=> (i - 8 \in n \/ i \in w.byte)
  BY <1>1, <1>2, <1>3 DEF ShiftLeft
<1>5. \A i \in 0..1 : ~(i + 30 \in RingBits(w))
  BY <1>1, <1>2, <1>4
<1>6. \A i \in 0..4-1 : i + 8 \in RingBits(w) <=> i \in n
  BY <1>1, <1>2, <1>4
<1>7. \A i \in 0..8-1 : i + 0 \in RingBits(w) <=> i \in w.byte
  BY <1>1, <1>2, <1>4
<1> QED
  <2>1. Field(RingBits(w), 30, 2) = {}
    BY <1>5 DEF Field, ShiftRight
  <2>2. HasField(RingBits(w), 8, 4, n) /\ HasField(RingBits(w), 0, 8, w.byte)
    BY <1>1, <1>2, <1>6, <1>7 DEF HasField
  <2>3. Field(RingBits(w), 8, 4) = n /\ Field(RingBits(w), 0, 8) = w.byte
    BY <2>2, FieldIs
  <2> QED
    BY <2>1, <2>3 DEF Tag, CaptureTag, n

LEMMA MarkBits ==
    ASSUME NEW w, w.tag = "MARK"
    PROVE  Tag(RingBits(w)) = MarkTag /\ Field(RingBits(w), 0, 14) = ToBits(w.label, 14)
<1> DEFINE n == ToBits(w.label, 14)
<1>1. n \subseteq 0..14-1
  BY DEF ToBits
<1>2. RingBits(w) = {31} \cup n
  BY DEF RingBits
<1> HIDE DEF n
<1>3. \A i \in 0..2-1 : i + 30 \in RingBits(w) <=> i \in {1}
  BY <1>1, <1>2
<1>4. \A i \in 0..14-1 : i + 0 \in RingBits(w) <=> i \in n
  BY <1>1, <1>2
<1> QED
  <2>1. HasField(RingBits(w), 30, 2, {1}) /\ HasField(RingBits(w), 0, 14, n)
    BY <1>1, <1>3, <1>4 DEF HasField
  <2>2. Field(RingBits(w), 30, 2) = {1} /\ Field(RingBits(w), 0, 14) = n
    BY <2>1, FieldIs
  <2> QED
    BY <2>2 DEF Tag, MarkTag, n

\* The reasons of an ended run.
Reasons == <<"None", "Decode", "Config", "Rdsr">>

LEMMA HaltBits ==
    ASSUME NEW trap \in BOOLEAN, NEW reason \in 0..3, NEW o \in BOOLEAN, NEW st,
           NEW w, w = RingBits(HaltWord(trap, reason, o, st))
    PROVE  /\ Tag(w) = HaltTag
           /\ HaltOf(w) = [reason |-> Reasons[reason + 1], trap |-> trap, ovf |-> o,
                           status |-> ToBits(st, 8)]
<1> DEFINE r == ToBits(reason, 3)
           s == ToBits(st, 8)
<1>1. r \subseteq 0..3-1 /\ s \subseteq 0..8-1
  BY DEF ToBits
<1>2. w = {31, 30} \cup ShiftLeft(r, 10, 13) \cup (IF trap THEN {9} ELSE {})
            \cup (IF o THEN {8} ELSE {}) \cup s
  BY DEF RingBits, HaltWord
<1>3. TrapReasonOf(r) = Reasons[reason + 1]
  <2>1. \A i \in 0..2 : i = 0 \/ i = 1 \/ i = 2
    OBVIOUS
  <2>2. 2^0 = 1 /\ 2^1 = 2 /\ 2^2 = 4
    OBVIOUS
  <2>3. /\ 0 \in r <=> reason % 2 = 1
        /\ 1 \in r <=> (reason \div 2) % 2 = 1
        /\ 2 \in r <=> (reason \div 4) % 2 = 1
    BY <2>2 DEF ToBits
  <2>4. CASE reason = 0
    <3>1. r = {}
      BY <2>1, <2>3, <2>4, <1>1
    <3> QED
      BY <3>1, <2>4 DEF TrapReasonOf, Reasons
  <2>5. CASE reason = 1
    <3>1. r = {0}
      BY <2>1, <2>3, <2>5, <1>1
    <3> QED
      BY <3>1, <2>5 DEF TrapReasonOf, Reasons
  <2>6. CASE reason = 2
    <3>1. r = {1}
      BY <2>1, <2>3, <2>6, <1>1
    <3> QED
      BY <3>1, <2>6 DEF TrapReasonOf, Reasons
  <2>7. CASE reason = 3
    <3>1. r = {0, 1}
      BY <2>1, <2>3, <2>7, <1>1
    <3> QED
      BY <3>1, <2>7 DEF TrapReasonOf, Reasons
  <2> QED
    BY <2>4, <2>5, <2>6, <2>7
<1> HIDE DEF r, s
<1>4. \A i \in Int : i \in w <=> (i = 31 \/ i = 30 \/ i - 10 \in r \/ (i = 9 /\ trap)
                                    \/ (i = 8 /\ o) \/ i \in s)
  BY <1>1, <1>2 DEF ShiftLeft
<1>5. \A i \in 0..2-1 : i + 30 \in w
  BY <1>4
<1>6. \A i \in 0..3-1 : i + 10 \in w <=> i \in r
  BY <1>1, <1>4
<1>7. \A i \in 0..8-1 : i + 0 \in w <=> i \in s
  BY <1>1, <1>4
<1>8. (9 \in w <=> trap) /\ (8 \in w <=> o)
  BY <1>1, <1>4
<1>9. Tag(w) = HaltTag
  <2>1. HasField(w, 30, 2, {0, 1})
    BY <1>5 DEF HasField
  <2> QED
    BY <2>1, FieldIs DEF Tag, HaltTag
<1>10. HasField(w, 10, 3, r) /\ HasField(w, 0, 8, s)
  BY <1>1, <1>6, <1>7 DEF HasField
<1>12. Field(w, 10, 3) = r /\ Field(w, 0, 8) = s
  BY <1>10, FieldIs
<1>11. (9 \in w) = trap /\ (8 \in w) = o
  BY <1>8
<1> QED
  BY <1>3, <1>9, <1>11, <1>12 DEF HaltOf, s

\* A nonempty set of naturals has a least element.
LEMMA Least ==
    ASSUME NEW S \in SUBSET Nat, S # {}
    PROVE  \E m \in S : \A k \in S : m <= k
<1>1. IsWellFoundedOn(OpToRel(<, Nat), Nat)
  BY NatLessThanWellFounded
<1>2. PICK m \in S : \A k \in S : ~(<<k, m>> \in OpToRel(<, Nat))
  BY <1>1, WFMin
<1>3. \A k \in S : ~(k < m)
  BY <1>2 DEF OpToRel
<1>4. m \in Nat /\ \A k \in S : k \in Nat
  OBVIOUS
<1> QED
  BY <1>3, <1>4

-----------------------------------------------------------------------------
(* The two recursions, of the decoder and of the records kept, go from the *)
(* end to the front: the equation of each has a solution.                  *)

\* What the decoder makes of word i, given what it makes of the later ones.
DecodeAt(words, f, i) ==
    IF i > Len(words) THEN Err("MissingTerminator")
    ELSE LET w == words[i]
             next == i + WordsOf(Tag(w))
         IN  CASE Tag(w) = CaptureTag ->
                    Before([nbits |-> Field(w, 8, 4), byte |-> Field(w, 0, 8)], f[next])
               [] Tag(w) = MarkTag /\ i = Len(words) -> Err("TruncatedMark")
               [] Tag(w) = MarkTag /\ i < Len(words) ->
                    Before([label |-> Field(w, 0, 14), payload |-> words[i+1]], f[next])
               [] Tag(w) = HaltTag -> Ok([records |-> <<>>, halt |-> HaltOf(w)])
               [] OTHER -> Err("UnknownRecordTag")

IsDecoding(words, f) == f = [i \in 2..Len(words)+1 |-> DecodeAt(words, f, i)]

LEMMA TagsDiffer ==
    CaptureTag # MarkTag /\ CaptureTag # HaltTag /\ MarkTag # HaltTag
<1>1. 1 \notin CaptureTag /\ 1 \in MarkTag /\ 0 \notin MarkTag /\ 0 \in HaltTag
      /\ 0 \notin CaptureTag
  BY DEF CaptureTag, MarkTag, HaltTag
<1> QED
  BY <1>1

\* The arms of the decoder.
LEMMA DecodeCapture ==
    ASSUME NEW words, NEW f, NEW i, ~(i > Len(words)), NEW w, w = words[i],
           Tag(w) = CaptureTag
    PROVE  DecodeAt(words, f, i) =
             Before([nbits |-> Field(w, 8, 4), byte |-> Field(w, 0, 8)], f[i+1])
BY TagsDiffer DEF DecodeAt, WordsOf

LEMMA DecodeMark ==
    ASSUME NEW words, NEW f, NEW i, ~(i > Len(words)), i < Len(words), i # Len(words),
           NEW w, w = words[i], Tag(w) = MarkTag
    PROVE  DecodeAt(words, f, i) =
             Before([label |-> Field(w, 0, 14), payload |-> words[i+1]], f[i+2])
BY TagsDiffer DEF DecodeAt, WordsOf

LEMMA DecodeHalt ==
    ASSUME NEW words, NEW f, NEW i, ~(i > Len(words)), NEW w, w = words[i], Tag(w) = HaltTag
    PROVE  DecodeAt(words, f, i) = Ok([records |-> <<>>, halt |-> HaltOf(w)])
BY TagsDiffer DEF DecodeAt, WordsOf

LEMMA DecodeAtLocal ==
    ASSUME NEW words, Len(words) \in Nat, NEW f, NEW g, NEW i \in 2..Len(words)+1,
           \A k \in i+1..Len(words)+1 : f[k] = g[k]
    PROVE  DecodeAt(words, f, i) = DecodeAt(words, g, i)
<1>1. CASE i > Len(words)
  BY <1>1 DEF DecodeAt
<1>2. CASE ~(i > Len(words)) /\ Tag(words[i]) = CaptureTag
  <2>1. f[i+1] = g[i+1]
    BY <1>2
  <2> QED
    <3> DEFINE w == words[i]
    <3>1. w = words[i] /\ Tag(w) = CaptureTag /\ ~(i > Len(words))
      BY <1>2
    <3> HIDE DEF w
    <3>2. \A h : DecodeAt(words, h, i) =
                 Before([nbits |-> Field(w, 8, 4), byte |-> Field(w, 0, 8)], h[i+1])
      BY <3>1, DecodeCapture
    <3> QED
      BY <2>1, <3>2
<1>3. CASE ~(i > Len(words)) /\ Tag(words[i]) = MarkTag /\ i < Len(words)
  <2>1. f[i+2] = g[i+2] /\ i # Len(words)
    BY <1>3
  <2> QED
    <3> DEFINE w == words[i]
    <3>1. w = words[i] /\ Tag(w) = MarkTag /\ ~(i > Len(words)) /\ i < Len(words)
      BY <1>3
    <3> HIDE DEF w
    <3>2. \A h : DecodeAt(words, h, i) =
                 Before([label |-> Field(w, 0, 14), payload |-> words[i+1]], h[i+2])
      BY <2>1, <3>1, DecodeMark
    <3> QED
      BY <2>1, <3>2
<1>4. CASE /\ ~(i > Len(words)) /\ Tag(words[i]) # CaptureTag
           /\ ~(Tag(words[i]) = MarkTag /\ i < Len(words))
  BY <1>4 DEF DecodeAt
<1> QED
  BY <1>1, <1>2, <1>3, <1>4

LEMMA DecodingExists ==
    ASSUME NEW words, Len(words) \in Nat
    PROVE  \E f : IsDecoding(words, f)
<1> DEFINE end == Len(words) + 1
           Over(f) == f = [i \in 2..end |-> f[i]]
           Holds(f, j) == \A i \in 2..end : i > end - j => f[i] = DecodeAt(words, f, i)
           Missing == {j \in Nat : ~ \E f : Over(f) /\ Holds(f, j)}
<1>1. Missing = {}
  <2> SUFFICES ASSUME Missing # {} PROVE FALSE
    OBVIOUS
  <2>1. PICK m \in Missing : \A k \in Missing : m <= k
    <3>1. Missing \in SUBSET Nat
      OBVIOUS
    <3> HIDE DEF Missing
    <3> QED
      BY <3>1, Least
  <2>2. m \in Nat /\ ~ \E f : Over(f) /\ Holds(f, m)
    OBVIOUS
  <2>3. m # 0
    <3>1. Over([i \in 2..end |-> 0])
      OBVIOUS
    <3>2. Holds([i \in 2..end |-> 0], 0)
      OBVIOUS
    <3> QED
      BY <3>1, <3>2, <2>2
  <2>4. PICK g : Over(g) /\ Holds(g, m-1)
    <3>1. m - 1 \in Nat /\ ~(m <= m - 1)
      BY <2>2, <2>3
    <3>2. m - 1 \notin Missing
      <4> HIDE DEF Missing
      <4> QED
        BY <3>1, <2>1
    <3> QED
      BY <3>1, <3>2
  <2> DEFINE first == end - (m-1)
             f == [i \in 2..end |-> IF i = first THEN DecodeAt(words, g, i) ELSE g[i]]
  <2>5. Over(f)
    OBVIOUS
  <2>6. Holds(f, m)
    <3> SUFFICES ASSUME NEW i \in 2..end, i > end - m
                 PROVE  f[i] = DecodeAt(words, f, i)
      OBVIOUS
    <3>1. i = first \/ i > end - (m-1)
      BY <2>2
    <3>2. \A k \in i+1..Len(words)+1 : f[k] = g[k]
      BY <3>1, <2>2
    <3>3. DecodeAt(words, f, i) = DecodeAt(words, g, i)
      <4> HIDE DEF f
      <4> QED
        BY <3>2, DecodeAtLocal
    <3>4. f[i] = DecodeAt(words, g, i)
      BY <3>1, <2>2, <2>4
    <3> QED
      BY <3>3, <3>4
  <2> QED
    <3> HIDE DEF f, Over, Holds
    <3> QED
      BY <2>2, <2>5, <2>6
<1>2. PICK f : Over(f) /\ Holds(f, end)
  <2>1. end \in Nat /\ end \notin Missing
    BY <1>1
  <2> HIDE DEF end, Over, Holds
  <2> QED
    BY <2>1
<1>3. \A i \in 2..end : f[i] = DecodeAt(words, f, i)
  BY <1>2
<1> QED
  BY <1>2, <1>3 DEF IsDecoding

LEMMA DecodingUnfolds ==
    ASSUME NEW words, Len(words) \in Nat
    PROVE  \E f : IsDecoding(words, f) /\ RecordsFrom(words) = f[2]
<1> DEFINE F == CHOOSE f : IsDecoding(words, f)
<1>1. IsDecoding(words, F)
  BY DecodingExists, Zenon
<1>2. RecordsFrom(words) = F[2]
  BY Zenon DEF RecordsFrom, IsDecoding, DecodeAt
<1> QED
  BY <1>1, <1>2

\* The records from slot a on, given those from the later slots on.
KeptAt(f, a) ==
    IF a >= ringPtr THEN <<>>
    ELSE LET w == ring[a]
         IN  IF w.tag = "MARK"
             THEN <<[label |-> ToBits(w.label, 14), payload |-> ring[a+1].value]>> \o f[a+2]
             ELSE <<[nbits |-> ToBits(w.nbits, 4), byte |-> w.byte]>> \o f[a+1]

IsKept(f, n) == f = [a \in 1..n+1 |-> KeptAt(f, a)]

\* Short of the last slot no word is a MARK's label without its payload.
MarksHavePayloads == \A a \in 1..ringPtr-1 : ring[a].tag = "MARK" => a # ringPtr-1

LEMMA KeptExists ==
    ASSUME ringPtr \in Nat, ringPtr >= 1, MarksHavePayloads
    PROVE  \E f : IsKept(f, ringPtr)
<1> DEFINE end == ringPtr + 1
           Over(f) == f = [a \in 1..end |-> f[a]]
           Holds(f, j) == \A a \in 1..end : a > end - j => f[a] = KeptAt(f, a)
           Missing == {j \in Nat : ~ \E f : Over(f) /\ Holds(f, j)}
<1>1. Missing = {}
  <2> SUFFICES ASSUME Missing # {} PROVE FALSE
    OBVIOUS
  <2>1. PICK m \in Missing : \A k \in Missing : m <= k
    <3>1. Missing \in SUBSET Nat
      OBVIOUS
    <3> HIDE DEF Missing
    <3> QED
      BY <3>1, Least
  <2>2. m \in Nat /\ ~ \E f : Over(f) /\ Holds(f, m)
    OBVIOUS
  <2>3. m # 0
    <3>1. Over([a \in 1..end |-> 0])
      OBVIOUS
    <3>2. Holds([a \in 1..end |-> 0], 0)
      OBVIOUS
    <3> QED
      BY <3>1, <3>2, <2>2
  <2>4. PICK g : Over(g) /\ Holds(g, m-1)
    <3>1. m - 1 \in Nat /\ ~(m <= m - 1)
      BY <2>2, <2>3
    <3>2. m - 1 \notin Missing
      <4> HIDE DEF Missing
      <4> QED
        BY <3>1, <2>1
    <3> QED
      BY <3>1, <3>2
  <2> DEFINE first == end - (m-1)
             f == [a \in 1..end |-> IF a = first THEN KeptAt(g, a) ELSE g[a]]
  <2>5. Over(f)
    OBVIOUS
  <2>6. Holds(f, m)
    <3> SUFFICES ASSUME NEW a \in 1..end, a > end - m
                 PROVE  f[a] = KeptAt(f, a)
      OBVIOUS
    <3>1. a = first \/ a > end - (m-1)
      BY <2>2
    <3>2. \A k \in a+1..end : f[k] = g[k]
      BY <3>1, <2>2
    <3>3. KeptAt(f, a) = KeptAt(g, a)
      <4> HIDE DEF f
      <4>1. CASE a >= ringPtr
        BY <4>1 DEF KeptAt
      <4>2. CASE a < ringPtr
        <5>1. f[a+1] = g[a+1]
          BY <4>2, <3>2
        <5>2. ring[a].tag = "MARK" => f[a+2] = g[a+2]
          BY <4>2, <3>2 DEF MarksHavePayloads
        <5>3. ~(a >= ringPtr)
          BY <4>2
        <5> QED
          BY <5>1, <5>2, <5>3, Zenon DEF KeptAt
      <4> QED
        BY <4>1, <4>2
    <3>4. f[a] = KeptAt(g, a)
      BY <3>1, <2>2, <2>4
    <3> QED
      BY <3>3, <3>4
  <2> QED
    <3> HIDE DEF f, Over, Holds
    <3> QED
      BY <2>2, <2>5, <2>6
<1>2. PICK f : Over(f) /\ Holds(f, end)
  <2>1. end \in Nat /\ end \notin Missing
    BY <1>1
  <2> HIDE DEF end, Over, Holds
  <2> QED
    BY <2>1
<1>3. \A a \in 1..end : f[a] = KeptAt(f, a)
  BY <1>2
<1> QED
  BY <1>2, <1>3 DEF IsKept

LEMMA KeptUnfolds ==
    ASSUME ringPtr \in Nat, ringPtr >= 1, MarksHavePayloads
    PROVE  \E f : IsKept(f, ringPtr) /\ RecordsKept = f[1]
<1> DEFINE F == CHOOSE f : IsKept(f, ringPtr)
<1>1. IsKept(F, ringPtr)
  BY KeptExists, Zenon
<1>2. RecordsKept = F[1]
  BY Zenon DEF RecordsKept, IsKept, KeptAt
<1> QED
  BY <1>1, <1>2

-----------------------------------------------------------------------------
(* The drain decodes.                                                      *)

\* What the host makes of the words from a record's first slot a on.
Decodes(d, k, a) == d[a+1] = Ok([records |-> k[a], halt |-> Verdict])

\* A record starts in slot a, or the terminator follows.
Starts(a) == a = ringPtr \/ ring[a].tag # "PAYLOAD"

\* A halted engine that has not wrapped: its words, for the host.
LEMMA DrainedWords ==
    ASSUME TypeOK, RingInv, phase = "Halted", ~wrapped
    PROVE  /\ ringPtr \in Nat /\ ringPtr >= 1 /\ Len(Drained) = ringPtr + 1
           /\ \A a \in 1..ringPtr : Drained[a] = RingBits(ring[a-1])
           /\ Drained[ringPtr+1] = RingBits(ring[TermAddr])
           /\ ring[0] = Revision
           /\ MarksHavePayloads
<1>1. ringPtr \in Nat /\ ringPtr >= 1
  BY RingSize DEF TypeOK, RingInv, WholeRecords, Running
<1>2. DOMAIN Drained = 1..ringPtr + 1 /\ Drained = [a \in 1..ringPtr + 1 |-> Drained[a]]
  BY DEF Drained
<1>3. Len(Drained) = ringPtr + 1
  <2> DEFINE D == Drained
  <2>1. D \in Seq({D[a] : a \in 1..ringPtr+1})
    BY <1>1, <1>2
  <2> HIDE DEF D
  <2>2. Len(D) \in Nat /\ DOMAIN D = 1..Len(D)
    BY <2>1, LenProperties
  <2>3. 1..Len(D) = 1..ringPtr + 1
    BY <2>2, <1>2 DEF D
  <2>4. Len(D) = ringPtr + 1
    <3>1. ringPtr + 1 \in 1..Len(D)
      BY <2>3, <1>1
    <3>2. Len(D) \in 1..ringPtr + 1
      BY <3>1, <2>2, <2>3
    <3>3. Len(D) \in Nat
      BY <2>2
    <3> QED
      BY <3>1, <3>2, <3>3, <1>1
  <2> QED
    BY <2>4 DEF D
<1>4. \A a \in 1..ringPtr : Drained[a] = RingBits(ring[a-1])
  BY <1>1 DEF Drained
<1>5. Drained[ringPtr+1] = RingBits(ring[TermAddr])
  <2>1. ringPtr + 1 \in 1..ringPtr+1 /\ ~(ringPtr + 1 <= ringPtr)
    BY <1>1
  <2> QED
    BY <2>1 DEF Drained
<1>6. ring[0] = Revision /\ MarksHavePayloads
  BY DEF RingInv, WholeRecords, Running, MarksHavePayloads
<1> QED
  BY <1>1, <1>3, <1>4, <1>5, <1>6

\* The terminator of the drain is the verdict.
LEMMA TerminatorDecodes ==
    ASSUME TypeOK, VerdictInv, phase = "Halted"
    PROVE  LET w == RingBits(ring[TermAddr]) IN Tag(w) = HaltTag /\ HaltOf(w) = Verdict
<1> DEFINE w == RingBits(ring[TermAddr])
<1>0. ovf \in BOOLEAN /\ TRUE \in BOOLEAN /\ FALSE \in BOOLEAN
  BY DEF TypeOK
<1>e. ToBits(0, 8) = {}
  <2>1. /\ 2^0 = 1 /\ 2^1 = 2 /\ 2^2 = 4 /\ 2^3 = 8
        /\ 2^4 = 16 /\ 2^5 = 32 /\ 2^6 = 64 /\ 2^7 = 128
    OBVIOUS
  <2>2. \A i \in 0..8-1 : (0 \div 2^i) % 2 # 1
    <3>1. \A i \in 0..8-1 : i = 0 \/ i = 1 \/ i = 2 \/ i = 3
                              \/ i = 4 \/ i = 5 \/ i = 6 \/ i = 7
      OBVIOUS
    <3>2. \A i \in 0..8-1 : 2^i \in {1, 2, 4, 8, 16, 32, 64, 128}
      BY <2>1, <3>1, ZenonT(30)
    <3>3. \A d \in {1, 2, 4, 8, 16, 32, 64, 128} : (0 \div d) % 2 # 1
      OBVIOUS
    <3> QED
      BY <3>2, <3>3, Zenon
  <2> QED
    BY <2>2 DEF ToBits
<1>1. CASE Op = "HALT"
  <2>1. "HALT" \notin DecodeErrors
    BY DEF DecodeErrors
  <2>2. w = RingBits(HaltWord(FALSE, 0, ovf, instrWord.imm))
    BY <1>1, <2>1 DEF VerdictInv, TerminatorWord
  <2>3. Verdict = [reason |-> "None", trap |-> FALSE, ovf |-> ovf,
                   status |-> ToBits(instrWord.imm, 8)]
    BY <1>1, <2>1 DEF Verdict
  <2>4. 0 \in 0..3 /\ Reasons[0 + 1] = "None"
    BY DEF Reasons
  <2> HIDE DEF w
  <2>5. /\ Tag(w) = HaltTag
        /\ HaltOf(w) = [reason |-> Reasons[0 + 1], trap |-> FALSE, ovf |-> ovf,
                        status |-> ToBits(instrWord.imm, 8)]
    BY <2>2, <2>4, <1>0, HaltBits, Zenon
  <2> QED
    BY <2>3, <2>4, <2>5, Zenon DEF w
<1>2. ASSUME NEW n \in 1..3, ring[TermAddr] = HaltWord(TRUE, n, ovf, 0),
             Verdict = [reason |-> Reasons[n + 1], trap |-> TRUE, ovf |-> ovf, status |-> {}]
      PROVE  Tag(w) = HaltTag /\ HaltOf(w) = Verdict
  <2>1. w = RingBits(HaltWord(TRUE, n, ovf, 0)) /\ n \in 0..3
    BY <1>2
  <2> HIDE DEF w
  <2>2. /\ Tag(w) = HaltTag
        /\ HaltOf(w) = [reason |-> Reasons[n + 1], trap |-> TRUE, ovf |-> ovf,
                        status |-> ToBits(0, 8)]
    BY <2>1, <1>0, HaltBits, ZenonT(30)
  <2> QED
    BY <2>2, <1>2, <1>e, Zenon DEF w
<1>3. CASE Op \in DecodeErrors
  <2>1. Op # "HALT" /\ Op # "SET_CONFIG" /\ Op # "RDSR"
    BY <1>3 DEF DecodeErrors
  <2>2. ring[TermAddr] = HaltWord(TRUE, 1, ovf, 0)
    BY <1>3, <2>1 DEF VerdictInv, TerminatorWord
  <2>3. Verdict = [reason |-> "Decode", trap |-> TRUE, ovf |-> ovf, status |-> {}]
    BY <1>3, <2>1 DEF Verdict
  <2>4. Reasons[1 + 1] = "Decode" /\ 1 \in 1..3
    BY DEF Reasons
  <2> QED
    BY <2>2, <2>3, <2>4, <1>2
<1>4. CASE Op = "SET_CONFIG"
  <2>1. Op # "HALT" /\ Op \notin DecodeErrors
    BY <1>4 DEF DecodeErrors
  <2>2. ring[TermAddr] = HaltWord(TRUE, 2, ovf, 0)
    BY <1>4, <2>1 DEF VerdictInv, TerminatorWord
  <2>3. Verdict = [reason |-> "Config", trap |-> TRUE, ovf |-> ovf, status |-> {}]
    BY <1>4, <2>1 DEF Verdict
  <2>4. Reasons[2 + 1] = "Config" /\ 2 \in 1..3
    BY DEF Reasons
  <2> QED
    BY <2>2, <2>3, <2>4, <1>2
<1>5. CASE Op = "RDSR"
  <2>1. Op # "HALT" /\ Op \notin DecodeErrors /\ Op # "SET_CONFIG"
    BY <1>5 DEF DecodeErrors
  <2>2. ring[TermAddr] = HaltWord(TRUE, 3, ovf, 0)
    BY <1>5, <2>1 DEF VerdictInv, TerminatorWord
  <2>3. Verdict = [reason |-> "Rdsr", trap |-> TRUE, ovf |-> ovf, status |-> {}]
    BY <1>5, <2>1 DEF Verdict
  <2>4. Reasons[3 + 1] = "Rdsr" /\ 3 \in 1..3
    BY DEF Reasons
  <2> QED
    BY <2>2, <2>3, <2>4, <1>2
<1> QED
  BY <1>1, <1>3, <1>4, <1>5 DEF VerdictInv

\* A record in front of the decoded rest.
LEMMA BeforeOk ==
    ASSUME NEW x, NEW rs, NEW h
    PROVE  Before(x, Ok([records |-> rs, halt |-> h])) = Ok([records |-> <<x>> \o rs, halt |-> h])
<1> DEFINE t == [records |-> rs, halt |-> h]
<1>1. [t EXCEPT !.records = <<x>> \o @] = [records |-> <<x>> \o rs, halt |-> h]
  <2> DEFINE c == <<x>> \o rs
  <2>1. t.records = rs
    OBVIOUS
  <2>2. [t EXCEPT !.records = <<x>> \o @] = [t EXCEPT !.records = c]
    BY <2>1, Zenon
  <2> HIDE DEF c
  <2>3. [t EXCEPT !.records = c] = [records |-> c, halt |-> h]
    OBVIOUS
  <2> QED
    BY <2>2, <2>3 DEF c
<1>2. IsOk(Ok(t)) /\ Ok(t).ok = t
  BY DEF IsOk, Ok
<1> HIDE DEF t
<1>3. Before(x, Ok(t)) = Ok([t EXCEPT !.records = <<x>> \o @])
  BY <1>2 DEF Before, Bind
<1> QED
  BY <1>1, <1>3 DEF t

\* The words from the slot of a record on decode to the records from there on,
\* if those behind that record do.
LEMMA RecordDecodes ==
    ASSUME TypeOK, RingInv, VerdictInv, phase = "Halted", ~wrapped,
           NEW d, IsDecoding(Drained, d), NEW k, IsKept(k, ringPtr),
           NEW a \in 1..ringPtr, Starts(a),
           \A b \in a+1..ringPtr : Starts(b) => Decodes(d, k, b)
    PROVE  Decodes(d, k, a)
<1> DEFINE D == Drained
<1>1. /\ ringPtr \in Nat /\ ringPtr >= 1 /\ Len(D) = ringPtr + 1
      /\ \A b \in 1..ringPtr : D[b] = RingBits(ring[b-1])
      /\ D[ringPtr+1] = RingBits(ring[TermAddr])
      /\ MarksHavePayloads
  BY DrainedWords
<1>2. d[a+1] = DecodeAt(D, d, a+1)
  <2>1. a + 1 \in 2..Len(D)+1
    BY <1>1
  <2> HIDE DEF D
  <2> QED
    BY <2>1 DEF IsDecoding, D
<1>3. k[a] = KeptAt(k, a)
  <2>1. a \in 1..ringPtr+1
    BY <1>1
  <2> QED
    BY <2>1 DEF IsKept
<1>4. \A b \in 1..ringPtr-1 : /\ ring[b].tag \in {"CAPTURE", "MARK", "PAYLOAD"}
                              /\ ring[b].tag = "PAYLOAD" <=> ring[b-1].tag = "MARK"
  BY DEF RingInv, WholeRecords, Running
<1>5. \A b \in 1..ringPtr-1 : ring[b] \in RingWord
  BY <1>1, RingSize, SMTT(30) DEF TypeOK
<1> HIDE DEF D
<1>6. CASE a = ringPtr
  <2> DEFINE w == RingBits(ring[TermAddr])
  <2>1. Tag(w) = HaltTag /\ HaltOf(w) = Verdict
    BY TerminatorDecodes
  <2>2. D[a+1] = w /\ ~(a+1 > Len(D))
    BY <1>1, <1>6
  <2> HIDE DEF w
  <2>4. DecodeAt(D, d, a+1) = Ok([records |-> <<>>, halt |-> HaltOf(w)])
    BY <2>1, <2>2, DecodeHalt
  <2>5. k[a] = <<>>
    BY <1>3, <1>6, <1>1 DEF KeptAt
  <2> QED
    BY <1>2, <2>1, <2>4, <2>5 DEF Decodes
<1>7. CASE a < ringPtr /\ ring[a].tag = "CAPTURE"
  <2> DEFINE w == RingBits(ring[a])
             x == [nbits |-> ToBits(ring[a].nbits, 4), byte |-> ring[a].byte]
  <2>1. a \in 1..ringPtr-1 /\ a+1 \in a+1..ringPtr /\ ~(a+1 > Len(D)) /\ D[a+1] = w
        /\ ~(a >= ringPtr) /\ a+1-1 = a /\ (a+1)+1 = a+2
    BY <1>1, <1>7
  <2>2. Starts(a+1)
    <3>1. CASE a + 1 = ringPtr
      BY <3>1 DEF Starts
    <3>2. CASE a + 1 # ringPtr
      <4>1. a + 1 \in 1..ringPtr-1
        BY <1>1, <3>2, <2>1
      <4>2. ring[a+1].tag = "PAYLOAD" <=> ring[a+1-1].tag = "MARK"
        BY <4>1, <1>4
      <4> QED
        BY <4>2, <2>1, <1>7 DEF Starts
    <3> QED
      BY <3>1, <3>2
  <2>3. Decodes(d, k, a+1)
    BY <2>1, <2>2
  <2>4. ring[a] \in [tag : {"CAPTURE"}, nbits : 1..8, byte : Byte]
    BY <2>1, <1>5, <1>7 DEF RingWord, Revision, Blank
  <2>5. /\ Tag(w) = CaptureTag
        /\ [nbits |-> Field(w, 8, 4), byte |-> Field(w, 0, 8)] = x
    BY <2>4, CaptureBits
  <2> HIDE DEF w, x
  <2>7. DecodeAt(D, d, a+1) = Before(x, d[a+2])
    <3>1. DecodeAt(D, d, a+1) =
            Before([nbits |-> Field(w, 8, 4), byte |-> Field(w, 0, 8)], d[(a+1)+1])
      BY <2>1, <2>5, DecodeCapture
    <3> QED
      BY <3>1, <2>1, <2>5
  <2>8. d[a+2] = Ok([records |-> k[a+1], halt |-> Verdict])
    BY <2>1, <2>3 DEF Decodes
  <2>9. k[a] = <<x>> \o k[a+1]
    BY <2>1, <1>3, <1>7 DEF KeptAt, x
  <2> QED
    BY <1>2, <2>7, <2>8, <2>9, BeforeOk DEF Decodes
<1>8. CASE a < ringPtr /\ ring[a].tag = "MARK"
  <2> DEFINE w == RingBits(ring[a])
             x == [label |-> ToBits(ring[a].label, 14), payload |-> ring[a+1].value]
  <2>1. /\ a \in 1..ringPtr-1 /\ a + 1 \in 1..ringPtr-1 /\ a+2 \in a+1..ringPtr
        /\ ~(a+1 > Len(D)) /\ a+1 < Len(D) /\ a+1 # Len(D) /\ D[a+1] = w
        /\ D[a+2] = RingBits(ring[a+1]) /\ ~(a >= ringPtr)
        /\ a+1-1 = a /\ (a+1)+1 = a+2 /\ (a+2)-1 = a+1 /\ (a+1)+2 = (a+2)+1
    <3>1. a \in 1..ringPtr-1 /\ a # ringPtr-1
      BY <1>1, <1>8 DEF MarksHavePayloads
    <3> QED
      BY <3>1, <1>1
  <2>2. ring[a+1].tag = "PAYLOAD"
    BY <2>1, <1>4, <1>8
  <2>3. Starts(a+2)
    <3>1. CASE a + 2 = ringPtr
      BY <3>1 DEF Starts
    <3>2. CASE a + 2 # ringPtr
      <4>1. a + 2 \in 1..ringPtr-1
        BY <1>1, <3>2, <2>1
      <4>2. ring[a+2].tag = "PAYLOAD" <=> ring[a+2-1].tag = "MARK"
        BY <4>1, <1>4
      <4> QED
        BY <4>2, <2>1, <2>2 DEF Starts
    <3> QED
      BY <3>1, <3>2
  <2>4. Decodes(d, k, a+2)
    BY <2>1, <2>3
  <2>5. Tag(w) = MarkTag /\ Field(w, 0, 14) = ToBits(ring[a].label, 14)
    BY <1>8, MarkBits
  <2>7. RingBits(ring[a+1]) = ring[a+1].value
    BY <2>2 DEF RingBits
  <2> HIDE DEF w
  <2>8. DecodeAt(D, d, a+1) = Before(x, d[(a+2)+1])
    <3>1. x = [label |-> Field(w, 0, 14), payload |-> D[a+2]]
      BY <2>1, <2>5, <2>7
    <3> HIDE DEF x
    <3>2. DecodeAt(D, d, a+1) =
            Before([label |-> Field(w, 0, 14), payload |-> D[(a+1)+1]], d[(a+1)+2])
      BY <2>1, <2>5, DecodeMark
    <3> QED
      BY <3>1, <3>2, <2>1
  <2>9. k[a] = <<x>> \o k[a+2]
    BY <2>1, <1>3, <1>8 DEF KeptAt, x
  <2> HIDE DEF x
  <2>10. d[(a+2)+1] = Ok([records |-> k[a+2], halt |-> Verdict])
    BY <2>4 DEF Decodes
  <2> QED
    BY <1>2, <2>8, <2>9, <2>10, BeforeOk DEF Decodes
<1>9. a = ringPtr \/ (a < ringPtr /\ ring[a].tag \in {"CAPTURE", "MARK"})
  BY <1>1, <1>4 DEF Starts
<1> QED
  BY <1>6, <1>7, <1>8, <1>9

\* What the loader drains of a halted run that has not wrapped decodes to the
\* records the engine kept and to the verdict of the instruction that ended it
\* (Engine.hs against trace.rs).
THEOREM DrainsDecode == Spec => []DrainDecodes
<1>1. TypeOK /\ RingInv /\ VerdictInv => DrainDecodes
  <2> SUFFICES ASSUME TypeOK, RingInv, VerdictInv, phase = "Halted", ~wrapped
               PROVE  DecodeTrace(Drained) =
                        Ok([revision |-> <<{}, {0}, {}>>, records |-> RecordsKept,
                            halt |-> Verdict])
    BY DEF DrainDecodes
  <2> DEFINE D == Drained
  <2>1. /\ ringPtr \in Nat /\ ringPtr >= 1 /\ Len(D) = ringPtr + 1 /\ Len(D) \in Nat
        /\ D[1] = RingBits(Revision) /\ MarksHavePayloads
    <3>1. 1 \in 1..ringPtr /\ 1 - 1 = 0
      BY DrainedWords
    <3> QED
      BY <3>1, DrainedWords
  <2> HIDE DEF D
  <2>2. PICK d : IsDecoding(D, d) /\ RecordsFrom(D) = d[2]
    BY <2>1, DecodingUnfolds
  <2>3. PICK k : IsKept(k, ringPtr) /\ RecordsKept = k[1]
    BY <2>1, KeptUnfolds
  <2>4. \A a \in 1..ringPtr : Starts(a) => Decodes(d, k, a)
    <3> DEFINE Bad == {j \in Nat : ringPtr - j \in 1..ringPtr /\ Starts(ringPtr - j)
                                     /\ ~Decodes(d, k, ringPtr - j)}
    <3>1. Bad = {}
      <4> SUFFICES ASSUME Bad # {} PROVE FALSE
        OBVIOUS
      <4>1. PICK m \in Bad : \A j \in Bad : m <= j
        <5>1. Bad \in SUBSET Nat
          OBVIOUS
        <5> HIDE DEF Bad
        <5> QED
          BY <5>1, Least
      <4> DEFINE a == ringPtr - m
      <4>2. m \in Nat /\ a \in 1..ringPtr /\ Starts(a) /\ ~Decodes(d, k, a)
        OBVIOUS
      <4>3. \A b \in a+1..ringPtr : Starts(b) => Decodes(d, k, b)
        <5> SUFFICES ASSUME NEW b \in a+1..ringPtr, Starts(b), ~Decodes(d, k, b) PROVE FALSE
          OBVIOUS
        <5>1. /\ ringPtr - b \in Nat /\ ringPtr - (ringPtr - b) = b /\ b \in 1..ringPtr
              /\ ~(m <= ringPtr - b)
          BY <2>1, <4>2
        <5>2. ringPtr - b \in Bad
          BY <5>1
        <5> HIDE DEF Bad
        <5> QED
          BY <5>1, <5>2, <4>1
      <4> HIDE DEF a, Bad
      <4> QED
        BY <2>2, <2>3, <4>2, <4>3, RecordDecodes DEF D
    <3> QED
      <4> SUFFICES ASSUME NEW a \in 1..ringPtr, Starts(a), ~Decodes(d, k, a) PROVE FALSE
        OBVIOUS
      <4>1. ringPtr - a \in Nat /\ ringPtr - (ringPtr - a) = a
        BY <2>1
      <4> QED
        BY <4>1, <3>1
  <2>5. Decodes(d, k, 1)
    <3>1. 1 \in 1..ringPtr /\ Starts(1)
      <4>1. CASE ringPtr = 1
        BY <4>1 DEF Starts
      <4>2. CASE ringPtr # 1
        <5>1. 1 \in 1..ringPtr-1 /\ 1 - 1 = 0
          BY <4>2, <2>1
        <5>2. ring[1].tag = "PAYLOAD" <=> ring[1-1].tag = "MARK"
          BY <5>1 DEF RingInv, WholeRecords, Running
        <5>3. ring[0].tag # "MARK"
          BY DrainedWords DEF Revision
        <5> QED
          BY <5>1, <5>2, <5>3, <2>1 DEF Starts
      <4> QED
        BY <4>1, <4>2, <2>1
    <3> QED
      BY <3>1, <2>4
  <2>6. RecordsFrom(D) = Ok([records |-> RecordsKept, halt |-> Verdict])
    <3>1. 1 + 1 = 2
      OBVIOUS
    <3> QED
      BY <3>1, <2>2, <2>3, <2>5 DEF Decodes
  <2>7. D # <<>>
    BY <2>1
  <2>8. RingBits(Revision) = {16}
    BY DEF RingBits, Revision
  <2>9. Field({16}, 24, 8) = {} /\ Field({16}, 16, 8) = {0} /\ Field({16}, 0, 16) = {}
    <3>1. Field({16}, 24, 8) = {} /\ Field({16}, 0, 16) = {}
      BY DEF Field, ShiftRight
    <3>2. HasField({16}, 16, 8, {0})
      BY DEF HasField
    <3> QED
      BY <3>1, <3>2, FieldIs
  <2> DEFINE t == [records |-> RecordsKept, halt |-> Verdict]
  <2>10. IsOk(Ok(t)) /\ Ok(t).ok = t /\ t.records = RecordsKept /\ t.halt = Verdict
    BY DEF IsOk, Ok
  <2>11. DecodeTrace(D) = Ok([revision |-> <<{}, {0}, {}>>, records |-> t.records,
                              halt |-> t.halt])
    <3>1. RecordsFrom(D) = Ok(t)
      BY <2>6
    <3>2. D[1] = {16}
      BY <2>1, <2>8
    <3> HIDE DEF t
    <3> QED
      BY <3>1, <3>2, <2>7, <2>9, <2>10 DEF DecodeTrace, Bind
  <2> QED
    BY <2>10, <2>11 DEF D
<1> QED
  BY <1>1, TypeCorrect, RingCorrect, VerdictCorrect, PTL

-----------------------------------------------------------------------------
(***************************************************************************)
(* The engine implements the instruction-level machine, for every size of  *)
(* the stores and every set of programs: a step of Engine maps, under the  *)
(* refinement mapping Promise of EngineProperties, to a step of IsaMachine *)
(* or to a stutter.                                                        *)
(*                                                                         *)
(* An instruction takes effect at one cycle: in Exec, or at the last beat  *)
(* of a transfer, at the payload word of a MARK, when a WAIT_ON ends.  The *)
(* cycles before it stutter.  So the step that takes effect late has to    *)
(* know which instruction it finishes; that is IsaInv below, on top of the *)
(* invariants of the type, of the ring and of the bus.                     *)
(***************************************************************************)

-----------------------------------------------------------------------------
(* The operators the reference machine is built from are its own copies.   *)

\* The reference machine decodes a word as the engine does.
LEMMA SameDecode == \A w : Promise!Decode(w) = Decode(w)
BY Zenon DEF Decode, Promise!Decode, Mnemonics, Promise!Mnemonics,
   ReservedZero, Promise!ReservedZero, UsesRd, UsesRs1, UsesRs2, DataOps, Immediates,
   RegReg, RegImm, Branches, ImmOk, Promise!UsesRd, Promise!UsesRs1, Promise!UsesRs2,
   Promise!DataOps, Promise!Immediates, Promise!RegReg, Promise!RegImm,
   Promise!Branches, Promise!ImmOk

\* It folds a byte into the CRC as the engine does.
LEMMA SameCrc == \A c, b : Promise!CrcUpdate(c, b) = CrcUpdate(c, b)
BY Zenon DEF Promise!CrcUpdate, CrcUpdate, Promise!Feed, Feed, Promise!Byte, Byte,
   Promise!Poly, Poly, Promise!Xor, Xor, Promise!ShiftLeft, ShiftLeft,
   Promise!BitVec, BitVec

\* It takes the branches the engine takes.
LEMMA SameBranch == \A op, a, b : Promise!BranchTaken(op, a, b) = BranchTaken(op, a, b)
BY Zenon DEF Promise!BranchTaken, BranchTaken, Promise!LessThan, LessThan

\* It computes the eight ALU operations as the engine does.
LEMMA SameAlu ==
    \A op \in {"Add", "Sub", "And", "Or", "Xor", "Sll", "Srl", "Sra"} :
        \A a, b, sh, w : Promise!Alu(op, a, b, sh, w) = Alu(op, a, b, sh, w)
<1>1. \A a, b, c, w : Promise!AddCarry(a, b, c, w) = AddCarry(a, b, c, w)
  <2>1. \A a, b, c, k : Promise!Carry(a, b, c, k) = Carry(a, b, c, k)
    BY Zenon DEF Carry, Promise!Carry
  <2> QED
    BY <2>1, Zenon DEF AddCarry, Promise!AddCarry
<1>2. \A a, b, w : Promise!Add(a, b, w) = Add(a, b, w)
  BY <1>1, Zenon DEF Add, Promise!Add
<1>3. \A a, b, w : Promise!Sub(a, b, w) = Sub(a, b, w)
  BY <1>1, Zenon DEF Sub, Promise!Sub, Complement, Promise!Complement
<1>4. \A a, k, w : /\ Promise!ShiftLeft(a, k, w) = ShiftLeft(a, k, w)
                   /\ Promise!ShiftRight(a, k, w) = ShiftRight(a, k, w)
                   /\ Promise!ArithShiftRight(a, k, w) = ArithShiftRight(a, k, w)
  BY Zenon DEF ShiftLeft, Promise!ShiftLeft, ShiftRight, Promise!ShiftRight,
     ArithShiftRight, Promise!ArithShiftRight
<1>5. \A a, b : Promise!Xor(a, b) = Xor(a, b)
  BY Zenon DEF Xor, Promise!Xor
<1> QED
  BY <1>2, <1>3, <1>4, <1>5 DEF Alu, Promise!Alu

\* It reads the immediate fields as the engine does.
LEMMA SameFields ==
    /\ \A i : Promise!Imm21(i) = Imm21(i)
    /\ \A i, w : Promise!SImm(i, w) = SImm(i, w)
    /\ \A b, n, w : Promise!SignExtend(b, n, w) = SignExtend(b, n, w)
    /\ \A a, k, w : Promise!ShiftLeft(a, k, w) = ShiftLeft(a, k, w)
    /\ \A i : Promise!ShiftOp(i) = ShiftOp(i)
BY Zenon DEF Imm21, Promise!Imm21, ToBits, Promise!ToBits, ShiftLeft, Promise!ShiftLeft,
   SImm, Promise!SImm, SignExtend, Promise!SignExtend, ShiftOp, Promise!ShiftOp

\* The direction field of a SHIFT names one of the three shifts.
LEMMA ShiftOpIs == ASSUME NEW i \in InstrWord PROVE ShiftOp(i) \in {"Sll", "Srl", "Sra"}
<1>1. i.imm \div 512 \in 0..3
  BY DEF InstrWord
<1> QED
  BY <1>1 DEF ShiftOp

\* The result of a data instruction is the engine's.
LEMMA SameResult ==
    \A op \in DataOps, i \in InstrWord : \A a, b, w :
        Promise!DataResult(op, i, a, b, w) = DataResult(op, i, a, b, w)
<1>1. \A i \in InstrWord : ShiftOp(i) \in {"Sll", "Srl", "Sra"}
  BY ShiftOpIs
<1> QED
  BY <1>1, SameAlu, SameFields
  DEF DataResult, Promise!DataResult, DataOps, Immediates, RegReg, RegImm

\* The engine powers up in an initial state of the reference machine.
LEMMA PromiseInit == Init => Promise!Init
<1> SUFFICES ASSUME Init PROVE Promise!Init
  OBVIOUS
<1>1. phase = "Idle" /\ ringPtr = 1
  BY DEF Init
<1>2. [a \in 1..(1 - 1) |-> ring[a]] = <<>>
  OBVIOUS
<1> QED
  BY <1>1, <1>2 DEF Promise!Init, Promise!Fresh, Init, InitRegs, Promise!None

-----------------------------------------------------------------------------
\* The phases of an instruction that has been fetched.
Within == {"Exec", "BusBeat", "TraceEmit", "WaitAlert"}

\* r0 holds zero.
ZeroReg == regs[0] = {}

\* The word being executed is the one the pc points at.
Fetched == phase \in Within => instrWord = imem[pc]

\* The deferred work of a transfer belongs to the instruction's opcode.
Transfer ==
    \/ pending = NoWork
         /\ Op \in {"PUT_BYTE_IMM", "PUT_BYTE_REG", "PUT_BITS_IMM", "PUT_BITS_REG"}
    \/ pending = Tar /\ Op \in {"TAR_IMM", "TAR_REG"}
    \/ pending = Get(instrWord.rd, 8, TRUE) /\ Op = "GET_BYTE"
    \/ pending = Get(instrWord.rd, BitCount, FALSE) /\ Op = "GET_BITS"

\* Work deferred to a later cycle is that of the instruction being executed,
\* and the label word of a half-written MARK is in the ring.
Deferred ==
    /\ phase = "BusBeat" => Transfer
    /\ phase = "TraceEmit" =>
         /\ Op = "MARK" /\ pending = MarkWork(ReadReg(instrWord.rs1))
         /\ ~wrapped => ring[ringPtr-1] = MarkLabel(instrWord.imm)
    /\ phase = "WaitAlert" => Op = "WAIT_ON" /\ pending = Wait(instrWord.rd)

\* What makes the late cycles of an instruction finish that instruction.
IsaInv == ZeroReg /\ Fetched /\ Deferred

\* A register write of the engine leaves r0 alone.
LEMMA WritesKeepZero ==
    ASSUME TypeOK, ZeroReg, NEW r \in 0..31, NEW v, regs' = regs \/ regs' = WriteReg(r, v)
    PROVE  ZeroReg'
BY DEF TypeOK, ZeroReg, WriteReg

\* A step that ends an instruction owes only that r0 is zero.
LEMMA BetweenStep ==
    ASSUME ZeroReg', phase' \notin Within
    PROVE  IsaInv'
BY DEF IsaInv, Fetched, Deferred, Within

\* The invariant holds at power-up.
LEMMA IsaInit == Init => IsaInv
BY DEF Init, IsaInv, ZeroReg, Fetched, Deferred, Within, InitRegs

\* The Exec cycle of each instruction preserves the invariant.
LEMMA IsaExecStep ==
    ASSUME TypeOK, RingInv, IsaInv, NEW io1 \in Level, NEW alert \in Level, Exec(io1, alert)
    PROVE  IsaInv'
<1>0. /\ instrWord.rd \in 0..31 /\ ZeroReg
      /\ phase = "Exec" => instrWord = imem[pc]
  BY FieldTypes DEF IsaInv, Fetched, Within
<1>1. CASE ExecData \/ ExecRdsr \/ ExecBranch \/ ExecPin \/ ExecCrcReset
             \/ ExecSetConfig \/ ExecGetAlert(io1, alert) \/ ExecHalt \/ ExecTrap
  <2>1. phase' \in {"Fetch", "Halted"}
    BY <1>1 DEF ExecData, ExecRdsr, ExecBranch, ExecPin, ExecCrcReset, ExecSetConfig,
       ExecGetAlert, ExecHalt, ExecTrap, Trap, HaltWith, Advance
  <2>2. \E v : regs' = regs \/ regs' = WriteReg(instrWord.rd, v)
    BY <1>1 DEF ExecData, ExecRdsr, ExecBranch, ExecPin, ExecCrcReset, ExecSetConfig,
       ExecGetAlert, ExecHalt, ExecTrap, Trap, HaltWith, arch
  <2>3. ZeroReg'
    BY <1>0, <2>2, WritesKeepZero
  <2> QED
    BY <2>1, <2>3, BetweenStep DEF Within
<1>2. ASSUME NEW total, NEW byte, NEW work, NEW first, StartBeats(total, byte, work, first),
             \/ work = NoWork
                  /\ Op \in {"PUT_BYTE_IMM", "PUT_BYTE_REG", "PUT_BITS_IMM", "PUT_BITS_REG"}
             \/ work = Tar /\ Op \in {"TAR_IMM", "TAR_REG"}
             \/ work = Get(instrWord.rd, 8, TRUE) /\ Op = "GET_BYTE"
             \/ work = Get(instrWord.rd, BitCount, FALSE) /\ Op = "GET_BITS",
             phase = "Exec"
      PROVE  IsaInv'
  <2>1. /\ phase' = "BusBeat" /\ pending' = work
        /\ UNCHANGED <<regs, instrWord, imem, pc>>
    BY <1>2 DEF StartBeats, arch, store
  <2>2. Op' = Op /\ BitCount' = BitCount /\ ZeroReg'
    BY <1>0, <2>1 DEF Op, BitCount, ZeroReg
  <2>3. Transfer'
    BY <1>2, <2>1, <2>2 DEF Transfer
  <2> QED
    BY <1>0, <1>2, <2>1, <2>2, <2>3 DEF IsaInv, Fetched, Deferred
<1>3. CASE ExecPut
  BY <1>2, <1>3 DEF ExecPut, Executing
<1>4. CASE ExecGet
  BY <1>2, <1>4 DEF ExecGet, Executing
<1>5. CASE ExecTar
  <2>1. CASE phase' = "Fetch"
    BY <1>0, <1>5, <2>1, BetweenStep, StoreSize DEF ExecTar, StartBeats, arch, ZeroReg, Within
  <2>2. CASE phase' # "Fetch"
    BY <1>2, <1>5, <2>2 DEF ExecTar, Executing, Advance
  <2> QED
    BY <2>1, <2>2
<1>6. CASE ExecMark
  <2>0. UNCHANGED <<regs, instrWord, imem>> /\ ZeroReg' /\ phase = "Exec" /\ Op = "MARK"
    BY <1>0, <1>6 DEF ExecMark, Executing, arch, store, ZeroReg
  <2>1. CASE phase' = "Fetch"
    BY <2>0, <2>1, BetweenStep DEF Within
  <2>2. CASE phase' # "Fetch"
    <3>1. /\ phase' = "TraceEmit" /\ pc' = pc
          /\ WriteRing(ringPtr, MarkLabel(instrWord.imm))
          /\ ringPtr' = (ringPtr + 1) % RingSlots
          /\ pending' = MarkWork(ReadReg(instrWord.rs1))
          /\ wrapped' = (wrapped \/ ringPtr = TermAddr)
      BY <1>6, <2>2 DEF ExecMark, Advance
    <3>2. Op' = Op /\ ReadReg(instrWord.rs1)' = ReadReg(instrWord.rs1)
      BY <2>0 DEF Op, ReadReg
    <3>3. ~wrapped' => ring'[ringPtr'-1] = MarkLabel(instrWord.imm)
      <4> SUFFICES ASSUME ~wrapped' PROVE ring'[ringPtr'-1] = MarkLabel(instrWord.imm)
        OBVIOUS
      <4>a. ringPtr # TermAddr
        BY <3>1, Zenon
      <4>1. ringPtr \in 0..TermAddr-1
        BY <4>a, RingSize DEF TypeOK
      <4>2. ringPtr' - 1 = ringPtr
        BY <3>1, <4>1, RingSize
      <4>3. ring' = [ring EXCEPT ![ringPtr] = MarkLabel(instrWord.imm)]
        BY <3>1 DEF WriteRing
      <4> QED
        BY <4>1, <4>2, <4>3 DEF TypeOK
    <3> QED
      BY <1>0, <2>0, <3>1, <3>2, <3>3 DEF IsaInv, Fetched, Deferred
  <2> QED
    BY <2>1, <2>2
<1>7. CASE ExecWaitOn
  <2>1. /\ phase = "Exec" /\ phase' = "WaitAlert" /\ pending' = Wait(instrWord.rd)
        /\ Op = "WAIT_ON" /\ UNCHANGED <<regs, instrWord, imem, pc>>
    BY <1>7 DEF ExecWaitOn, Executing, arch, store
  <2>2. Op' = Op /\ ZeroReg'
    BY <1>0, <2>1 DEF Op, ZeroReg
  <2> QED
    BY <1>0, <2>1, <2>2 DEF IsaInv, Fetched, Deferred
<1> QED
  BY <1>1, <1>3, <1>4, <1>5, <1>6, <1>7 DEF Exec

\* Every step preserves the invariant.
LEMMA IsaStep == TypeOK /\ RingInv /\ IsaInv /\ [Next]_vars => IsaInv'
<1> SUFFICES ASSUME TypeOK, RingInv, IsaInv, [Next]_vars PROVE IsaInv'
  OBVIOUS
<1>0. ZeroReg
  BY DEF IsaInv
<1>1. ASSUME UNCHANGED <<phase, pc, regs, pending, instrWord, imem, ring, ringPtr, wrapped>>
      PROVE  IsaInv'
  BY <1>1 DEF IsaInv, ZeroReg, Fetched, Deferred, Transfer, Op, BitCount, ReadReg
<1>2. CASE UNCHANGED vars
  BY <1>1, <1>2 DEF vars, arch, wait, trace, store
<1>3. CASE LoadProgram
  <2>1. phase' \notin Within /\ ZeroReg'
    BY <1>0, <1>3 DEF LoadProgram, Within, arch, ZeroReg
  <2> QED
    BY <2>1, BetweenStep
<1>4. CASE Start
  BY <1>4, BetweenStep DEF Start, SoftInit, InitRegs, Within, ZeroReg
<1>5. CASE Preamble
  BY <1>0, <1>5, BetweenStep DEF Preamble, Within, arch, ZeroReg
<1>6. CASE Fetch
  BY <1>0, <1>6 DEF Fetch, arch, IsaInv, ZeroReg, Fetched, Deferred, Within
<1>7. ASSUME NEW io1 \in Level, NEW alert \in Level, Exec(io1, alert) PROVE IsaInv'
  BY <1>7, IsaExecStep
<1>8. ASSUME NEW io1 \in Level, Tick(io1) \/ NextBeat PROVE IsaInv'
  BY <1>1, <1>8 DEF Tick, NextBeat, arch, wait, trace, store
<1>9. CASE Complete
  <2>1. phase' \notin Within
    BY <1>9 DEF Complete, Advance, Within
  <2>2. pending.kind = "Get" => pending.rd \in 0..31
    BY PendingTypes DEF TypeOK
  <2>3. CASE pending.kind = "Get"
    <3>1. regs' = WriteReg(pending.rd, shifter)
      BY <1>9, <2>3 DEF Complete
    <3> QED
      BY <1>0, <2>1, <2>2, <2>3, <3>1, WritesKeepZero, BetweenStep
  <2>4. CASE pending.kind # "Get"
    <3>1. regs' = regs
      BY <1>9, <2>4 DEF Complete
    <3> QED
      BY <1>0, <2>1, <3>1, BetweenStep DEF ZeroReg
  <2> QED
    BY <2>3, <2>4
<1>10. CASE TraceEmit
  BY <1>0, <1>10, BetweenStep DEF TraceEmit, Advance, Within, arch, ZeroReg
<1>11. ASSUME NEW io1 \in Level, NEW alert \in Level, WaitAlert(io1, alert) PROVE IsaInv'
  <2>1. pending.rd \in 0..31
    BY <1>11, PendingTypes DEF WaitAlert, TypeOK
  <2>2. CASE phase' = "Fetch"
    <3>1. \E v : regs' = regs \/ regs' = WriteReg(pending.rd, v)
      BY <1>11 DEF WaitAlert
    <3>2. ZeroReg'
      BY <1>0, <2>1, <3>1, WritesKeepZero
    <3> QED
      BY <2>2, <3>2, BetweenStep DEF Within
  <2>3. CASE phase' # "Fetch"
    <3>1. UNCHANGED <<phase, pc, regs, pending>>
      BY <1>11, <2>3 DEF WaitAlert, Advance
    <3> QED
      BY <1>1, <1>11, <3>1 DEF WaitAlert, trace, store
  <2> QED
    BY <2>2, <2>3
<1> QED
  BY <1>2, <1>3, <1>4, <1>5, <1>6, <1>7, <1>8, <1>9, <1>10, <1>11 DEF Next, Cycle

\* So it holds in every reachable state.
LEMMA IsaCorrect == Spec => []IsaInv
<1> QED
  BY TypeCorrect, RingCorrect, IsaInit, IsaStep, PTL DEF Spec

-----------------------------------------------------------------------------
\* The three views of the refinement mapping that are not variables.
Mode == CASE phase = "Idle" -> "idle" [] phase = "Halted" -> "halted" [] OTHER -> "run"
Kept == [a \in 1..(ringPtr - IF phase = "TraceEmit" THEN 2 ELSE 1) |-> ring[a]]
Report == IF phase = "Halted" THEN ring[TermAddr] ELSE [tag |-> "NONE"]

\* A step that changes nothing the reference machine sees is a stutter.
LEMMA SameView ==
    ASSUME UNCHANGED <<Mode, imem, pc, regs, alertSource, rxCrc, csN, rstN, Kept, ovf,
                       Report, wrapped>>
    PROVE  UNCHANGED Promise!vars
BY DEF Promise!vars, Mode, Kept, Report

\* Within a run, a cycle that leaves the ring alone leaves the mapped mode,
\* trace and report alone, unless it is one of a MARK.
LEMMA SameTrace ==
    ASSUME phase \notin {"Idle", "Halted", "TraceEmit"},
           phase' \notin {"Idle", "Halted", "TraceEmit"},
           UNCHANGED <<ringPtr, ring>>
    PROVE  Mode = "run" /\ UNCHANGED <<Mode, Kept, Report>>
BY DEF Mode, Kept, Report

\* Within an instruction the reference machine executes the fetched word.
LEMMA Here ==
    ASSUME TypeOK, IsaInv, phase \in Within
    PROVE  Promise!i = instrWord /\ Promise!Op = Op /\ Mode = "run"
<1>1. instrWord = imem[pc]
  BY DEF IsaInv, Fetched
<1> QED
  BY <1>1, SameDecode DEF Promise!i, Promise!Op, Op, Mode, Within

\* Both read zero from r0 and register r otherwise.
LEMMA SameReg ==
    ASSUME ZeroReg, NEW r \in 0..31
    PROVE  Promise!Reg(r) = ReadReg(r)
BY DEF ZeroReg, ReadReg, Promise!Reg

\* A register write of the engine is one of the reference machine.
LEMMA SameWrite ==
    ASSUME TypeOK, ZeroReg, Promise!i = instrWord, NEW v,
           regs' = WriteReg(instrWord.rd, v)
    PROVE  Promise!Writes(v)
<1>1. instrWord.rd \in 0..31
  BY FieldTypes
<1> DEFINE r == instrWord.rd % 16
<1>2. r \in 0..15
  BY <1>1
<1>3. regs' = IF r = 0 THEN regs ELSE [regs EXCEPT ![r] = v]
  BY DEF WriteReg
<1>4. Promise!Writes(v) <=> regs' = [regs EXCEPT ![r] = IF r = 0 THEN {} ELSE v]
  BY DEF Promise!Writes
<1> HIDE DEF r
<1> QED
  BY <1>2, <1>3, <1>4 DEF ZeroReg, TypeOK

\* A new pc, with the mode and the report as they were, is the promised jump.
LEMMA GotoIs ==
    ASSUME NEW n, pc' = n % InstrSlots, UNCHANGED <<Mode, Report>>
    PROVE  Promise!Goto(n)
BY DEF Promise!Goto, Mode, Report

\* An instruction of the reference machine is one of its steps.
LEMMA InstructionIs ==
    ASSUME Mode = "run", UNCHANGED <<imem, wrapped>>,
           Promise!Compute \/ Promise!Control \/ Promise!Receive \/ Promise!Mark \/ Promise!End
    PROVE  Promise!Next
BY DEF Promise!Next, Promise!Instruction, Mode

\* A cycle that writes rd with the promised value and goes on is Compute.
LEMMA ComputeIs ==
    ASSUME TypeOK, IsaInv, phase \in Within, UNCHANGED <<Mode, Report, Kept, imem, wrapped>>,
           pc' = (pc + 1) % InstrSlots, UNCHANGED <<alertSource, rxCrc, csN, rstN, ovf>>,
           NEW v, regs' = WriteReg(instrWord.rd, v),
           \/ /\ Op \in DataOps
              /\ v = DataResult(Op, instrWord, ReadReg(instrWord.rs1),
                                ReadReg(instrWord.rs2), XLEN)
           \/ Op = "RDSR" /\ instrWord.imm = 0 /\ v = rxCrc
           \/ Op \in {"GET_ALERT", "WAIT_ON"} /\ v \in {{}, {0}}
    PROVE  Promise!Next
<1>1. Promise!i = instrWord /\ Promise!Op = Op /\ Mode = "run" /\ ZeroReg
  BY Here DEF IsaInv
<1>2. Promise!Writes(v) /\ Promise!Goto(pc + 1)
  BY <1>1, SameWrite, GotoIs
<1>3. Promise!DataOps = DataOps
  BY Zenon DEF DataOps, Promise!DataOps, Immediates, Promise!Immediates, RegReg, Promise!RegReg,
     RegImm, Promise!RegImm
<1>4. CASE /\ Op \in DataOps
           /\ v = DataResult(Op, instrWord, ReadReg(instrWord.rs1), ReadReg(instrWord.rs2), XLEN)
  <2>1. v = Promise!DataResult(Promise!Op, Promise!i, Promise!Reg(Promise!i.rs1),
                               Promise!Reg(Promise!i.rs2), 32)
    BY <1>1, <1>4, FieldTypes, SameReg, SameResult DEF XLEN
  <2> QED
    BY <1>1, <1>2, <1>3, <1>4, <2>1, InstructionIs DEF Promise!Compute, Kept
<1>5. CASE Op = "RDSR" /\ instrWord.imm = 0 /\ v = rxCrc
  BY <1>1, <1>2, <1>5, InstructionIs DEF Promise!Compute, Kept
<1>6. CASE Op \in {"GET_ALERT", "WAIT_ON"} /\ v \in {{}, {0}}
  BY <1>1, <1>2, <1>6, InstructionIs DEF Promise!Compute, Kept
<1> QED
  BY <1>4, <1>5, <1>6

\* A cycle that ends a PUT or a TAR is Control.
LEMMA PassIs ==
    ASSUME TypeOK, IsaInv, phase \in Within, UNCHANGED <<Mode, Report, Kept, imem, wrapped>>,
           pc' = (pc + 1) % InstrSlots,
           UNCHANGED <<regs, alertSource, rxCrc, csN, rstN, ovf>>,
           Op \in {"PUT_BYTE_IMM", "PUT_BYTE_REG", "PUT_BITS_IMM", "PUT_BITS_REG",
                   "TAR_IMM", "TAR_REG"}
    PROVE  Promise!Next
<1>1. Promise!Op = Op /\ Mode = "run" /\ Promise!Goto(pc + 1)
  BY Here, GotoIs
<1>2. Promise!Control
  BY <1>1 DEF Promise!Control, Kept
<1> QED
  BY <1>1, <1>2, InstructionIs

\* So is the cycle of a branch, a pin, CRC_RESET or SET_CONFIG instruction.
LEMMA ControlIs ==
    ASSUME TypeOK, IsaInv, ExecBranch \/ ExecPin \/ ExecCrcReset \/ ExecSetConfig
    PROVE  Promise!Next
<1>0. phase = "Exec" /\ phase' = "Fetch" /\ UNCHANGED <<ringPtr, ring, wrapped, imem, ovf, regs>>
  BY DEF ExecBranch, ExecPin, ExecCrcReset, ExecSetConfig, Executing, Advance, arch, trace, store
<1>1. /\ Promise!i = instrWord /\ Promise!Op = Op /\ Mode = "run"
      /\ UNCHANGED <<Mode, Kept, Report>>
  BY <1>0, Here, SameTrace DEF Within
<1>2. CASE ExecBranch
  <2> DEFINE by == IF BranchTaken(Op, ReadReg(instrWord.rs1), ReadReg(instrWord.rs2))
                   THEN instrWord.imm ELSE 1
  <2>1. /\ Op \in Branches /\ pc' = (pc + by) % InstrSlots
        /\ UNCHANGED <<alertSource, rxCrc, csN, rstN>>
    BY <1>2 DEF ExecBranch, Executing, arch, pins
  <2>2. Promise!Goto(pc + by)
    BY <1>1, <2>1, GotoIs
  <2>3. Promise!BranchTaken(Op, Promise!Reg(instrWord.rs1), Promise!Reg(instrWord.rs2))
          = BranchTaken(Op, ReadReg(instrWord.rs1), ReadReg(instrWord.rs2))
    BY SameBranch, SameReg, FieldTypes DEF IsaInv
  <2>4. Promise!Branches = Branches
    BY Zenon DEF Branches, Promise!Branches
  <2>5. Promise!Control
    BY <1>0, <1>1, <2>1, <2>2, <2>3, <2>4, Zenon DEF Promise!Control, Kept
  <2> QED
    BY <1>0, <1>1, <2>5, InstructionIs
<1>3. CASE ExecPin \/ ExecCrcReset \/ ExecSetConfig
  <2>1. pc' = (pc + 1) % InstrSlots
    BY <1>3 DEF ExecPin, ExecCrcReset, ExecSetConfig, Advance
  <2>2. Promise!Goto(pc + 1)
    BY <1>1, <2>1, GotoIs
  <2>3. ASSUME ExecPin PROVE Promise!Control
    <3>1. CASE Op \in {"CS_ASSERT", "CS_DEASSERT"}
      <4>1. csN' = (IF Op = "CS_ASSERT" THEN 0 ELSE 1) /\ UNCHANGED <<alertSource, rxCrc, rstN>>
        BY <2>3, <3>1 DEF ExecPin, Executing, arch
      <4> QED
        BY <1>0, <1>1, <2>2, <3>1, <4>1 DEF Promise!Control, Kept
    <3>2. CASE Op \in {"RST_ASSERT", "RST_DEASSERT"}
      <4>1. rstN' = (IF Op = "RST_ASSERT" THEN 0 ELSE 1) /\ UNCHANGED <<alertSource, rxCrc, csN>>
        BY <2>3, <3>2 DEF ExecPin, Executing, arch
      <4> QED
        BY <1>0, <1>1, <2>2, <3>2, <4>1 DEF Promise!Control, Kept
    <3> QED
      BY <2>3, <3>1, <3>2 DEF ExecPin, Executing
  <2>4. ASSUME ExecCrcReset PROVE Promise!Control
    <3>1. Op = "CRC_RESET" /\ rxCrc' = {} /\ UNCHANGED <<alertSource, csN, rstN>>
      BY <2>4 DEF ExecCrcReset, Executing, pins
    <3> QED
      BY <1>0, <1>1, <2>2, <3>1 DEF Promise!Control, Kept
  <2>5. ASSUME ExecSetConfig PROVE Promise!Control
    <3>1. instrWord.imm \in {0, 1}
      <4> DEFINE imm == instrWord.imm
      <4>1. imm \in 0..2047
        BY FieldTypes
      <4>2. imm \div 2 = 0
        BY <2>5, Zenon DEF ExecSetConfig, ConfigOk
      <4>3. imm \in {0, 1}
        <5> HIDE DEF imm
        <5> QED
          BY <4>1, <4>2
      <4> QED
        BY <4>3
    <3>2. alertSource' = IF instrWord.imm = 0 THEN "AlertPin" ELSE "AlertIo1"
      BY <2>5, <3>1 DEF ExecSetConfig, AlertSourceOf
    <3>3. Op = "SET_CONFIG" /\ UNCHANGED <<rxCrc, csN, rstN>>
      BY <2>5 DEF ExecSetConfig, Executing, pins
    <3> QED
      BY <1>0, <1>1, <2>2, <3>1, <3>2, <3>3 DEF Promise!Control, Kept
  <2>6. Promise!Control
    BY <1>3, <2>3, <2>4, <2>5
  <2> QED
    BY <1>0, <1>1, <2>6, InstructionIs
<1> QED
  BY <1>2, <1>3

\* A cycle that halts writes the report the reference machine gives.
LEMMA EndsIs ==
    ASSUME TypeOK, RingInv, IsaInv, ~wrapped, phase = "Exec",
           NEW trap \in BOOLEAN, NEW reason, NEW status, HaltWith(trap, reason, status),
           IF trap THEN csN' = 1 /\ rstN' = 1 ELSE UNCHANGED <<csN, rstN>>
    PROVE  /\ Promise!Ends(trap, reason, status)
           /\ Promise!End => Promise!Next
           /\ Promise!i = instrWord /\ Promise!Op = Op
<1>1. /\ phase' = "Halted"
      /\ ring' = [ring EXCEPT ![TermAddr] = HaltWord(trap, reason, ovf, status)]
      /\ UNCHANGED <<pc, regs, alertSource, rxCrc, ringPtr, ovf, wrapped, imem>>
  BY DEF HaltWith, WriteRing, arch, store
<1>2. Promise!i = instrWord /\ Promise!Op = Op /\ Mode = "run"
  BY Here DEF Within
<1>3. Mode' = "halted"
  BY <1>1 DEF Mode
<1>4. Report' = [tag |-> "HALT", trap |-> trap, reason |-> reason, ovf |-> ovf, status |-> status]
  <2>1. ring'[TermAddr] = HaltWord(trap, reason, ovf, status)
    <3>1. ring \in [0..TermAddr -> RingWord] /\ TermAddr \in 0..TermAddr
      BY RingSize DEF TypeOK
    <3> QED
      BY <1>1, <3>1, Zenon
  <2> QED
    BY <1>1, <2>1, Zenon DEF Report, HaltWord
<1>5. Kept' = Kept
  <2>1. ringPtr \in 1..TermAddr
    BY RunningRing
  <2>2. \A a \in 1..(ringPtr - 1) : ring'[a] = ring[a]
    BY <1>1, <2>1, RingSize DEF TypeOK
  <2>3. Kept = [a \in 1..(ringPtr - 1) |-> ring[a]]
    BY DEF Kept
  <2>4. Kept' = [a \in 1..(ringPtr - 1) |-> ring'[a]]
    BY <1>1 DEF Kept
  <2> QED
    BY <2>2, <2>3, <2>4
<1>6. Promise!Ends(trap, reason, status)
  BY <1>1, <1>3, <1>4, <1>5, Zenon DEF Promise!Ends, Mode, Report, Kept
<1> QED
  BY <1>1, <1>2, <1>6, InstructionIs

\* HALT and the three traps are End.
LEMMA EndIs ==
    ASSUME TypeOK, RingInv, IsaInv, ~wrapped, ExecHalt \/ ExecTrap
    PROVE  Promise!Next
<1>0. phase = "Exec"
  BY DEF ExecHalt, ExecTrap, Executing
<1>1. CASE ExecHalt
  <2>1. Op = "HALT" /\ HaltWith(FALSE, 0, instrWord.imm) /\ UNCHANGED <<csN, rstN>>
    BY <1>1 DEF ExecHalt, Executing, pins
  <2> QED
    BY <1>0, <2>1, EndsIs DEF Promise!End
<1>2. ASSUME NEW reason, Trap(reason)
      PROVE  /\ Promise!Ends(TRUE, reason, 0)
             /\ Promise!End => Promise!Next
             /\ Promise!i = instrWord /\ Promise!Op = Op
  BY <1>0, <1>2, EndsIs DEF Trap, SafePins
<1>3. CASE Executing(DecodeErrors) /\ Trap(1)
  BY <1>2, <1>3 DEF Promise!End, Executing, DecodeErrors, Promise!DecodeErrors
<1>4. CASE Executing({"SET_CONFIG"}) /\ ~ConfigOk(instrWord.imm) /\ Trap(2)
  <2>1. instrWord.imm \notin {0, 1} /\ Op = "SET_CONFIG"
    BY <1>4, FieldTypes DEF ConfigOk, Executing
  <2> QED
    BY <1>2, <1>4, <2>1 DEF Promise!End
<1>5. CASE Executing({"RDSR"}) /\ instrWord.imm % 32 # 0 /\ Trap(3)
  <2>1. instrWord.imm # 0 /\ Op = "RDSR"
    BY <1>5 DEF Executing
  <2> QED
    BY <1>2, <1>5, <2>1 DEF Promise!End
<1> QED
  BY <1>1, <1>3, <1>4, <1>5 DEF ExecTrap

\* One more word of a function's range extends the sequence by that word.
LEMMA Extend ==
    ASSUME NEW n \in Nat, NEW f, NEW g, \A a \in 1..n : g[a] = f[a]
    PROVE  /\ Len([a \in 1..n |-> f[a]]) = n
           /\ [a \in 1..n+1 |-> g[a]] = [a \in 1..n |-> f[a]] \o <<g[n+1]>>
<1> DEFINE s == [a \in 1..n |-> f[a]]
           S == {f[a] : a \in 1..n} \cup {g[n+1]}
<1>1. s \in Seq(S) /\ Len(s) = n /\ <<g[n+1]>> \in Seq(S) /\ Len(<<g[n+1]>>) = 1
  OBVIOUS
<1>2. /\ s \o <<g[n+1]>> \in Seq(S)
      /\ Len(s \o <<g[n+1]>>) = n + 1
      /\ \A a \in 1..n+1 : (s \o <<g[n+1]>>)[a] = IF a <= n THEN s[a] ELSE g[n+1]
  BY <1>1
<1> QED
  BY <1>1, <1>2

\* A transfer's CAPTURE word is kept, or dropped with ovf set, as promised.
LEMMA PushOne ==
    ASSUME TypeOK, RingInv, ~wrapped, phase = "BusBeat", phase' = "Fetch",
           NEW w, PushWord(w)
    PROVE  /\ Len(Kept) = ringPtr - 1
           /\ IF ~ovf /\ ringPtr <= TermAddr - 1
              THEN Kept' = Kept \o <<w>> /\ UNCHANGED ovf
              ELSE ovf' = TRUE /\ UNCHANGED Kept
<1>1. ringPtr \in 1..TermAddr /\ TermAddr \in Nat /\ ring \in [0..TermAddr -> RingWord]
  BY RunningRing, RingSize DEF TypeOK
<1>2. Kept = [a \in 1..(ringPtr - 1) |-> ring[a]] /\ Len(Kept) = ringPtr - 1
  <2>1. Kept = [a \in 1..(ringPtr - 1) |-> ring[a]]
    BY DEF Kept
  <2>2. ringPtr - 1 \in Nat
    BY <1>1
  <2> QED
    BY <2>1, <2>2, Extend
<1>5. CASE PushFits
  <2>1. ~ovf /\ ringPtr \in 1..TermAddr-1
    BY <1>1, <1>5 DEF PushFits
  <2>2. ring' = [ring EXCEPT ![ringPtr] = w] /\ ringPtr' = ringPtr + 1 /\ UNCHANGED ovf
    BY <1>5 DEF PushWord, WriteRing
  <2>3. Kept' = [a \in 1..(ringPtr - 1) + 1 |-> ring'[a]]
    <3>1. Kept' = [a \in 1..(ringPtr' - 1) |-> ring'[a]]
      BY DEF Kept
    <3>2. ringPtr' - 1 = (ringPtr - 1) + 1
      BY <2>1, <2>2
    <3> QED
      BY <3>1, <3>2
  <2>4. (\A a \in 1..(ringPtr - 1) : ring'[a] = ring[a]) /\ ring'[(ringPtr - 1) + 1] = w
    BY <1>1, <2>1, <2>2
  <2>5. Kept' = Kept \o <<w>>
    <3>1. ringPtr - 1 \in Nat
      BY <2>1
    <3>2. [a \in 1..(ringPtr - 1) + 1 |-> ring'[a]]
             = [a \in 1..(ringPtr - 1) |-> ring[a]] \o <<ring'[(ringPtr - 1) + 1]>>
      BY <2>4, <3>1, Extend
    <3> QED
      BY <1>2, <2>3, <2>4, <3>2, Zenon
  <2> QED
    BY <1>2, <2>1, <2>2, <2>5
<1>6. CASE ~PushFits
  <2>1. ovf' = TRUE /\ UNCHANGED <<ringPtr, ring>>
    BY <1>6 DEF PushWord, slots
  <2>2. Kept' = Kept
    BY <2>1 DEF Kept
  <2>3. ~(~ovf /\ ringPtr <= TermAddr - 1)
    BY <1>6 DEF PushFits
  <2> QED
    BY <1>2, <2>1, <2>2, <2>3
<1> QED
  BY <1>5, <1>6

\* The last beat of a transfer is Receive, or Control for a PUT or a TAR.
LEMMA CompleteIs ==
    ASSUME TypeOK, RingInv, BusInv, IsaInv, ~wrapped, Complete
    PROVE  Promise!Next
<1>1. /\ phase = "BusBeat" /\ phase' = "Fetch" /\ pc' = (pc + 1) % InstrSlots
      /\ busPhase = 4 /\ ~MoreBeats
      /\ UNCHANGED <<alertSource, csN, rstN, wrapped, imem>>
  BY DEF Complete, Advance, store
<1>2. /\ Promise!i = instrWord /\ Promise!Op = Op /\ Mode = "run" /\ Transfer
      /\ UNCHANGED <<Mode, Report>>
  BY <1>1, Here DEF Within, IsaInv, Deferred, Mode, Report
<1>3. CASE pending.kind # "Get"
  <2>1. UNCHANGED <<regs, rxCrc, ringPtr, ring, ovf>>
    BY <1>3 DEF Complete, slots
  <2>2. Op \in {"PUT_BYTE_IMM", "PUT_BYTE_REG", "PUT_BITS_IMM", "PUT_BITS_REG",
                "TAR_IMM", "TAR_REG"}
    BY <1>2, <1>3 DEF Transfer, Get
  <2>3. UNCHANGED <<Mode, Kept, Report>>
    BY <1>1, <2>1, SameTrace
  <2> QED
    BY <1>1, <2>1, <2>2, <2>3, PassIs DEF Within
<1>4. CASE pending.kind = "Get"
  <2>1. /\ regs' = WriteReg(pending.rd, shifter)
        /\ rxCrc' = (IF pending.crc THEN CrcUpdate(rxCrc, shifter) ELSE rxCrc)
        /\ PushWord(Capture(pending.nbits, shifter))
    BY <1>4 DEF Complete
  <2>2. \/ /\ Op = "GET_BYTE" /\ pending.nbits = 8 /\ pending.crc = TRUE
           /\ pending.rd = instrWord.rd
        \/ /\ Op = "GET_BITS" /\ pending.nbits = BitCount /\ pending.crc = FALSE
           /\ pending.rd = instrWord.rd
    BY <1>2, <1>4 DEF Transfer, Get, NoWork, Tar
  <2>3. shifter \in SUBSET (0..pending.nbits-1)
    <3>1. /\ sck = 1 /\ beatTot = ClocksOf /\ Len(edges) = beatIx + 1 /\ beatIx < beatTot
          /\ shifter = {Len(edges) - n : n \in {m \in 1..Len(edges) : edges[m] = "1"}}
      BY <1>1, <1>4 DEF BusInv, SckIdlesLow, EdgesCarryTheData
    <3>2. beatTot = pending.nbits
      BY <2>2, <3>1 DEF ClocksOf
    <3>3. Len(edges) = pending.nbits /\ pending.nbits \in Nat
      <4>1. beatIx \in 0..15 /\ beatTot \in 0..15
        BY DEF TypeOK
      <4>2. ~(beatIx + 1 < beatTot)
        BY <1>1 DEF MoreBeats
      <4> QED
        BY <3>1, <3>2, <4>1, <4>2
    <3> QED
      BY <3>1, <3>3
  <2>4. Promise!Writes(shifter) /\ Promise!Goto(pc + 1)
    BY <1>1, <1>2, <2>1, <2>2, SameWrite, GotoIs DEF IsaInv
  <2>5. /\ Len(Kept) = ringPtr - 1
        /\ IF ~ovf /\ ringPtr <= TermAddr - 1
           THEN Kept' = Kept \o <<Capture(pending.nbits, shifter)>> /\ UNCHANGED ovf
           ELSE ovf' = TRUE /\ UNCHANGED Kept
    BY <1>1, <2>1, PushOne
  <2>6. Promise!Receive
    <3> DEFINE n == IF Promise!Op = "GET_BYTE" THEN 8 ELSE Promise!i.imm \div 256 + 1
    <3>1. n = pending.nbits
      BY <1>2, <2>2 DEF BitCount
    <3>2. shifter \in Promise!BitVec(n)
      BY <2>3, <3>1 DEF Promise!BitVec
    <3>3. rxCrc' = IF Promise!Op = "GET_BYTE" THEN Promise!CrcUpdate(rxCrc, shifter) ELSE rxCrc
      BY <1>2, <2>1, <2>2, SameCrc
    <3>4. Promise!Push(<<[tag |-> "CAPTURE", nbits |-> n, byte |-> shifter]>>)
      <4> DEFINE w == [tag |-> "CAPTURE", nbits |-> n, byte |-> shifter]
      <4>1. w = Capture(pending.nbits, shifter)
        <5> HIDE DEF n
        <5> QED
          BY <3>1, Zenon DEF Capture
      <4> HIDE DEF w
      <4>2. Len(<<w>>) = 1
        OBVIOUS
      <4>3. IF ~ovf /\ Len(Kept) + Len(<<w>>) <= TermAddr - 1
            THEN Kept' = Kept \o <<w>> /\ UNCHANGED ovf
            ELSE ovf' = TRUE /\ UNCHANGED Kept
        <5>1. ringPtr \in Nat /\ TermAddr \in Nat
          BY RingSize DEF TypeOK
        <5>2. Len(Kept) + Len(<<w>>) = ringPtr
          BY <2>5, <4>2, <5>1
        <5> QED
          BY <2>5, <4>1, <5>2, Zenon
      <4>4. Promise!Push(<<w>>)
        BY <4>3, Zenon DEF Promise!Push, Kept
      <4> QED
        BY <4>4 DEF w
    <3>5. Promise!Op \in {"GET_BYTE", "GET_BITS"} /\ UNCHANGED <<alertSource, csN, rstN>>
      BY <1>1, <1>2, <2>2
    <3> QED
      BY <2>4, <3>2, <3>3, <3>4, <3>5, ZenonT(30)
      DEF Promise!Receive, Promise!Push, Promise!Writes, Promise!Goto
  <2> QED
    BY <1>1, <1>2, <2>6, InstructionIs
<1> QED
  BY <1>3, <1>4

\* The first cycle of a MARK stutters; or it drops the record, as Mark does;
\* or it accepts it on an exactly full trace, the promise the engine breaks.
LEMMA MarkIs ==
    ASSUME TypeOK, RingInv, IsaInv, ~wrapped, ExecMark
    PROVE  Promise!Next \/ UNCHANGED Promise!vars
<1>1. /\ phase = "Exec" /\ Op = "MARK"
      /\ UNCHANGED <<regs, alertSource, rxCrc, csN, rstN, imem>>
  BY DEF ExecMark, Executing, arch, pins, store
<1>2. Promise!i = instrWord /\ Promise!Op = Op /\ Mode = "run"
  BY <1>1, Here DEF Within
<1>3. ringPtr \in 1..TermAddr /\ TermAddr \in Nat /\ RingSlots = TermAddr + 1
  BY <1>1, RunningRing, RingSize
<1>4. Kept = [a \in 1..(ringPtr - 1) |-> ring[a]] /\ Len(Kept) = ringPtr - 1
  <2>1. Kept = [a \in 1..(ringPtr - 1) |-> ring[a]]
    BY <1>1 DEF Kept
  <2>2. ringPtr - 1 \in Nat
    BY <1>3
  <2> QED
    BY <2>1, <2>2, Extend
<1>5. CASE ~MarkFits
  <2>1. /\ phase' = "Fetch" /\ pc' = (pc + 1) % InstrSlots /\ ovf' = TRUE
        /\ UNCHANGED <<ringPtr, ring, wrapped>>
    BY <1>5 DEF ExecMark, Advance, slots
  <2>2. UNCHANGED <<Mode, Kept, Report>>
    BY <1>1, <2>1, SameTrace
  <2>3. ~(~ovf /\ Len(Kept) + 2 <= TermAddr - 1)
    BY <1>3, <1>4, <1>5 DEF MarkFits
  <2> DEFINE label == [tag |-> "MARK", label |-> Promise!i.imm]
             payload == [tag |-> "PAYLOAD", value |-> Promise!Reg(Promise!i.rs1)]
  <2>4. Len(<<label, payload>>) = 2
    OBVIOUS
  <2>5. Promise!Push(<<label, payload>>)
    <3> HIDE DEF label, payload
    <3>1. ~(~ovf /\ Len(Kept) + Len(<<label, payload>>) <= TermAddr - 1)
      BY <2>3, <2>4
    <3> QED
      BY <2>1, <2>2, <3>1, Zenon DEF Promise!Push, Kept
  <2>6. Promise!Goto(pc + 1)
    BY <2>1, <2>2, GotoIs
  <2>7. Promise!Mark
    BY <1>1, <1>2, <2>5, <2>6 DEF Promise!Mark
  <2> QED
    BY <1>1, <1>2, <2>1, <2>7, InstructionIs
<1>6. CASE MarkFits
  <2>1. /\ phase' = "TraceEmit" /\ pc' = pc /\ ovf' = ovf
        /\ ring' = [ring EXCEPT ![ringPtr] = MarkLabel(instrWord.imm)]
        /\ ringPtr' = (ringPtr + 1) % RingSlots
    BY <1>6 DEF ExecMark, WriteRing
  <2>2. wrapped' = (wrapped \/ ringPtr = TermAddr)
    BY <1>6 DEF ExecMark
  <2>3. Mode' = Mode /\ Report' = Report
    BY <1>1, <2>1 DEF Mode, Report
  <2>4. CASE ringPtr = TermAddr
    <3>1. wrapped' = TRUE
      BY <2>2, <2>4
    <3>2. ~ovf /\ Len(Kept) = TermAddr - 1
      BY <1>4, <1>6, <2>4 DEF MarkFits
    <3>3. Promise!Lose
      BY <1>1, <1>2, <2>3, <3>1, <3>2 DEF Promise!Lose, Mode, Kept
    <3> QED
      BY <3>3 DEF Promise!Next
  <2>5. CASE ringPtr # TermAddr
    <3>1. wrapped' = wrapped
      BY <2>2, <2>5, Zenon DEF TypeOK
    <3>2. ringPtr' = ringPtr + 1
      BY <1>3, <2>1, <2>5
    <3>3. Kept' = [a \in 1..(ringPtr - 1) |-> ring'[a]]
      <4>1. Kept' = [a \in 1..(ringPtr' - 2) |-> ring'[a]]
        BY <2>1 DEF Kept
      <4>2. ringPtr' - 2 = ringPtr - 1
        BY <1>3, <3>2
      <4> QED
        BY <4>1, <4>2
    <3>4. \A a \in 1..(ringPtr - 1) : ring'[a] = ring[a]
      BY <1>3, <2>1 DEF TypeOK
    <3>5. Kept' = Kept
      BY <1>4, <3>3, <3>4
    <3> QED
      BY <1>1, <2>1, <2>3, <3>1, <3>5, SameView
  <2> QED
    BY <2>4, <2>5
<1> QED
  BY <1>5, <1>6

\* Concatenation is associative.
LEMMA Regroup ==
    ASSUME NEW S, NEW p \in Seq(S), NEW q \in Seq(S), NEW r \in Seq(S)
    PROVE  (p \o q) \o r = p \o (q \o r)
BY ConcatAssociative

\* Two words appended one after the other are the sequence of the two.
LEMMA TwoMore ==
    ASSUME NEW S, NEW s \in Seq(S), NEW a \in S, NEW b \in S
    PROVE  (s \o <<a>>) \o <<b>> = s \o <<a, b>>
<1> DEFINE u == <<a>>
           v == <<b>>
           w == <<a, b>>
<1>1. /\ u \in Seq(S) /\ Len(u) = 1 /\ u[1] = a
      /\ v \in Seq(S) /\ Len(v) = 1 /\ v[1] = b
      /\ w \in Seq(S) /\ Len(w) = 2 /\ w[1] = a /\ w[2] = b
  OBVIOUS
<1> HIDE DEF u, v, w
<1>2. u \o v = w
  <2>1. /\ u \o v \in Seq(S) /\ Len(u \o v) = Len(u) + Len(v)
        /\ \A k \in 1 .. Len(u) + Len(v) :
             (u \o v)[k] = IF k <= Len(u) THEN u[k] ELSE v[k - Len(u)]
    BY <1>1, ConcatProperties, Zenon
  <2> DEFINE t == u \o v
  <2> HIDE DEF t
  <2>2. /\ t \in Seq(S) /\ Len(t) = Len(u) + Len(v)
        /\ \A k \in 1 .. Len(u) + Len(v) : t[k] = IF k <= Len(u) THEN u[k] ELSE v[k - Len(u)]
    BY <2>1 DEF t
  <2>3. Len(t) = 2 /\ t[1] = a /\ t[2] = b
    BY <1>1, <2>2
  <2>4. t = w
    BY <1>1, <2>2, <2>3, SeqEqual
  <2> QED
    BY <2>4 DEF t
<1>3. s \in Seq(S) /\ u \in Seq(S) /\ v \in Seq(S)
  BY <1>1
<1>4. (s \o u) \o v = s \o (u \o v)
  BY <1>3, Regroup
<1> QED
  BY <1>2, <1>4 DEF u, v, w

\* The second cycle of a MARK is Mark: both words enter the trace together.
LEMMA TraceEmitIs ==
    ASSUME TypeOK, RingInv, IsaInv, ~wrapped, TraceEmit
    PROVE  Promise!Next
<1>1. /\ phase = "TraceEmit" /\ phase' = "Fetch" /\ pc' = (pc + 1) % InstrSlots
      /\ ring' = [ring EXCEPT ![ringPtr] = Payload(pending.payload)]
      /\ ringPtr' = (ringPtr + 1) % RingSlots
      /\ UNCHANGED <<regs, alertSource, rxCrc, csN, rstN, ovf, imem, wrapped>>
  BY DEF TraceEmit, Advance, WriteRing, arch, pins, store
<1>2. Promise!i = instrWord /\ Promise!Op = Op /\ Mode = "run"
  BY <1>1, Here DEF Within
<1>3. /\ Op = "MARK" /\ pending = MarkWork(ReadReg(instrWord.rs1))
      /\ ring[ringPtr-1] = MarkLabel(instrWord.imm)
  BY <1>1 DEF IsaInv, Deferred
<1>4. ~ovf /\ 2 <= ringPtr /\ ringPtr < TermAddr
  BY <1>1 DEF RingInv, PendingMark
<1>5. ringPtr \in 2..TermAddr-1 /\ ringPtr' = ringPtr + 1 /\ TermAddr \in Nat
  <2>1. ringPtr \in 2..TermAddr-1 /\ TermAddr \in Nat
    BY <1>4, RingSize DEF TypeOK
  <2>2. ringPtr' = (ringPtr + 1) % RingSlots
    BY <1>1
  <2> QED
    BY <2>1, <2>2, RingSize
<1>6. UNCHANGED <<Mode, Report>>
  BY <1>1 DEF Mode, Report
<1>7. Kept = [a \in 1..(ringPtr - 2) |-> ring[a]] /\ Len(Kept) = ringPtr - 2
  <2>1. Kept = [a \in 1..(ringPtr - 2) |-> ring[a]]
    BY <1>1 DEF Kept
  <2>2. ringPtr - 2 \in Nat
    BY <1>5
  <2> QED
    BY <2>1, <2>2, Extend
<1> DEFINE label == [tag |-> "MARK", label |-> Promise!i.imm]
           payload == [tag |-> "PAYLOAD", value |-> Promise!Reg(Promise!i.rs1)]
<1>8. ring'[ringPtr-1] = label
  <2>1. ring'[ringPtr-1] = ring[ringPtr-1]
    <3>1. ring \in [0..TermAddr -> RingWord] /\ ringPtr-1 \in 0..TermAddr /\ ringPtr-1 # ringPtr
      BY <1>5 DEF TypeOK
    <3> QED
      BY <1>1, <3>1, Zenon
  <2> QED
    BY <1>2, <1>3, <2>1, Zenon DEF MarkLabel
<1>9. ring'[ringPtr] = payload
  <2>1. ring \in [0..TermAddr -> RingWord] /\ ringPtr \in 0..TermAddr
    BY <1>5 DEF TypeOK
  <2>2. pending.payload = ReadReg(instrWord.rs1)
    BY <1>3 DEF MarkWork
  <2>3. Promise!Reg(Promise!i.rs1) = ReadReg(instrWord.rs1)
    BY <1>2, SameReg, FieldTypes DEF IsaInv
  <2> QED
    BY <1>1, <2>1, <2>2, <2>3, Zenon DEF Payload
<1>10. Len(<<label, payload>>) = 2
  OBVIOUS
<1> HIDE DEF label, payload
<1>11. Kept' = Kept \o <<label, payload>>
  <2> DEFINE n == ringPtr - 2
  <2>1. n \in Nat /\ n + 1 = ringPtr - 1 /\ (n + 1) + 1 = ringPtr /\ n + 1 \in Nat
    BY <1>5
  <2>2. \A a \in 1..n+1 : ring'[a] = IF a = n + 1 THEN label ELSE ring[a]
    <3> DEFINE w == Payload(pending.payload)
    <3>1. ring' = [ring EXCEPT ![ringPtr] = w] /\ ring \in [0..TermAddr -> RingWord]
      BY <1>1 DEF TypeOK
    <3> HIDE DEF w
    <3> QED
      BY <3>1, <1>5, <1>8
  <2>3. Kept' = [a \in 1..(n + 1) + 1 |-> ring'[a]]
    <3>1. Kept' = [a \in 1..(ringPtr' - 1) |-> ring'[a]]
      BY <1>1 DEF Kept
    <3>2. ringPtr' - 1 = (n + 1) + 1
      BY <1>5
    <3> QED
      BY <3>1, <3>2
  <2> HIDE DEF n
  <2>4. [a \in 1..(n + 1) + 1 |-> ring'[a]] = [a \in 1..n+1 |-> ring'[a]] \o <<payload>>
    BY <1>9, <2>1, Extend
  <2>5. [a \in 1..n+1 |-> ring'[a]] = [a \in 1..n |-> ring[a]] \o <<label>>
    <3>1. \A a \in 1..n : ring'[a] = ring[a]
      BY <2>1, <2>2
    <3>2. ring'[n+1] = label
      BY <1>8, <2>1
    <3> QED
      BY <2>1, <3>1, <3>2, Extend
  <2>6. (Kept \o <<label>>) \o <<payload>> = Kept \o <<label, payload>>
    <3> DEFINE S == {ring[a] : a \in 1..n} \cup {label, payload}
    <3>1. Kept = [a \in 1..n |-> ring[a]]
      BY <1>7 DEF n
    <3>2. Kept \in Seq(S) /\ label \in S /\ payload \in S
      BY <2>1, <3>1
    <3> HIDE DEF S
    <3> QED
      BY <3>2, TwoMore
  <2>7. Kept = [a \in 1..n |-> ring[a]]
    BY <1>7 DEF n
  <2> QED
    BY <2>3, <2>4, <2>5, <2>6, <2>7, Zenon
<1>12. Promise!Push(<<label, payload>>)
  <2>1. ~ovf /\ Len(Kept) + Len(<<label, payload>>) <= TermAddr - 1
    BY <1>4, <1>5, <1>7, <1>10
  <2> QED
    BY <1>1, <1>11, <2>1, Zenon DEF Promise!Push, Kept
<1>13. Promise!Goto(pc + 1)
  BY <1>1, <1>6, GotoIs
<1>14. Promise!Mark
  BY <1>1, <1>2, <1>3, <1>12, <1>13, Zenon DEF Promise!Mark, label, payload
<1> QED
  BY <1>1, <1>2, <1>14, InstructionIs


\* A decoded RDSR has no bits above its selector.
LEMMA CanonicalSelector ==
    ASSUME TypeOK, Op = "RDSR", instrWord.imm % 32 = 0
    PROVE  instrWord.imm = 0
<1>1. ReservedZero(Op, instrWord)
  <2> DEFINE op == Mnemonics[instrWord.grp][instrWord.sub + 1]
  <2>1. Op = IF instrWord.sub >= Len(Mnemonics[instrWord.grp]) THEN "IllegalOpcode"
             ELSE IF ReservedZero(op, instrWord) THEN op ELSE "ReservedFieldNonZero"
    BY DEF Op, Decode
  <2> HIDE DEF op
  <2> QED
    BY <2>1, Zenon
<1>2. instrWord.imm \div 32 = 0
  <2>1. ImmOk("RDSR", instrWord.imm)
    BY <1>1, Zenon DEF ReservedZero
  <2> QED
    BY <2>1 DEF ImmOk, Immediates, RegImm, Branches
<1>3. instrWord.imm \in 0..2047
  BY DEF TypeOK, InstrWord
<1> DEFINE imm == instrWord.imm
<1>4. imm \in 0..2047 /\ imm \div 32 = 0 /\ imm % 32 = 0
  BY <1>2, <1>3
<1>5. imm = 0
  <2> HIDE DEF imm
  <2> QED
    BY <1>4
<1> QED
  BY <1>5

\* Loading and starting are Load and Start; preamble and fetch stutter.
LEMMA LifecycleIs ==
    ASSUME TypeOK, RingInv, LoadProgram \/ Start \/ Preamble \/ Fetch
    PROVE  Promise!Next \/ UNCHANGED Promise!vars
<1>1. CASE LoadProgram
  <2>1. /\ Mode # "run"
        /\ UNCHANGED <<Mode, pc, regs, alertSource, rxCrc, csN, rstN, Kept, ovf, Report, wrapped>>
    BY <1>1 DEF LoadProgram, arch, pins, trace, Mode, Kept, Report
  <2>2. Promise!Load
    BY <2>1 DEF Promise!Load, Mode, Kept, Report
  <2> QED
    BY <2>2 DEF Promise!Next
<1>2. CASE Start
  <2>1. Mode # "run" /\ Mode' = "run" /\ UNCHANGED imem
    BY <1>2 DEF Start, Mode, store
  <2>2. Kept' = <<>>
    <3>1. Kept' = [a \in 1..(1 - 1) |-> ring'[a]]
      BY <1>2 DEF Start, SoftInit, Kept
    <3> QED
      BY <3>1
  <2>3. Report' = [tag |-> "NONE"]
    BY <1>2 DEF Start, Report
  <2>4. Promise!Start
    BY <1>2, <2>1, <2>2, <2>3 DEF Promise!Start, Promise!Fresh, Promise!None, Start, SoftInit,
       InitRegs, Mode, Kept, Report
  <2> QED
    BY <2>4 DEF Promise!Next
<1>3. CASE Preamble
  <2>1. /\ phase = "Preamble" /\ phase' = "Fetch" /\ ring' = [ring EXCEPT ![0] = Revision]
        /\ UNCHANGED <<imem, pc, regs, alertSource, rxCrc, csN, rstN, ringPtr, ovf, wrapped>>
    BY <1>3 DEF Preamble, WriteRing, arch, pins, store
  <2>2. Kept' = Kept
    <3>1. /\ Kept = [a \in 1..(ringPtr - 1) |-> ring[a]]
          /\ Kept' = [a \in 1..(ringPtr - 1) |-> ring'[a]]
      BY <2>1 DEF Kept
    <3>2. \A a \in 1..(ringPtr - 1) : ring'[a] = ring[a]
      BY <2>1 DEF TypeOK
    <3> QED
      BY <3>1, <3>2
  <2>3. UNCHANGED <<Mode, Report>>
    BY <2>1 DEF Mode, Report
  <2> QED
    BY <2>1, <2>2, <2>3, SameView
<1>4. CASE Fetch
  <2>1. /\ phase = "Fetch" /\ phase' = "Exec"
        /\ UNCHANGED <<imem, pc, regs, alertSource, rxCrc, csN, rstN, ringPtr, ring, ovf,
                       wrapped>>
    BY <1>4 DEF Fetch, arch, pins, trace
  <2> QED
    BY <2>1, SameTrace, SameView
<1> QED
  BY <1>1, <1>2, <1>3, <1>4

\* The Exec cycle of every instruction is its step, or a stutter when the
\* instruction goes on in later cycles.
LEMMA ExecIs ==
    ASSUME TypeOK, RingInv, IsaInv, ~wrapped, NEW io1 \in Level, NEW alert \in Level,
           Exec(io1, alert)
    PROVE  Promise!Next \/ UNCHANGED Promise!vars
<1>0. phase = "Exec"
  BY DEF Exec, ExecData, ExecRdsr, ExecBranch, ExecPin, ExecCrcReset, ExecSetConfig, ExecGetAlert,
     ExecHalt, ExecTrap, ExecPut, ExecGet, ExecTar, ExecMark, ExecWaitOn, Executing
<1>1. ASSUME NEW v, regs' = WriteReg(instrWord.rd, v), Advance,
             UNCHANGED <<alertSource, rxCrc, pins, beat, wait, trace, store>>,
             \/ /\ Op \in DataOps
                /\ v = DataResult(Op, instrWord, ReadReg(instrWord.rs1),
                                  ReadReg(instrWord.rs2), XLEN)
             \/ Op = "RDSR" /\ instrWord.imm = 0 /\ v = rxCrc
             \/ Op \in {"GET_ALERT", "WAIT_ON"} /\ v \in {{}, {0}}
      PROVE  Promise!Next
  <2>1. /\ phase' = "Fetch" /\ pc' = (pc + 1) % InstrSlots
        /\ UNCHANGED <<imem, alertSource, rxCrc, csN, rstN, ringPtr, ring, ovf, wrapped>>
    BY <1>1 DEF Advance, pins, trace, store
  <2>2. UNCHANGED <<Mode, Kept, Report>>
    BY <1>0, <2>1, SameTrace
  <2> QED
    BY <1>0, <1>1, <2>1, <2>2, ComputeIs DEF Within
<1>2. CASE ExecData
  BY <1>1, <1>2 DEF ExecData, Executing
<1>3. CASE ExecRdsr
  BY <1>1, <1>3, CanonicalSelector DEF ExecRdsr, Executing
<1>4. CASE ExecGetAlert(io1, alert)
  <2>1. Bit(AlertLevel(io1, alert)) \in {{}, {0}}
    BY DEF Bit
  <2> QED
    BY <1>1, <1>4, <2>1 DEF ExecGetAlert, Executing
<1>5. CASE ExecBranch \/ ExecPin \/ ExecCrcReset \/ ExecSetConfig
  BY <1>5, ControlIs
<1>6. CASE ExecHalt \/ ExecTrap
  BY <1>6, EndIs
<1>7. CASE ExecMark
  BY <1>7, MarkIs
<1>8. ASSUME phase' \in {"BusBeat", "WaitAlert"},
             UNCHANGED <<imem, pc, regs, alertSource, rxCrc, csN, rstN, ringPtr, ring, ovf,
                         wrapped>>
      PROVE  UNCHANGED Promise!vars
  BY <1>0, <1>8, SameTrace, SameView
<1>9. ASSUME NEW total, NEW byte, NEW work, NEW first, StartBeats(total, byte, work, first)
      PROVE  UNCHANGED Promise!vars
  BY <1>8, <1>9 DEF StartBeats, arch, trace, store
<1>10. CASE ExecPut
  BY <1>9, <1>10 DEF ExecPut
<1>11. CASE ExecGet
  BY <1>9, <1>11 DEF ExecGet
<1>12. CASE ExecTar
  <2>1. CASE \E total, byte, work, first : StartBeats(total, byte, work, first)
    BY <1>9, <2>1
  <2>2. CASE Advance /\ UNCHANGED <<arch, pins, beat, wait, trace, store>>
    <3>1. /\ phase' = "Fetch" /\ pc' = (pc + 1) % InstrSlots /\ Op \in {"TAR_IMM", "TAR_REG"}
          /\ UNCHANGED <<imem, regs, alertSource, rxCrc, csN, rstN, ringPtr, ring, ovf, wrapped>>
      BY <1>12, <2>2 DEF ExecTar, Executing, Advance, arch, pins, trace, store
    <3>2. UNCHANGED <<Mode, Kept, Report>>
      BY <1>0, <3>1, SameTrace
    <3> QED
      BY <1>0, <3>1, <3>2, PassIs DEF Within
  <2> QED
    BY <1>12, <2>1, <2>2 DEF ExecTar
<1>13. CASE ExecWaitOn
  BY <1>8, <1>13 DEF ExecWaitOn, arch, pins, trace, store
<1> QED
  BY <1>2, <1>3, <1>4, <1>5, <1>6, <1>7, <1>10, <1>11, <1>12, <1>13 DEF Exec

\* A WAIT_ON cycle stutters or ends the instruction as Compute.
LEMMA WaitIs ==
    ASSUME TypeOK, RingInv, IsaInv, ~wrapped, NEW io1 \in Level, NEW alert \in Level,
           WaitAlert(io1, alert)
    PROVE  Promise!Next \/ UNCHANGED Promise!vars
<1>1. /\ phase = "WaitAlert" /\ Op = "WAIT_ON" /\ pending.rd = instrWord.rd
      /\ UNCHANGED <<imem, alertSource, rxCrc, csN, rstN, ringPtr, ring, ovf, wrapped>>
  BY DEF WaitAlert, IsaInv, Deferred, Wait, pins, trace, store
<1>2. CASE Advance
  <2>1. PICK v \in {{}, {0}} : regs' = WriteReg(instrWord.rd, v)
    BY <1>1, <1>2 DEF WaitAlert, Advance
  <2>2. phase' = "Fetch" /\ pc' = (pc + 1) % InstrSlots
    BY <1>2 DEF Advance
  <2>3. UNCHANGED <<Mode, Kept, Report>>
    BY <1>1, <2>2, SameTrace
  <2> QED
    BY <1>1, <2>1, <2>2, <2>3, ComputeIs DEF Within
<1>3. CASE UNCHANGED <<phase, pc, regs>>
  BY <1>1, <1>3, SameTrace, SameView
<1> QED
  BY <1>2, <1>3 DEF WaitAlert

\* Inside a transfer nothing the reference machine sees changes.
LEMMA BeatIs ==
    ASSUME NEW io1 \in Level, Tick(io1) \/ NextBeat
    PROVE  UNCHANGED Promise!vars
<1>1. /\ phase = "BusBeat" /\ phase' = "BusBeat"
      /\ UNCHANGED <<imem, pc, regs, alertSource, rxCrc, csN, rstN, ringPtr, ring, ovf, wrapped>>
  BY DEF Tick, NextBeat, arch, trace, store
<1> QED
  BY <1>1, SameTrace, SameView

\* A cycle of a run neither goes idle nor changes the program, and it forgets
\* no accepted MARK.
RunGoesOn == /\ phase \notin {"Idle", "Halted"} /\ phase' # "Idle"
           /\ imem' = imem /\ (wrapped => wrapped')

\* Every Exec cycle is such a cycle.
LEMMA ExecRuns ==
    ASSUME NEW io1 \in Level, NEW alert \in Level, Exec(io1, alert)
    PROVE  RunGoesOn
<1>1. ASSUME Executing(DataOps) \/ Executing({"RDSR"}) \/ Executing(Branches), phase' = "Fetch",
             UNCHANGED <<trace, store>>
      PROVE  RunGoesOn
  BY <1>1 DEF Executing, RunGoesOn, trace, store
<1>2. ASSUME phase = "Exec", Advance, UNCHANGED <<trace, store>>
      PROVE  RunGoesOn
  BY <1>2 DEF RunGoesOn, Advance, trace, store
<1>3. CASE ExecData \/ ExecRdsr \/ ExecCrcReset \/ ExecSetConfig \/ ExecGetAlert(io1, alert)
  BY <1>2, <1>3 DEF ExecData, ExecRdsr, ExecCrcReset, ExecSetConfig, ExecGetAlert, Executing
<1>4. CASE ExecPin
  BY <1>2, <1>4 DEF ExecPin, Executing
<1>5. CASE ExecBranch
  BY <1>1, <1>5 DEF ExecBranch
<1>6. ASSUME NEW trap, NEW reason, NEW status, phase = "Exec", HaltWith(trap, reason, status)
      PROVE  RunGoesOn
  BY <1>6 DEF HaltWith, RunGoesOn, store
<1>7. CASE ExecHalt \/ ExecTrap
  BY <1>6, <1>7 DEF ExecHalt, ExecTrap, Trap, Executing
<1>8. ASSUME NEW total, NEW byte, NEW work, NEW first, phase = "Exec",
             StartBeats(total, byte, work, first)
      PROVE  RunGoesOn
  BY <1>8 DEF StartBeats, RunGoesOn, trace, store
<1>9. CASE ExecPut
  BY <1>8, <1>9 DEF ExecPut, Executing
<1>10. CASE ExecGet
  BY <1>8, <1>10 DEF ExecGet, Executing
<1>11. CASE ExecTar
  BY <1>2, <1>8, <1>11 DEF ExecTar, Executing
<1>12. CASE ExecMark
  <2>1. wrapped => wrapped'
    BY <1>12, Zenon DEF ExecMark
  <2> QED
    BY <1>12, <2>1 DEF ExecMark, Executing, Advance, RunGoesOn, store
<1>13. CASE ExecWaitOn
  BY <1>13 DEF ExecWaitOn, Executing, RunGoesOn, trace, store
<1> QED
  BY <1>3, <1>4, <1>5, <1>7, <1>9, <1>10, <1>11, <1>12, <1>13 DEF Exec

\* After the accepted MARK the reference machine promises no more than that.
LEMMA WrappedIs ==
    ASSUME TypeOK, wrapped, Cycle
    PROVE  Promise!Unpromised
<1>1. PICK io1, alert \in Level :
          \/ Preamble \/ Fetch \/ Exec(io1, alert) \/ Tick(io1) \/ NextBeat \/ Complete
          \/ TraceEmit \/ WaitAlert(io1, alert)
  BY DEF Cycle
<1>2. Complete \/ TraceEmit \/ Preamble \/ Fetch => RunGoesOn
  BY DEF Complete, TraceEmit, Preamble, Fetch, Advance, RunGoesOn, trace, store
<1>3. Tick(io1) \/ NextBeat => RunGoesOn
  BY DEF Tick, NextBeat, RunGoesOn, trace, store
<1>4. WaitAlert(io1, alert) => RunGoesOn
  BY DEF WaitAlert, Advance, RunGoesOn, trace, store
<1>5. RunGoesOn
  BY <1>1, <1>2, <1>3, <1>4, ExecRuns
<1>6. wrapped' = wrapped
  <2>1. wrapped' = TRUE
    BY <1>5 DEF RunGoesOn
  <2> QED
    BY <2>1, Zenon DEF TypeOK
<1> QED
  BY <1>5, <1>6 DEF Promise!Unpromised, Mode, RunGoesOn

\* Every step of the engine is a step of the reference machine or a stutter.
LEMMA StepIs ==
    TypeOK /\ RingInv /\ BusInv /\ IsaInv /\ [Next]_vars => [Promise!Next]_(Promise!vars)
<1> SUFFICES ASSUME TypeOK, RingInv, BusInv, IsaInv, [Next]_vars
             PROVE  Promise!Next \/ UNCHANGED Promise!vars
  OBVIOUS
<1>1. CASE UNCHANGED vars
  BY <1>1, SameView DEF vars, arch, pins, trace, store, Mode, Kept, Report
<1>2. CASE LoadProgram \/ Start
  BY <1>2, LifecycleIs
<1>3. CASE Cycle /\ wrapped
  BY <1>3, WrappedIs DEF Promise!Next
<1>4. CASE Cycle /\ ~wrapped
  <2>1. CASE Preamble \/ Fetch
    BY <2>1, LifecycleIs
  <2>2. ASSUME NEW io1 \in Level, NEW alert \in Level,
               Exec(io1, alert) \/ WaitAlert(io1, alert) \/ Tick(io1) \/ NextBeat
        PROVE  Promise!Next \/ UNCHANGED Promise!vars
    BY <1>4, <2>2, ExecIs, WaitIs, BeatIs
  <2>3. CASE Complete
    BY <1>4, <2>3, CompleteIs
  <2>4. CASE TraceEmit
    BY <1>4, <2>4, TraceEmitIs
  <2> QED
    BY <1>4, <2>1, <2>2, <2>3, <2>4 DEF Cycle
<1> QED
  BY <1>1, <1>2, <1>3, <1>4 DEF Next

\* The refinement: on the programs that run, the registers, CRC, pins, trace
\* words, overflow flag and outcome of the cycle-accurate engine (Engine.hs)
\* move one whole instruction at a time, as the reference interpreter of the
\* engine design says.
THEOREM EngineImplementsIsa == Spec => ImplementsIsa
<1> QED
  BY TypeCorrect, RingCorrect, BusCorrect, IsaCorrect, PromiseInit, StepIs, PTL
  DEF Spec, ImplementsIsa, Promise!Spec

=============================================================================
