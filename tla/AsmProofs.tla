----------------------------- MODULE AsmProofs -----------------------------
(***************************************************************************)
(* The host's decoder beside the rig's, for every word; and for every      *)
(* source the parser, the two passes of the assembler, and where the       *)
(* branches of a program without diagnostics land.                         *)
(***************************************************************************)
EXTENDS AsmProperties, SequenceTheorems, WellFoundedInduction, FiniteSetTheorems, TLAPS

-----------------------------------------------------------------------------
(* The instruction tables.                                                 *)

\* Where each opcode sits in the table of the host.
Place ==
    [CS_ASSERT |-> <<0, 0>>, CS_DEASSERT |-> <<0, 1>>, PUT_BYTE_IMM |-> <<0, 2>>,
     PUT_BYTE_REG |-> <<0, 3>>, GET_BYTE |-> <<0, 4>>, PUT_BITS_IMM |-> <<0, 5>>,
     PUT_BITS_REG |-> <<0, 6>>, GET_BITS |-> <<0, 7>>, TAR_IMM |-> <<0, 8>>,
     TAR_REG |-> <<0, 9>>, RST_ASSERT |-> <<0, 10>>, RST_DEASSERT |-> <<0, 11>>,
     GET_ALERT |-> <<0, 12>>,
     HALT |-> <<1, 0>>, BEQ |-> <<1, 1>>, BNE |-> <<1, 2>>, BLTU |-> <<1, 3>>,
     BGEU |-> <<1, 4>>, WAIT_ON |-> <<1, 5>>, SET_CONFIG |-> <<1, 6>>,
     MARK |-> <<1, 7>>, CRC_RESET |-> <<1, 8>>,
     LOAD_IMM |-> <<2, 0>>, LUI |-> <<2, 1>>, MOV |-> <<2, 2>>, ADD |-> <<2, 3>>,
     ADDI |-> <<2, 4>>, SUB |-> <<2, 5>>, AND |-> <<2, 6>>, ANDI |-> <<2, 7>>,
     OR |-> <<2, 8>>, ORI |-> <<2, 9>>, XOR |-> <<2, 10>>, XORI |-> <<2, 11>>,
     SHIFT |-> <<2, 12>>, RDSR |-> <<2, 13>>]

\* The opcodes of each layout, in the DATA group and in the others.
DataUsers ==
    [imm21 |-> {"LOAD_IMM", "LUI"}, mov |-> {"MOV"},
     rrr |-> {"ADD", "SUB", "AND", "OR", "XOR"},
     rri |-> {"ADDI", "ANDI", "ORI", "XORI"}, shift |-> {"SHIFT"}, rdsr |-> {"RDSR"}]
OtherUsers ==
    [none |-> {"CS_ASSERT", "CS_DEASSERT", "RST_ASSERT", "RST_DEASSERT", "CRC_RESET"},
     u8 |-> {"PUT_BYTE_IMM", "HALT"}, rs |-> {"PUT_BYTE_REG", "TAR_REG"},
     rd |-> {"GET_BYTE", "GET_ALERT"}, bits |-> {"PUT_BITS_IMM"},
     rsBits |-> {"PUT_BITS_REG"}, rdBits |-> {"GET_BITS"}, tar |-> {"TAR_IMM"},
     branch |-> {"BEQ", "BNE", "BLTU", "BGEU"}, wait |-> {"WAIT_ON"},
     cfg |-> {"SET_CONFIG"}, mark |-> {"MARK"}]

\* The row of sub-opcode n of group g: in the tables of the host and of the rig.
Row(g, n) ==
    LET op == Opcodes[g][n + 1][1]
        lay == Opcodes[g][n + 1][2]
    IN  /\ Rig!Mnemonics[g][n + 1] = op /\ Place[op] = <<g, n>>
        /\ IF g = 2 THEN lay \in DOMAIN DataUsers /\ op \in DataUsers[lay]
                    ELSE lay \in DOMAIN OtherUsers /\ op \in OtherUsers[lay]

LEMMA Lengths ==
    /\ Len(Opcodes[0]) = 13 /\ Len(Rig!Mnemonics[0]) = 13
    /\ Len(Opcodes[1]) = 9 /\ Len(Rig!Mnemonics[1]) = 9
    /\ Len(Opcodes[2]) = 14 /\ Len(Rig!Mnemonics[2]) = 14
    /\ Len(Opcodes[3]) = 0 /\ Len(Rig!Mnemonics[3]) = 0
BY DEF Opcodes, Rig!Mnemonics

LEMMA BusRows == \A n \in 0..12 : Row(0, n)
<1>1. /\ Row(0, 0) /\ Row(0, 1) /\ Row(0, 2) /\ Row(0, 3) /\ Row(0, 4) /\ Row(0, 5)
      /\ Row(0, 6) /\ Row(0, 7) /\ Row(0, 8) /\ Row(0, 9) /\ Row(0, 10) /\ Row(0, 11)
      /\ Row(0, 12)
  BY DEF Row, Place, Opcodes, Rig!Mnemonics, DataUsers, OtherUsers
<1> QED
  BY <1>1

LEMMA CtrlRows == \A n \in 0..8 : Row(1, n)
<1>1. /\ Row(1, 0) /\ Row(1, 1) /\ Row(1, 2) /\ Row(1, 3) /\ Row(1, 4) /\ Row(1, 5)
      /\ Row(1, 6) /\ Row(1, 7) /\ Row(1, 8)
  BY DEF Row, Place, Opcodes, Rig!Mnemonics, DataUsers, OtherUsers
<1> QED
  BY <1>1

LEMMA DataRows == \A n \in 0..13 : Row(2, n)
<1>1. /\ Row(2, 0) /\ Row(2, 1) /\ Row(2, 2) /\ Row(2, 3) /\ Row(2, 4) /\ Row(2, 5)
      /\ Row(2, 6) /\ Row(2, 7) /\ Row(2, 8) /\ Row(2, 9) /\ Row(2, 10) /\ Row(2, 11)
      /\ Row(2, 12) /\ Row(2, 13)
  BY DEF Row, Place, Opcodes, Rig!Mnemonics, DataUsers, OtherUsers
<1> QED
  BY <1>1

\* A place of the tables.
InTable(g, n) == g \in 0..2 /\ n \in 0..13 /\ n < Len(Opcodes[g])

LEMMA Rows ==
    ASSUME NEW g, NEW n, InTable(g, n) PROVE Row(g, n)
<1>1. CASE g = 0
  BY <1>1, BusRows, Lengths DEF InTable
<1>2. CASE g = 1
  BY <1>2, CtrlRows, Lengths DEF InTable
<1>3. CASE g = 2
  BY <1>3, DataRows, Lengths DEF InTable
<1> QED
  BY <1>1, <1>2, <1>3 DEF InTable

\* An opcode is in one place.
LEMMA Codes ==
    ASSUME NEW g, NEW n, InTable(g, n)
    PROVE  LET op == Opcodes[g][n + 1][1]
           IN  CodeOf[op] = <<g, n>> /\ LayoutOf[op] = Opcodes[g][n + 1][2]
<1> DEFINE op == Opcodes[g][n + 1][1]
           At(c) == c[2] < Len(Opcodes[c[1]]) /\ Opcodes[c[1]][c[2] + 1][1] = op
<1>1. op \in OpNames
  <2>1. g \in 0..3 /\ n + 1 \in 1..Len(Opcodes[g])
    BY Lengths DEF InTable
  <2> QED
    BY <2>1 DEF OpNames
<1>2. <<g, n>> \in (0..2) \X (0..13) /\ At(<<g, n>>)
  BY DEF InTable
<1>3. ASSUME NEW c \in (0..2) \X (0..13), At(c) PROVE c = <<g, n>>
  <2>1. InTable(c[1], c[2])
    BY <1>3 DEF InTable
  <2>2. Place[op] = <<c[1], c[2]>>
    <3>1. Row(c[1], c[2])
      BY <2>1, Rows
    <3> QED
      BY <1>3, <3>1 DEF Row
  <2>3. Place[op] = <<g, n>>
    BY Rows DEF Row
  <2> QED
    BY <2>2, <2>3
<1>4. CodeOf[op] = CHOOSE c \in (0..2) \X (0..13) : At(c)
  <2> HIDE DEF op
  <2> QED
    BY <1>1, Zenon DEF CodeOf
<1>5. CodeOf[op] = <<g, n>>
  <2> HIDE DEF At
  <2> QED
    BY <1>2, <1>3, <1>4
<1>6. LayoutOf[op] = Opcodes[g][n + 1][2]
  <2> HIDE DEF op
  <2>1. LayoutOf[op] = Opcodes[CodeOf[op][1]][CodeOf[op][2] + 1][2]
    BY <1>1, Zenon DEF LayoutOf
  <2> QED
    BY <1>5, <2>1
<1> QED
  BY <1>5, <1>6

-----------------------------------------------------------------------------
(* The layouts.                                                            *)

Word32 == Rig!InstrWord

\* What the two decoders have to agree on, of a word whose opcode is op: the
\* host's result r against the reserved bits of the rig.
Agrees(r, op, w) ==
    IF Rig!ReservedZero(op, w) THEN IsOk(r) /\ r.ok.op = op /\ Encode(r.ok) = w
    ELSE ~IsOk(r) /\ r.err = "ReservedFieldNonZero"

LEMMA OnlyAgrees ==
    ASSUME NEW zero, NEW args, NEW op, NEW w, Rig!ReservedZero(op, w) <=> zero,
           zero => Encode(Instr(op, args)) = w
    PROVE  Agrees(Only(zero, Instr(op, args)), op, w)
BY DEF Agrees, Only, IsOk, Ok, Err, Instr

\* A word whose opcode is op and has the layout lay.
IsWord(w, op, lay) ==
    w \in Word32 /\ CodeOf[op] = <<w.grp, w.sub>> /\ LayoutOf[op] = lay

LEMMA Joined ==
    ASSUME NEW op, NEW lay, NEW w, IsWord(w, op, lay),
           NEW rd, rd = w.rd, NEW rs1, rs1 = w.rs1, NEW rs2, rs2 = w.rs2,
           NEW imm, imm = w.imm
    PROVE  JoinWord(op, rd, rs1, rs2, imm) = w
BY DEF JoinWord, IsWord, Word32, Rig!InstrWord

\* The parts of an immediate.
LEMMA Parts ==
    ASSUME NEW i \in 0..2047
    PROVE  /\ (i \div 256) * 256 + (i % 256) = i
           /\ (i \div 512) * 512 + (i % 512) = i
           /\ ShiftOk(i) => (i \div 512) * 512 + (i % 32) = i
           /\ (i \div 256 + 1) - 1 = i \div 256
BY DEF ShiftOk

LEMMA LayoutNone ==
    ASSUME NEW op, NEW w, IsWord(w, op, "none"), op \in OtherUsers.none
    PROVE  Agrees(DecodeBusOrCtrl(op, "none", w), op, w)
<1> DEFINE zero == Zeros(w, {"rd", "rs1", "rs2", "imm"})
           args == <<>>
<1>1. DecodeBusOrCtrl(op, "none", w) = Only(zero, Instr(op, args))
  BY DEF DecodeBusOrCtrl
<1>2. Rig!ReservedZero(op, w) <=> zero
  BY DEF OtherUsers, IsWord, Word32, Rig!InstrWord, Zeros, Rig!ReservedZero, Rig!ImmOk,
         Rig!UsesRd, Rig!UsesRs1, Rig!UsesRs2, Rig!DataOps, Rig!Immediates, Rig!RegReg,
         Rig!RegImm, Rig!Branches
<1>3. ASSUME zero PROVE Encode(Instr(op, args)) = w
  <2>1. Encode(Instr(op, args)) = JoinWord(op, 0, 0, 0, 0)
    BY DEF Encode, Instr, IsWord
  <2>2. 0 = w.rd /\ 0 = w.rs1 /\ 0 = w.rs2 /\ 0 = w.imm
    BY <1>3 DEF IsWord, Word32, Rig!InstrWord, Zeros
  <2> QED
    BY <2>1, <2>2, Joined
<1> HIDE DEF zero, args
<1> QED
  BY <1>1, <1>2, <1>3, OnlyAgrees

LEMMA LayoutU8 ==
    ASSUME NEW op, NEW w, IsWord(w, op, "u8"), op \in OtherUsers.u8
    PROVE  Agrees(DecodeBusOrCtrl(op, "u8", w), op, w)
<1> DEFINE zero == Zeros(w, {"rd", "rs1", "rs2"}) /\ w.imm \div 256 = 0
           args == <<w.imm % 256>>
<1>1. DecodeBusOrCtrl(op, "u8", w) = Only(zero, Instr(op, args))
  BY DEF DecodeBusOrCtrl
<1>2. Rig!ReservedZero(op, w) <=> zero
  BY DEF OtherUsers, IsWord, Word32, Rig!InstrWord, Zeros, Rig!ReservedZero, Rig!ImmOk,
         Rig!UsesRd, Rig!UsesRs1, Rig!UsesRs2, Rig!DataOps, Rig!Immediates, Rig!RegReg,
         Rig!RegImm, Rig!Branches
<1>3. ASSUME zero PROVE Encode(Instr(op, args)) = w
  <2>1. Encode(Instr(op, args)) = JoinWord(op, 0, 0, 0, w.imm % 256)
    BY DEF Encode, Instr, IsWord
  <2>2. 0 = w.rd /\ 0 = w.rs1 /\ 0 = w.rs2 /\ w.imm % 256 = w.imm
    BY <1>3 DEF IsWord, Word32, Rig!InstrWord, Zeros
  <2> QED
    BY <2>1, <2>2, Joined
<1> HIDE DEF zero, args
<1> QED
  BY <1>1, <1>2, <1>3, OnlyAgrees

LEMMA LayoutRs ==
    ASSUME NEW op, NEW w, IsWord(w, op, "rs"), op \in OtherUsers.rs
    PROVE  Agrees(DecodeBusOrCtrl(op, "rs", w), op, w)
<1> DEFINE zero == Zeros(w, {"rd", "rs2", "imm"})
           args == <<w.rs1>>
<1>1. DecodeBusOrCtrl(op, "rs", w) = Only(zero, Instr(op, args))
  BY DEF DecodeBusOrCtrl
<1>2. Rig!ReservedZero(op, w) <=> zero
  BY DEF OtherUsers, IsWord, Word32, Rig!InstrWord, Zeros, Rig!ReservedZero, Rig!ImmOk,
         Rig!UsesRd, Rig!UsesRs1, Rig!UsesRs2, Rig!DataOps, Rig!Immediates, Rig!RegReg,
         Rig!RegImm, Rig!Branches
<1>3. ASSUME zero PROVE Encode(Instr(op, args)) = w
  <2>1. Encode(Instr(op, args)) = JoinWord(op, 0, w.rs1, 0, 0)
    BY DEF Encode, Instr, IsWord
  <2>2. 0 = w.rd /\ 0 = w.rs2 /\ 0 = w.imm
    BY <1>3 DEF IsWord, Word32, Rig!InstrWord, Zeros
  <2> QED
    BY <2>1, <2>2, Joined
<1> HIDE DEF zero, args
<1> QED
  BY <1>1, <1>2, <1>3, OnlyAgrees

LEMMA LayoutRd ==
    ASSUME NEW op, NEW w, IsWord(w, op, "rd"), op \in OtherUsers.rd
    PROVE  Agrees(DecodeBusOrCtrl(op, "rd", w), op, w)
<1> DEFINE zero == Zeros(w, {"rs1", "rs2", "imm"})
           args == <<w.rd>>
<1>1. DecodeBusOrCtrl(op, "rd", w) = Only(zero, Instr(op, args))
  BY DEF DecodeBusOrCtrl
<1>2. Rig!ReservedZero(op, w) <=> zero
  BY DEF OtherUsers, IsWord, Word32, Rig!InstrWord, Zeros, Rig!ReservedZero, Rig!ImmOk,
         Rig!UsesRd, Rig!UsesRs1, Rig!UsesRs2, Rig!DataOps, Rig!Immediates, Rig!RegReg,
         Rig!RegImm, Rig!Branches
<1>3. ASSUME zero PROVE Encode(Instr(op, args)) = w
  <2>1. Encode(Instr(op, args)) = JoinWord(op, w.rd, 0, 0, 0)
    BY DEF Encode, Instr, IsWord
  <2>2. 0 = w.rs1 /\ 0 = w.rs2 /\ 0 = w.imm
    BY <1>3 DEF IsWord, Word32, Rig!InstrWord, Zeros
  <2> QED
    BY <2>1, <2>2, Joined
<1> HIDE DEF zero, args
<1> QED
  BY <1>1, <1>2, <1>3, OnlyAgrees

LEMMA LayoutBits ==
    ASSUME NEW op, NEW w, IsWord(w, op, "bits"), op \in OtherUsers.bits
    PROVE  Agrees(DecodeBusOrCtrl(op, "bits", w), op, w)
<1> DEFINE hi == w.imm \div 256
           lo == w.imm % 256
           zero == Zeros(w, {"rd", "rs1", "rs2"})
           args == <<hi + 1, lo>>
<1>1. DecodeBusOrCtrl(op, "bits", w) = Only(zero, Instr(op, args))
  BY DEF DecodeBusOrCtrl
<1>2. Rig!ReservedZero(op, w) <=> zero
  BY DEF OtherUsers, IsWord, Word32, Rig!InstrWord, Zeros, Rig!ReservedZero, Rig!ImmOk,
         Rig!UsesRd, Rig!UsesRs1, Rig!UsesRs2, Rig!DataOps, Rig!Immediates, Rig!RegReg,
         Rig!RegImm, Rig!Branches
<1>3. ASSUME zero PROVE Encode(Instr(op, args)) = w
  <2>1. Encode(Instr(op, args)) = JoinWord(op, 0, 0, 0, ((hi + 1) - 1) * 256 + lo)
    <3> HIDE DEF hi, lo
    <3> QED
      BY DEF Encode, Instr, IsWord
  <2>2. ((hi + 1) - 1) * 256 + lo = w.imm
    <3>1. w.imm \in 0..2047
      BY DEF IsWord, Word32, Rig!InstrWord
    <3> QED
      BY <3>1, Parts, SMTT(30)
  <2>3. 0 = w.rd /\ 0 = w.rs1 /\ 0 = w.rs2
    BY <1>3 DEF Zeros
  <2> HIDE DEF hi, lo
  <2> QED
    BY <2>1, <2>2, <2>3, Joined
<1> HIDE DEF hi, lo, zero, args
<1> QED
  BY <1>1, <1>2, <1>3, OnlyAgrees

LEMMA LayoutRsBits ==
    ASSUME NEW op, NEW w, IsWord(w, op, "rsBits"), op \in OtherUsers.rsBits
    PROVE  Agrees(DecodeBusOrCtrl(op, "rsBits", w), op, w)
<1> DEFINE n == w.imm \div 256 + 1
           zero == Zeros(w, {"rd", "rs2"}) /\ w.imm % 256 = 0
           args == <<w.rs1, n>>
<1>1. DecodeBusOrCtrl(op, "rsBits", w) = Only(zero, Instr(op, args))
  BY DEF DecodeBusOrCtrl
<1>2. Rig!ReservedZero(op, w) <=> zero
  BY DEF OtherUsers, IsWord, Word32, Rig!InstrWord, Zeros, Rig!ReservedZero, Rig!ImmOk,
         Rig!UsesRd, Rig!UsesRs1, Rig!UsesRs2, Rig!DataOps, Rig!Immediates, Rig!RegReg,
         Rig!RegImm, Rig!Branches
<1>3. ASSUME zero PROVE Encode(Instr(op, args)) = w
  <2>1. Encode(Instr(op, args)) = JoinWord(op, 0, w.rs1, 0, (n - 1) * 256)
    BY DEF Encode, Instr, IsWord
  <2>2. 0 = w.rd /\ 0 = w.rs2 /\ (n - 1) * 256 = w.imm
    BY <1>3 DEF IsWord, Word32, Rig!InstrWord, Zeros
  <2> QED
    BY <2>1, <2>2, Joined
<1> HIDE DEF n, zero, args
<1> QED
  BY <1>1, <1>2, <1>3, OnlyAgrees

LEMMA LayoutRdBits ==
    ASSUME NEW op, NEW w, IsWord(w, op, "rdBits"), op \in OtherUsers.rdBits
    PROVE  Agrees(DecodeBusOrCtrl(op, "rdBits", w), op, w)
<1> DEFINE n == w.imm \div 256 + 1
           zero == Zeros(w, {"rs1", "rs2"}) /\ w.imm % 256 = 0
           args == <<w.rd, n>>
<1>1. DecodeBusOrCtrl(op, "rdBits", w) = Only(zero, Instr(op, args))
  BY DEF DecodeBusOrCtrl
<1>2. Rig!ReservedZero(op, w) <=> zero
  BY DEF OtherUsers, IsWord, Word32, Rig!InstrWord, Zeros, Rig!ReservedZero, Rig!ImmOk,
         Rig!UsesRd, Rig!UsesRs1, Rig!UsesRs2, Rig!DataOps, Rig!Immediates, Rig!RegReg,
         Rig!RegImm, Rig!Branches
<1>3. ASSUME zero PROVE Encode(Instr(op, args)) = w
  <2>1. Encode(Instr(op, args)) = JoinWord(op, w.rd, 0, 0, (n - 1) * 256)
    BY DEF Encode, Instr, IsWord
  <2>2. 0 = w.rs1 /\ 0 = w.rs2 /\ (n - 1) * 256 = w.imm
    BY <1>3 DEF IsWord, Word32, Rig!InstrWord, Zeros
  <2> QED
    BY <2>1, <2>2, Joined
<1> HIDE DEF n, zero, args
<1> QED
  BY <1>1, <1>2, <1>3, OnlyAgrees

LEMMA LayoutTar ==
    ASSUME NEW op, NEW w, IsWord(w, op, "tar"), op \in OtherUsers.tar
    PROVE  Agrees(DecodeBusOrCtrl(op, "tar", w), op, w)
<1> DEFINE zero == Zeros(w, {"rd", "rs1", "rs2"}) /\ w.imm \div 16 = 0
           args == <<w.imm % 16>>
<1>1. DecodeBusOrCtrl(op, "tar", w) = Only(zero, Instr(op, args))
  BY DEF DecodeBusOrCtrl
<1>2. Rig!ReservedZero(op, w) <=> zero
  BY DEF OtherUsers, IsWord, Word32, Rig!InstrWord, Zeros, Rig!ReservedZero, Rig!ImmOk,
         Rig!UsesRd, Rig!UsesRs1, Rig!UsesRs2, Rig!DataOps, Rig!Immediates, Rig!RegReg,
         Rig!RegImm, Rig!Branches
<1>3. ASSUME zero PROVE Encode(Instr(op, args)) = w
  <2>1. Encode(Instr(op, args)) = JoinWord(op, 0, 0, 0, w.imm % 16)
    BY DEF Encode, Instr, IsWord
  <2>2. 0 = w.rd /\ 0 = w.rs1 /\ 0 = w.rs2 /\ w.imm % 16 = w.imm
    BY <1>3 DEF IsWord, Word32, Rig!InstrWord, Zeros
  <2> QED
    BY <2>1, <2>2, Joined
<1> HIDE DEF zero, args
<1> QED
  BY <1>1, <1>2, <1>3, OnlyAgrees

LEMMA LayoutBranch ==
    ASSUME NEW op, NEW w, IsWord(w, op, "branch"), op \in OtherUsers.branch
    PROVE  Agrees(DecodeBusOrCtrl(op, "branch", w), op, w)
<1> DEFINE zero == Zeros(w, {"rd"})
           args == <<w.rs1, w.rs2, w.imm>>
<1>1. DecodeBusOrCtrl(op, "branch", w) = Only(zero, Instr(op, args))
  BY DEF DecodeBusOrCtrl
<1>2. Rig!ReservedZero(op, w) <=> zero
  BY DEF OtherUsers, IsWord, Word32, Rig!InstrWord, Zeros, Rig!ReservedZero, Rig!ImmOk,
         Rig!UsesRd, Rig!UsesRs1, Rig!UsesRs2, Rig!DataOps, Rig!Immediates, Rig!RegReg,
         Rig!RegImm, Rig!Branches
<1>3. ASSUME zero PROVE Encode(Instr(op, args)) = w
  <2>1. Encode(Instr(op, args)) = JoinWord(op, 0, w.rs1, w.rs2, w.imm)
    BY DEF Encode, Instr, IsWord
  <2>2. 0 = w.rd
    BY <1>3 DEF IsWord, Word32, Rig!InstrWord, Zeros
  <2> QED
    BY <2>1, <2>2, Joined
<1> HIDE DEF zero, args
<1> QED
  BY <1>1, <1>2, <1>3, OnlyAgrees

LEMMA LayoutWait ==
    ASSUME NEW op, NEW w, IsWord(w, op, "wait"), op \in OtherUsers.wait
    PROVE  Agrees(DecodeBusOrCtrl(op, "wait", w), op, w)
<1> DEFINE hi == w.imm \div 512
           lo == w.imm % 512
           zero == Zeros(w, {"rs1", "rs2"})
           args == <<w.rd, hi, lo>>
<1>1. DecodeBusOrCtrl(op, "wait", w) = Only(zero, Instr(op, args))
  BY DEF DecodeBusOrCtrl
<1>2. Rig!ReservedZero(op, w) <=> zero
  BY DEF OtherUsers, IsWord, Word32, Rig!InstrWord, Zeros, Rig!ReservedZero, Rig!ImmOk,
         Rig!UsesRd, Rig!UsesRs1, Rig!UsesRs2, Rig!DataOps, Rig!Immediates, Rig!RegReg,
         Rig!RegImm, Rig!Branches
<1>3. ASSUME zero PROVE Encode(Instr(op, args)) = w
  <2>1. Encode(Instr(op, args)) = JoinWord(op, w.rd, 0, 0, hi * 512 + lo)
    <3> HIDE DEF hi, lo
    <3> QED
      BY DEF Encode, Instr, IsWord
  <2>2. hi * 512 + lo = w.imm
    <3>1. w.imm \in 0..2047
      BY DEF IsWord, Word32, Rig!InstrWord
    <3> QED
      BY <3>1, Parts, SMTT(30)
  <2>3. 0 = w.rs1 /\ 0 = w.rs2
    BY <1>3 DEF Zeros
  <2> HIDE DEF hi, lo
  <2> QED
    BY <2>1, <2>2, <2>3, Joined
<1> HIDE DEF hi, lo, zero, args
<1> QED
  BY <1>1, <1>2, <1>3, OnlyAgrees

LEMMA LayoutCfg ==
    ASSUME NEW op, NEW w, IsWord(w, op, "cfg"), op \in OtherUsers.cfg
    PROVE  Agrees(DecodeBusOrCtrl(op, "cfg", w), op, w)
<1> DEFINE zero == Zeros(w, {"rd", "rs1", "rs2"}) /\ w.imm \div 64 = 0
           args == <<w.imm % 64>>
<1>1. DecodeBusOrCtrl(op, "cfg", w) = Only(zero, Instr(op, args))
  BY DEF DecodeBusOrCtrl
<1>2. Rig!ReservedZero(op, w) <=> zero
  BY DEF OtherUsers, IsWord, Word32, Rig!InstrWord, Zeros, Rig!ReservedZero, Rig!ImmOk,
         Rig!UsesRd, Rig!UsesRs1, Rig!UsesRs2, Rig!DataOps, Rig!Immediates, Rig!RegReg,
         Rig!RegImm, Rig!Branches
<1>3. ASSUME zero PROVE Encode(Instr(op, args)) = w
  <2>1. Encode(Instr(op, args)) = JoinWord(op, 0, 0, 0, w.imm % 64)
    BY DEF Encode, Instr, IsWord
  <2>2. 0 = w.rd /\ 0 = w.rs1 /\ 0 = w.rs2 /\ w.imm % 64 = w.imm
    BY <1>3 DEF IsWord, Word32, Rig!InstrWord, Zeros
  <2> QED
    BY <2>1, <2>2, Joined
<1> HIDE DEF zero, args
<1> QED
  BY <1>1, <1>2, <1>3, OnlyAgrees

LEMMA LayoutMark ==
    ASSUME NEW op, NEW w, IsWord(w, op, "mark"), op \in OtherUsers.mark
    PROVE  Agrees(DecodeBusOrCtrl(op, "mark", w), op, w)
<1> DEFINE zero == Zeros(w, {"rd", "rs2"})
           args == <<w.imm, w.rs1>>
<1>1. DecodeBusOrCtrl(op, "mark", w) = Only(zero, Instr(op, args))
  BY DEF DecodeBusOrCtrl
<1>2. Rig!ReservedZero(op, w) <=> zero
  BY DEF OtherUsers, IsWord, Word32, Rig!InstrWord, Zeros, Rig!ReservedZero, Rig!ImmOk,
         Rig!UsesRd, Rig!UsesRs1, Rig!UsesRs2, Rig!DataOps, Rig!Immediates, Rig!RegReg,
         Rig!RegImm, Rig!Branches
<1>3. ASSUME zero PROVE Encode(Instr(op, args)) = w
  <2>1. Encode(Instr(op, args)) = JoinWord(op, 0, w.rs1, 0, w.imm)
    BY DEF Encode, Instr, IsWord
  <2>2. 0 = w.rd /\ 0 = w.rs2
    BY <1>3 DEF IsWord, Word32, Rig!InstrWord, Zeros
  <2> QED
    BY <2>1, <2>2, Joined
<1> HIDE DEF zero, args
<1> QED
  BY <1>1, <1>2, <1>3, OnlyAgrees

LEMMA LayoutImm21 ==
    ASSUME NEW op, NEW w, IsWord(w, op, "imm21"), op \in DataUsers.imm21
    PROVE  Agrees(DecodeData(op, "imm21", w), op, w)
<1> DEFINE v == w.rs1 * 2^16 + w.rs2 * 2^11 + w.imm
           zero == TRUE
           args == <<w.rd, v>>
<1>1. DecodeData(op, "imm21", w) = Only(zero, Instr(op, args))
  BY DEF DecodeData
<1>2. Rig!ReservedZero(op, w) <=> zero
  BY DEF DataUsers, IsWord, Word32, Rig!InstrWord, Zeros, Rig!ReservedZero, Rig!ImmOk,
         Rig!UsesRd, Rig!UsesRs1, Rig!UsesRs2, Rig!DataOps, Rig!Immediates, Rig!RegReg,
         Rig!RegImm, Rig!Branches
<1>3. Encode(Instr(op, args)) = w
  <2>0. 2^16 = 65536 /\ 2^11 = 2048
    OBVIOUS
  <2>1. Encode(Instr(op, args)) = JoinWord(op, w.rd, v \div 2^16, (v \div 2^11) % 32, v % 2^11)
    <3> HIDE DEF v
    <3> QED
      BY DEF Encode, Instr, IsWord
  <2>2. v \div 2^16 = w.rs1 /\ (v \div 2^11) % 32 = w.rs2 /\ v % 2^11 = w.imm
    <3> DEFINE a == w.rs1
               b == w.rs2
               c == w.imm
    <3>1. a \in 0..31 /\ b \in 0..31 /\ c \in 0..2047
      BY DEF IsWord, Word32, Rig!InstrWord
    <3>2. v = a * 65536 + b * 2048 + c
      BY <2>0
    <3> HIDE DEF v, a, b, c
    <3>3. v \div 65536 = a /\ (v \div 2048) % 32 = b /\ v % 2048 = c
      BY <3>1, <3>2
    <3> QED
      BY <2>0, <3>3 DEF a, b, c
  <2> HIDE DEF v
  <2> QED
    BY <2>1, <2>2, Joined
<1> HIDE DEF v, zero, args
<1> QED
  BY <1>1, <1>2, <1>3, OnlyAgrees

LEMMA LayoutMov ==
    ASSUME NEW op, NEW w, IsWord(w, op, "mov"), op \in DataUsers.mov
    PROVE  Agrees(DecodeData(op, "mov", w), op, w)
<1> DEFINE zero == Zeros(w, {"rs2", "imm"})
           args == <<w.rd, w.rs1>>
<1>1. DecodeData(op, "mov", w) = Only(zero, Instr(op, args))
  BY DEF DecodeData
<1>2. Rig!ReservedZero(op, w) <=> zero
  BY DEF DataUsers, IsWord, Word32, Rig!InstrWord, Zeros, Rig!ReservedZero, Rig!ImmOk,
         Rig!UsesRd, Rig!UsesRs1, Rig!UsesRs2, Rig!DataOps, Rig!Immediates, Rig!RegReg,
         Rig!RegImm, Rig!Branches
<1>3. ASSUME zero PROVE Encode(Instr(op, args)) = w
  <2>1. Encode(Instr(op, args)) = JoinWord(op, w.rd, w.rs1, 0, 0)
    BY DEF Encode, Instr, IsWord
  <2>2. 0 = w.rs2 /\ 0 = w.imm
    BY <1>3 DEF IsWord, Word32, Rig!InstrWord, Zeros
  <2> QED
    BY <2>1, <2>2, Joined
<1> HIDE DEF zero, args
<1> QED
  BY <1>1, <1>2, <1>3, OnlyAgrees

LEMMA LayoutRrr ==
    ASSUME NEW op, NEW w, IsWord(w, op, "rrr"), op \in DataUsers.rrr
    PROVE  Agrees(DecodeData(op, "rrr", w), op, w)
<1> DEFINE zero == Zeros(w, {"imm"})
           args == <<w.rd, w.rs1, w.rs2>>
<1>1. DecodeData(op, "rrr", w) = Only(zero, Instr(op, args))
  BY DEF DecodeData
<1>2. Rig!ReservedZero(op, w) <=> zero
  BY DEF DataUsers, IsWord, Word32, Rig!InstrWord, Zeros, Rig!ReservedZero, Rig!ImmOk,
         Rig!UsesRd, Rig!UsesRs1, Rig!UsesRs2, Rig!DataOps, Rig!Immediates, Rig!RegReg,
         Rig!RegImm, Rig!Branches
<1>3. ASSUME zero PROVE Encode(Instr(op, args)) = w
  <2>1. Encode(Instr(op, args)) = JoinWord(op, w.rd, w.rs1, w.rs2, 0)
    BY DEF Encode, Instr, IsWord
  <2>2. 0 = w.imm
    BY <1>3 DEF IsWord, Word32, Rig!InstrWord, Zeros
  <2> QED
    BY <2>1, <2>2, Joined
<1> HIDE DEF zero, args
<1> QED
  BY <1>1, <1>2, <1>3, OnlyAgrees

LEMMA LayoutRri ==
    ASSUME NEW op, NEW w, IsWord(w, op, "rri"), op \in DataUsers.rri
    PROVE  Agrees(DecodeData(op, "rri", w), op, w)
<1> DEFINE zero == Zeros(w, {"rs2"})
           args == <<w.rd, w.rs1, w.imm>>
<1>1. DecodeData(op, "rri", w) = Only(zero, Instr(op, args))
  BY DEF DecodeData
<1>2. Rig!ReservedZero(op, w) <=> zero
  BY DEF DataUsers, IsWord, Word32, Rig!InstrWord, Zeros, Rig!ReservedZero, Rig!ImmOk,
         Rig!UsesRd, Rig!UsesRs1, Rig!UsesRs2, Rig!DataOps, Rig!Immediates, Rig!RegReg,
         Rig!RegImm, Rig!Branches
<1>3. ASSUME zero PROVE Encode(Instr(op, args)) = w
  <2>1. Encode(Instr(op, args)) = JoinWord(op, w.rd, w.rs1, 0, w.imm)
    BY DEF Encode, Instr, IsWord
  <2>2. 0 = w.rs2
    BY <1>3 DEF IsWord, Word32, Rig!InstrWord, Zeros
  <2> QED
    BY <2>1, <2>2, Joined
<1> HIDE DEF zero, args
<1> QED
  BY <1>1, <1>2, <1>3, OnlyAgrees

LEMMA LayoutShift ==
    ASSUME NEW op, NEW w, IsWord(w, op, "shift"), op \in DataUsers.shift
    PROVE  Agrees(DecodeData(op, "shift", w), op, w)
<1> DEFINE hi == w.imm \div 512
           lo == w.imm % 32
           zero == Zeros(w, {"rs2"}) /\ ShiftOk(w.imm)
           args == <<w.rd, w.rs1, hi, lo>>
<1>1. DecodeData(op, "shift", w) = Only(zero, Instr(op, args))
  BY DEF DecodeData
<1>2. Rig!ReservedZero(op, w) <=> zero
  BY DEF DataUsers, IsWord, Word32, Rig!InstrWord, Zeros, ShiftOk, Rig!ReservedZero,
         Rig!ImmOk, Rig!UsesRd, Rig!UsesRs1, Rig!UsesRs2, Rig!DataOps, Rig!Immediates,
         Rig!RegReg, Rig!RegImm, Rig!Branches
<1>3. ASSUME zero PROVE Encode(Instr(op, args)) = w
  <2>1. Encode(Instr(op, args)) = JoinWord(op, w.rd, w.rs1, 0, hi * 512 + lo)
    <3> HIDE DEF hi, lo
    <3> QED
      BY DEF Encode, Instr, IsWord
  <2>2. hi * 512 + lo = w.imm
    <3>1. w.imm \in 0..2047
      BY DEF IsWord, Word32, Rig!InstrWord
    <3> QED
      BY <1>3, <3>1, Parts, SMTT(30)
  <2>3. 0 = w.rs2
    BY <1>3 DEF Zeros
  <2> HIDE DEF hi, lo
  <2> QED
    BY <2>1, <2>2, <2>3, Joined
<1> HIDE DEF zero, args, hi, lo
<1> QED
  BY <1>1, <1>2, <1>3, OnlyAgrees

LEMMA LayoutRdsr ==
    ASSUME NEW op, NEW w, IsWord(w, op, "rdsr"), op \in DataUsers.rdsr
    PROVE  Agrees(DecodeData(op, "rdsr", w), op, w)
<1> DEFINE zero == Zeros(w, {"rs1", "rs2"}) /\ w.imm \div 32 = 0
           args == <<w.rd, w.imm % 32>>
<1>1. DecodeData(op, "rdsr", w) = Only(zero, Instr(op, args))
  BY DEF DecodeData
<1>2. Rig!ReservedZero(op, w) <=> zero
  BY DEF DataUsers, IsWord, Word32, Rig!InstrWord, Zeros, Rig!ReservedZero, Rig!ImmOk,
         Rig!UsesRd, Rig!UsesRs1, Rig!UsesRs2, Rig!DataOps, Rig!Immediates, Rig!RegReg,
         Rig!RegImm, Rig!Branches
<1>3. ASSUME zero PROVE Encode(Instr(op, args)) = w
  <2>1. Encode(Instr(op, args)) = JoinWord(op, w.rd, 0, 0, w.imm % 32)
    BY DEF Encode, Instr, IsWord
  <2>2. 0 = w.rs1 /\ 0 = w.rs2 /\ w.imm % 32 = w.imm
    BY <1>3 DEF IsWord, Word32, Rig!InstrWord, Zeros
  <2> QED
    BY <2>1, <2>2, Joined
<1> HIDE DEF zero, args
<1> QED
  BY <1>1, <1>2, <1>3, OnlyAgrees

-----------------------------------------------------------------------------
(* The decoders.                                                           *)

LEMMA OtherLayouts ==
    ASSUME NEW op, NEW lay, NEW w, IsWord(w, op, lay),
           lay \in DOMAIN OtherUsers, op \in OtherUsers[lay]
    PROVE  Agrees(DecodeBusOrCtrl(op, lay, w), op, w)
<1>1. lay \in {"none", "u8", "rs", "rd", "bits", "rsBits", "rdBits", "tar", "branch",
               "wait", "cfg", "mark"}
  BY DEF OtherUsers
<1>2. CASE lay = "none"
  BY <1>2, LayoutNone
<1>3. CASE lay = "u8"
  BY <1>3, LayoutU8
<1>4. CASE lay = "rs"
  BY <1>4, LayoutRs
<1>5. CASE lay = "rd"
  BY <1>5, LayoutRd
<1>6. CASE lay = "bits"
  BY <1>6, LayoutBits
<1>7. CASE lay = "rsBits"
  BY <1>7, LayoutRsBits
<1>8. CASE lay = "rdBits"
  BY <1>8, LayoutRdBits
<1>9. CASE lay = "tar"
  BY <1>9, LayoutTar
<1>10. CASE lay = "branch"
  BY <1>10, LayoutBranch
<1>11. CASE lay = "wait"
  BY <1>11, LayoutWait
<1>12. CASE lay = "cfg"
  BY <1>12, LayoutCfg
<1>13. CASE lay = "mark"
  BY <1>13, LayoutMark
<1> QED
  BY <1>1, <1>2, <1>3, <1>4, <1>5, <1>6, <1>7, <1>8, <1>9, <1>10, <1>11, <1>12, <1>13

LEMMA DataLayouts ==
    ASSUME NEW op, NEW lay, NEW w, IsWord(w, op, lay),
           lay \in DOMAIN DataUsers, op \in DataUsers[lay]
    PROVE  Agrees(DecodeData(op, lay, w), op, w)
<1>1. lay \in {"imm21", "mov", "rrr", "rri", "shift", "rdsr"}
  BY DEF DataUsers
<1>2. CASE lay = "imm21"
  BY <1>2, LayoutImm21
<1>3. CASE lay = "mov"
  BY <1>3, LayoutMov
<1>4. CASE lay = "rrr"
  BY <1>4, LayoutRrr
<1>5. CASE lay = "rri"
  BY <1>5, LayoutRri
<1>6. CASE lay = "shift"
  BY <1>6, LayoutShift
<1>7. CASE lay = "rdsr"
  BY <1>7, LayoutRdsr
<1> QED
  BY <1>1, <1>2, <1>3, <1>4, <1>5, <1>6, <1>7

\* For every word, the host's decoder (isa.rs) and the rig's (Isa.hs) accept it
\* as the same instruction or reject it for the same reason, and the host's
\* encoder gives an accepted word back bit for bit.
THEOREM OneInstructionSet == word \in Rig!InstrWord => DecodersAgree
<1> SUFFICES ASSUME word \in Rig!InstrWord PROVE DecodersAgree
  OBVIOUS
<1> DEFINE g == word.grp
           n == word.sub
           op == Opcodes[g][n + 1][1]
           lay == Opcodes[g][n + 1][2]
<1>1. g \in 0..3 /\ n \in 0..15
  BY DEF Rig!InstrWord
<1>2. Len(Opcodes[g]) = Len(Rig!Mnemonics[g])
  BY <1>1, Lengths
<1>3. CASE n >= Len(Opcodes[g])
  <2>1. DecodeWord(word) = Err("IllegalOpcode")
    BY <1>3 DEF DecodeWord
  <2>2. Rig!Decode(word) = "IllegalOpcode"
    BY <1>2, <1>3 DEF Rig!Decode
  <2> QED
    BY <2>1, <2>2 DEF DecodersAgree, IsOk, Err
<1>4. CASE ~(n >= Len(Opcodes[g]))
  <2>1. InTable(g, n)
    <3> HIDE DEF n
    <3>1. g # 3
      BY <1>1, <1>4, Lengths
    <3>2. CASE g = 0
      BY <1>1, <1>4, <3>2, Lengths DEF InTable
    <3>3. CASE g = 1
      BY <1>1, <1>4, <3>3, Lengths DEF InTable
    <3>4. CASE g = 2
      BY <1>1, <1>4, <3>4, Lengths DEF InTable
    <3> QED
      BY <1>1, <3>1, <3>2, <3>3, <3>4
  <2>2. Rig!Mnemonics[g][n + 1] = op
    BY <2>1, Rows DEF Row
  <2>3. IsWord(word, op, lay)
    BY <2>1, Codes DEF IsWord, Word32
  <2>4. Agrees(DecodeWord(word), op, word)
    <3>1. CASE g = 2
      <4>1. lay \in DOMAIN DataUsers /\ op \in DataUsers[lay]
        BY <2>1, <3>1, Rows DEF Row
      <4>2. DecodeWord(word) = DecodeData(op, lay, word)
        BY <1>4, <3>1 DEF DecodeWord
      <4> HIDE DEF op, lay
      <4> QED
        BY <2>3, <4>1, <4>2, DataLayouts
    <3>2. CASE g # 2
      <4>1. lay \in DOMAIN OtherUsers /\ op \in OtherUsers[lay]
        BY <2>1, <3>2, Rows DEF Row
      <4>2. DecodeWord(word) = DecodeBusOrCtrl(op, lay, word)
        BY <1>4, <3>2 DEF DecodeWord
      <4> HIDE DEF op, lay
      <4> QED
        BY <2>3, <4>1, <4>2, OtherLayouts
    <3> QED
      BY <3>1, <3>2
  <2>5. Rig!Decode(word) = IF Rig!ReservedZero(op, word) THEN op ELSE "ReservedFieldNonZero"
    BY <1>2, <1>4, <2>2 DEF Rig!Decode
  <2> HIDE DEF op
  <2> QED
    BY <2>4, <2>5 DEF DecodersAgree, Agrees
<1> QED
  BY <1>3, <1>4

-----------------------------------------------------------------------------
(* Induction over the natural numbers, with sets for predicates.            *)

\* A nonempty set of naturals has a least element.
LEMMA Least ==
    ASSUME NEW S \in SUBSET Nat, S # {}
    PROVE  \E m \in S : \A k \in S : m <= k
<1>1. IsWellFoundedOn(OpToRel(<, Nat), Nat)
  BY NatLessThanWellFounded
<1>2. PICK m \in S : \A k \in S : ~(<<k, m>> \in OpToRel(<, Nat))
  BY <1>1, WFMin
<1>3. \A k \in S : ~(k < m)
  BY <1>2 DEF OpToRel
<1>4. m \in Nat /\ \A k \in S : k \in Nat
  OBVIOUS
<1> QED
  BY <1>3, <1>4

\* Induction up to N, with a set in the place of the predicate.
Climbs(S, N) == 0 \in S /\ \A n \in 0..N-1 : n \in S => n + 1 \in S

LEMMA Ladder ==
    ASSUME NEW S, NEW N \in Nat, Climbs(S, N)
    PROVE  \A n \in 0..N : n \in S
<1> DEFINE Out == {n \in 0..N : n \notin S}
<1>1. SUFFICES ASSUME Out # {} PROVE FALSE
  OBVIOUS
<1>2. PICK m \in Out : \A k \in Out : m <= k
  <2>1. Out \in SUBSET Nat
    OBVIOUS
  <2> HIDE DEF Out
  <2> QED
    BY <1>1, <2>1, Least
<1>3. m \in 1..N /\ m \notin S
  BY DEF Climbs
<1>4. m - 1 \in S
  <2>1. m - 1 \in 0..N /\ ~(m <= m - 1)
    BY <1>3
  <2> QED
    BY <1>2, <2>1
<1>5. m - 1 \in 0..N-1 /\ (m - 1) + 1 = m
  BY <1>3
<1> QED
  BY <1>3, <1>4, <1>5 DEF Climbs

\* The same from N down, when each rests on all the later ones.
Falls(S, i, N) == \A j \in i..N : (\A k \in j+1..N : k \in S) => j \in S

LEMMA Downward ==
    ASSUME NEW S, NEW N \in Nat, NEW i \in Nat, Falls(S, i, N)
    PROVE  \A j \in i..N : j \in S
<1> DEFINE T == {n \in Nat : \A j \in i..N : j > N - n => j \in S}
<1>1. Climbs(T, N)
  <2>1. 0 \in T
    OBVIOUS
  <2>2. ASSUME NEW n \in 0..N-1, n \in T PROVE n + 1 \in T
    <3>1. ASSUME NEW j \in i..N, j > N - (n + 1) PROVE j \in S
      <4>1. \A k \in j+1..N : k \in i..N /\ k > N - n
        BY <3>1
      <4>2. \A k \in j+1..N : k \in S
        BY <2>2, <4>1
      <4> QED
        BY <4>2 DEF Falls
    <3> QED
      BY <3>1
  <2> HIDE DEF T
  <2> QED
    BY <2>1, <2>2 DEF Climbs
<1>2. N \in T
  <2> HIDE DEF T
  <2>1. N \in 0..N
    OBVIOUS
  <2> QED
    BY <1>1, <2>1, Ladder
<1>3. CASE 0 \in i..N
  <2>1. i = 0 /\ \A k \in 1..N : k \in S
    BY <1>2, <1>3
  <2>2. (\A k \in 0+1..N : k \in S) => 0 \in S
    BY <1>3 DEF Falls
  <2> QED
    BY <2>1, <2>2
<1>4. CASE 0 \notin i..N
  BY <1>2, <1>4
<1> QED
  BY <1>3, <1>4

-----------------------------------------------------------------------------
(* The parser, from the last token back.                                   *)

OperandSet ==
    [k : {"id"}, v : STRING, at : Nat] \cup [k : {"num"}, n : Int \X (0..2^16 - 1), at : Nat]

LineSet ==
    [k : {"label", "dir", "instr"}, name : STRING, args : Seq(OperandSet), at : Nat]

\* A token sequence with its Eof.
Ended(toks) ==
    /\ Len(toks) \in Nat /\ Len(toks) >= 1
    /\ toks[Len(toks)] = Eof
    /\ \A i \in 1..Len(toks)-1 : toks[i] \in Tokens

LEMMA TokenKinds ==
    ASSUME NEW t \in Tokens
    PROVE  /\ t.k \in {"id", "dir", ",", ":", "nl", "num"}
           /\ t.k \in {"id", "dir"} => t.v \in STRING
           /\ t.k = "num" => t.n \in Int \X (0..2^16 - 1)
<1>1. CASE t \in [k : {"id", "dir"}, v : STRING]
  BY <1>1
<1>2. CASE t \in [k : {",", ":", "nl"}, v : {""}]
  BY <1>2
<1>3. CASE t \in [k : {"num"}, n : Int \X (0..2^16 - 1)]
  BY <1>3
<1> QED
  BY <1>1, <1>2, <1>3 DEF Tokens

LEMMA TokenAt ==
    ASSUME NEW toks, Ended(toks), NEW i \in 1..Len(toks)
    PROVE  IF i = Len(toks) THEN toks[i].k = "eof"
           ELSE /\ toks[i] \in Tokens /\ toks[i].k # "eof"
                /\ i + 1 \in 1..Len(toks)
<1>1. CASE i = Len(toks)
  <2>1. Eof.k = "eof"
    BY DEF Eof, Tok
  <2> QED
    BY <1>1, <2>1 DEF Ended
<1>2. CASE i # Len(toks)
  <2>1. i \in 1..Len(toks)-1 /\ i + 1 \in 1..Len(toks)
    BY <1>2 DEF Ended
  <2>2. toks[i] \in Tokens
    BY <2>1 DEF Ended
  <2> QED
    BY <1>2, <2>1, <2>2, TokenKinds
<1> QED
  BY <1>1, <1>2

\* Two tokens that are not the last leave a third.
LEMMA TwoTokens ==
    ASSUME NEW toks, Ended(toks), NEW i \in 1..Len(toks),
           toks[i].k # "eof", toks[i+1].k # "eof"
    PROVE  /\ toks[i] \in Tokens /\ toks[i+1] \in Tokens
           /\ i + 1 \in i+1..Len(toks) /\ i + 2 \in i+1..Len(toks)
<1>0. Len(toks) \in Nat
  BY DEF Ended
<1>1. toks[i] \in Tokens /\ i + 1 \in 1..Len(toks)
  BY TokenAt
<1> DEFINE n == i + 1
<1>2. n \in 1..Len(toks) /\ toks[n].k # "eof"
  BY <1>1
<1> HIDE DEF n
<1>3. toks[n] \in Tokens /\ n + 1 \in 1..Len(toks)
  BY <1>2, TokenAt
<1> QED
  BY <1>0, <1>1, <1>3 DEF n

LEMMA OperandTyped ==
    ASSUME NEW t \in Tokens, t.k \in {"id", "num"}, NEW j \in Nat
    PROVE  Operand(t, j) \in OperandSet
<1>1. CASE t.k = "id"
  BY <1>1, TokenKinds DEF Operand, OperandSet
<1>2. CASE t.k = "num"
  BY <1>2, TokenKinds DEF Operand, OperandSet
<1> QED
  BY <1>1, <1>2

IsOperands(toks, i, f) == f = [j \in i..Len(toks) |-> OperandsAt(toks, f, j)]

\* What the parser does at an operand, by what follows it.
LEMMA LastOperand ==
    ASSUME NEW toks, NEW f, NEW j, toks[j].k \in {"id", "num"}, toks[j+1].k \in EndOfLine
    PROVE  OperandsAt(toks, f, j) = Ok([args |-> <<Operand(toks[j], j)>>, next |-> j+1])
<1>1. "," \notin EndOfLine
  BY DEF EndOfLine
<1> QED
  BY <1>1, Zenon DEF OperandsAt

LEMMA OneOfMany ==
    ASSUME NEW toks, NEW f, NEW j, toks[j].k \in {"id", "num"},
           toks[j+1].k = ",", toks[j+2].k \notin EndOfLine
    PROVE  OperandsAt(toks, f, j) = Prepend(Operand(toks[j], j), f[j+2])
<1>1. "," \notin EndOfLine
  BY DEF EndOfLine
<1> QED
  BY <1>1, Zenon DEF OperandsAt

LEMMA BadOperand ==
    ASSUME NEW toks, NEW f, NEW j,
           \/ toks[j].k \notin {"id", "num"}
           \/ toks[j+1].k = "," /\ toks[j+2].k \in EndOfLine
           \/ toks[j+1].k \notin EndOfLine /\ toks[j+1].k # ","
    PROVE  \E d : OperandsAt(toks, f, j) = Err(d)
<1>1. "," \notin EndOfLine
  BY DEF EndOfLine
<1> QED
  BY <1>1, Zenon DEF OperandsAt

LEMMA OperandsLocal ==
    ASSUME NEW toks, Ended(toks), NEW j \in 1..Len(toks), NEW f, NEW g,
           \A k \in j+1..Len(toks) : f[k] = g[k]
    PROVE  OperandsAt(toks, f, j) = OperandsAt(toks, g, j)
<1>1. CASE toks[j].k \in {"id", "num"} /\ toks[j+1].k = ","
  <2>2. j + 2 \in j+1..Len(toks)
    BY <1>1, TwoTokens
  <2>3. f[j+2] = g[j+2]
    BY <2>2
  <2>4. "," \notin EndOfLine
    BY DEF EndOfLine
  <2> QED
    BY <1>1, <2>3, <2>4, Zenon DEF OperandsAt
<1>2. CASE ~(toks[j].k \in {"id", "num"} /\ toks[j+1].k = ",")
  BY <1>2, Zenon DEF OperandsAt
<1> QED
  BY <1>1, <1>2

LEMMA OperandsExist ==
    ASSUME NEW toks, Ended(toks), NEW i \in 1..Len(toks)
    PROVE  \E f : IsOperands(toks, i, f)
<1> DEFINE end == Len(toks)
           Over(f) == f = [j \in i..end |-> f[j]]
           Holds(f, n) == \A j \in i..end : j > end - n => f[j] = OperandsAt(toks, f, j)
           S == {n \in Nat : \E f : Over(f) /\ Holds(f, n)}
<1>0. end \in Nat
  BY DEF Ended
<1>1. 0 \in S
  <2>1. Over([j \in i..end |-> 0]) /\ Holds([j \in i..end |-> 0], 0)
    BY <1>0
  <2> HIDE DEF Over, Holds
  <2> QED
    BY <2>1
<1>2. ASSUME NEW n \in 0..end-1, n \in S PROVE n + 1 \in S
  <2>1. PICK g : Over(g) /\ Holds(g, n)
    BY <1>2
  <2> DEFINE first == end - n
             f == [j \in i..end |-> IF j = first THEN OperandsAt(toks, g, j) ELSE g[j]]
  <2>2. Over(f)
    OBVIOUS
  <2>3. Holds(f, n + 1)
    <3> SUFFICES ASSUME NEW j \in i..end, j > end - (n + 1)
                 PROVE  f[j] = OperandsAt(toks, f, j)
      OBVIOUS
    <3>1. j = first \/ j > end - n
      BY <1>0
    <3>2. \A k \in j+1..end : f[k] = g[k]
      BY <1>0, <3>1
    <3>3. OperandsAt(toks, f, j) = OperandsAt(toks, g, j)
      <4>1. j \in 1..Len(toks)
        BY <1>0
      <4> HIDE DEF f
      <4> QED
        BY <3>2, <4>1, OperandsLocal
    <3>4. f[j] = OperandsAt(toks, g, j)
      BY <1>0, <3>1, <2>1
    <3> QED
      BY <3>3, <3>4
  <2> HIDE DEF f, Over, Holds
  <2> QED
    BY <2>2, <2>3
<1>3. end \in S
  <2> HIDE DEF S, end
  <2>1. Climbs(S, end)
    BY <1>1, <1>2 DEF Climbs
  <2>2. end \in 0..end
    BY <1>0
  <2> QED
    BY <1>0, <2>1, <2>2, Ladder
<1>4. PICK f : Over(f) /\ Holds(f, end)
  BY <1>3
<1>5. \A j \in i..end : f[j] = OperandsAt(toks, f, j)
  BY <1>0, <1>4
<1> QED
  BY <1>4, <1>5 DEF IsOperands

\* The operands parsed from token j on.
GoodOperands(toks, j, r) ==
    IsOk(r) => /\ r.ok.args \in Seq(OperandSet)
               /\ r.ok.next \in j+1..Len(toks)

LEMMA OkOperands ==
    ASSUME NEW toks, NEW j, NEW r, NEW args \in Seq(OperandSet), NEW next \in j+1..Len(toks),
           r = Ok([args |-> args, next |-> next])
    PROVE  GoodOperands(toks, j, r)
BY DEF GoodOperands, Ok

LEMMA OperandsParsed ==
    ASSUME NEW toks, Ended(toks), NEW i \in 1..Len(toks)
    PROVE  GoodOperands(toks, i, ParseOperands(toks, i))
<1> DEFINE end == Len(toks)
           F == CHOOSE f : IsOperands(toks, i, f)
<1>0. end \in Nat
  BY DEF Ended
<1>1. IsOperands(toks, i, F)
  BY OperandsExist, Zenon
<1>2. ParseOperands(toks, i) = F[i]
  BY Zenon DEF ParseOperands, IsOperands
<1>3. \A j \in i..end : F[j] = OperandsAt(toks, F, j)
  <2> HIDE DEF F
  <2> QED
    BY <1>1 DEF IsOperands
<1> HIDE DEF F
<1>4. ASSUME NEW j \in i..end, \A k \in j+1..end : GoodOperands(toks, k, F[k])
      PROVE  GoodOperands(toks, j, F[j])
  <2>1. j \in 1..Len(toks) /\ j \in Nat
    BY <1>0
  <2>2. CASE toks[j].k \notin {"id", "num"}
    <3>1. F[j] = Err(Diag(j, "expected an operand"))
      BY <1>3, <2>2 DEF OperandsAt
    <3> QED
      BY <3>1 DEF GoodOperands, IsOk, Err
  <2>3. CASE toks[j].k \in {"id", "num"}
    <3>1. toks[j] \in Tokens /\ j + 1 \in 1..end
      BY <2>1, <2>3, TokenAt
    <3> DEFINE o == Operand(toks[j], j)
    <3>2. o \in OperandSet
      BY <2>1, <2>3, <3>1, OperandTyped
    <3>3. CASE toks[j+1].k \in EndOfLine
      <4>1. F[j] = Ok([args |-> <<o>>, next |-> j+1])
        BY <1>3, <2>3, <3>3, LastOperand
      <4> HIDE DEF o
      <4>2. <<o>> \in Seq(OperandSet) /\ j+1 \in j+1..end
        BY <1>0, <2>1, <3>1, <3>2
      <4> QED
        BY <4>1, <4>2, OkOperands
    <3>4. CASE toks[j+1].k = "," /\ toks[j+2].k \in EndOfLine
      <4>1. F[j] = Err(Diag(j+2, "trailing comma"))
        BY <1>3, <2>3, <3>4 DEF OperandsAt, EndOfLine
      <4> QED
        BY <4>1 DEF GoodOperands, IsOk, Err
    <3>5. CASE toks[j+1].k = "," /\ toks[j+2].k \notin EndOfLine
      <4>1. F[j] = Prepend(o, F[j+2])
        BY <1>3, <2>3, <3>5 DEF OperandsAt, EndOfLine
      <4>2. j + 2 \in j+1..end
        BY <2>1, <2>3, <3>5, TwoTokens
      <4>3. GoodOperands(toks, j+2, F[j+2])
        BY <1>4, <4>2
      <4>4. CASE IsOk(F[j+2])
        <5> DEFINE rest == F[j+2].ok
        <5>1. F[j] = Ok([args |-> <<o>> \o rest.args, next |-> rest.next])
          BY <4>1, <4>4 DEF Prepend, Bind
        <5>2. rest.args \in Seq(OperandSet) /\ rest.next \in (j+2)+1..end
          BY <4>3, <4>4 DEF GoodOperands
        <5> HIDE DEF o, rest
        <5>3. <<o>> \o rest.args \in Seq(OperandSet)
          BY <3>2, <5>2, ConcatProperties
        <5>4. rest.next \in j+1..end
          BY <5>2, <2>1, <1>0
        <5> QED
          BY <5>1, <5>3, <5>4, OkOperands
      <4>5. CASE ~IsOk(F[j+2])
        BY <4>1, <4>5 DEF Prepend, Bind, GoodOperands
      <4> QED
        BY <4>4, <4>5
    <3>6. CASE toks[j+1].k \notin EndOfLine /\ toks[j+1].k # ","
      <4>1. F[j] = Err(Diag(j+1, "expected a comma or end of line"))
        BY <1>3, <2>3, <3>6 DEF OperandsAt
      <4> QED
        BY <4>1 DEF GoodOperands, IsOk, Err
    <3> QED
      BY <3>3, <3>4, <3>5, <3>6
  <2> QED
    BY <2>2, <2>3
<1>5. Falls({j \in i..end : GoodOperands(toks, j, F[j])}, i, end)
  BY <1>4 DEF Falls
<1> QED
  BY <1>0, <1>2, <1>5, Downward

\* The line parsed at token i.
GoodLine(toks, i, r) ==
    IsOk(r) => /\ r.ok.line \in LineSet /\ r.ok.line.at = i
               /\ r.ok.next \in i+1..Len(toks)

LEMMA OkLine ==
    ASSUME NEW toks, NEW i \in Nat, NEW r, NEW k \in {"label", "dir", "instr"},
           NEW name \in STRING, NEW args \in Seq(OperandSet), NEW next \in i+1..Len(toks),
           r = Ok([line |-> [k |-> k, name |-> name, args |-> args, at |-> i], next |-> next])
    PROVE  GoodLine(toks, i, r)
<1> DEFINE line == [k |-> k, name |-> name, args |-> args, at |-> i]
<1>1. line \in LineSet /\ line.at = i
  BY DEF LineSet
<1>2. r = Ok([line |-> line, next |-> next])
  OBVIOUS
<1> HIDE DEF line
<1> QED
  BY <1>1, <1>2 DEF GoodLine, Ok

LEMMA LineParsed ==
    ASSUME NEW toks, Ended(toks), NEW i \in 1..Len(toks)
    PROVE  GoodLine(toks, i, ParseLine(toks, i))
<1> DEFINE t == toks[i]
           Line(k, args, next) ==
             Ok([line |-> [k |-> k, name |-> t.v, args |-> args, at |-> i], next |-> next])
           ops == IF toks[i+1].k \in EndOfLine THEN Ok([args |-> <<>>, next |-> i+1])
                                                ELSE ParseOperands(toks, i+1)
           kind == IF t.k = "dir" THEN "dir" ELSE "instr"
<1>0. Len(toks) \in Nat /\ i \in Nat
  BY DEF Ended
<1>1. CASE t.k = "id" /\ toks[i+1].k = ":"
  <2>1. ParseLine(toks, i) = Line("label", <<>>, i+2)
    BY <1>1, Zenon DEF ParseLine
  <2>2. t \in Tokens /\ i + 2 \in i+1..Len(toks)
    BY <1>1, TwoTokens
  <2>3. t.v \in STRING
    BY <1>1, <2>2, TokenKinds
  <2>4. <<>> \in Seq(OperandSet)
    OBVIOUS
  <2> HIDE DEF t
  <2> QED
    BY <1>0, <2>1, <2>2, <2>3, <2>4, OkLine
<1>2. CASE t.k = "dir" \/ (t.k = "id" /\ toks[i+1].k # ":")
  <2>1. ParseLine(toks, i) = IF IsOk(ops) THEN Line(kind, ops.ok.args, ops.ok.next) ELSE ops
    BY <1>2, Zenon DEF ParseLine, Bind
  <2>2. t \in Tokens /\ i + 1 \in 1..Len(toks) /\ t.v \in STRING
    BY <1>2, TokenAt, TokenKinds
  <2>3. IsOk(ops) => ops.ok.args \in Seq(OperandSet) /\ ops.ok.next \in i+1..Len(toks)
    <3>1. CASE toks[i+1].k \in EndOfLine
      <4>1. ops.ok.args = <<>> /\ ops.ok.next = i + 1
        BY <3>1 DEF Ok
      <4> HIDE DEF ops
      <4> QED
        BY <1>0, <2>2, <4>1
    <3>2. CASE toks[i+1].k \notin EndOfLine
      <4>1. GoodOperands(toks, i+1, ops)
        BY <2>2, <3>2, OperandsParsed
      <4> HIDE DEF ops
      <4> QED
        BY <1>0, <4>1 DEF GoodOperands
    <3> QED
      BY <3>1, <3>2
  <2>4. kind \in {"label", "dir", "instr"}
    OBVIOUS
  <2> HIDE DEF t, ops, kind
  <2>5. CASE IsOk(ops)
    BY <1>0, <2>1, <2>2, <2>3, <2>4, <2>5, OkLine
  <2>6. CASE ~IsOk(ops)
    BY <2>1, <2>6 DEF GoodLine
  <2> QED
    BY <2>5, <2>6
<1>3. CASE ~(t.k = "id" /\ toks[i+1].k = ":") /\ ~(t.k = "dir" \/ (t.k = "id" /\ toks[i+1].k # ":"))
  <2>1. \E d : ParseLine(toks, i) = Err(d)
    BY <1>3, Zenon DEF ParseLine
  <2> QED
    BY <2>1 DEF GoodLine, IsOk, Err
<1> QED
  BY <1>1, <1>2, <1>3

IsLines(toks, f) == f = [i \in 1..Len(toks) |-> LinesAt(toks, f, i)]

\* A line and those behind it, or the fault.
LEMMA LinesHere ==
    ASSUME NEW toks, NEW f, NEW i, toks[i].k \notin {"eof", "nl"}
    PROVE  LinesAt(toks, f, i) = IF IsOk(ParseLine(toks, i))
                                 THEN Before(ParseLine(toks, i).ok.line,
                                             f[ParseLine(toks, i).ok.next])
                                 ELSE ParseLine(toks, i)
<1>1. toks[i].k # "eof" /\ toks[i].k # "nl"
  OBVIOUS
<1> QED
  BY <1>1, Zenon DEF LinesAt

LEMMA LinesLocal ==
    ASSUME NEW toks, Ended(toks), NEW i \in 1..Len(toks), NEW f, NEW g,
           \A k \in i+1..Len(toks) : f[k] = g[k]
    PROVE  LinesAt(toks, f, i) = LinesAt(toks, g, i)
<1>0. Len(toks) \in Nat /\ "eof" # "nl"
  BY DEF Ended
<1>1. CASE toks[i].k = "eof"
  BY <1>0, <1>1, Zenon DEF LinesAt
<1>2. CASE toks[i].k = "nl"
  <2>1. i + 1 \in 1..Len(toks)
    BY <1>2, TokenAt
  <2>2. i + 1 \in i+1..Len(toks)
    BY <1>0, <2>1
  <2>3. f[i+1] = g[i+1]
    BY <2>2
  <2> QED
    BY <1>0, <1>2, <2>3, Zenon DEF LinesAt
<1>3. CASE toks[i].k \notin {"eof", "nl"}
  <2> DEFINE p == ParseLine(toks, i)
  <2>1. \A h : LinesAt(toks, h, i) = IF IsOk(p) THEN Before(p.ok.line, h[p.ok.next]) ELSE p
    BY <1>3, LinesHere
  <2>2. IsOk(p) => p.ok.next \in i+1..Len(toks)
    BY LineParsed DEF GoodLine
  <2> HIDE DEF p
  <2>3. IsOk(p) => f[p.ok.next] = g[p.ok.next]
    BY <2>2
  <2>4. LinesAt(toks, f, i) = IF IsOk(p) THEN Before(p.ok.line, f[p.ok.next]) ELSE p
    BY <2>1
  <2>5. LinesAt(toks, g, i) = IF IsOk(p) THEN Before(p.ok.line, g[p.ok.next]) ELSE p
    BY <2>1
  <2> QED
    <3>1. CASE IsOk(p)
      BY <2>3, <2>4, <2>5, <3>1
    <3>2. CASE ~IsOk(p)
      BY <2>4, <2>5, <3>2
    <3> QED
      BY <3>1, <3>2
<1> QED
  BY <1>1, <1>2, <1>3

LEMMA LinesExist ==
    ASSUME NEW toks, Ended(toks)
    PROVE  \E f : IsLines(toks, f)
<1> DEFINE end == Len(toks)
           Over(f) == f = [i \in 1..end |-> f[i]]
           Holds(f, n) == \A i \in 1..end : i > end - n => f[i] = LinesAt(toks, f, i)
           S == {n \in Nat : \E f : Over(f) /\ Holds(f, n)}
<1>0. end \in Nat
  BY DEF Ended
<1>1. 0 \in S
  <2>1. Over([i \in 1..end |-> 0]) /\ Holds([i \in 1..end |-> 0], 0)
    BY <1>0
  <2> HIDE DEF Over, Holds
  <2> QED
    BY <2>1
<1>2. ASSUME NEW n \in 0..end-1, n \in S PROVE n + 1 \in S
  <2>1. PICK g : Over(g) /\ Holds(g, n)
    BY <1>2
  <2> DEFINE first == end - n
             f == [i \in 1..end |-> IF i = first THEN LinesAt(toks, g, i) ELSE g[i]]
  <2>2. Over(f)
    OBVIOUS
  <2>3. Holds(f, n + 1)
    <3> SUFFICES ASSUME NEW i \in 1..end, i > end - (n + 1)
                 PROVE  f[i] = LinesAt(toks, f, i)
      OBVIOUS
    <3>1. i = first \/ i > end - n
      BY <1>0
    <3>2. \A k \in i+1..end : f[k] = g[k]
      BY <1>0, <3>1
    <3>3. LinesAt(toks, f, i) = LinesAt(toks, g, i)
      <4> HIDE DEF f
      <4> QED
        BY <3>2, LinesLocal
    <3>4. f[i] = LinesAt(toks, g, i)
      BY <1>0, <3>1, <2>1
    <3> QED
      BY <3>3, <3>4
  <2> HIDE DEF f, Over, Holds
  <2> QED
    BY <2>2, <2>3
<1>3. end \in S
  <2> HIDE DEF S, end
  <2>1. Climbs(S, end)
    BY <1>1, <1>2 DEF Climbs
  <2>2. end \in 0..end
    BY <1>0
  <2> QED
    BY <1>0, <2>1, <2>2, Ladder
<1>4. PICK f : Over(f) /\ Holds(f, end)
  BY <1>3
<1>5. \A i \in 1..end : f[i] = LinesAt(toks, f, i)
  BY <1>0, <1>4
<1> QED
  BY <1>4, <1>5 DEF IsLines

\* Lines in the order of their spans, none before token i.
Ordered(lines, i) ==
    /\ lines \in Seq(LineSet)
    /\ \A a \in DOMAIN lines : lines[a].at >= i
    /\ \A a, b \in DOMAIN lines : a < b => lines[a].at < lines[b].at

LEMMA LineFields ==
    ASSUME NEW l \in LineSet
    PROVE  l.k \in {"label", "dir", "instr"} /\ l.name \in STRING
           /\ l.args \in Seq(OperandSet) /\ l.at \in Nat
BY DEF LineSet

LEMMA OrderedLines ==
    ASSUME NEW lines, NEW i, Ordered(lines, i)
    PROVE  /\ Len(lines) \in Nat /\ DOMAIN lines = 1..Len(lines)
           /\ \A a \in DOMAIN lines : lines[a] \in LineSet /\ lines[a].at \in Nat
<1>1. lines \in Seq(LineSet)
  BY DEF Ordered
<1>2. \A a \in DOMAIN lines : lines[a] \in LineSet
  BY <1>1
<1> QED
  BY <1>1, <1>2, LineFields

LEMMA OneBefore ==
    ASSUME NEW i \in Nat, NEW line \in LineSet, line.at = i, NEW next \in Nat, i < next,
           NEW lines, Ordered(lines, next)
    PROVE  Ordered(<<line>> \o lines, i)
<1> DEFINE all == <<line>> \o lines
<1>1. lines \in Seq(LineSet)
  BY DEF Ordered
<1>2. all \in Seq(LineSet) /\ Len(all) = 1 + Len(lines) /\ DOMAIN all = 1..Len(all)
  <2>1. <<line>> \in Seq(LineSet)
    OBVIOUS
  <2> QED
    BY <1>1, <2>1, ConcatProperties, LenProperties
<1>3. all[1] = line
  BY <1>1
<1>4. \A a \in 2..Len(all) : all[a] = lines[a-1] /\ a - 1 \in DOMAIN lines
  BY <1>1, <1>2
<1>5. \A a \in DOMAIN lines : lines[a].at >= next /\ lines[a].at \in Nat
  BY OrderedLines DEF Ordered
<1> HIDE DEF all
<1>6. \A a \in DOMAIN all : a = 1 \/ a \in 2..Len(all)
  BY <1>1, <1>2
<1>7. \A a \in 2..Len(all) : all[a].at >= next /\ all[a].at \in Nat
  BY <1>4, <1>5
<1>8. \A a \in DOMAIN all : all[a].at >= i
  BY <1>3, <1>6, <1>7
<1>9. ASSUME NEW a \in DOMAIN all, NEW b \in DOMAIN all, a < b PROVE all[a].at < all[b].at
  <2>1. b \in 2..Len(all)
    BY <1>2, <1>6, <1>9
  <2>2. CASE a = 1
    BY <1>3, <1>7, <2>1, <2>2
  <2>3. CASE a \in 2..Len(all)
    <3>1. a - 1 < b - 1
      BY <1>9, <2>1, <2>3
    <3>2. lines[a-1].at < lines[b-1].at
      BY <1>4, <2>1, <2>3, <3>1 DEF Ordered
    <3> QED
      BY <1>4, <2>1, <2>3, <3>2
  <2> QED
    BY <1>6, <2>2, <2>3
<1> QED
  BY <1>2, <1>8, <1>9 DEF Ordered, all

LEMMA LinesParsed ==
    ASSUME NEW toks, Ended(toks), IsOk(ParseLines(toks))
    PROVE  Ordered(ParseLines(toks).ok, 1)
<1> DEFINE end == Len(toks)
           F == CHOOSE f : IsLines(toks, f)
           Good(i) == IsOk(F[i]) => Ordered(F[i].ok, i)
<1>0. end \in Nat /\ 1 \in 1..end
  BY DEF Ended
<1>1. IsLines(toks, F)
  BY LinesExist, Zenon
<1>2. ParseLines(toks) = F[1]
  BY Zenon DEF ParseLines, IsLines
<1>3. \A i \in 1..end : F[i] = LinesAt(toks, F, i)
  <2> HIDE DEF F
  <2> QED
    BY <1>1 DEF IsLines
<1> HIDE DEF F
<1>4. ASSUME NEW i \in 1..end, \A k \in i+1..end : Good(k) PROVE Good(i)
  <2>1. CASE toks[i].k = "eof"
    <3>1. F[i] = Ok(<<>>)
      BY <1>3, <2>1 DEF LinesAt
    <3> QED
      BY <3>1 DEF Ok, Ordered
  <2>2. CASE toks[i].k = "nl"
    <3>1. F[i] = F[i+1]
      BY <1>3, <2>2 DEF LinesAt
    <3>2. i + 1 \in i+1..end
      BY <2>2, TokenAt
    <3>3. IsOk(F[i]) => Ordered(F[i].ok, i+1)
      BY <1>4, <3>1, <3>2
    <3>4. \A lines : Ordered(lines, i+1) => Ordered(lines, i)
      <4> SUFFICES ASSUME NEW lines, Ordered(lines, i+1) PROVE Ordered(lines, i)
        OBVIOUS
      <4>1. \A a \in DOMAIN lines : lines[a].at \in Nat
        BY OrderedLines
      <4> QED
        BY <1>0, <4>1 DEF Ordered
    <3> QED
      BY <3>3, <3>4
  <2>3. CASE toks[i].k \notin {"eof", "nl"}
    <3> DEFINE p == ParseLine(toks, i)
    <3>1. F[i] = IF IsOk(p) THEN Before(p.ok.line, F[p.ok.next]) ELSE p
      BY <1>3, <2>3, LinesHere
    <3>2. GoodLine(toks, i, p)
      BY LineParsed
    <3> HIDE DEF p
    <3>3. CASE IsOk(p) /\ IsOk(F[p.ok.next])
      <4> DEFINE line == p.ok.line
                 next == p.ok.next
                 rest == F[next].ok
      <4>1. line \in LineSet /\ line.at = i /\ next \in i+1..end
        BY <3>2, <3>3 DEF GoodLine
      <4>2. F[i] = Ok(<<line>> \o rest)
        BY <3>1, <3>3 DEF Before, Bind
      <4>3. Ordered(rest, next)
        BY <1>4, <3>3, <4>1
      <4> HIDE DEF line, next, rest
      <4>4. Ordered(<<line>> \o rest, i)
        BY <4>1, <4>3, OneBefore
      <4> QED
        BY <4>2, <4>4 DEF Ok
    <3>4. CASE IsOk(p) /\ ~IsOk(F[p.ok.next])
      BY <3>1, <3>4 DEF Before, Bind
    <3>5. CASE ~IsOk(p)
      BY <3>1, <3>5
    <3> QED
      BY <3>3, <3>4, <3>5
  <2> QED
    BY <2>1, <2>2, <2>3
<1>5. Falls({i \in 1..end : Good(i)}, 1, end)
  BY <1>4 DEF Falls
<1>6. Good(1)
  <2> HIDE DEF Good, end
  <2> QED
    BY <1>0, <1>5, Downward
<1> QED
  BY <1>2, <1>6

LEMMA SourceParsed ==
    ASSUME NEW s \in Seq(Tokens), IsOk(Parse(s))
    PROVE  Ordered(Parse(s).ok, 1)
<1> DEFINE toks == Append(s, Eof)
<1>1. Ended(toks)
  <2>1. /\ Len(toks) = Len(s) + 1 /\ Len(s) \in Nat
        /\ toks[Len(s) + 1] = Eof
        /\ \A i \in 1..Len(s) : toks[i] = s[i] /\ s[i] \in Tokens
    OBVIOUS
  <2> QED
    BY <2>1 DEF Ended
<1>2. Parse(s) = ParseLines(toks)
  BY DEF Parse
<1> HIDE DEF toks
<1> QED
  BY <1>1, <1>2, LinesParsed

-----------------------------------------------------------------------------
(* The passes, line by line.                                               *)

\* Pass 0.
CollectAt(lines, f, n) ==
    IF n = 0 THEN [syms |-> <<>>, diags |-> <<>>, addr |-> 0]
    ELSE Collect(f[n-1], lines[n])
IsCollect(lines, f) == f = [n \in 0..Len(lines) |-> CollectAt(lines, f, n)]

LEMMA CollectUnfolds ==
    ASSUME NEW lines, Len(lines) \in Nat
    PROVE  \E f : /\ CollectEqus(lines) = f[Len(lines)]
                  /\ f[0] = [syms |-> <<>>, diags |-> <<>>, addr |-> 0]
                  /\ \A n \in 1..Len(lines) : f[n] = Collect(f[n-1], lines[n])
<1> DEFINE end == Len(lines)
           Over(f) == f = [n \in 0..end |-> f[n]]
           Holds(f, m) == \A n \in 0..m : f[n] = CollectAt(lines, f, n)
           S == {m \in 0..end : \E f : Over(f) /\ Holds(f, m)}
           F == CHOOSE f : IsCollect(lines, f)
<1>0. end \in Nat
  OBVIOUS
<1>1. 0 \in S
  <2> DEFINE f == [n \in 0..end |-> [syms |-> <<>>, diags |-> <<>>, addr |-> 0]]
  <2>1. Over(f)
    OBVIOUS
  <2>2. Holds(f, 0)
    BY DEF CollectAt
  <2> HIDE DEF Over, Holds, f
  <2> QED
    BY <2>1, <2>2
<1>2. ASSUME NEW m \in 0..end-1, m \in S PROVE m + 1 \in S
  <2>1. PICK g : Over(g) /\ Holds(g, m)
    BY <1>2
  <2> DEFINE f == [n \in 0..end |-> IF n = m + 1 THEN CollectAt(lines, g, n) ELSE g[n]]
  <2>2. Over(f)
    OBVIOUS
  <2>3. Holds(f, m + 1)
    <3> SUFFICES ASSUME NEW n \in 0..m+1 PROVE f[n] = CollectAt(lines, f, n)
      OBVIOUS
    <3>1. n # 0 => f[n-1] = g[n-1]
      OBVIOUS
    <3>2. f[n] = CollectAt(lines, g, n)
      BY <2>1
    <3> HIDE DEF f
    <3> QED
      BY <3>1, <3>2 DEF CollectAt
  <2> HIDE DEF f, Over, Holds
  <2> QED
    BY <2>2, <2>3
<1>3. end \in S
  <2> HIDE DEF S, end
  <2>1. Climbs(S, end)
    BY <1>1, <1>2 DEF Climbs
  <2>2. end \in 0..end
    BY <1>0
  <2> QED
    BY <1>0, <2>1, <2>2, Ladder
<1>4. \E f : IsCollect(lines, f)
  <2>1. PICK f : Over(f) /\ Holds(f, end)
    BY <1>3
  <2>2. IsCollect(lines, f)
    BY <2>1 DEF IsCollect
  <2> QED
    BY <2>2
<1>5. IsCollect(lines, F)
  BY <1>4, Zenon
<1>6. CollectEqus(lines) = F[end]
  BY Zenon DEF CollectEqus, IsCollect, CollectAt
<1> HIDE DEF F
<1>7. \A n \in 0..end : F[n] = CollectAt(lines, F, n)
  BY <1>5 DEF IsCollect
<1>8. F[0] = [syms |-> <<>>, diags |-> <<>>, addr |-> 0]
  BY <1>7 DEF CollectAt
<1>9. \A n \in 1..end : F[n] = Collect(F[n-1], lines[n])
  BY <1>7 DEF CollectAt
<1> QED
  BY <1>6, <1>8, <1>9

\* Pass 1.
AssignAt(lines, equs, f, n) == IF n = 0 THEN equs ELSE Assign(f[n-1], lines[n])
IsAssign(lines, equs, f) == f = [n \in 0..Len(lines) |-> AssignAt(lines, equs, f, n)]

LEMMA AssignUnfolds ==
    ASSUME NEW lines, NEW equs, Len(lines) \in Nat
    PROVE  \E f : /\ AssignAddresses(lines, equs) = f[Len(lines)]
                  /\ f[0] = equs
                  /\ \A n \in 1..Len(lines) : f[n] = Assign(f[n-1], lines[n])
<1> DEFINE end == Len(lines)
           Over(f) == f = [n \in 0..end |-> f[n]]
           Holds(f, m) == \A n \in 0..m : f[n] = AssignAt(lines, equs, f, n)
           S == {m \in 0..end : \E f : Over(f) /\ Holds(f, m)}
           F == CHOOSE f : IsAssign(lines, equs, f)
<1>0. end \in Nat
  OBVIOUS
<1>1. 0 \in S
  <2> DEFINE f == [n \in 0..end |-> equs]
  <2>1. Over(f)
    OBVIOUS
  <2>2. Holds(f, 0)
    BY DEF AssignAt
  <2> HIDE DEF Over, Holds, f
  <2> QED
    BY <2>1, <2>2
<1>2. ASSUME NEW m \in 0..end-1, m \in S PROVE m + 1 \in S
  <2>1. PICK g : Over(g) /\ Holds(g, m)
    BY <1>2
  <2> DEFINE f == [n \in 0..end |-> IF n = m + 1 THEN AssignAt(lines, equs, g, n) ELSE g[n]]
  <2>2. Over(f)
    OBVIOUS
  <2>3. Holds(f, m + 1)
    <3> SUFFICES ASSUME NEW n \in 0..m+1 PROVE f[n] = AssignAt(lines, equs, f, n)
      OBVIOUS
    <3>1. n # 0 => f[n-1] = g[n-1]
      OBVIOUS
    <3>2. f[n] = AssignAt(lines, equs, g, n)
      BY <2>1
    <3> HIDE DEF f
    <3> QED
      BY <3>1, <3>2 DEF AssignAt
  <2> HIDE DEF f, Over, Holds
  <2> QED
    BY <2>2, <2>3
<1>3. end \in S
  <2> HIDE DEF S, end
  <2>1. Climbs(S, end)
    BY <1>1, <1>2 DEF Climbs
  <2>2. end \in 0..end
    BY <1>0
  <2> QED
    BY <1>0, <2>1, <2>2, Ladder
<1>4. \E f : IsAssign(lines, equs, f)
  <2>1. PICK f : Over(f) /\ Holds(f, end)
    BY <1>3
  <2>2. IsAssign(lines, equs, f)
    BY <2>1 DEF IsAssign
  <2> QED
    BY <2>2
<1>5. IsAssign(lines, equs, F)
  BY <1>4, Zenon
<1>6. AssignAddresses(lines, equs) = F[end]
  BY Zenon DEF AssignAddresses, IsAssign, AssignAt
<1> HIDE DEF F
<1>7. \A n \in 0..end : F[n] = AssignAt(lines, equs, F, n)
  BY <1>5 DEF IsAssign
<1>8. F[0] = equs
  BY <1>7 DEF AssignAt
<1>9. \A n \in 1..end : F[n] = Assign(F[n-1], lines[n])
  BY <1>7 DEF AssignAt
<1> QED
  BY <1>6, <1>8, <1>9

\* Pass 2.
EncodingAt(lines, pass, f, n) ==
    IF n = 0 THEN [addr |-> 0, instrs |-> <<>>, spans |-> <<>>, diags |-> pass.diags]
    ELSE EncodeInto(f[n-1], lines[n], pass.syms)
IsEncoding(lines, pass, f) == f = [n \in 0..Len(lines) |-> EncodingAt(lines, pass, f, n)]

LEMMA EncodingUnfolds ==
    ASSUME NEW lines, NEW pass, Len(lines) \in Nat
    PROVE  \E f : /\ EncodeLines(lines, pass) = f[Len(lines)]
                  /\ f[0] = [addr |-> 0, instrs |-> <<>>, spans |-> <<>>, diags |-> pass.diags]
                  /\ \A n \in 1..Len(lines) : f[n] = EncodeInto(f[n-1], lines[n], pass.syms)
<1> DEFINE end == Len(lines)
           Over(f) == f = [n \in 0..end |-> f[n]]
           Holds(f, m) == \A n \in 0..m : f[n] = EncodingAt(lines, pass, f, n)
           S == {m \in 0..end : \E f : Over(f) /\ Holds(f, m)}
           F == CHOOSE f : IsEncoding(lines, pass, f)
<1>0. end \in Nat
  OBVIOUS
<1>1. 0 \in S
  <2> DEFINE f == [n \in 0..end |-> [addr |-> 0, instrs |-> <<>>, spans |-> <<>>, diags |-> pass.diags]]
  <2>1. Over(f)
    OBVIOUS
  <2>2. Holds(f, 0)
    BY DEF EncodingAt
  <2> HIDE DEF Over, Holds, f
  <2> QED
    BY <2>1, <2>2
<1>2. ASSUME NEW m \in 0..end-1, m \in S PROVE m + 1 \in S
  <2>1. PICK g : Over(g) /\ Holds(g, m)
    BY <1>2
  <2> DEFINE f == [n \in 0..end |-> IF n = m + 1 THEN EncodingAt(lines, pass, g, n) ELSE g[n]]
  <2>2. Over(f)
    OBVIOUS
  <2>3. Holds(f, m + 1)
    <3> SUFFICES ASSUME NEW n \in 0..m+1 PROVE f[n] = EncodingAt(lines, pass, f, n)
      OBVIOUS
    <3>1. n # 0 => f[n-1] = g[n-1]
      OBVIOUS
    <3>2. f[n] = EncodingAt(lines, pass, g, n)
      BY <2>1
    <3> HIDE DEF f
    <3> QED
      BY <3>1, <3>2 DEF EncodingAt
  <2> HIDE DEF f, Over, Holds
  <2> QED
    BY <2>2, <2>3
<1>3. end \in S
  <2> HIDE DEF S, end
  <2>1. Climbs(S, end)
    BY <1>1, <1>2 DEF Climbs
  <2>2. end \in 0..end
    BY <1>0
  <2> QED
    BY <1>0, <2>1, <2>2, Ladder
<1>4. \E f : IsEncoding(lines, pass, f)
  <2>1. PICK f : Over(f) /\ Holds(f, end)
    BY <1>3
  <2>2. IsEncoding(lines, pass, f)
    BY <2>1 DEF IsEncoding
  <2> QED
    BY <2>2
<1>5. IsEncoding(lines, pass, F)
  BY <1>4, Zenon
<1>6. EncodeLines(lines, pass) = F[end]
  BY Zenon DEF EncodeLines, IsEncoding, EncodingAt
<1> HIDE DEF F
<1>7. \A n \in 0..end : F[n] = EncodingAt(lines, pass, F, n)
  BY <1>5 DEF IsEncoding
<1>8. F[0] = [addr |-> 0, instrs |-> <<>>, spans |-> <<>>, diags |-> pass.diags]
  BY <1>7 DEF EncodingAt
<1>9. \A n \in 1..end : F[n] = EncodeInto(F[n-1], lines[n], pass.syms)
  BY <1>7 DEF EncodingAt
<1> QED
  BY <1>6, <1>8, <1>9

-----------------------------------------------------------------------------
(* The passes agree.                                                       *)

IsPass(p) == DOMAIN p = {"syms", "diags", "addr"}

\* b has the symbols of a and more labels.
Grows(a, b) ==
    /\ DOMAIN a \subseteq DOMAIN b
    /\ \A s \in DOMAIN a : b[s] = a[s]
    /\ \A s \in DOMAIN b \ DOMAIN a : b[s].k = "label"

LEMMA GrowsOn ==
    ASSUME NEW a, NEW b, NEW c, Grows(a, b), Grows(b, c)
    PROVE  Grows(a, c)
<1>1. \A s \in DOMAIN a : s \in DOMAIN b /\ s \in DOMAIN c /\ c[s] = a[s]
  BY DEF Grows
<1>2. \A s \in DOMAIN c \ DOMAIN a : c[s].k = "label"
  <2> TAKE s \in DOMAIN c \ DOMAIN a
  <2>1. CASE s \in DOMAIN b
    BY <2>1 DEF Grows
  <2>2. CASE s \notin DOMAIN b
    BY <2>2 DEF Grows
  <2> QED
    BY <2>1, <2>2
<1> QED
  BY <1>1, <1>2 DEF Grows

LEMMA InsertPass ==
    ASSUME NEW p, IsPass(p), NEW name, NEW sym
    PROVE  /\ IsPass(Insert(p, name, sym)) /\ Insert(p, name, sym).addr = p.addr
           /\ sym.k = "label" => Grows(p.syms, Insert(p, name, sym).syms)
<1> DEFINE q == Insert(p, name, sym)
<1>1. CASE name \in DOMAIN p.syms
  <2>1. IsPass(q) /\ q.addr = p.addr /\ q.syms = p.syms
    BY <1>1 DEF Insert, IsPass
  <2>2. Grows(p.syms, p.syms)
    BY DEF Grows
  <2> HIDE DEF q
  <2> QED
    BY <2>1, <2>2 DEF q
<1>2. CASE name \notin DOMAIN p.syms
  <2> DEFINE t == [n \in DOMAIN p.syms \cup {name} |-> IF n = name THEN sym ELSE p.syms[n]]
  <2>1. q = [p EXCEPT !.syms = t]
    BY <1>2 DEF Insert
  <2>2. sym.k = "label" => Grows(p.syms, t)
    BY <1>2 DEF Grows
  <2> HIDE DEF t
  <2>3. IsPass(q) /\ q.addr = p.addr /\ q.syms = t
    BY <2>1 DEF IsPass
  <2> HIDE DEF q
  <2> QED
    BY <2>2, <2>3 DEF q
<1> QED
  BY <1>1, <1>2

LEMMA CollectPass ==
    ASSUME NEW p, IsPass(p), NEW line
    PROVE  IsPass(Collect(p, line)) /\ Collect(p, line).addr = p.addr
<1>1. \A d : LET q == [p EXCEPT !.diags = Append(@, d)] IN IsPass(q) /\ q.addr = p.addr
  BY DEF IsPass
<1>2. \/ Collect(p, line) = p
      \/ \E d : Collect(p, line) = [p EXCEPT !.diags = Append(@, d)]
      \/ \E name, sym : Collect(p, line) = Insert(p, name, sym)
  BY Zenon DEF Collect
<1>3. \A name, sym : IsPass(Insert(p, name, sym)) /\ Insert(p, name, sym).addr = p.addr
  BY InsertPass
<1>4. CASE Collect(p, line) = p
  BY <1>4
<1>5. CASE \E d : Collect(p, line) = [p EXCEPT !.diags = Append(@, d)]
  BY <1>1, <1>5, Zenon
<1>6. CASE \E name, sym : Collect(p, line) = Insert(p, name, sym)
  BY <1>3, <1>6, Zenon
<1> QED
  BY <1>2, <1>4, <1>5, <1>6

LEMMA AssignPass ==
    ASSUME NEW p, IsPass(p), NEW line \in LineSet
    PROVE  LET q == Assign(p, line)
           IN  /\ IsPass(q) /\ Grows(p.syms, q.syms)
               /\ q.addr = IF line.k = "instr"
                           THEN p.addr + InstrWordCount(line.name, line.args, p.syms)
                           ELSE p.addr
<1> DEFINE q == Assign(p, line)
<1>0. Grows(p.syms, p.syms)
  BY DEF Grows
<1>1. CASE line.k = "label"
  <2> DEFINE sym == [k |-> "label", v |-> p.addr, at |-> line.at]
  <2>1. q = Insert(p, line.name, sym)
    BY <1>1 DEF Assign
  <2>2. sym.k = "label"
    OBVIOUS
  <2> HIDE DEF sym
  <2>3. /\ IsPass(Insert(p, line.name, sym)) /\ Insert(p, line.name, sym).addr = p.addr
        /\ Grows(p.syms, Insert(p, line.name, sym).syms)
    BY <2>2, InsertPass
  <2> HIDE DEF q
  <2>4. IsPass(q) /\ q.addr = p.addr /\ Grows(p.syms, q.syms)
    BY <2>1, <2>3
  <2> QED
    BY <1>1, <2>4 DEF q
<1>2. CASE line.k = "instr"
  <2> DEFINE c == InstrWordCount(line.name, line.args, p.syms)
  <2>1. q = [p EXCEPT !.addr = @ + c]
    BY <1>2 DEF Assign
  <2> HIDE DEF c
  <2>2. IsPass(q) /\ q.syms = p.syms /\ q.addr = p.addr + c
    BY <2>1 DEF IsPass
  <2> HIDE DEF q
  <2> QED
    BY <1>0, <1>2, <2>2 DEF q, c
<1>3. CASE line.k = "dir"
  <2>1. q = p
    BY <1>3 DEF Assign
  <2> QED
    BY <1>0, <1>3, <2>1
<1> QED
  BY <1>1, <1>2, <1>3, LineFields

\* A label defined later is no constant, now or then.
LEMMA SameLiValue ==
    ASSUME NEW a, NEW b, Grows(a, b), NEW o \in OperandSet
    PROVE  \/ LiValue(o, a) = LiValue(o, b)
           \/ ~IsOk(LiValue(o, a)) /\ ~IsOk(LiValue(o, b))
<1>1. o.k \in {"num", "id"}
  BY DEF OperandSet
<1>2. CASE ResolveImm(o, a) = ResolveImm(o, b)
  BY <1>2 DEF LiValue
<1>3. CASE ~IsOk(ResolveImm(o, a)) /\ ~IsOk(ResolveImm(o, b))
  BY <1>3 DEF LiValue, Bind
<1>4. CASE o.k = "num"
  <2>1. \A syms : ResolveImm(o, syms) = Ok(o.n)
    BY <1>4 DEF ResolveImm
  <2> QED
    BY <1>2, <2>1
<1>5. CASE o.k = "id" /\ o.v \in DOMAIN a
  <2>1. o.v \in DOMAIN b /\ b[o.v] = a[o.v]
    BY <1>5 DEF Grows
  <2>2. ResolveImm(o, a) = ResolveImm(o, b)
    BY <1>5, <2>1, Zenon DEF ResolveImm
  <2> QED
    BY <1>2, <2>2
<1>6. CASE o.k = "id" /\ o.v \notin DOMAIN a
  <2>1. ~IsOk(ResolveImm(o, a))
    BY <1>6 DEF ResolveImm, IsOk, Err
  <2>2. CASE o.v \notin DOMAIN b
    <3>1. ~IsOk(ResolveImm(o, b))
      BY <1>6, <2>2 DEF ResolveImm, IsOk, Err
    <3> QED
      BY <1>3, <2>1, <3>1
  <2>3. CASE o.v \in DOMAIN b
    <3>1. b[o.v].k = "label"
      BY <1>6, <2>3 DEF Grows
    <3>2. ~IsOk(ResolveImm(o, b))
      BY <1>6, <2>3, <3>1 DEF ResolveImm, IsOk, Err
    <3> QED
      BY <1>3, <2>1, <3>2
  <2> QED
    BY <2>2, <2>3
<1> QED
  BY <1>1, <1>4, <1>5, <1>6

LEMMA SameWordCount ==
    ASSUME NEW a, NEW b, Grows(a, b), NEW name, NEW operands \in Seq(OperandSet)
    PROVE  InstrWordCount(name, operands, a) = InstrWordCount(name, operands, b)
<1>1. CASE name = "li" /\ Len(operands) = 2
  <2>1. operands[2] \in OperandSet
    BY <1>1
  <2> DEFINE x == LiValue(operands[2], a)
             y == LiValue(operands[2], b)
  <2>2. x = y \/ (~IsOk(x) /\ ~IsOk(y))
    BY <2>1, SameLiValue
  <2>3. InstrWordCount(name, operands, a) = IF IsOk(x) THEN Len(TileLi(0, x.ok)) ELSE 1
    BY <1>1 DEF InstrWordCount
  <2>4. InstrWordCount(name, operands, b) = IF IsOk(y) THEN Len(TileLi(0, y.ok)) ELSE 1
    BY <1>1 DEF InstrWordCount
  <2> HIDE DEF x, y
  <2>5. CASE x = y
    BY <2>3, <2>4, <2>5
  <2>6. CASE ~IsOk(x) /\ ~IsOk(y)
    BY <2>3, <2>4, <2>6
  <2> QED
    BY <2>2, <2>5, <2>6
<1>2. CASE ~(name = "li" /\ Len(operands) = 2)
  BY <1>2 DEF InstrWordCount
<1> QED
  BY <1>1, <1>2

LEMMA FormNames ==
    DOMAIN Forms \cap {"li", "la", "call", "ret"} = {}
    /\ DOMAIN ByOperand \cap {"li", "la", "call", "ret"} = {}
BY DEF Forms, Plain, ThreeRegs, TwoRegsImm, Shifts, Branches, Others, ByOperand

LEMMA TileLength ==
    ASSUME NEW rd, NEW v
    PROVE  Len(TileLi(rd, v)) = Len(TileLi(0, v)) /\ Len(TileLi(rd, v)) \in {1, 2}
<1>0. \A i, j : Len(<<i>>) = 1 /\ Len(<<i>> \o <<>>) = 1 /\ Len(<<i>> \o <<j>>) = 2
  <2> TAKE i, j
  <2>1. <<i>> \in Seq({i, j}) /\ <<j>> \in Seq({i, j}) /\ <<>> \in Seq({i, j})
    OBVIOUS
  <2>2. Len(<<i>>) = 1 /\ Len(<<j>>) = 1 /\ Len(<<>>) = 0
    OBVIOUS
  <2> QED
    BY <2>1, <2>2, ConcatProperties
<1>1. CASE v \in -(2^20)..2^20 - 1
  <2>1. \A x : \E i : TileLi(x, v) = <<i>>
    BY <1>1, Zenon DEF TileLi
  <2> QED
    BY <1>0, <2>1
<1>2. CASE v \notin -(2^20)..2^20 - 1 /\ v % 2^11 = 0
  <2>1. \A x : \E i : TileLi(x, v) = <<i>> \o <<>>
    BY <1>2, Zenon DEF TileLi
  <2> QED
    BY <1>0, <2>1
<1>3. CASE v \notin -(2^20)..2^20 - 1 /\ v % 2^11 # 0
  <2>1. \A x : \E i, j : TileLi(x, v) = <<i>> \o <<j>>
    BY <1>3, Zenon DEF TileLi
  <2> QED
    BY <1>0, <2>1
<1> QED
  BY <1>1, <1>2, <1>3

\* What a line becomes, if it becomes anything.
LEMMA EncodedForm ==
    ASSUME NEW line, NEW addr, NEW syms, line.name \in DOMAIN Forms \cup DOMAIN ByOperand,
           IsOk(EncodeLine(line, addr, syms))
    PROVE  LET form == FormOf(line.name, line.args)
               r == ResolveAll(Tail(form), line.args, addr, syms)
           IN  /\ Len(line.args) = Len(form) - 1 /\ IsOk(r)
               /\ EncodeLine(line, addr, syms)
                    = Ok(<<Instr(form[1], Arranged(line.name, r.ok))>>)
<1> DEFINE form == FormOf(line.name, line.args)
           r == ResolveAll(Tail(form), line.args, addr, syms)
           e == EncodeLine(line, addr, syms)
<1>1. line.name \notin {"li", "la", "call", "ret"}
  BY FormNames
<1>2. \/ Len(line.args) # Len(form) - 1 /\ \E d : e = Err(d)
      \/ Len(line.args) = Len(form) - 1 /\ ~IsOk(r) /\ e = r
      \/ /\ Len(line.args) = Len(form) - 1 /\ IsOk(r)
         /\ \/ \E d : e = Err(d)
            \/ e = Ok(<<Instr(form[1], Arranged(line.name, r.ok))>>)
  BY <1>1, Zenon DEF EncodeLine, Bind
<1>3. \A d : ~IsOk(Err(d))
  BY DEF IsOk, Err
<1> QED
  BY <1>2, <1>3

LEMMA EncodedLi ==
    ASSUME NEW line, NEW addr, NEW syms, line.name = "li",
           IsOk(EncodeLine(line, addr, syms))
    PROVE  LET rd == ResolveReg(line.args[1])
               v == LiValue(line.args[2], syms)
           IN  /\ Len(line.args) = 2 /\ IsOk(rd) /\ IsOk(v)
               /\ EncodeLine(line, addr, syms) = Ok(TileLi(rd.ok, v.ok))
<1> DEFINE rd == ResolveReg(line.args[1])
           v == LiValue(line.args[2], syms)
           e == EncodeLine(line, addr, syms)
<1>1. line.name \notin DOMAIN Forms \cup DOMAIN ByOperand
  BY FormNames
<1>2. \/ Len(line.args) # 2 /\ \E d : e = Err(d)
      \/ Len(line.args) = 2 /\ ~IsOk(rd) /\ e = rd
      \/ Len(line.args) = 2 /\ IsOk(rd) /\ ~IsOk(v) /\ e = v
      \/ Len(line.args) = 2 /\ IsOk(rd) /\ IsOk(v) /\ e = Ok(TileLi(rd.ok, v.ok))
  <2>1. e = IF Len(line.args) # 2 THEN Err(Diag(line.at, "operand count"))
            ELSE IF IsOk(rd) THEN IF IsOk(v) THEN Ok(TileLi(rd.ok, v.ok)) ELSE v
                 ELSE rd
    BY <1>1 DEF EncodeLine, Bind
  <2> HIDE DEF e, rd, v
  <2> QED
    BY <2>1
<1>3. \A d : ~IsOk(Err(d))
  BY DEF IsOk, Err
<1> QED
  BY <1>2, <1>3

LEMMA NoOther ==
    ASSUME NEW line, NEW addr, NEW syms,
           line.name \notin DOMAIN Forms \cup DOMAIN ByOperand, line.name # "li"
    PROVE  ~IsOk(EncodeLine(line, addr, syms))
<1>1. \E d : EncodeLine(line, addr, syms) = Err(d)
  BY Zenon DEF EncodeLine
<1> QED
  BY <1>1 DEF IsOk, Err

\* Pass 2 encodes a line in the words pass 1 counted.
LEMMA EncodedLength ==
    ASSUME NEW line, NEW addr, NEW syms, IsOk(EncodeLine(line, addr, syms))
    PROVE  /\ Len(EncodeLine(line, addr, syms).ok) = InstrWordCount(line.name, line.args, syms)
<1>1. CASE line.name \in DOMAIN Forms \cup DOMAIN ByOperand
  <2>1. Len(EncodeLine(line, addr, syms).ok) = 1
    <3>1. \A i : Len(Ok(<<i>>).ok) = 1
      BY DEF Ok
    <3> QED
      BY <1>1, <3>1, EncodedForm
  <2>2. line.name # "li"
    BY <1>1, FormNames
  <2> QED
    BY <2>1, <2>2 DEF InstrWordCount
<1>2. CASE line.name = "li"
  <2> DEFINE rd == ResolveReg(line.args[1])
             v == LiValue(line.args[2], syms)
             e == EncodeLine(line, addr, syms)
  <2>1. Len(line.args) = 2 /\ IsOk(v) /\ e = Ok(TileLi(rd.ok, v.ok))
    BY <1>2, EncodedLi
  <2>2. InstrWordCount(line.name, line.args, syms) = Len(TileLi(0, v.ok))
    BY <1>2, <2>1 DEF InstrWordCount
  <2> HIDE DEF rd, v, e
  <2>3. e.ok = TileLi(rd.ok, v.ok)
    BY <2>1 DEF Ok
  <2>4. Len(e.ok) = Len(TileLi(0, v.ok))
    BY <2>3, TileLength
  <2> QED
    BY <2>2, <2>4 DEF e
<1> QED
  BY <1>1, <1>2, NoOther

\* The address pass 2 reaches behind a line, faulty or not.
LEMMA EncodeAddr ==
    ASSUME NEW p, DOMAIN p = {"addr", "instrs", "spans", "diags"}, NEW line \in LineSet,
           NEW syms, NEW q, q = EncodeInto(p, line, syms)
    PROVE  /\ DOMAIN q = {"addr", "instrs", "spans", "diags"}
           /\ q.addr = IF line.k = "instr"
                       THEN p.addr + InstrWordCount(line.name, line.args, syms)
                       ELSE p.addr
<1> DEFINE r == EncodeLine(line, p.addr, syms)
           c == InstrWordCount(line.name, line.args, syms)
<1>1. CASE line.k = "instr"
  <2>1. CASE IsOk(r)
    <3>1. Len(r.ok) = c
      BY <2>1, EncodedLength
    <3>2. \E x, y : q = [p EXCEPT !.addr = @ + Len(r.ok), !.instrs = x, !.spans = y]
      BY <1>1, <2>1, Zenon DEF EncodeInto
    <3> HIDE DEF r, c
    <3>3. DOMAIN q = {"addr", "instrs", "spans", "diags"} /\ q.addr = p.addr + Len(r.ok)
      BY <3>2
    <3>4. q.addr = p.addr + c
      BY <3>1, <3>3
    <3> QED
      BY <1>1, <3>3, <3>4 DEF c
  <2>2. CASE ~IsOk(r)
    <3>1. q = [p EXCEPT !.addr = @ + c, !.diags = Append(@, r.err)]
      BY <1>1, <2>2 DEF EncodeInto
    <3> HIDE DEF r, c
    <3>2. DOMAIN q = {"addr", "instrs", "spans", "diags"} /\ q.addr = p.addr + c
      BY <3>1
    <3> QED
      BY <1>1, <3>2 DEF c
  <2> QED
    BY <2>1, <2>2
<1>2. CASE line.k = "label"
  <2>1. q = p
    BY <1>2 DEF EncodeInto
  <2> QED
    BY <1>2, <2>1
<1>3. CASE line.k = "dir"
  <2>1. q = [p EXCEPT !.diags = @ \o ValidateDirective(line)]
    BY <1>3 DEF EncodeInto
  <2>2. DOMAIN q = {"addr", "instrs", "spans", "diags"} /\ q.addr = p.addr
    BY <2>1
  <2> QED
    BY <1>3, <2>2
<1> QED
  BY <1>1, <1>2, <1>3, LineFields

\* The two passes over lines, side by side: C and A and E are their states
\* behind each line.
Runs(lines, C, A, E) ==
    LET end == Len(lines)
    IN  /\ C[0] = [syms |-> <<>>, diags |-> <<>>, addr |-> 0]
        /\ \A n \in 1..end : C[n] = Collect(C[n-1], lines[n])
        /\ A[0] = C[end] /\ \A n \in 1..end : A[n] = Assign(A[n-1], lines[n])
        /\ E[0] = [addr |-> 0, instrs |-> <<>>, spans |-> <<>>, diags |-> A[end].diags]
        /\ \A n \in 1..end : E[n] = EncodeInto(E[n-1], lines[n], A[end].syms)

\* They end where the passes of the assembler do.
Passed(lines, C, A, E) ==
    LET end == Len(lines)
    IN  /\ Runs(lines, C, A, E)
        /\ CollectEqus(lines) = C[end]
        /\ AssignAddresses(lines, CollectEqus(lines)) = A[end]
        /\ EncodeLines(lines, A[end]) = E[end]

LEMMA RunsExist ==
    ASSUME NEW lines, Len(lines) \in Nat
    PROVE  \E C, A, E : Passed(lines, C, A, E)
<1> DEFINE end == Len(lines)
<1>1. PICK C : /\ CollectEqus(lines) = C[end]
               /\ C[0] = [syms |-> <<>>, diags |-> <<>>, addr |-> 0]
               /\ \A n \in 1..end : C[n] = Collect(C[n-1], lines[n])
  BY CollectUnfolds, Zenon
<1>2. PICK A : /\ AssignAddresses(lines, C[end]) = A[end]
               /\ A[0] = C[end]
               /\ \A n \in 1..end : A[n] = Assign(A[n-1], lines[n])
  <2> DEFINE equs == C[end]
  <2> HIDE DEF equs
  <2>1. \E A : /\ AssignAddresses(lines, equs) = A[end]
               /\ A[0] = equs
               /\ \A n \in 1..end : A[n] = Assign(A[n-1], lines[n])
    BY AssignUnfolds
  <2> QED
    BY <2>1 DEF equs
<1>3. PICK E : /\ EncodeLines(lines, A[end]) = E[end]
               /\ E[0] = [addr |-> 0, instrs |-> <<>>, spans |-> <<>>, diags |-> A[end].diags]
               /\ \A n \in 1..end : E[n] = EncodeInto(E[n-1], lines[n], A[end].syms)
  BY EncodingUnfolds, Zenon
<1>4. Runs(lines, C, A, E)
  BY <1>1, <1>2, <1>3, Zenon DEF Runs
<1>5. Passed(lines, C, A, E)
  BY <1>1, <1>2, <1>3, <1>4, Zenon DEF Passed
<1> QED
  BY <1>5

LEMMA CollectRun ==
    ASSUME NEW lines, Len(lines) \in Nat, NEW C, NEW A, NEW E, Runs(lines, C, A, E)
    PROVE  IsPass(A[0]) /\ A[0].addr = 0
<1> DEFINE end == Len(lines)
           S == {n \in 0..end : IsPass(C[n]) /\ C[n].addr = 0}
<1>1. Climbs(S, end)
  <2>1. IsPass(C[0]) /\ C[0].addr = 0
    BY DEF Runs, IsPass
  <2>2. ASSUME NEW n \in 0..end-1, n \in S PROVE n + 1 \in S
    <3>1. n + 1 \in 1..end /\ (n + 1) - 1 = n
      OBVIOUS
    <3>2. C[n+1] = Collect(C[n], lines[n+1])
      BY <3>1 DEF Runs
    <3>3. IsPass(C[n+1]) /\ C[n+1].addr = 0
      BY <2>2, <3>2, CollectPass
    <3> QED
      BY <3>1, <3>3
  <2> QED
    BY <2>1, <2>2 DEF Climbs
<1>2. end \in S
  <2>1. end \in Nat /\ end \in 0..end
    OBVIOUS
  <2> HIDE DEF S, end
  <2> QED
    BY <1>1, <2>1, Ladder
<1>3. A[0] = C[end]
  BY DEF Runs
<1> QED
  BY <1>2, <1>3

\* Behind every line pass 1 has some of the final symbols, and only labels
\* are still to come.
LEMMA AssignRun ==
    ASSUME NEW lines, Ordered(lines, 1), NEW C, NEW A, NEW E, Runs(lines, C, A, E)
    PROVE  \A n \in 0..Len(lines) :
               IsPass(A[n]) /\ Grows(A[n].syms, A[Len(lines)].syms)
<1> DEFINE end == Len(lines)
           P == {n \in 0..end : IsPass(A[n])}
           S == {n \in 0..end : Grows(A[end-n].syms, A[end].syms)}
<1>0. end \in Nat /\ \A n \in 1..end : lines[n] \in LineSet
  BY OrderedLines
<1>1. ASSUME NEW n \in 0..end-1, IsPass(A[n])
      PROVE  IsPass(A[n+1]) /\ Grows(A[n].syms, A[n+1].syms)
  <2>1. n + 1 \in 1..end /\ (n + 1) - 1 = n
    BY <1>0
  <2>2. A[n+1] = Assign(A[n], lines[n+1]) /\ lines[n+1] \in LineSet
    BY <1>0, <2>1 DEF Runs
  <2> QED
    BY <1>1, <2>2, AssignPass
<1>2. \A n \in 0..end : n \in P
  <2>1. 0 \in P
    BY <1>0, CollectRun
  <2>2. \A n \in 0..end-1 : n \in P => n + 1 \in P
    BY <1>0, <1>1
  <2> HIDE DEF P, end
  <2>3. Climbs(P, end)
    BY <2>1, <2>2 DEF Climbs
  <2> QED
    BY <1>0, <2>3, Ladder
<1>3. \A n \in 0..end : n \in S
  <2>1. 0 \in S
    BY <1>0 DEF Grows
  <2>2. ASSUME NEW n \in 0..end-1, n \in S PROVE n + 1 \in S
    <3> DEFINE m == end - (n + 1)
    <3>1. m \in 0..end-1 /\ m + 1 = end - n /\ n + 1 \in 0..end
      BY <1>0
    <3>2. Grows(A[m+1].syms, A[end].syms)
      BY <2>2, <3>1
    <3>3. IsPass(A[m])
      BY <1>0, <1>2, <3>1
    <3> HIDE DEF m, end
    <3>4. Grows(A[m].syms, A[m+1].syms)
      BY <1>1, <3>1, <3>3
    <3>5. Grows(A[m].syms, A[end].syms)
      BY <3>2, <3>4, GrowsOn
    <3> QED
      BY <3>1, <3>5 DEF m
  <2> HIDE DEF S, end
  <2>3. Climbs(S, end)
    BY <2>1, <2>2 DEF Climbs
  <2> QED
    BY <1>0, <2>3, Ladder
<1>4. ASSUME NEW n \in 0..end PROVE Grows(A[n].syms, A[end].syms)
  <2>1. end - n \in 0..end /\ end - (end - n) = n
    BY <1>0
  <2> QED
    BY <1>3, <2>1
<1> QED
  BY <1>2, <1>4

\* Behind every line the two passes are at the same address.
LEMMA SameAddress ==
    ASSUME NEW lines, Ordered(lines, 1), NEW C, NEW A, NEW E, Runs(lines, C, A, E)
    PROVE  \A n \in 0..Len(lines) :
               /\ DOMAIN E[n] = {"addr", "instrs", "spans", "diags"}
               /\ E[n].addr = A[n].addr
<1> DEFINE end == Len(lines)
           Fields == {"addr", "instrs", "spans", "diags"}
           S == {n \in 0..end : DOMAIN E[n] = Fields /\ E[n].addr = A[n].addr}
<1>0. end \in Nat /\ \A n \in 1..end : lines[n] \in LineSet
  BY OrderedLines
<1>1. 0 \in S
  <2>1. A[0].addr = 0
    BY <1>0, CollectRun
  <2> QED
    BY <1>0, <2>1 DEF Runs
<1>2. ASSUME NEW n \in 0..end-1, n \in S PROVE n + 1 \in S
  <2> DEFINE l == lines[n+1]
             syms == A[end].syms
  <2>1. n \in 0..end /\ n + 1 \in 0..end /\ n + 1 \in 1..end /\ (n + 1) - 1 = n
    BY <1>0
  <2>2. /\ A[n+1] = Assign(A[n], l) /\ l \in LineSet
        /\ E[n+1] = EncodeInto(E[n], l, syms)
    BY <1>0, <2>1 DEF Runs
  <2>3. IsPass(A[n]) /\ Grows(A[n].syms, syms)
    BY <2>1, AssignRun
  <2>4. DOMAIN E[n] = Fields /\ E[n].addr = A[n].addr
    BY <1>2
  <2> HIDE DEF l, syms
  <2>5. l.args \in Seq(OperandSet)
    BY <2>2, LineFields
  <2>6. InstrWordCount(l.name, l.args, A[n].syms) = InstrWordCount(l.name, l.args, syms)
    BY <2>3, <2>5, SameWordCount
  <2>7. A[n+1].addr = IF l.k = "instr" THEN A[n].addr + InstrWordCount(l.name, l.args, A[n].syms)
                                       ELSE A[n].addr
    BY <2>2, <2>3, AssignPass
  <2>8. /\ DOMAIN E[n+1] = Fields
        /\ E[n+1].addr = IF l.k = "instr" THEN E[n].addr + InstrWordCount(l.name, l.args, syms)
                                          ELSE E[n].addr
    <3> DEFINE p == E[n]
               q == E[n+1]
    <3>1. DOMAIN p = Fields /\ q = EncodeInto(p, l, syms)
      BY <2>2, <2>4
    <3> HIDE DEF p, q
    <3>2. /\ DOMAIN q = Fields
          /\ q.addr = IF l.k = "instr" THEN p.addr + InstrWordCount(l.name, l.args, syms)
                                       ELSE p.addr
      BY <2>2, <3>1, EncodeAddr
    <3> QED
      BY <3>2 DEF p, q
  <2>9. E[n+1].addr = A[n+1].addr
    BY <2>4, <2>6, <2>7, <2>8
  <2> QED
    BY <2>1, <2>8, <2>9
<1>3. \A n \in 0..end : n \in S
  <2> HIDE DEF S, end
  <2>1. Climbs(S, end)
    BY <1>1, <1>2 DEF Climbs
  <2> QED
    BY <1>0, <2>1, Ladder
<1> QED
  BY <1>3

\* For every source that parses, pass 2 reaches the address pass 1 reached,
\* faulty lines included (lib.rs assemble, instr_word_count against encode).
THEOREM PassesHoldStep == src \in Seq(Tokens) => PassesAgree
<1> SUFFICES ASSUME src \in Seq(Tokens), IsOk(Parse(src))
             PROVE  LET lines == Parse(src).ok
                        pass1 == AssignAddresses(lines, CollectEqus(lines))
                    IN  EncodeLines(lines, pass1).addr = pass1.addr
  BY DEF PassesAgree
<1> DEFINE lines == Parse(src).ok
<1>1. Ordered(lines, 1)
  BY SourceParsed
<1> HIDE DEF lines
<1>2. Len(lines) \in Nat
  BY <1>1, OrderedLines
<1>3. PICK C, A, E : /\ Runs(lines, C, A, E)
                     /\ CollectEqus(lines) = C[Len(lines)]
                     /\ AssignAddresses(lines, CollectEqus(lines)) = A[Len(lines)]
                     /\ EncodeLines(lines, A[Len(lines)]) = E[Len(lines)]
  BY <1>2, RunsExist DEF Passed
<1>4. Len(lines) \in 0..Len(lines)
  BY <1>2
<1>5. E[Len(lines)].addr = A[Len(lines)].addr
  BY <1>1, <1>3, <1>4, SameAddress
<1> QED
  BY <1>3, <1>5 DEF lines

-----------------------------------------------------------------------------
(* A clean run: no diagnostic, so every line left its words and every      *)
(* label its address.                                                      *)

Sequence(s) == \E S : s \in Seq(S)

LEMMA SeqAppend ==
    ASSUME NEW s, Sequence(s), NEW x
    PROVE  Sequence(Append(s, x)) /\ Append(s, x) # <<>>
<1>1. PICK S : s \in Seq(S)
  BY DEF Sequence
<1> DEFINE T == S \cup {x}
<1>2. s \in Seq(T) /\ x \in T
  BY <1>1
<1> HIDE DEF T
<1>3. Append(s, x) \in Seq(T) /\ Append(s, x) # <<>>
  BY <1>2, AppendProperties
<1> QED
  BY <1>3 DEF Sequence

LEMMA SeqLen ==
    ASSUME NEW s, Sequence(s)
    PROVE  Len(s) \in Nat /\ DOMAIN s = 1..Len(s)
<1>1. PICK S : s \in Seq(S)
  BY DEF Sequence
<1> QED
  BY <1>1, LenProperties

LEMMA SeqConcat ==
    ASSUME NEW s, Sequence(s), NEW t, Sequence(t)
    PROVE  /\ Sequence(s \o t) /\ Len(s \o t) = Len(s) + Len(t)
           /\ \A i \in 1..Len(s) : (s \o t)[i] = s[i]
           /\ \A i \in 1..Len(t) : (s \o t)[Len(s) + i] = t[i]
           /\ s \o t = <<>> => s = <<>> /\ t = <<>>
<1>1. PICK S : s \in Seq(S)
  BY DEF Sequence
<1>2. PICK T : t \in Seq(T)
  BY DEF Sequence
<1> DEFINE U == S \cup T
<1>3. s \in Seq(U) /\ t \in Seq(U)
  BY <1>1, <1>2
<1> HIDE DEF U
<1>4. /\ s \o t \in Seq(U) /\ Len(s \o t) = Len(s) + Len(t)
      /\ \A i \in 1..Len(s)+Len(t) :
            (s \o t)[i] = IF i <= Len(s) THEN s[i] ELSE t[i - Len(s)]
  BY <1>3, ConcatProperties
<1>5. Len(s) \in Nat /\ Len(t) \in Nat
  BY <1>3, LenProperties
<1>6. \A i \in 1..Len(s) : (s \o t)[i] = s[i]
  BY <1>4, <1>5
<1>7. ASSUME NEW i \in 1..Len(t) PROVE (s \o t)[Len(s) + i] = t[i]
  <2>1. Len(s) + i \in 1..Len(s)+Len(t) /\ ~(Len(s) + i <= Len(s)) /\ (Len(s) + i) - Len(s) = i
    BY <1>5
  <2> QED
    BY <1>4, <2>1
<1>8. s \o t = <<>> => s = <<>> /\ t = <<>>
  <2> SUFFICES ASSUME s \o t = <<>> PROVE s = <<>> /\ t = <<>>
    OBVIOUS
  <2>1. Len(s) = 0 /\ Len(t) = 0
    BY <1>4, <1>5
  <2> QED
    BY <1>3, <2>1, EmptySeq
<1> QED
  BY <1>4, <1>6, <1>7, <1>8 DEF Sequence

\* Behind its first n elements, s is t.
EndsWith(s, n, t) == \A i \in 1..Len(t) : s[n + i] = t[i]

LEMMA SeqRight ==
    ASSUME NEW s, Sequence(s), NEW t, Sequence(t)
    PROVE  EndsWith(s \o t, Len(s), t)
BY SeqConcat DEF EndsWith

\* A definition is a diagnostic or a new symbol.
Refused(p, q) == q.syms = p.syms /\ \E d : q.diags = Append(p.diags, d)
Defined(p, q, name, sym) ==
    /\ name \notin DOMAIN p.syms /\ q.diags = p.diags
    /\ q.syms = [n \in DOMAIN p.syms \cup {name} |->
                   IF n = name THEN sym ELSE p.syms[n]]

LEMMA InsertEither ==
    ASSUME NEW p, IsPass(p), NEW name, NEW sym, NEW q, q = Insert(p, name, sym)
    PROVE  Refused(p, q) \/ Defined(p, q, name, sym)
<1>1. CASE name \in DOMAIN p.syms
  <2>1. \E d : q = [p EXCEPT !.diags = Append(@, d)]
    BY <1>1, Zenon DEF Insert
  <2> QED
    BY <2>1 DEF IsPass, Refused
<1>2. CASE name \notin DOMAIN p.syms
  <2> DEFINE t == [n \in DOMAIN p.syms \cup {name} |-> IF n = name THEN sym ELSE p.syms[n]]
  <2>1. q = [p EXCEPT !.syms = t]
    BY <1>2 DEF Insert
  <2> HIDE DEF t
  <2>2. q.diags = p.diags /\ q.syms = t
    BY <2>1 DEF IsPass
  <2> QED
    BY <1>2, <2>2 DEF t, Defined
<1> QED
  BY <1>1, <1>2

\* Pass 0 leaves constants.
Constants(p) == Sequence(p.diags) /\ \A s \in DOMAIN p.syms : p.syms[s].k = "equ"

LEMMA CollectConstants ==
    ASSUME NEW p, IsPass(p), Constants(p), NEW line
    PROVE  Constants(Collect(p, line))
<1>1. ASSUME NEW d PROVE Constants([p EXCEPT !.diags = Append(@, d)])
  <2> DEFINE q == [p EXCEPT !.diags = Append(@, d)]
  <2>1. q.syms = p.syms /\ q.diags = Append(p.diags, d)
    BY DEF IsPass
  <2> HIDE DEF q
  <2>2. Constants(q)
    BY <2>1, SeqAppend DEF Constants
  <2> QED
    BY <2>2 DEF q
<1>2. ASSUME NEW name, NEW sym, sym.k = "equ" PROVE Constants(Insert(p, name, sym))
  <2> DEFINE q == Insert(p, name, sym)
  <2>1. q = Insert(p, name, sym)
    OBVIOUS
  <2> HIDE DEF q
  <2>2. ASSUME Refused(p, q) PROVE Constants(q)
    BY <2>2, SeqAppend DEF Constants, Refused
  <2>3. ASSUME Defined(p, q, name, sym) PROVE Constants(q)
    BY <1>2, <2>3 DEF Constants, Defined
  <2>4. Constants(q)
    BY <2>1, <2>2, <2>3, InsertEither
  <2> QED
    BY <2>4 DEF q
<1>3. \/ Collect(p, line) = p
      \/ \E d : Collect(p, line) = [p EXCEPT !.diags = Append(@, d)]
      \/ \E name, v, at : Collect(p, line) = Insert(p, name, [k |-> "equ", v |-> v, at |-> at])
  BY Zenon DEF Collect
<1>4. CASE Collect(p, line) = p
  BY <1>4
<1>5. CASE \E d : Collect(p, line) = [p EXCEPT !.diags = Append(@, d)]
  BY <1>1, <1>5, Zenon
<1>6. CASE \E name, v, at : Collect(p, line) = Insert(p, name, [k |-> "equ", v |-> v, at |-> at])
  <2>1. PICK name, v, at : Collect(p, line) = Insert(p, name, [k |-> "equ", v |-> v, at |-> at])
    BY <1>6
  <2> DEFINE sym == [k |-> "equ", v |-> v, at |-> at]
  <2>2. sym.k = "equ"
    OBVIOUS
  <2>3. Collect(p, line) = Insert(p, name, sym)
    BY <2>1
  <2> HIDE DEF sym
  <2> QED
    BY <1>2, <2>2, <2>3
<1> QED
  BY <1>3, <1>4, <1>5, <1>6

\* The symbol a label leaves.
LabelAt(p, line) == [k |-> "label", v |-> p.addr, at |-> line.at]

\* A line of pass 1 that adds no diagnostic.
CleanAssign(p, q, line) ==
    IF line.k = "label"
    THEN Defined(p, q, line.name, LabelAt(p, line))
    ELSE q.syms = p.syms

LEMMA AssignClean ==
    ASSUME NEW p, IsPass(p), Sequence(p.diags), NEW line \in LineSet,
           NEW q, q = Assign(p, line)
    PROVE  /\ Sequence(q.diags)
           /\ q.diags = <<>> => p.diags = <<>> /\ CleanAssign(p, q, line)
<1>1. CASE line.k = "label"
  <2>1. q = Insert(p, line.name, LabelAt(p, line))
    BY <1>1 DEF Assign, LabelAt
  <2>2. Refused(p, q) \/ Defined(p, q, line.name, LabelAt(p, line))
    BY <2>1, InsertEither
  <2>3. CASE Refused(p, q)
    BY <2>3, SeqAppend DEF Refused
  <2>4. CASE Defined(p, q, line.name, LabelAt(p, line))
    <3>1. CleanAssign(p, q, line)
      BY <1>1, <2>4 DEF CleanAssign
    <3> QED
      BY <2>4, <3>1 DEF Defined
  <2> QED
    BY <2>2, <2>3, <2>4
<1>2. CASE line.k = "instr"
  <2> DEFINE c == InstrWordCount(line.name, line.args, p.syms)
  <2>1. q = [p EXCEPT !.addr = @ + c]
    BY <1>2 DEF Assign
  <2> HIDE DEF c
  <2>2. q.syms = p.syms /\ q.diags = p.diags
    BY <2>1 DEF IsPass
  <2> QED
    BY <1>2, <2>2 DEF CleanAssign
<1>3. CASE line.k = "dir"
  <2>1. q = p
    BY <1>3 DEF Assign
  <2> QED
    BY <1>3, <2>1 DEF CleanAssign
<1> QED
  BY <1>1, <1>2, <1>3, LineFields

\* The instructions of a line are one or two.
LEMMA EncodedSequence ==
    ASSUME NEW line, NEW addr, NEW syms, IsOk(EncodeLine(line, addr, syms))
    PROVE  LET is == EncodeLine(line, addr, syms).ok IN Sequence(is) /\ Len(is) \in {1, 2}
<1>1. \A i : Sequence(<<i>>) /\ Len(<<i>>) = 1
  <2> TAKE i
  <2>1. <<i>> \in Seq({i}) /\ Len(<<i>>) = 1
    OBVIOUS
  <2> QED
    BY <2>1 DEF Sequence
<1>2. CASE line.name \in DOMAIN Forms \cup DOMAIN ByOperand
  <2>1. \E i : EncodeLine(line, addr, syms) = Ok(<<i>>)
    BY <1>2, EncodedForm
  <2>2. PICK i : EncodeLine(line, addr, syms).ok = <<i>>
    BY <2>1 DEF Ok
  <2> QED
    BY <1>1, <2>2
<1>3. CASE line.name = "li"
  <2>1. \E rd, v : EncodeLine(line, addr, syms) = Ok(TileLi(rd, v))
    BY <1>3, EncodedLi
  <2>2. PICK rd, v : EncodeLine(line, addr, syms).ok = TileLi(rd, v)
    BY <2>1 DEF Ok
  <2>3. Sequence(TileLi(rd, v))
    <3>1. Sequence(<<>>)
      <4>1. <<>> \in Seq({})
        OBVIOUS
      <4> QED
        BY <4>1 DEF Sequence
    <3>2. \/ \E i : TileLi(rd, v) = <<i>>
          \/ \E i : TileLi(rd, v) = <<i>> \o <<>>
          \/ \E i, j : TileLi(rd, v) = <<i>> \o <<j>>
      BY Zenon DEF TileLi
    <3>3. \A i, j : Sequence(<<i>> \o <<j>>) /\ Sequence(<<i>> \o <<>>)
      BY <1>1, <3>1, SeqConcat
    <3> QED
      BY <1>1, <3>2, <3>3
  <2>4. Len(TileLi(rd, v)) \in {1, 2}
    BY TileLength
  <2> QED
    BY <2>2, <2>3, <2>4
<1> QED
  BY <1>2, <1>3, NoOther

\* A line of pass 2 that adds no diagnostic.
CleanEncode(p, q, line, syms) ==
    LET r == EncodeLine(line, p.addr, syms)
    IN  IF line.k = "instr"
        THEN /\ IsOk(r) /\ q.addr = p.addr + Len(r.ok) /\ q.instrs = p.instrs \o r.ok
             /\ q.spans = p.spans \o [n \in 1..Len(r.ok) |-> line.at]
        ELSE q.addr = p.addr /\ q.instrs = p.instrs /\ q.spans = p.spans

LEMMA EncodeClean ==
    ASSUME NEW p, DOMAIN p = {"addr", "instrs", "spans", "diags"}, Sequence(p.diags),
           NEW line \in LineSet, NEW syms, NEW q, q = EncodeInto(p, line, syms)
    PROVE  /\ Sequence(q.diags)
           /\ q.diags = <<>> => p.diags = <<>> /\ CleanEncode(p, q, line, syms)
<1> DEFINE r == EncodeLine(line, p.addr, syms)
<1>1. CASE line.k = "instr" /\ IsOk(r)
  <2> DEFINE at == [n \in 1..Len(r.ok) |-> line.at]
  <2>1. q = [p EXCEPT !.addr = @ + Len(r.ok), !.instrs = @ \o r.ok, !.spans = @ \o at]
    BY <1>1 DEF EncodeInto
  <2> HIDE DEF r, at
  <2>2. /\ q.addr = p.addr + Len(r.ok) /\ q.instrs = p.instrs \o r.ok
        /\ q.spans = p.spans \o at /\ q.diags = p.diags
    BY <2>1
  <2>3. CleanEncode(p, q, line, syms)
    BY <1>1, <2>2 DEF CleanEncode, r, at
  <2> QED
    BY <2>2, <2>3
<1>2. CASE line.k = "instr" /\ ~IsOk(r)
  <2> DEFINE c == InstrWordCount(line.name, line.args, syms)
  <2>1. q = [p EXCEPT !.addr = @ + c, !.diags = Append(@, r.err)]
    BY <1>2 DEF EncodeInto
  <2> HIDE DEF r, c
  <2>2. q.diags = Append(p.diags, r.err)
    BY <2>1
  <2> QED
    BY <2>2, SeqAppend
<1>3. CASE line.k = "label"
  <2>1. q = p
    BY <1>3 DEF EncodeInto
  <2> QED
    BY <1>3, <2>1 DEF CleanEncode
<1>4. CASE line.k = "dir"
  <2>1. q = [p EXCEPT !.diags = @ \o ValidateDirective(line)]
    BY <1>4 DEF EncodeInto
  <2>2. Sequence(ValidateDirective(line))
    <3>1. \/ ValidateDirective(line) = <<>>
          \/ \E d : ValidateDirective(line) = <<d>>
      BY Zenon DEF ValidateDirective
    <3>2. <<>> \in Seq({}) /\ \A d : <<d>> \in Seq({d})
      OBVIOUS
    <3> QED
      BY <3>1, <3>2 DEF Sequence
  <2> DEFINE v == ValidateDirective(line)
  <2> HIDE DEF v
  <2>3. q.diags = p.diags \o v /\ q.addr = p.addr /\ q.instrs = p.instrs /\ q.spans = p.spans
    BY <2>1 DEF v
  <2>4. Sequence(p.diags \o v) /\ (p.diags \o v = <<>> => p.diags = <<>>)
    BY <2>2, SeqConcat DEF v
  <2>5. CleanEncode(p, q, line, syms)
    BY <1>4, <2>3 DEF CleanEncode
  <2> QED
    BY <2>3, <2>4, <2>5
<1> QED
  BY <1>1, <1>2, <1>3, <1>4, LineFields

LEMMA ConstantsRun ==
    ASSUME NEW lines, Len(lines) \in Nat, NEW C, NEW A, NEW E, Runs(lines, C, A, E)
    PROVE  Constants(A[0])
<1> DEFINE end == Len(lines)
           S == {n \in 0..end : IsPass(C[n]) /\ Constants(C[n])}
<1>1. Climbs(S, end)
  <2>1. IsPass(C[0]) /\ Constants(C[0])
    <3>1. <<>> \in Seq({})
      OBVIOUS
    <3> QED
      BY <3>1 DEF Runs, IsPass, Constants, Sequence
  <2>2. ASSUME NEW n \in 0..end-1, n \in S PROVE n + 1 \in S
    <3>1. n + 1 \in 1..end /\ (n + 1) - 1 = n
      OBVIOUS
    <3>2. C[n+1] = Collect(C[n], lines[n+1])
      BY <3>1 DEF Runs
    <3>3. IsPass(C[n+1]) /\ Constants(C[n+1])
      BY <2>2, <3>2, CollectPass, CollectConstants
    <3> QED
      BY <3>1, <3>3
  <2> QED
    BY <2>1, <2>2 DEF Climbs
<1>2. end \in S
  <2>1. end \in Nat /\ end \in 0..end
    OBVIOUS
  <2> HIDE DEF S, end
  <2> QED
    BY <1>1, <2>1, Ladder
<1>3. A[0] = C[end]
  BY DEF Runs
<1> QED
  BY <1>2, <1>3

\* What a line does to the diagnostics of each pass.
LEMMA DiagSteps ==
    ASSUME NEW lines, Ordered(lines, 1), NEW C, NEW A, NEW E, Runs(lines, C, A, E),
           NEW n \in 0..Len(lines)-1
    PROVE  /\ Sequence(A[n].diags) =>
                 /\ Sequence(A[n+1].diags)
                 /\ A[n+1].diags = <<>> =>
                       A[n].diags = <<>> /\ CleanAssign(A[n], A[n+1], lines[n+1])
           /\ Sequence(E[n].diags) =>
                 /\ Sequence(E[n+1].diags)
                 /\ E[n+1].diags = <<>> =>
                       /\ E[n].diags = <<>>
                       /\ CleanEncode(E[n], E[n+1], lines[n+1], A[Len(lines)].syms)
<1> DEFINE end == Len(lines)
           syms == A[end].syms
<1>0. end \in Nat /\ \A m \in 1..end : lines[m] \in LineSet
  BY OrderedLines
<1>1. \A m \in 0..end : IsPass(A[m]) /\ DOMAIN E[m] = {"addr", "instrs", "spans", "diags"}
  BY AssignRun, SameAddress
<1>2. n \in 0..end /\ n + 1 \in 1..end /\ (n + 1) - 1 = n
  BY <1>0
<1>3. /\ A[n+1] = Assign(A[n], lines[n+1]) /\ lines[n+1] \in LineSet /\ IsPass(A[n])
      /\ E[n+1] = EncodeInto(E[n], lines[n+1], syms)
      /\ DOMAIN E[n] = {"addr", "instrs", "spans", "diags"}
  BY <1>0, <1>1, <1>2 DEF Runs
<1> HIDE DEF syms
<1>4. ASSUME Sequence(A[n].diags)
      PROVE  /\ Sequence(A[n+1].diags)
             /\ A[n+1].diags = <<>> =>
                   A[n].diags = <<>> /\ CleanAssign(A[n], A[n+1], lines[n+1])
  BY <1>3, <1>4, AssignClean
<1>5. ASSUME Sequence(E[n].diags)
      PROVE  /\ Sequence(E[n+1].diags)
             /\ E[n+1].diags = <<>> =>
                   E[n].diags = <<>> /\ CleanEncode(E[n], E[n+1], lines[n+1], syms)
  BY <1>3, <1>5, EncodeClean
<1> QED
  BY <1>4, <1>5 DEF syms

LEMMA DiagsRun ==
    ASSUME NEW lines, Ordered(lines, 1), NEW C, NEW A, NEW E, Runs(lines, C, A, E)
    PROVE  \A n \in 0..Len(lines) : Sequence(A[n].diags) /\ Sequence(E[n].diags)
<1> DEFINE end == Len(lines)
           As == {n \in 0..end : Sequence(A[n].diags)}
           Es == {n \in 0..end : Sequence(E[n].diags)}
<1>0. end \in Nat /\ 0 \in 0..end /\ end \in 0..end
  BY OrderedLines
<1>1. \A n \in 0..end : n \in As
  <2>1. 0 \in As
    BY <1>0, ConstantsRun DEF Constants
  <2>2. \A n \in 0..end-1 : n \in As => n + 1 \in As
    BY <1>0, DiagSteps
  <2> HIDE DEF As, end
  <2>3. Climbs(As, end)
    BY <2>1, <2>2 DEF Climbs
  <2> QED
    BY <1>0, <2>3, Ladder
<1>2. E[0].diags = A[end].diags
  BY DEF Runs
<1>3. \A n \in 0..end : n \in Es
  <2>1. 0 \in Es
    BY <1>0, <1>1, <1>2
  <2>2. \A n \in 0..end-1 : n \in Es => n + 1 \in Es
    BY <1>0, DiagSteps
  <2> HIDE DEF Es, end
  <2>3. Climbs(Es, end)
    BY <2>1, <2>2 DEF Climbs
  <2> QED
    BY <1>0, <2>3, Ladder
<1> QED
  BY <1>1, <1>3

\* No line of a program without diagnostics added one.
LEMMA CleanRun ==
    ASSUME NEW lines, Ordered(lines, 1), NEW C, NEW A, NEW E, Runs(lines, C, A, E),
           E[Len(lines)].diags = <<>>
    PROVE  \A n \in 1..Len(lines) :
               /\ CleanAssign(A[n-1], A[n], lines[n])
               /\ CleanEncode(E[n-1], E[n], lines[n], A[Len(lines)].syms)
<1> DEFINE end == Len(lines)
           syms == A[end].syms
           CleanA == {n \in 0..end : A[end-n].diags = <<>>}
           CleanE == {n \in 0..end : E[end-n].diags = <<>>}
<1>0. end \in Nat /\ 0 \in 0..end /\ end \in 0..end
  BY OrderedLines
<1>1. ASSUME NEW n \in 0..end-1, Sequence(A[n].diags)
      PROVE  A[n+1].diags = <<>> => A[n].diags = <<>> /\ CleanAssign(A[n], A[n+1], lines[n+1])
  BY <1>1, DiagSteps
<1>2. ASSUME NEW n \in 0..end-1, Sequence(E[n].diags)
      PROVE  E[n+1].diags = <<>> =>
                E[n].diags = <<>> /\ CleanEncode(E[n], E[n+1], lines[n+1], syms)
  BY <1>2, DiagSteps
<1>3. E[0].diags = A[end].diags
  BY DEF Runs
<1>4. \A n \in 0..end : Sequence(A[n].diags) /\ Sequence(E[n].diags)
  BY DiagsRun
<1>5. \A n \in 0..end : n \in CleanE
  <2>1. 0 \in CleanE
    BY <1>0
  <2>2. ASSUME NEW n \in 0..end-1, n \in CleanE PROVE n + 1 \in CleanE
    <3> DEFINE m == end - (n + 1)
    <3>1. m \in 0..end-1 /\ m \in 0..end /\ m + 1 = end - n /\ n + 1 \in 0..end
      BY <1>0
    <3>2. E[m+1].diags = <<>> /\ Sequence(E[m].diags)
      BY <1>4, <2>2, <3>1
    <3> HIDE DEF m
    <3>3. E[m].diags = <<>>
      BY <1>2, <3>1, <3>2
    <3> QED
      BY <3>1, <3>3 DEF m
  <2> HIDE DEF CleanE, end
  <2>3. Climbs(CleanE, end)
    BY <2>1, <2>2 DEF Climbs
  <2> QED
    BY <1>0, <2>3, Ladder
<1>6. A[end].diags = <<>>
  <2>1. end - end = 0
    BY <1>0
  <2> QED
    BY <1>0, <1>3, <1>5, <2>1
<1>7. \A n \in 0..end : n \in CleanA
  <2>1. 0 \in CleanA
    BY <1>0, <1>6
  <2>2. ASSUME NEW n \in 0..end-1, n \in CleanA PROVE n + 1 \in CleanA
    <3> DEFINE m == end - (n + 1)
    <3>1. m \in 0..end-1 /\ m \in 0..end /\ m + 1 = end - n /\ n + 1 \in 0..end
      BY <1>0
    <3>2. A[m+1].diags = <<>> /\ Sequence(A[m].diags)
      BY <1>4, <2>2, <3>1
    <3> HIDE DEF m
    <3>3. A[m].diags = <<>>
      BY <1>1, <3>1, <3>2
    <3> QED
      BY <3>1, <3>3 DEF m
  <2> HIDE DEF CleanA, end
  <2>3. Climbs(CleanA, end)
    BY <2>1, <2>2 DEF Climbs
  <2> QED
    BY <1>0, <2>3, Ladder
<1>8. ASSUME NEW n \in 1..end
       PROVE  /\ CleanAssign(A[n-1], A[n], lines[n])
              /\ CleanEncode(E[n-1], E[n], lines[n], syms)
  <2> DEFINE m == n - 1
  <2>1. /\ m \in 0..end-1 /\ m \in 0..end /\ m + 1 = n
        /\ end - n \in 0..end /\ end - (end - n) = n
    BY <1>0
  <2>2. A[n].diags = <<>> /\ E[n].diags = <<>>
    BY <1>5, <1>7, <2>1
  <2>3. Sequence(A[m].diags) /\ Sequence(E[m].diags)
    BY <1>4, <2>1
  <2> HIDE DEF m, syms
  <2>4. CleanAssign(A[m], A[m+1], lines[m+1]) /\ CleanEncode(E[m], E[m+1], lines[m+1], syms)
    BY <1>1, <1>2, <2>1, <2>2, <2>3
  <2> QED
    BY <2>1, <2>4 DEF m
<1> QED
  BY <1>8

-----------------------------------------------------------------------------
(* The labels and the words of a clean run.                                *)

\* A label is in the final table, with the address at its line.
LEMMA LabelKept ==
    ASSUME NEW lines, Ordered(lines, 1), NEW C, NEW A, NEW E, Runs(lines, C, A, E),
           E[Len(lines)].diags = <<>>, NEW m \in 1..Len(lines), lines[m].k = "label"
    PROVE  /\ lines[m].name \in DOMAIN A[Len(lines)].syms
           /\ A[Len(lines)].syms[lines[m].name] = LabelAt(A[m-1], lines[m])
<1> DEFINE name == lines[m].name
           sym == LabelAt(A[m-1], lines[m])
<1>1. Defined(A[m-1], A[m], name, sym)
  BY CleanRun DEF CleanAssign
<1>2. m \in 0..Len(lines)
  BY OrderedLines
<1>3. Grows(A[m].syms, A[Len(lines)].syms)
  BY <1>2, AssignRun
<1> HIDE DEF name, sym
<1>4. name \in DOMAIN A[m].syms /\ A[m].syms[name] = sym
  BY <1>1 DEF Defined
<1>5. name \in DOMAIN A[Len(lines)].syms /\ A[Len(lines)].syms[name] = sym
  BY <1>3, <1>4 DEF Grows
<1> QED
  BY <1>5 DEF name, sym

\* A symbol that is no constant is the label of a line.
LEMMA LabelWritten ==
    ASSUME NEW lines, Ordered(lines, 1), NEW C, NEW A, NEW E, Runs(lines, C, A, E),
           E[Len(lines)].diags = <<>>,
           NEW s \in DOMAIN A[Len(lines)].syms, A[Len(lines)].syms[s].k # "equ"
    PROVE  \E m \in 1..Len(lines) : lines[m].k = "label" /\ lines[m].name = s
<1> DEFINE end == Len(lines)
           Known(n) == \A x \in DOMAIN A[n].syms :
                          \/ A[n].syms[x].k = "equ"
                          \/ \E m \in 1..end : lines[m].k = "label" /\ lines[m].name = x
           S == {n \in 0..end : Known(n)}
<1>0. end \in Nat /\ 0 \in 0..end /\ end \in 0..end
  BY OrderedLines
<1>1. 0 \in S
  BY <1>0, ConstantsRun DEF Constants
<1>2. ASSUME NEW n \in 0..end-1, n \in S PROVE n + 1 \in S
  <2>1. n + 1 \in 1..end /\ n + 1 \in 0..end /\ (n + 1) - 1 = n
    BY <1>0
  <2> DEFINE l == lines[n+1]
  <2>2. CleanAssign(A[n], A[n+1], l)
    BY <2>1, CleanRun
  <2>3. Known(n)
    BY <1>2
  <2>4. CASE l.k = "label"
    <3>1. Defined(A[n], A[n+1], l.name, LabelAt(A[n], l))
      BY <2>2, <2>4 DEF CleanAssign
    <3>2. \A x \in DOMAIN A[n+1].syms :
             x = l.name \/ (x \in DOMAIN A[n].syms /\ A[n+1].syms[x] = A[n].syms[x])
      <4> DEFINE sym == LabelAt(A[n], l)
                 a == A[n].syms
                 b == A[n+1].syms
                 name == l.name
      <4>1. b = [x \in DOMAIN a \cup {name} |-> IF x = name THEN sym ELSE a[x]]
        BY <3>1 DEF Defined
      <4> HIDE DEF sym, a, b, name
      <4>2. \A x \in DOMAIN b : x = name \/ (x \in DOMAIN a /\ b[x] = a[x])
        BY <4>1
      <4> QED
        BY <4>2 DEF a, b, name
    <3>3. Known(n+1)
      BY <2>1, <2>3, <2>4, <3>2
    <3> QED
      BY <2>1, <3>3
  <2>5. CASE l.k # "label"
    <3>1. A[n+1].syms = A[n].syms
      BY <2>2, <2>5 DEF CleanAssign
    <3>2. Known(n+1)
      BY <2>3, <3>1
    <3> QED
      BY <2>1, <3>2
  <2> QED
    BY <2>4, <2>5
<1>3. end \in S
  <2> HIDE DEF S, end
  <2>1. Climbs(S, end)
    BY <1>1, <1>2 DEF Climbs
  <2> QED
    BY <1>0, <2>1, Ladder
<1> QED
  BY <1>3

\* The words behind line n: those of line m are the ones pass 2 added there.
Blocks(lines, E, n) ==
    /\ Sequence(E[n].instrs) /\ Sequence(E[n].spans)
    /\ E[n].addr \in Nat /\ Len(E[n].instrs) = E[n].addr /\ Len(E[n].spans) = E[n].addr
    /\ \A m \in 0..n : E[m].addr \in Nat /\ E[m].addr <= E[n].addr
    /\ \A m \in 1..n : \A w \in E[m-1].addr+1..E[m].addr :
          E[n].spans[w] = lines[m].at /\ E[n].instrs[w] = E[m].instrs[w]
    /\ \A w \in 1..E[n].addr : \E m \in 1..n : w \in E[m-1].addr+1..E[m].addr

LEMMA Appended ==
    ASSUME NEW a, Sequence(a), NEW b, Sequence(b), NEW c, c = a \o b
    PROVE  Sequence(c) /\ Len(c) = Len(a) + Len(b)
BY SeqConcat

LEMMA Within ==
    ASSUME NEW a \in Nat, NEW k \in Nat, NEW w \in a+1..a+k
    PROVE  w - a \in 1..k /\ w = a + (w - a)
OBVIOUS

LEMMA NextBlock ==
    ASSUME NEW lines, NEW E, NEW n \in Nat, Blocks(lines, E, n), NEW is, Sequence(is),
           NEW at,
           E[n+1].addr = E[n].addr + Len(is), E[n+1].instrs = E[n].instrs \o is,
           Sequence(at), Len(at) = Len(is), \A i \in 1..Len(is) : at[i] = lines[n+1].at,
           E[n+1].spans = E[n].spans \o at
    PROVE  Blocks(lines, E, n+1)
<1> DEFINE p == E[n]
           q == E[n+1]
           k == Len(is)
<1>1. /\ Sequence(p.instrs) /\ Sequence(p.spans) /\ p.addr \in Nat
      /\ Len(p.instrs) = p.addr /\ Len(p.spans) = p.addr
  BY DEF Blocks
<1>2. k \in Nat /\ q.addr = p.addr + k /\ q.instrs = p.instrs \o is /\ q.spans = p.spans \o at
  BY SeqLen
<1>3. /\ Sequence(q.instrs) /\ Sequence(q.spans) /\ q.addr \in Nat
      /\ Len(q.instrs) = q.addr /\ Len(q.spans) = q.addr
  <2> HIDE DEF p, q
  <2>1. Sequence(q.instrs) /\ Len(q.instrs) = Len(p.instrs) + Len(is)
    BY <1>1, <1>2, Appended, Zenon
  <2>2. Sequence(q.spans) /\ Len(q.spans) = Len(p.spans) + Len(at)
    BY <1>1, <1>2, Appended, Zenon
  <2>3. Len(at) = k
    OBVIOUS
  <2> HIDE DEF k
  <2>4. Len(q.instrs) = Len(p.instrs) + k
    BY <2>1 DEF k
  <2> QED
    BY <1>1, <1>2, <2>1, <2>2, <2>3, <2>4
<1>4. /\ \A w \in 1..p.addr : q.spans[w] = p.spans[w] /\ q.instrs[w] = p.instrs[w]
      /\ \A w \in p.addr+1..q.addr : q.spans[w] = lines[n+1].at
  <2> HIDE DEF p, q
  <2>1. \A w \in 1..p.addr : q.spans[w] = p.spans[w] /\ q.instrs[w] = p.instrs[w]
    BY <1>1, <1>2, SeqConcat
  <2>2. ASSUME NEW w \in p.addr+1..q.addr PROVE q.spans[w] = lines[n+1].at
    <3> DEFINE i == w - p.addr
    <3>1. i \in 1..k /\ w = p.addr + i
      <4> HIDE DEF k
      <4>1. w \in p.addr+1..p.addr+k
        BY <1>2
      <4> QED
        BY <1>1, <1>2, <4>1, Within
    <3>2. i \in 1..Len(at) /\ at[i] = lines[n+1].at
      BY <3>1
    <3> DEFINE s == p.spans
    <3> HIDE DEF i, s, k
    <3>3. Sequence(s) /\ Len(s) = p.addr /\ q.spans = s \o at
      BY <1>1, <1>2 DEF s
    <3>4. EndsWith(s \o at, Len(s), at)
      BY <3>3, SeqRight
    <3>5. (s \o at)[Len(s) + i] = at[i]
      BY <3>2, <3>4 DEF EndsWith
    <3>6. q.spans[p.addr + i] = at[i]
      BY <3>3, <3>5
    <3> QED
      BY <3>1, <3>2, <3>6
  <2> QED
    BY <2>1, <2>2
<1>5. \A m \in 0..n+1 : E[m].addr \in Nat /\ E[m].addr <= q.addr
  <2> TAKE m \in 0..n+1
  <2>1. CASE m = n + 1
    BY <1>3, <2>1
  <2>2. CASE m # n + 1
    <3>1. m \in 0..n
      BY <2>2
    <3>2. E[m].addr \in Nat /\ E[m].addr <= p.addr
      BY <3>1 DEF Blocks
    <3> HIDE DEF p, q
    <3> QED
      BY <1>1, <1>2, <3>2
  <2> QED
    BY <2>1, <2>2
<1>6. ASSUME NEW m \in 1..n+1, NEW w \in E[m-1].addr+1..E[m].addr
      PROVE  q.spans[w] = lines[m].at /\ q.instrs[w] = E[m].instrs[w]
  <2>1. CASE m = n + 1
    <3>1. m - 1 = n
      BY <2>1
    <3> QED
      BY <1>4, <2>1, <3>1
  <2>2. CASE m # n + 1
    <3>1. m \in 1..n /\ m \in 0..n /\ m - 1 \in 0..n
      BY <2>2
    <3>2. p.spans[w] = lines[m].at /\ p.instrs[w] = E[m].instrs[w]
      BY <3>1 DEF Blocks
    <3>3. E[m-1].addr \in Nat /\ E[m].addr \in Nat /\ E[m].addr <= p.addr
      BY <3>1 DEF Blocks
    <3>4. w \in 1..p.addr
      <4> HIDE DEF p
      <4> QED
        BY <1>1, <3>3, SMTT(30)
    <3> QED
      BY <1>4, <3>2, <3>4
  <2> QED
    BY <2>1, <2>2
<1>7. ASSUME NEW w \in 1..q.addr PROVE \E m \in 1..n+1 : w \in E[m-1].addr+1..E[m].addr
  <2>1. CASE w \in 1..p.addr
    <3>1. PICK m \in 1..n : w \in E[m-1].addr+1..E[m].addr
      BY <2>1 DEF Blocks
    <3>2. m \in 1..n+1
      OBVIOUS
    <3> QED
      BY <3>1, <3>2
  <2>2. CASE w \notin 1..p.addr
    <3>1. w \in p.addr+1..q.addr
      <4> HIDE DEF p, q
      <4> QED
        BY <1>1, <1>3, <2>2
    <3>2. n + 1 \in 1..n+1 /\ (n + 1) - 1 = n
      OBVIOUS
    <3> QED
      BY <3>1, <3>2
  <2> QED
    BY <2>1, <2>2
<1> QED
  BY <1>3, <1>5, <1>6, <1>7 DEF Blocks

LEMMA BlocksRun ==
    ASSUME NEW lines, Ordered(lines, 1), NEW C, NEW A, NEW E, Runs(lines, C, A, E),
           E[Len(lines)].diags = <<>>
    PROVE  \A n \in 0..Len(lines) : Blocks(lines, E, n)
<1> DEFINE end == Len(lines)
           S == {n \in 0..end : Blocks(lines, E, n)}
<1>0. end \in Nat /\ 0 \in 0..end /\ end \in 0..end
  BY OrderedLines
<1>1. Sequence(<<>>) /\ Len(<<>>) = 0
  <2>1. <<>> \in Seq({}) /\ Len(<<>>) = 0
    OBVIOUS
  <2> QED
    BY <2>1 DEF Sequence
<1>2. 0 \in S
  <2>1. E[0].addr = 0 /\ E[0].instrs = <<>> /\ E[0].spans = <<>>
    BY DEF Runs
  <2>2. Blocks(lines, E, 0)
    BY <1>1, <2>1 DEF Blocks
  <2> QED
    BY <1>0, <2>2
<1>3. ASSUME NEW n \in 0..end-1, n \in S PROVE n + 1 \in S
  <2> DEFINE l == lines[n+1]
             syms == A[end].syms
             r == EncodeLine(l, E[n].addr, syms)
  <2>1. n \in Nat /\ n + 1 \in 1..end /\ n + 1 \in 0..end /\ (n + 1) - 1 = n
    BY <1>0
  <2>2. CleanEncode(E[n], E[n+1], l, syms) /\ Blocks(lines, E, n)
    BY <1>3, <2>1, CleanRun
  <2>3. CASE l.k = "instr"
    <3> DEFINE at == [i \in 1..Len(r.ok) |-> l.at]
    <3>1. /\ IsOk(r) /\ E[n+1].addr = E[n].addr + Len(r.ok)
          /\ E[n+1].instrs = E[n].instrs \o r.ok /\ E[n+1].spans = E[n].spans \o at
      BY <2>2, <2>3 DEF CleanEncode
    <3>2. Sequence(r.ok) /\ Len(r.ok) \in {1, 2}
      BY <3>1, EncodedSequence
    <3>3. /\ Sequence(at) /\ Len(at) = Len(r.ok)
          /\ \A i \in 1..Len(r.ok) : at[i] = lines[n+1].at
      <4> DEFINE k == Len(r.ok)
                 a == l.at
      <4>1. k \in Nat
        BY <3>2
      <4>2. at = [i \in 1..k |-> a]
        OBVIOUS
      <4> HIDE DEF k, a, at
      <4>3. at \in Seq({a}) /\ Len(at) = k /\ \A i \in 1..k : at[i] = a
        BY <4>1, <4>2
      <4>4. Sequence(at)
        BY <4>3 DEF Sequence
      <4> QED
        BY <4>3, <4>4 DEF k, a
    <3> HIDE DEF r, at
    <3>4. Blocks(lines, E, n+1)
      BY <2>1, <2>2, <3>1, <3>2, <3>3, NextBlock
    <3> QED
      BY <2>1, <3>4
  <2>4. CASE l.k # "instr"
    <3>1. E[n+1].addr = E[n].addr /\ E[n+1].instrs = E[n].instrs /\ E[n+1].spans = E[n].spans
      BY <2>2, <2>4 DEF CleanEncode
    <3>2. /\ Sequence(E[n].instrs) /\ Sequence(E[n].spans) /\ E[n].addr \in Nat
      BY <2>2 DEF Blocks
    <3>3. /\ E[n+1].addr = E[n].addr + Len(<<>>) /\ E[n+1].instrs = E[n].instrs \o <<>>
          /\ E[n+1].spans = E[n].spans \o <<>>
      <4>1. \A s : Sequence(s) => s \o <<>> = s
        BY ConcatEmptySeq DEF Sequence
      <4> QED
        BY <1>1, <3>1, <3>2, <4>1
    <3>4. \A i \in 1..Len(<<>>) : <<>>[i] = lines[n+1].at
      BY <1>1
    <3>5. Blocks(lines, E, n+1)
      BY <1>1, <2>1, <2>2, <3>3, <3>4, NextBlock
    <3> QED
      BY <2>1, <3>5
  <2> QED
    BY <2>3, <2>4
<1>4. \A n \in 0..end : n \in S
  <2> HIDE DEF S, end
  <2>1. Climbs(S, end)
    BY <1>2, <1>3 DEF Climbs
  <2> QED
    BY <1>0, <2>1, Ladder
<1> QED
  BY <1>4

-----------------------------------------------------------------------------
(* Branches.                                                               *)

LEMMA BranchCodes ==
    ASSUME NEW op \in {"BEQ", "BNE", "BLTU", "BGEU"}
    PROVE  LayoutOf[op] = "branch"
<1>1. \A n \in 1..4 : InTable(1, n)
  BY Lengths DEF InTable
<1>2. /\ Opcodes[1][1 + 1] = <<"BEQ", "branch">> /\ Opcodes[1][2 + 1] = <<"BNE", "branch">>
      /\ Opcodes[1][3 + 1] = <<"BLTU", "branch">> /\ Opcodes[1][4 + 1] = <<"BGEU", "branch">>
  BY DEF Opcodes
<1>3. /\ LayoutOf[Opcodes[1][1 + 1][1]] = "branch" /\ LayoutOf[Opcodes[1][2 + 1][1]] = "branch"
      /\ LayoutOf[Opcodes[1][3 + 1][1]] = "branch" /\ LayoutOf[Opcodes[1][4 + 1][1]] = "branch"
  <2>1. \A n \in 1..4 : LayoutOf[Opcodes[1][n + 1][1]] = Opcodes[1][n + 1][2]
    BY <1>1, Codes
  <2> QED
    BY <1>2, <2>1
<1> QED
  BY <1>2, <1>3

\* A branch instruction carries its third operand.
LEMMA BranchImm ==
    ASSUME NEW op \in {"BEQ", "BNE", "BLTU", "BGEU"}, NEW args
    PROVE  Encode(Instr(op, args)).imm = args[3]
<1>1. LayoutOf[op] = "branch"
  BY BranchCodes
<1>2. Encode(Instr(op, args)) = JoinWord(op, 0, args[1], args[2], args[3])
  BY <1>1 DEF Encode, Instr
<1> QED
  BY <1>2 DEF JoinWord

\* Every operand of a line that encodes resolves.
LEMMA AllResolved ==
    ASSUME NEW kinds, DOMAIN kinds \in SUBSET Nat, NEW operands, NEW addr, NEW syms,
           IsOk(ResolveAll(kinds, operands, addr, syms))
    PROVE  \A n \in DOMAIN kinds :
               LET r == ResolveOperand(kinds[n], operands[n], addr, syms)
               IN  IsOk(r) /\ ResolveAll(kinds, operands, addr, syms).ok[n] = r.ok
<1> DEFINE r == [n \in DOMAIN kinds |-> ResolveOperand(kinds[n], operands[n], addr, syms)]
           faults == {n \in DOMAIN r : ~IsOk(r[n])}
           all == ResolveAll(kinds, operands, addr, syms)
<1>1. all = IF faults = {} THEN Ok([n \in DOMAIN r |-> r[n].ok])
            ELSE r[CHOOSE n \in faults : \A m \in faults : n <= m]
  BY Zenon DEF ResolveAll
<1>2. faults = {}
  <2> SUFFICES ASSUME faults # {} PROVE FALSE
    OBVIOUS
  <2>1. faults \in SUBSET Nat
    OBVIOUS
  <2>2. \A n \in faults : ~IsOk(r[n])
    OBVIOUS
  <2>3. IsOk(all)
    OBVIOUS
  <2> HIDE DEF r, faults, all
  <2>4. \E n \in faults : \A m \in faults : n <= m
    BY <2>1, Least
  <2>5. (CHOOSE n \in faults : \A m \in faults : n <= m) \in faults
    BY <2>4
  <2> QED
    BY <1>1, <2>2, <2>3, <2>5
<1>3. all.ok = [n \in DOMAIN r |-> r[n].ok]
  BY <1>1, <1>2 DEF Ok
<1>4. ASSUME NEW n \in DOMAIN kinds PROVE IsOk(r[n]) /\ all.ok[n] = r[n].ok
  <2>1. n \in DOMAIN r
    OBVIOUS
  <2> HIDE DEF r, all
  <2> QED
    BY <1>2, <1>3, <2>1
<1> QED
  BY <1>4

\* A target that resolves: a label in reach.
Reaches(off) == off \in -ImemWords..ImemWords - 1
Target(o, addr, syms, imm) ==
    /\ o.v \in DOMAIN syms /\ syms[o.v].k # "equ"
    /\ Reaches(Offset(syms[o.v].v, addr)) /\ imm = Offset(syms[o.v].v, addr) % 2^11

LEMMA TargetResolved ==
    ASSUME NEW o \in OperandSet, NEW addr, NEW syms,
           NEW r, r = ResolveOperand("target", o, addr, syms), IsOk(r)
    PROVE  Target(o, addr, syms, r.ok)
<1>1. r = ResolveBranchTarget(o, addr, syms)
  BY DEF ResolveOperand, Keywords
<1>2. o.k \in {"id", "num"}
  BY DEF OperandSet
<1>3. \A d : ~IsOk(Err(d))
  BY DEF IsOk, Err
<1>4. o.k = "id" /\ o.v \in DOMAIN syms
  <2>1. CASE o.k = "num"
    <3>1. \E d : r = Err(d)
      BY <1>1, <2>1, Zenon DEF ResolveBranchTarget
    <3> QED
      BY <1>3, <3>1
  <2>2. CASE o.k = "id" /\ o.v \notin DOMAIN syms
    <3>1. o.k # "num"
      BY <2>2
    <3>2. \E d : r = Err(d)
      BY <1>1, <2>2, <3>1, Zenon DEF ResolveBranchTarget
    <3> QED
      BY <1>3, <3>2
  <2> QED
    BY <1>2, <2>1, <2>2
<1> DEFINE off == Offset(syms[o.v].v, addr)
<1>5. r = IF syms[o.v].k = "equ" THEN Err(Diag(o.at, "a branch target must be a label"))
          ELSE IF Reaches(off) THEN Ok(off % 2^11)
               ELSE Err(Diag(o.at, "branch offset out of range"))
  BY <1>1, <1>4 DEF ResolveBranchTarget, Reaches
<1> HIDE DEF off
<1>6. syms[o.v].k # "equ" /\ Reaches(off) /\ r = Ok(off % 2^11)
  BY <1>3, <1>5
<1>7. r.ok = off % 2^11
  BY <1>6 DEF Ok
<1> QED
  BY <1>4, <1>6, <1>7 DEF Target, off

LEMMA TargetOffset ==
    ASSUME NEW o, NEW addr, NEW syms, NEW imm, Target(o, addr, syms, imm),
           NEW v, v = syms[o.v].v
    PROVE  Reaches(Offset(v, addr)) /\ imm = Offset(v, addr) % 2^11
BY DEF Target

\* The operands of a branch end in its target, which comes third in the
\* instruction.
BranchForm(name, form) ==
    /\ form[1] \in {"BEQ", "BNE", "BLTU", "BGEU"}
    /\ Len(form) - 1 \in 1..3 /\ DOMAIN Tail(form) = 1..Len(form) - 1
    /\ Tail(form)[Len(form) - 1] = "target"
    /\ \A r : Arranged(name, r)[3] = r[Len(form) - 1]

LEMMA BranchForms ==
    ASSUME NEW name \in BranchNames, NEW operands
    PROVE  /\ name \in DOMAIN Forms
           /\ BranchForm(name, FormOf(name, operands))
<1>1. name \in {"beq", "bne", "bltu", "bgeu"} \cup {"j", "beqz", "bnez"}
  BY DEF BranchNames, Branches
<1>2. name \notin DOMAIN ByOperand /\ name \in DOMAIN Forms
  BY <1>1 DEF ByOperand, Forms, Branches, Others
<1>3. FormOf(name, operands) = Forms[name]
  BY <1>2, Zenon DEF FormOf
<1>4. CASE name \in {"beq", "bne", "bltu", "bgeu"}
  <2>1. name \in DOMAIN Branches /\ Branches[name] \in {"BEQ", "BNE", "BLTU", "BGEU"}
    BY <1>4 DEF Branches
  <2>2. name \notin DOMAIN Plain \cup DOMAIN ThreeRegs \cup DOMAIN TwoRegsImm \cup DOMAIN Shifts
    BY <1>4 DEF Plain, ThreeRegs, TwoRegsImm, Shifts
  <2>3. Forms[name] = <<Branches[name], "reg", "reg", "target">>
    BY <1>2, <2>1, <2>2, Zenon DEF Forms
  <2>4. \A r : Arranged(name, r) = r
    BY <1>4, <2>2 DEF Arranged
  <2> DEFINE op == Branches[name]
  <2> HIDE DEF op
  <2>5. BranchForm(name, <<op, "reg", "reg", "target">>)
    BY <2>1, <2>4 DEF BranchForm, op
  <2> QED
    BY <1>2, <1>3, <2>3, <2>5 DEF op
<1>5. CASE name \in {"j", "beqz", "bnez"}
  <2>1. name \notin DOMAIN Plain \cup DOMAIN ThreeRegs \cup DOMAIN TwoRegsImm \cup DOMAIN Shifts
                      \cup DOMAIN Branches
    BY <1>5 DEF Plain, ThreeRegs, TwoRegsImm, Shifts, Branches
  <2>2. Forms[name] = Others[name]
    BY <1>2, <2>1, Zenon DEF Forms
  <2>3. CASE name = "j"
    <3>1. Others[name] = <<"BEQ", "target">>
      BY <2>3 DEF Others
    <3>2. \A r : Arranged(name, r) = <<0, 0, r[1]>>
      BY <2>1, <2>3 DEF Arranged
    <3>3. BranchForm(name, <<"BEQ", "target">>)
      BY <3>2 DEF BranchForm
    <3> QED
      BY <1>2, <1>3, <2>2, <3>1, <3>3
  <2>4. CASE name \in {"beqz", "bnez"}
    <3>1. Others[name] \in {<<"BEQ", "reg", "target">>, <<"BNE", "reg", "target">>}
      BY <2>4 DEF Others
    <3>2. \A r : Arranged(name, r) = <<r[1], 0, r[2]>>
      BY <2>1, <2>4 DEF Arranged
    <3>3. BranchForm(name, <<"BEQ", "reg", "target">>) /\ BranchForm(name, <<"BNE", "reg", "target">>)
      BY <3>2 DEF BranchForm
    <3> QED
      BY <1>2, <1>3, <2>2, <3>1, <3>3
  <2> QED
    BY <1>5, <2>3, <2>4
<1> QED
  BY <1>1, <1>4, <1>5

\* A branch that encodes is one word, with the offset to its label.
LEMMA BranchEncoded ==
    ASSUME NEW line \in LineSet, line.name \in BranchNames, NEW addr, NEW syms,
           NEW e, e = EncodeLine(line, addr, syms), IsOk(e)
    PROVE  \E i : e.ok = <<i>> /\ Target(Last(line.args), addr, syms, Encode(i).imm)
<1> DEFINE form == FormOf(line.name, line.args)
           kinds == Tail(form)
           all == ResolveAll(kinds, line.args, addr, syms)
           args == Arranged(line.name, all.ok)
           i == Instr(form[1], args)
           n == Len(form) - 1
           o == line.args[n]
           r == ResolveOperand(kinds[n], o, addr, syms)
<1>1. line.name \in DOMAIN Forms /\ BranchForm(line.name, form)
  BY BranchForms
<1>2. Len(line.args) = n /\ IsOk(all) /\ e = Ok(<<i>>)
  BY <1>1, EncodedForm
<1>3. n \in 1..3 /\ DOMAIN kinds = 1..n /\ kinds[n] = "target"
  BY <1>1 DEF BranchForm
<1>4. o \in OperandSet /\ o = Last(line.args)
  <2>1. line.args \in Seq(OperandSet)
    BY LineFields
  <2> HIDE DEF n
  <2> QED
    BY <1>2, <1>3, <2>1 DEF Last
<1>5. IsOk(r) /\ all.ok[n] = r.ok
  <2>1. DOMAIN kinds \in SUBSET Nat /\ n \in DOMAIN kinds
    BY <1>3, SMTT(30)
  <2> HIDE DEF kinds, n
  <2> QED
    BY <1>2, <2>1, AllResolved
<1>6. Target(o, addr, syms, r.ok)
  <2>1. r = ResolveOperand("target", o, addr, syms)
    BY <1>3
  <2> HIDE DEF r, o
  <2> QED
    BY <1>4, <1>5, <2>1, TargetResolved
<1>7. Encode(i).imm = args[3]
  <2>1. form[1] \in {"BEQ", "BNE", "BLTU", "BGEU"}
    BY <1>1 DEF BranchForm
  <2> HIDE DEF form, args
  <2> QED
    BY <2>1, BranchImm
<1>8. args[3] = all.ok[n]
  BY <1>1 DEF BranchForm
<1>9. e.ok = <<i>>
  BY <1>2 DEF Ok
<1> HIDE DEF i, args, all, r, o, n
<1> QED
  BY <1>4, <1>5, <1>6, <1>7, <1>8, <1>9

\* The word of a branch is the only one of its line.
LEMMA BranchWord ==
    ASSUME NEW lines, Ordered(lines, 1), NEW C, NEW A, NEW E, Runs(lines, C, A, E),
           E[Len(lines)].diags = <<>>, NEW n \in 1..Len(lines),
           lines[n].k = "instr", lines[n].name \in BranchNames
    PROVE  LET end == Len(lines)
               here == E[n-1].addr + 1
           IN  /\ E[n-1].addr \in Nat
               /\ {w \in DOMAIN E[end].spans : E[end].spans[w] = lines[n].at} = {here}
               /\ Target(Last(lines[n].args), E[n-1].addr, A[end].syms,
                         Encode(E[end].instrs[here]).imm)
<1> DEFINE end == Len(lines)
           a == E[n-1].addr
           here == a + 1
           line == lines[n]
           syms == A[end].syms
           spans == E[end].spans
           e == EncodeLine(line, a, syms)
<1>0. /\ end \in Nat /\ end \in 0..end /\ n \in 0..end /\ n - 1 \in 0..end
      /\ DOMAIN lines = 1..end /\ \A m \in 1..end : lines[m] \in LineSet /\ lines[m].at \in Nat
  BY OrderedLines
<1>1. CleanEncode(E[n-1], E[n], line, syms)
  BY CleanRun
<1>2. IsOk(e) /\ E[n].addr = a + Len(e.ok) /\ E[n].instrs = E[n-1].instrs \o e.ok
  BY <1>1 DEF CleanEncode
<1>3. PICK i : e.ok = <<i>> /\ Target(Last(line.args), a, syms, Encode(i).imm)
  <2> HIDE DEF e, a, syms
  <2>1. e = EncodeLine(line, a, syms)
    BY DEF e
  <2> QED
    BY <1>0, <1>2, <2>1, BranchEncoded
<1>4. Blocks(lines, E, n-1) /\ Blocks(lines, E, end)
  BY <1>0, BlocksRun
<1>5. a \in Nat /\ Sequence(E[n-1].instrs) /\ Len(E[n-1].instrs) = a
  BY <1>4 DEF Blocks
<1>6. E[n].addr = here /\ E[n].instrs[here] = i
  <2>1. Sequence(<<i>>) /\ Len(<<i>>) = 1 /\ (<<i>>)[1] = i
    <3>1. <<i>> \in Seq({i}) /\ Len(<<i>>) = 1 /\ (<<i>>)[1] = i
      OBVIOUS
    <3> QED
      BY <3>1 DEF Sequence
  <2> DEFINE s == E[n-1].instrs
             t == <<i>>
  <2>2. E[n].instrs = s \o t /\ E[n].addr = a + Len(t)
    BY <1>2, <1>3
  <2> HIDE DEF s, t, a
  <2>3. EndsWith(s \o t, Len(s), t)
    BY <1>5, <2>1, SeqRight DEF s, t
  <2>4. (s \o t)[Len(s) + 1] = t[1]
    <3>1. 1 \in 1..Len(t)
      BY <2>1 DEF t
    <3> QED
      BY <2>3, <3>1 DEF EndsWith
  <2> QED
    BY <1>5, <2>1, <2>2, <2>4 DEF s, t
<1>7. here \in E[n-1].addr+1..E[n].addr
  BY <1>5, <1>6
<1>8. E[end].instrs[here] = i /\ spans[here] = line.at
  BY <1>4, <1>6, <1>7 DEF Blocks
<1>9. Sequence(spans) /\ Len(spans) = E[end].addr /\ E[end].addr \in Nat
  BY <1>4 DEF Blocks
<1>10. DOMAIN spans = 1..E[end].addr
  BY <1>9, SeqLen
<1>11. here \in DOMAIN spans
  <2>1. E[n].addr \in Nat /\ E[n].addr <= E[end].addr
    BY <1>0, <1>4 DEF Blocks
  <2> QED
    BY <1>5, <1>6, <1>9, <1>10, <2>1
<1>12. ASSUME NEW w \in DOMAIN spans, spans[w] = line.at PROVE w = here
  <2>1. PICK m \in 1..end : w \in E[m-1].addr+1..E[m].addr
    BY <1>4, <1>10 DEF Blocks
  <2>2. spans[w] = lines[m].at
    BY <1>4, <2>1 DEF Blocks
  <2>3. lines[m].at = lines[n].at /\ lines[n].at \in Nat
    BY <1>0, <1>12, <2>2
  <2>4. m = n
    <3>1. m < n => lines[m].at < lines[n].at
      BY <1>0, <2>1 DEF Ordered
    <3>2. n < m => lines[n].at < lines[m].at
      BY <1>0, <2>1 DEF Ordered
    <3> DEFINE x == lines[n].at
               y == lines[m].at
    <3> HIDE DEF x, y
    <3>3. ~(x < y) /\ ~(y < x)
      BY <2>3 DEF x, y
    <3> QED
      BY <3>1, <3>2, <3>3 DEF x, y
  <2>5. w \in a+1..E[n].addr
    BY <2>1, <2>4
  <2> HIDE DEF a
  <2> QED
    BY <1>5, <1>6, <2>5
<1> HIDE DEF a, spans, here
<1>13. {w \in DOMAIN spans : spans[w] = line.at} = {here}
  BY <1>8, <1>11, <1>12
<1> QED
  BY <1>3, <1>5, <1>8, <1>13 DEF a, spans, here

\* As many words come before line m as pass 1 counted.
WordsUpTo(spans, at) == {w \in DOMAIN spans : spans[w] < at}

LEMMA WordsBefore ==
    ASSUME NEW lines, Ordered(lines, 1), NEW C, NEW A, NEW E, Runs(lines, C, A, E),
           E[Len(lines)].diags = <<>>, NEW m \in 1..Len(lines)
    PROVE  /\ E[m-1].addr \in Nat
           /\ Cardinality(WordsUpTo(E[Len(lines)].spans, lines[m].at)) = E[m-1].addr
<1> DEFINE end == Len(lines)
           a == E[m-1].addr
           spans == E[end].spans
           before == {w \in DOMAIN spans : spans[w] < lines[m].at}
<1>0. /\ end \in Nat /\ end \in 0..end /\ m - 1 \in 0..end
      /\ DOMAIN lines = 1..end /\ \A n \in 1..end : lines[n].at \in Nat
  BY OrderedLines
<1>1. (\A n \in 0..end : Blocks(lines, E, n)) /\ Blocks(lines, E, end)
  BY <1>0, BlocksRun
<1>2. Sequence(spans) /\ Len(spans) = E[end].addr /\ E[end].addr \in Nat
  BY <1>0, <1>1 DEF Blocks
<1>3. DOMAIN spans = 1..E[end].addr
  BY <1>2, SeqLen
<1>4. a \in Nat /\ a <= E[end].addr
  BY <1>0, <1>1 DEF Blocks
<1>5. ASSUME NEW w \in DOMAIN spans PROVE spans[w] < lines[m].at <=> w <= a
  <2>1. PICK n \in 1..end : w \in E[n-1].addr+1..E[n].addr
    BY <1>0, <1>1, <1>3 DEF Blocks
  <2>2. spans[w] = lines[n].at
    <3>1. \A j \in 1..end : \A x \in E[j-1].addr+1..E[j].addr : spans[x] = lines[j].at
      BY <1>1 DEF Blocks
    <3> HIDE DEF spans, end
    <3> QED
      BY <2>1, <3>1
  <2>3. spans[w] < lines[m].at <=> n < m
    <3>1. n < m => lines[n].at < lines[m].at
      BY <1>0, <2>1 DEF Ordered
    <3>2. m < n => lines[m].at < lines[n].at
      BY <1>0, <2>1 DEF Ordered
    <3>3. lines[n].at \in Nat /\ lines[m].at \in Nat
      BY <1>0, <2>1
    <3> DEFINE x == lines[n].at
               y == lines[m].at
    <3>4. m = n => x = y
      OBVIOUS
    <3> HIDE DEF x, y, spans
    <3>5. x < y <=> n < m
      BY <3>1, <3>2, <3>3, <3>4 DEF x, y
    <3> QED
      BY <2>2, <3>5 DEF x, y
  <2>4. E[n-1].addr \in Nat /\ E[n].addr \in Nat
    <3>1. n \in 0..end /\ n - 1 \in 0..end
      BY <1>0, <2>1
    <3> QED
      BY <1>0, <1>1, <3>1 DEF Blocks
  <2>5. n < m => E[n].addr <= a
    <3>1. n < m => n \in 0..m-1
      BY <2>1
    <3> QED
      BY <1>0, <1>1, <3>1 DEF Blocks
  <2>6. ~(n < m) => a <= E[n-1].addr
    <3>1. ~(n < m) => m - 1 \in 0..n-1 /\ n - 1 \in 0..end
      BY <1>0, <2>1
    <3> QED
      BY <1>0, <1>1, <3>1 DEF Blocks
  <2>7. w \in Nat /\ E[n-1].addr < w /\ w <= E[n].addr
    BY <2>1, <2>4
  <2> DEFINE lo == E[n-1].addr
             hi == E[n].addr
  <2> HIDE DEF a, lo, hi
  <2>8. n < m <=> w <= a
    BY <1>4, <2>4, <2>5, <2>6, <2>7 DEF lo, hi
  <2> QED
    BY <2>3, <2>8
<1>6. before = 1..a
  <2> HIDE DEF a, spans
  <2>1. \A w \in 1..a : w \in DOMAIN spans /\ w <= a
    BY <1>2, <1>3, <1>4
  <2>2. \A w \in DOMAIN spans : w \in Int /\ 1 <= w
    BY <1>2, <1>3
  <2>3. \A w \in before : w \in 1..a
    BY <1>4, <1>5, <2>2
  <2>4. \A w \in 1..a : w \in before
    BY <1>5, <2>1
  <2> HIDE DEF before
  <2> QED
    BY <2>3, <2>4
<1>7. Cardinality(1..a) = a
  <2> HIDE DEF a
  <2> QED
    BY <1>4, FS_Interval
<1>8. before = WordsUpTo(spans, lines[m].at)
  BY DEF WordsUpTo
<1> QED
  BY <1>4, <1>6, <1>7, <1>8

\* The offset comes back from the eleven bits it went into.
LEMMA OffsetKept ==
    ASSUME NEW v \in Nat, NEW a \in Nat, Reaches(Offset(v, a)),
           NEW imm, imm = Offset(v, a) % 2^11
    PROVE  (a + 1) - 1 + (IF imm >= 1024 THEN imm - 2048 ELSE imm) = v
<1> DEFINE off == v - a
<1>1. 2^11 = 2048
  OBVIOUS
<1>2. off \in Int /\ off \in -1024..1023 /\ imm = off % 2048
  BY <1>1, ImemWordsAssumption DEF Reaches, Offset
<1>3. a + off = v
  OBVIOUS
<1> HIDE DEF off
<1>4. (IF imm >= 1024 THEN imm - 2048 ELSE imm) = off
  BY <1>2
<1> QED
  BY <1>2, <1>3, <1>4

\* A clean run lands its branches.
LEMMA RunLands ==
    ASSUME NEW lines, Ordered(lines, 1), NEW C, NEW A, NEW E, Runs(lines, C, A, E),
           E[Len(lines)].diags = <<>>,
           NEW asm, asm.instrs = E[Len(lines)].instrs, asm.spans = E[Len(lines)].spans
    PROVE  Land(lines, asm)
<1> DEFINE end == Len(lines)
           syms == A[end].syms
<1>0. /\ end \in Nat /\ DOMAIN lines = 1..end
  BY OrderedLines
<1> SUFFICES ASSUME NEW n \in DOMAIN lines, lines[n].k = "instr", lines[n].name \in BranchNames
             PROVE  LET here == CHOOSE w \in WordsAt(asm, lines[n].at) : TRUE
                        label == CHOOSE l \in ToSet(lines) :
                                   l.k = "label" /\ l.name = Last(lines[n].args).v
                        before == {w \in DOMAIN asm.spans : asm.spans[w] < label.at}
                        off == Encode(asm.instrs[here]).imm
                    IN  (here - 1 + (IF off >= 1024 THEN off - 2048 ELSE off)) % ImemWords
                          = Cardinality(before) % ImemWords
  BY DEF Land
<1> DEFINE here == CHOOSE w \in WordsAt(asm, lines[n].at) : TRUE
           name == Last(lines[n].args).v
           label == CHOOSE l \in ToSet(lines) : l.k = "label" /\ l.name = name
           before == {w \in DOMAIN asm.spans : asm.spans[w] < label.at}
           imm == Encode(asm.instrs[here]).imm
           a == E[n-1].addr
<1>1. n \in 1..end
  BY <1>0
<1>2. /\ a \in Nat /\ WordsAt(asm, lines[n].at) = {a + 1}
      /\ Target(Last(lines[n].args), a, syms, Encode(asm.instrs[a + 1]).imm)
  BY <1>1, BranchWord DEF WordsAt
<1>3. here = a + 1
  BY <1>2
<1>4. Target(Last(lines[n].args), a, syms, imm)
  BY <1>2, <1>3
<1>5. name \in DOMAIN syms /\ syms[name].k # "equ"
  BY <1>4 DEF Target
<1>6. \E m \in 1..end : lines[m] = label /\ label.k = "label" /\ label.name = name
  <2>1. PICK j \in 1..end : lines[j].k = "label" /\ lines[j].name = name
    <3> HIDE DEF name
    <3> QED
      BY <1>5, LabelWritten
  <2>2. lines[j] \in ToSet(lines)
    BY <1>0 DEF ToSet
  <2> HIDE DEF name
  <2>3. label \in ToSet(lines) /\ label.k = "label" /\ label.name = name
    BY <2>1, <2>2
  <2> HIDE DEF label
  <2> QED
    BY <1>0, <2>3 DEF ToSet
<1>7. PICK m \in 1..end : lines[m] = label /\ label.k = "label" /\ label.name = name
  BY <1>6
<1> DEFINE v == E[m-1].addr
<1>8. syms[name].v = v
  <2>1. syms[name] = LabelAt(A[m-1], lines[m])
    <3>1. lines[m].k = "label" /\ lines[m].name = name
      BY <1>7
    <3> HIDE DEF name, label
    <3>2. syms[lines[m].name] = LabelAt(A[m-1], lines[m])
      BY <1>7, <3>1, LabelKept
    <3> QED
      BY <3>1, <3>2
  <2>2. m - 1 \in 0..end
    BY <1>0
  <2>3. E[m-1].addr = A[m-1].addr
    BY <2>2, SameAddress
  <2> QED
    BY <2>1, <2>3 DEF LabelAt
<1>9. v \in Nat /\ Cardinality(before) = v
  <2>1. v \in Nat /\ Cardinality(WordsUpTo(E[end].spans, lines[m].at)) = v
    BY WordsBefore
  <2>2. before = WordsUpTo(E[end].spans, lines[m].at)
    <3> HIDE DEF label
    <3> QED
      BY <1>7 DEF WordsUpTo
  <2> QED
    BY <2>1, <2>2
<1>10. Reaches(Offset(v, a)) /\ imm = Offset(v, a) % 2^11
  <2> DEFINE o == Last(lines[n].args)
  <2>1. Target(o, a, syms, imm) /\ syms[o.v].v = v
    BY <1>4, <1>8
  <2> HIDE DEF v, a, imm, o, syms
  <2> QED
    BY <2>1, TargetOffset
<1>11. (a + 1) - 1 + (IF imm >= 1024 THEN imm - 2048 ELSE imm) = v
  <2> HIDE DEF v, a, imm
  <2> QED
    BY <1>2, <1>9, <1>10, OffsetKept
<1>12. (here - 1 + (IF imm >= 1024 THEN imm - 2048 ELSE imm)) = Cardinality(before)
  <2> HIDE DEF v, a, imm, before, here
  <2> QED
    BY <1>3, <1>9, <1>11
<1> HIDE DEF before, here, imm
<1>13. (here - 1 + (IF imm >= 1024 THEN imm - 2048 ELSE imm)) % ImemWords
          = Cardinality(before) % ImemWords
  BY <1>12
<1> QED
  BY <1>13 DEF before, here, imm

\* What assembled went through the two passes without a diagnostic.
LEMMA CleanSource ==
    ASSUME NEW s \in Seq(Tokens), IsOk(Assemble(s)), NEW lines, lines = Parse(s).ok
    PROVE  /\ IsOk(Parse(s)) /\ Ordered(lines, 1)
           /\ \E C, A, E : /\ Runs(lines, C, A, E) /\ E[Len(lines)].diags = <<>>
                           /\ Assemble(s).ok = [instrs |-> E[Len(lines)].instrs,
                                                spans |-> E[Len(lines)].spans]
<1>0. \A d : ~IsOk(Err(d))
  BY DEF IsOk, Err
<1>1. IsOk(Parse(s))
  <2> SUFFICES ASSUME ~IsOk(Parse(s)) PROVE FALSE
    OBVIOUS
  <2>1. Assemble(s) = Err(<<Parse(s).err>>)
    BY Zenon DEF Assemble
  <2> QED
    BY <1>0, <2>1
<1>2. Ordered(lines, 1) /\ Len(lines) \in Nat /\ Len(lines) \in 0..Len(lines)
  BY <1>1, SourceParsed, OrderedLines
<1>3. PICK C, A, E : Passed(lines, C, A, E)
  <2>1. Len(lines) \in Nat
    BY <1>2
  <2> QED
    BY <2>1, RunsExist
<1>4. /\ Runs(lines, C, A, E)
      /\ CollectEqus(lines) = C[Len(lines)]
      /\ AssignAddresses(lines, CollectEqus(lines)) = A[Len(lines)]
      /\ EncodeLines(lines, A[Len(lines)]) = E[Len(lines)]
  BY <1>3, Zenon DEF Passed
<1> DEFINE q == E[Len(lines)]
           long == TooLong(lines, A[Len(lines)].addr)
<1>5. Assemble(s) = IF q.diags \o long = <<>>
                    THEN Ok([instrs |-> q.instrs, spans |-> q.spans])
                    ELSE Err(q.diags \o long)
  <2>1. Assemble(s) =
          LET pass1 == AssignAddresses(lines, CollectEqus(lines))
              pass2 == EncodeLines(lines, pass1)
              diags == pass2.diags \o TooLong(lines, pass1.addr)
          IN  IF diags = <<>> THEN Ok([instrs |-> pass2.instrs, spans |-> pass2.spans])
              ELSE Err(diags)
    BY <1>1, Zenon DEF Assemble
  <2> QED
    BY <1>4, <2>1, Zenon
<1>6. Sequence(q.diags) /\ Sequence(long)
  <2>1. Sequence(q.diags)
    BY <1>2, <1>4, DiagsRun
  <2>2. long = <<>> \/ \E d : long = <<d>>
    BY Zenon DEF TooLong
  <2>3. <<>> \in Seq({}) /\ \A d : <<d>> \in Seq({d})
    OBVIOUS
  <2> QED
    BY <2>1, <2>2, <2>3 DEF Sequence
<1> HIDE DEF q, long
<1>7. q.diags \o long = <<>> /\ Assemble(s) = Ok([instrs |-> q.instrs, spans |-> q.spans])
  BY <1>0, <1>5
<1>8. q.diags = <<>>
  BY <1>6, <1>7, SeqConcat
<1>9. Assemble(s).ok = [instrs |-> q.instrs, spans |-> q.spans]
  BY <1>7 DEF Ok
<1> QED
  BY <1>1, <1>2, <1>4, <1>8, <1>9 DEF q

\* In every source that assembles, each branch goes to the first word behind
\* its label (encoder.rs resolve_branch_target, lib.rs assemble).
THEOREM BranchesReach == src \in Seq(Tokens) => BranchesLand
<1> SUFFICES ASSUME src \in Seq(Tokens), IsOk(Assemble(src))
             PROVE  Land(Parse(src).ok, Assemble(src).ok)
  BY DEF BranchesLand, IfAssembled
<1> DEFINE lines == Parse(src).ok
           asm == Assemble(src).ok
<1>1. lines = Parse(src).ok
  OBVIOUS
<1> HIDE DEF lines
<1>2. PICK C, A, E : /\ Runs(lines, C, A, E) /\ E[Len(lines)].diags = <<>>
                     /\ asm = [instrs |-> E[Len(lines)].instrs,
                               spans |-> E[Len(lines)].spans]
  BY <1>1, CleanSource
<1>3. Ordered(lines, 1)
  BY <1>1, CleanSource
<1> HIDE DEF asm
<1>4. asm.instrs = E[Len(lines)].instrs /\ asm.spans = E[Len(lines)].spans
  BY <1>2
<1>5. Land(lines, asm)
  BY <1>2, <1>3, <1>4, RunLands
<1> QED
  BY <1>5 DEF lines, asm

=============================================================================
