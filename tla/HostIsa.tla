------------------------------ MODULE HostIsa ------------------------------
(***************************************************************************)
(* The host's copy of the instruction set (tamal-abi isa.rs, config.rs and *)
(* crc8.rs), written by hand beside the rig's.  An instruction is its      *)
(* opcode and its operands in the order of the Rust variant, a word is the *)
(* record of its six fields, as in Isa.  Instructions whose operands sit   *)
(* in the same fields share a layout.                                      *)
(***************************************************************************)
EXTENDS Integers, Sequences, SequencesExt, Result

\* Per group, in the order of the sub-opcodes: the opcode and its layout.
Opcodes ==
    [g \in 0..3 |->
        CASE g = 0 -> << <<"CS_ASSERT", "none">>, <<"CS_DEASSERT", "none">>,
                         <<"PUT_BYTE_IMM", "u8">>, <<"PUT_BYTE_REG", "rs">>,
                         <<"GET_BYTE", "rd">>, <<"PUT_BITS_IMM", "bits">>,
                         <<"PUT_BITS_REG", "rsBits">>, <<"GET_BITS", "rdBits">>,
                         <<"TAR_IMM", "tar">>, <<"TAR_REG", "rs">>,
                         <<"RST_ASSERT", "none">>, <<"RST_DEASSERT", "none">>,
                         <<"GET_ALERT", "rd">> >>
          [] g = 1 -> << <<"HALT", "u8">>, <<"BEQ", "branch">>,
                         <<"BNE", "branch">>, <<"BLTU", "branch">>,
                         <<"BGEU", "branch">>, <<"WAIT_ON", "wait">>,
                         <<"SET_CONFIG", "cfg">>, <<"MARK", "mark">>,
                         <<"CRC_RESET", "none">> >>
          [] g = 2 -> << <<"LOAD_IMM", "imm21">>, <<"LUI", "imm21">>,
                         <<"MOV", "mov">>, <<"ADD", "rrr">>, <<"ADDI", "rri">>,
                         <<"SUB", "rrr">>, <<"AND", "rrr">>, <<"ANDI", "rri">>,
                         <<"OR", "rrr">>, <<"ORI", "rri">>, <<"XOR", "rrr">>,
                         <<"XORI", "rri">>, <<"SHIFT", "shift">>,
                         <<"RDSR", "rdsr">> >>
          [] g = 3 -> <<>>]

OpNames == UNION {{Opcodes[g][s][1] : s \in 1..Len(Opcodes[g])} : g \in 0..3}

\* Where an opcode sits: its group and its sub-opcode.
CodeOf ==
    [op \in OpNames |->
        CHOOSE c \in (0..2) \X (0..13) :
            /\ c[2] < Len(Opcodes[c[1]])
            /\ Opcodes[c[1]][c[2] + 1][1] = op]

LayoutOf == [op \in OpNames |-> Opcodes[CodeOf[op][1]][CodeOf[op][2] + 1][2]]

\* A SHIFT operation is its two-bit encoding; 3 is reserved.
Sll == 0
Srl == 1
Sra == 2

Instr(op, args) == [op |-> op, args |-> args]

JoinWord(op, rd, rs1, rs2, imm) ==
    [grp |-> CodeOf[op][1], sub |-> CodeOf[op][2],
     rd |-> rd, rs1 |-> rs1, rs2 |-> rs2, imm |-> imm]

Encode(i) ==
    LET a == i.args
        W(rd, rs1, rs2, imm) == JoinWord(i.op, rd, rs1, rs2, imm)
        lay == LayoutOf[i.op]
    IN  CASE lay = "none"          -> W(0, 0, 0, 0)
          [] lay \in {"u8", "tar", "cfg"} -> W(0, 0, 0, a[1])
          [] lay = "rs"            -> W(0, a[1], 0, 0)
          [] lay = "rd"            -> W(a[1], 0, 0, 0)
          [] lay = "bits"          -> W(0, 0, 0, (a[1] - 1) * 256 + a[2])
          [] lay = "rsBits"        -> W(0, a[1], 0, (a[2] - 1) * 256)
          [] lay = "rdBits"        -> W(a[1], 0, 0, (a[2] - 1) * 256)
          [] lay = "branch"        -> W(0, a[1], a[2], a[3])
          [] lay = "wait"          -> W(a[1], 0, 0, a[2] * 512 + a[3])
          [] lay = "mark"          -> W(0, a[2], 0, a[1])
          [] lay = "imm21"         -> W(a[1], a[2] \div 2^16,
                                        (a[2] \div 2^11) % 32, a[2] % 2^11)
          [] lay = "mov"           -> W(a[1], a[2], 0, 0)
          [] lay = "rrr"           -> W(a[1], a[2], a[3], 0)
          [] lay = "rri"           -> W(a[1], a[2], 0, a[3])
          [] lay = "shift"         -> W(a[1], a[2], 0, a[3] * 512 + a[4])
          [] lay = "rdsr"          -> W(a[1], 0, 0, a[2])

ShiftMidOnly(imm) == (imm \div 32) % 16 = 0      \* a plausible bug

\* The reserved bits of a SHIFT's immediate: operation 3, and the middle.
ShiftOk(imm) == imm \div 512 # 3 /\ (imm \div 32) % 16 = 0

\* The operands, if the reserved bits are zero.
Only(zero, i) == IF zero THEN Ok(i) ELSE Err("ReservedFieldNonZero")
Zeros(w, fields) == \A f \in fields : w[f] = 0

\* The layouts of the BUS and CTRL groups.
DecodeBusOrCtrl(op, lay, w) ==
    LET Args(zero, args) == Only(zero, Instr(op, args))
        Z(fields) == Zeros(w, fields)
        n == w.imm \div 256 + 1
    IN  CASE lay = "none"   -> Args(Z({"rd", "rs1", "rs2", "imm"}), <<>>)
          [] lay = "u8"     -> Args(Z({"rd", "rs1", "rs2"}) /\ w.imm \div 256 = 0,
                                    <<w.imm % 256>>)
          [] lay = "rs"     -> Args(Z({"rd", "rs2", "imm"}), <<w.rs1>>)
          [] lay = "rd"     -> Args(Z({"rs1", "rs2", "imm"}), <<w.rd>>)
          [] lay = "bits"   -> Args(Z({"rd", "rs1", "rs2"}), <<n, w.imm % 256>>)
          [] lay = "rsBits" -> Args(Z({"rd", "rs2"}) /\ w.imm % 256 = 0, <<w.rs1, n>>)
          [] lay = "rdBits" -> Args(Z({"rs1", "rs2"}) /\ w.imm % 256 = 0, <<w.rd, n>>)
          [] lay = "tar"    -> Args(Z({"rd", "rs1", "rs2"}) /\ w.imm \div 16 = 0,
                                    <<w.imm % 16>>)
          [] lay = "branch" -> Args(Z({"rd"}), <<w.rs1, w.rs2, w.imm>>)
          [] lay = "wait"   -> Args(Z({"rs1", "rs2"}),
                                    <<w.rd, w.imm \div 512, w.imm % 512>>)
          [] lay = "cfg"    -> Args(Z({"rd", "rs1", "rs2"}) /\ w.imm \div 64 = 0,
                                    <<w.imm % 64>>)
          [] lay = "mark"   -> Args(Z({"rd", "rs2"}), <<w.imm, w.rs1>>)

\* The layouts of the DATA group.
DecodeData(op, lay, w) ==
    LET Args(zero, args) == Only(zero, Instr(op, args))
        Z(fields) == Zeros(w, fields)
    IN  CASE lay = "imm21" -> Args(TRUE, <<w.rd, w.rs1 * 2^16 + w.rs2 * 2^11 + w.imm>>)
          [] lay = "mov"   -> Args(Z({"rs2", "imm"}), <<w.rd, w.rs1>>)
          [] lay = "rrr"   -> Args(Z({"imm"}), <<w.rd, w.rs1, w.rs2>>)
          [] lay = "rri"   -> Args(Z({"rs2"}), <<w.rd, w.rs1, w.imm>>)
          [] lay = "shift" -> Args(Z({"rs2"}) /\ ShiftOk(w.imm),
                                   <<w.rd, w.rs1, w.imm \div 512, w.imm % 32>>)
          [] lay = "rdsr"  -> Args(Z({"rs1", "rs2"}) /\ w.imm \div 32 = 0,
                                   <<w.rd, w.imm % 32>>)

DecodeWord(w) ==
    IF w.sub >= Len(Opcodes[w.grp]) THEN Err("IllegalOpcode")
    ELSE LET entry == Opcodes[w.grp][w.sub + 1]
         IN  IF w.grp = 2 THEN DecodeData(entry[1], entry[2], w)
             ELSE DecodeBusOrCtrl(entry[1], entry[2], w)

(* The SET_CONFIG payload: role, lanes, clock and alert source. *)
Roles  == <<"controller", "target">>
IoModes == <<"x1", "x2", "x4">>
Scks   == <<"sck20", "sck33", "sck50", "sck66">>
Alerts == <<"alert_pin", "alert_io1">>

IndexIn(s, x) == CHOOSE k \in 1..Len(s) : s[k] = x

Pack(c) == (IndexIn(Roles, c[1]) - 1) * 32 + (IndexIn(IoModes, c[2]) - 1) * 8
               + (IndexIn(Scks, c[3]) - 1) * 2 + (IndexIn(Alerts, c[4]) - 1)

DecodeConfig(p) ==
    CASE p \div 32 = 1      -> Err("UnsupportedRole")
      [] p \div 8 \in 1..3  -> Err("UnsupportedIoMode")
      [] p \div 2 \in 1..3  -> Err("UnsupportedSck")
      [] OTHER -> Ok(<<"controller", "x1", "sck20", Alerts[(p % 2) + 1]>>)

\* The CRC-8 of the wire and of a frame's expected trailer, on numbers.
Crc8Update(crc, byte) ==
    LET Xor7(c) == (c \div 8) * 8 + (7 - (c % 8))
        Step(c, i) ==
            LET shifted == (c * 2) % 256
            IN  IF c \div 128 # (byte \div 2^i) % 2
                THEN Xor7(shifted) ELSE shifted
    IN  FoldLeft(Step, crc, <<7, 6, 5, 4, 3, 2, 1, 0>>)

Crc8(bytes) == FoldLeft(Crc8Update, 0, bytes)

=============================================================================
