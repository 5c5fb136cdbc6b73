-------------------------------- MODULE Alu --------------------------------
(***************************************************************************)
(* The DATA group: what an instruction writes to rd, given the values of   *)
(* its two source registers, and the branch comparator of the CTRL group.  *)
(* w is the register width: 32 in the engine, smaller where a run compares *)
(* the whole core with ordinary arithmetic.                                *)
(***************************************************************************)
EXTENDS Bits, Isa

\* The shift amount is the low five bits of the second operand.
Alu(op, a, b, sh, w) ==
    CASE op = "Add" -> Add(a, b, w)
      [] op = "Sub" -> Sub(a, b, w)
      [] op = "And" -> a \cap b
      [] op = "Or"  -> a \cup b
      [] op = "Xor" -> Xor(a, b)
      [] op = "Sll" -> ShiftLeft(a, sh, w)
      [] op = "Srl" -> ShiftRight(a, sh, w)
      [] op = "Sra" -> ArithShiftRight(a, sh, w)

ShiftOp(i) == <<"Sll", "Srl", "Sra", "Sra">>[(i.imm \div 512) + 1]

\* imm21 is the concatenation rs1 ++ rs2 ++ imm.
Imm21(i) == ToBits(i.imm, 11) \cup ShiftLeft(ToBits(i.rs2, 5), 11, 16)
                              \cup ShiftLeft(ToBits(i.rs1, 5), 16, 21)

SImm(i, w) == SignExtend(ToBits(i.imm, 11), 11, w)

DataResult(op, i, a, b, w) ==
    CASE op = "LOAD_IMM"            -> SignExtend(Imm21(i), 21, w)
      [] op = "LUI"                 -> ShiftLeft(Imm21(i), 11, w)
      [] op = "MOV"                 -> a
      [] op = "ADD"                 -> Alu("Add", a, b, 0, w)
      [] op = "ADDI"                -> Alu("Add", a, SImm(i, w), 0, w)
      [] op = "SUB"                 -> Alu("Sub", a, b, 0, w)
      [] op = "AND"                 -> Alu("And", a, b, 0, w)
      [] op = "ANDI"                -> Alu("And", a, SImm(i, w), 0, w)
      [] op = "OR"                  -> Alu("Or", a, b, 0, w)
      [] op = "ORI"                 -> Alu("Or", a, SImm(i, w), 0, w)
      [] op = "XOR"                 -> Alu("Xor", a, b, 0, w)
      [] op = "XORI"                -> Alu("Xor", a, SImm(i, w), 0, w)
      [] op = "SHIFT"               -> Alu(ShiftOp(i), a, {}, i.imm % 32, w)

BranchTaken(op, a, b) ==
    CASE op = "BEQ"  -> a = b
      [] op = "BNE"  -> a # b
      [] op = "BLTU" -> LessThan(a, b)
      [] op = "BGEU" -> ~LessThan(a, b)

=============================================================================
