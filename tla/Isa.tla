-------------------------------- MODULE Isa --------------------------------
(***************************************************************************)
(* The instruction set.  A 32-bit instruction word is the record of its    *)
(* six fields: splitWord is a bijection, so nothing is lost by it.  decode *)
(* is the table of mnemonics plus, for each, the fields that may be        *)
(* nonzero; a word that sets any other field is rejected.                  *)
(***************************************************************************)
EXTENDS Integers, Sequences

InstrWord == [grp : 0..3, sub : 0..15,
              rd : 0..31, rs1 : 0..31, rs2 : 0..31, imm : 0..2047]

\* The mnemonics of each group in the order of their sub-opcode, from 0.
Mnemonics ==
    [g \in 0..3 |->
        CASE g = 0 -> <<"CS_ASSERT", "CS_DEASSERT", "PUT_BYTE_IMM",
                        "PUT_BYTE_REG", "GET_BYTE", "PUT_BITS_IMM",
                        "PUT_BITS_REG", "GET_BITS", "TAR_IMM", "TAR_REG",
                        "RST_ASSERT", "RST_DEASSERT", "GET_ALERT">>
          [] g = 1 -> <<"HALT", "BEQ", "BNE", "BLTU", "BGEU", "WAIT_ON",
                        "SET_CONFIG", "MARK", "CRC_RESET">>
          [] g = 2 -> <<"LOAD_IMM", "LUI", "MOV", "ADD", "ADDI", "SUB",
                        "AND", "ANDI", "OR", "ORI", "XOR", "XORI",
                        "SHIFT", "RDSR">>
          [] g = 3 -> <<>>]

Immediates == {"LOAD_IMM", "LUI"}
RegReg     == {"ADD", "SUB", "AND", "OR", "XOR"}
RegImm     == {"ADDI", "ANDI", "ORI", "XORI"}
Branches   == {"BEQ", "BNE", "BLTU", "BGEU"}
DataOps    == Immediates \cup RegReg \cup RegImm \cup {"MOV", "SHIFT"}

UsesRd  == DataOps \cup {"GET_BYTE", "GET_BITS", "GET_ALERT", "WAIT_ON", "RDSR"}
UsesRs1 == DataOps \cup Branches
               \cup {"PUT_BYTE_REG", "PUT_BITS_REG", "TAR_REG", "MARK"}
UsesRs2 == Immediates \cup RegReg \cup Branches

\* The part of imm an instruction may use; the rest of imm is reserved.
ImmOk(op, imm) ==
    CASE op \in {"PUT_BYTE_IMM", "HALT"}        -> imm \div 256 = 0
      [] op \in {"PUT_BITS_REG", "GET_BITS"}    -> imm % 256 = 0
      [] op = "TAR_IMM"                         -> imm \div 16 = 0
      [] op = "SET_CONFIG"                      -> imm \div 64 = 0
      [] op = "RDSR"                            -> imm \div 32 = 0
      [] op = "SHIFT" -> (imm \div 32) % 16 = 0 /\ imm \div 512 # 3
      [] op \in Immediates \cup RegImm \cup Branches
                \cup {"PUT_BITS_IMM", "WAIT_ON", "MARK"} -> TRUE
      [] OTHER                                  -> imm = 0

ReservedZero(op, w) ==
    /\ op \in UsesRd  \/ w.rd = 0
    /\ op \in UsesRs1 \/ w.rs1 = 0
    /\ op \in UsesRs2 \/ w.rs2 = 0
    /\ ImmOk(op, w.imm)

\* The mnemonic a word decodes to, or why decode rejects it.
Decode(w) ==
    IF w.sub >= Len(Mnemonics[w.grp]) THEN "IllegalOpcode"
    ELSE LET op == Mnemonics[w.grp][w.sub + 1]
         IN  IF ReservedZero(op, w) THEN op ELSE "ReservedFieldNonZero"

DecodeErrors == {"IllegalOpcode", "ReservedFieldNonZero"}

=============================================================================
