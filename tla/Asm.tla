-------------------------------- MODULE Asm --------------------------------
(***************************************************************************)
(* The assembler (tamal-asm): parser, symbol table, the two address        *)
(* passes, the encoder and the renderer of the disassembler.  The input is *)
(* the token sequence without its Eof, a span is the index of its first    *)
(* token.  A literal is an i64 in the code: here the pair of its upper and *)
(* lower 16 bits, <<hi, lo>> standing for hi * 2^16 + lo, so that literals *)
(* past 32 bits can be written down.                                       *)
(***************************************************************************)
EXTENDS HostIsa

CONSTANT ImemWords      \* words of the instruction store, 1024 in the code

ASSUME ImemWordsAssumption == ImemWords \in 1..1024

Tok(k, v) == [k |-> k, v |-> v]
Id(name) == Tok("id", name)
Wide(n) == <<n \div 2^16, n % 2^16>>
Lit(hi, lo) == [k |-> "num", n |-> <<hi, lo>>]
Num(n) == [k |-> "num", n |-> Wide(n)]
Dir(name) == Tok("dir", name)
Comma == Tok(",", "")
Colon == Tok(":", "")
NL == Tok("nl", "")
Eof == Tok("eof", "")

\* What the lexer hands over, before the Eof.
Tokens == [k : {"id", "dir"}, v : STRING] \cup [k : {",", ":", "nl"}, v : {""}]
            \cup [k : {"num"}, n : Int \X (0..2^16 - 1)]

\* A diagnostic: where, why, and the earlier span a duplicate points at.
Diag(at, why) == [at |-> at, why |-> why, also |-> {}]

-----------------------------------------------------------------------------
(* Plausible bugs, for the mutants.                                        *)

OneWordOnly(name, operands, syms) == 1
OffsetFromNext(label, addr) == label - addr - 1
NoCarry(v) == (v \div 2^11) % 2^21
UnsignedText(n, bits) == n

-----------------------------------------------------------------------------
(* parser.rs: a flat list of labels, directives and instructions.          *)

EndOfLine == {"nl", "eof"}

\* An identifier or a number as the operand at token j.
Operand(t, j) ==
    IF t.k = "id" THEN [k |-> "id", v |-> t.v, at |-> j]
                  ELSE [k |-> "num", n |-> t.n, at |-> j]

\* One more operand before those already parsed.
Prepend(o, r) ==
    Bind(r, LAMBDA p : Ok([args |-> <<o>> \o p.args, next |-> p.next]))

\* The operands from token j on and the token behind them, with the same
\* for every later token.
OperandsAt(toks, later, j) ==
    IF toks[j].k \notin {"id", "num"} THEN Err(Diag(j, "expected an operand"))
    ELSE LET o == Operand(toks[j], j)
         IN  CASE toks[j+1].k \in EndOfLine -> Ok([args |-> <<o>>, next |-> j+1])
               [] toks[j+1].k = "," ->
                    IF toks[j+2].k \in EndOfLine
                    THEN Err(Diag(j+2, "trailing comma"))
                    ELSE Prepend(o, later[j+2])
               [] OTHER -> Err(Diag(j+1, "expected a comma or end of line"))

ParseOperands(toks, i) ==
    LET from[j \in i..Len(toks)] == OperandsAt(toks, from, j) IN from[i]

\* The line that starts at token i, and the token behind it.
ParseLine(toks, i) ==
    LET t == toks[i]
        Line(k, args, next) ==
            Ok([line |-> [k |-> k, name |-> t.v, args |-> args, at |-> i], next |-> next])
    IN  CASE t.k = "id" /\ toks[i+1].k = ":" -> Line("label", <<>>, i+2)
          [] t.k = "dir" \/ (t.k = "id" /\ toks[i+1].k # ":") ->
               Bind(IF toks[i+1].k \in EndOfLine
                    THEN Ok([args |-> <<>>, next |-> i+1])
                    ELSE ParseOperands(toks, i+1),
                    LAMBDA p : Line(IF t.k = "dir" THEN "dir" ELSE "instr", p.args, p.next))
          [] OTHER -> Err(Diag(i, "expected a label, instruction, or directive"))

Before(line, r) == Bind(r, LAMBDA rest : Ok(<<line>> \o rest))

\* The lines from token i on, or the first error.
LinesAt(toks, later, i) ==
    CASE toks[i].k = "eof" -> Ok(<<>>)
      [] toks[i].k = "nl"  -> later[i+1]
      [] OTHER -> LET p == ParseLine(toks, i)
                  IN  IF IsOk(p) THEN Before(p.ok.line, later[p.ok.next]) ELSE p

ParseLines(toks) ==
    LET from[i \in 1..Len(toks)] == LinesAt(toks, from, i) IN from[1]

Parse(src) == ParseLines(Append(src, Eof))

-----------------------------------------------------------------------------
(* Operands.                                                               *)

XNames == <<"x0", "x1", "x2", "x3", "x4", "x5", "x6", "x7", "x8", "x9", "x10",
            "x11", "x12", "x13", "x14", "x15", "x16", "x17", "x18", "x19",
            "x20", "x21", "x22", "x23", "x24", "x25", "x26", "x27", "x28",
            "x29", "x30", "x31">>
AbiNames == <<"zero", "ra", "sp", "gp", "tp", "t0", "t1", "t2", "s0", "s1",
              "a0", "a1", "a2", "a3", "a4", "a5", "a6", "a7", "s2", "s3",
              "s4", "s5", "s6", "s7", "s8", "s9", "s10", "s11", "t3", "t4",
              "t5", "t6">>

\* The x-number of each register name.
RegNumber ==
    [name \in ToSet(XNames) \cup ToSet(AbiNames) \cup {"fp"} |->
        IF name = "fp" THEN 8
        ELSE (CHOOSE n \in 1..32 : name \in {XNames[n], AbiNames[n]}) - 1]

IsRegister(o) == o.k = "id" /\ o.v \in DOMAIN RegNumber

ResolveReg(o) ==
    CASE o.k = "num"     -> Err(Diag(o.at, "expected a register, found a number"))
      [] o.k = "id" /\ o.v \notin DOMAIN RegNumber
                         -> Err(Diag(o.at, "unknown register"))
      [] OTHER -> IF RegNumber[o.v] >= 16
                  THEN Err(Diag(o.at, "register is unavailable"))
                  ELSE Ok(RegNumber[o.v])

\* A literal, or an .equ constant defined so far.
ResolveImm(o, syms) ==
    CASE o.k = "num" -> Ok(o.n)
      [] o.k = "id" /\ o.v \notin DOMAIN syms -> Err(Diag(o.at, "undefined symbol"))
      [] OTHER -> IF syms[o.v].k = "label"
                  THEN Err(Diag(o.at, "expected a constant")) ELSE Ok(syms[o.v].v)

\* The bounds of each numeric field, and the bits it keeps of a negative.
Bounds ==
    [u8 |-> <<0, 255>>, imm11 |-> <<-1024, 1023>>, bitcount |-> <<1, 8>>,
     tar4 |-> <<0, 15>>, amt5 |-> <<0, 31>>, imm21 |-> <<0, 2^21 - 1>>,
     load_imm |-> <<-(2^20), 2^20 - 1>>, mark_tag |-> <<0, 2047>>,
     wait_cond |-> <<0, 3>>, wait_timeout |-> <<0, 511>>, sr |-> <<0, 31>>]

FieldBits(kind, n) == IF kind = "load_imm" THEN n % 2^21 ELSE n % 2^11

InBounds(v, kind) ==
    /\ v[1] \in -(2^15)..2^15 - 1
    /\ v[1] * 2^16 + v[2] \in Bounds[kind][1]..Bounds[kind][2]

NumField(kind, o, syms) ==
    Bind(ResolveImm(o, syms), LAMBDA v :
         IF ~InBounds(v, kind) THEN Err(Diag(o.at, "out of range"))
         ELSE LET n == v[1] * 2^16 + v[2]
              IN  Ok(IF n >= 0 THEN n ELSE FieldBits(kind, n)))

\* The offset a branch at addr needs, in words.
Offset(label, addr) == label - addr

ResolveBranchTarget(o, addr, syms) ==
    CASE o.k = "num" -> Err(Diag(o.at, "branch target must be a label"))
      [] o.k = "id" /\ o.v \notin DOMAIN syms -> Err(Diag(o.at, "undefined label"))
      [] OTHER ->
           IF syms[o.v].k = "equ"
           THEN Err(Diag(o.at, "a branch target must be a label"))
           ELSE LET off == Offset(syms[o.v].v, addr)
                IN  IF off \in -ImemWords..ImemWords - 1 THEN Ok(off % 2^11)
                    ELSE Err(Diag(o.at, "branch offset out of range"))

Keywords == [role |-> Roles, io |-> IoModes, sck |-> Scks, alert |-> Alerts]

ResolveKeyword(kind, o) ==
    IF o.k = "id" /\ o.v \in ToSet(Keywords[kind]) THEN Ok(o.v)
    ELSE Err(Diag(o.at, "unknown keyword"))

ResolveOperand(kind, o, addr, syms) ==
    CASE kind = "reg" -> ResolveReg(o)
      [] kind = "target" -> ResolveBranchTarget(o, addr, syms)
      [] kind \in DOMAIN Keywords -> ResolveKeyword(kind, o)
      [] kind = "sr" /\ o.k = "id" /\ o.v = "crc" -> Ok(0)
      [] OTHER -> NumField(kind, o, syms)

-----------------------------------------------------------------------------
(* li: one or two words that load any 32-bit value.                        *)

\* A value in -2^31..2^32-1, as the signed number of its 32-bit pattern.
LiValue(o, syms) ==
    Bind(ResolveImm(o, syms), LAMBDA v :
         IF v[1] \notin -(2^15)..2^16 - 1
         THEN Err(Diag(o.at, "does not fit in 32 bits"))
         ELSE Ok((IF v[1] >= 2^15 THEN v[1] - 2^16 ELSE v[1]) * 2^16 + v[2]))

\* %hi: one more when the sign-extended low half will subtract.
HiPart(v) == (v \div 2^11 + (IF v % 2^11 >= 1024 THEN 1 ELSE 0)) % 2^21

TileLi(rd, v) ==
    IF v \in -(2^20)..2^20 - 1 THEN <<Instr("LOAD_IMM", <<rd, v % 2^21>>)>>
    ELSE <<Instr("LUI", <<rd, HiPart(v)>>)>>
           \o (IF v % 2^11 = 0 THEN <<>>
               ELSE <<Instr("ADDI", <<rd, rd, v % 2^11>>)>>)

\* Pass 1 sizes an instruction before labels are known; li alone varies.
InstrWordCount(name, operands, syms) ==
    LET Words(v) == IF IsOk(v) THEN Len(TileLi(0, v.ok)) ELSE 1
    IN  IF name = "li" /\ Len(operands) = 2 THEN Words(LiValue(operands[2], syms)) ELSE 1

-----------------------------------------------------------------------------
(* encoder.rs: what each mnemonic takes.                                   *)

Plain == [cs_assert |-> "CS_ASSERT", cs_deassert |-> "CS_DEASSERT",
          rst_assert |-> "RST_ASSERT", rst_deassert |-> "RST_DEASSERT",
          crc_reset |-> "CRC_RESET"]
ThreeRegs == [add |-> "ADD", sub |-> "SUB", and |-> "AND", or |-> "OR",
              xor |-> "XOR"]
TwoRegsImm == [addi |-> "ADDI", andi |-> "ANDI", ori |-> "ORI", xori |-> "XORI"]
Shifts == [sll |-> Sll, srl |-> Srl, sra |-> Sra]
Branches == [beq |-> "BEQ", bne |-> "BNE", bltu |-> "BLTU", bgeu |-> "BGEU"]

\* The other mnemonics: the opcode, then the kind of each operand.
Others ==
    [get_byte |-> <<"GET_BYTE", "reg">>, get_bits |-> <<"GET_BITS", "reg", "bitcount">>,
     get_alert |-> <<"GET_ALERT", "reg">>, halt |-> <<"HALT", "u8">>,
     wait_on |-> <<"WAIT_ON", "reg", "wait_cond", "wait_timeout">>,
     set_config |-> <<"SET_CONFIG", "role", "io", "sck", "alert">>,
     mark |-> <<"MARK", "mark_tag", "reg">>,
     load_imm |-> <<"LOAD_IMM", "reg", "load_imm">>, lui |-> <<"LUI", "reg", "imm21">>,
     mov |-> <<"MOV", "reg", "reg">>, mv |-> <<"MOV", "reg", "reg">>,
     rdsr |-> <<"RDSR", "reg", "sr">>, nop |-> <<"ADDI">>,
     j |-> <<"BEQ", "target">>, beqz |-> <<"BEQ", "reg", "target">>,
     bnez |-> <<"BNE", "reg", "target">>]

\* put_byte, put_bits and tar choose by whether the first operand names a
\* register, which an .equ of the same name does not change.
ByOperand ==
    [put_byte |-> << <<"PUT_BYTE_REG", "reg">>, <<"PUT_BYTE_IMM", "u8">> >>,
     put_bits |-> << <<"PUT_BITS_REG", "reg", "bitcount">>,
                     <<"PUT_BITS_IMM", "bitcount", "u8">> >>,
     tar |-> << <<"TAR_REG", "reg">>, <<"TAR_IMM", "tar4">> >>]

Forms ==
    [m \in UNION {DOMAIN Plain, DOMAIN ThreeRegs, DOMAIN TwoRegsImm, DOMAIN Shifts,
                  DOMAIN Branches, DOMAIN Others} |->
        CASE m \in DOMAIN Plain -> <<Plain[m]>>
          [] m \in DOMAIN ThreeRegs -> <<ThreeRegs[m], "reg", "reg", "reg">>
          [] m \in DOMAIN TwoRegsImm -> <<TwoRegsImm[m], "reg", "reg", "imm11">>
          [] m \in DOMAIN Shifts -> <<"SHIFT", "reg", "reg", "amt5">>
          [] m \in DOMAIN Branches -> <<Branches[m], "reg", "reg", "target">>
          [] OTHER -> Others[m]]

FormOf(name, operands) ==
    IF name \notin DOMAIN ByOperand THEN Forms[name]
    ELSE IF operands # <<>> /\ IsRegister(operands[1])
         THEN ByOperand[name][1] ELSE ByOperand[name][2]

\* The operand values r in the order of the instruction's operands.
Arranged(name, r) ==
    CASE name \in DOMAIN Shifts -> <<r[1], r[2], Shifts[name], r[3]>>
      [] name = "nop" -> <<0, 0, 0>>
      [] name = "j" -> <<0, 0, r[1]>>
      [] name \in {"beqz", "bnez"} -> <<r[1], 0, r[2]>>
      [] name = "set_config" -> <<Pack(r)>>
      [] OTHER -> r

ConfigOperand == [UnsupportedRole |-> 1, UnsupportedIoMode |-> 2,
                  UnsupportedSck |-> 3]

\* The values of the operands, or the first fault among them.
ResolveAll(kinds, operands, addr, syms) ==
    LET r == [n \in DOMAIN kinds |-> ResolveOperand(kinds[n], operands[n], addr, syms)]
        faults == {n \in DOMAIN r : ~IsOk(r[n])}
    IN  IF faults = {} THEN Ok([n \in DOMAIN r |-> r[n].ok])
        ELSE r[CHOOSE n \in faults : \A m \in faults : n <= m]

\* One line to its instructions.
EncodeLine(line, addr, syms) ==
    LET name == line.name
        operands == line.args
        Arity(n) == Len(operands) = n
    IN  CASE name \in DOMAIN Forms \cup DOMAIN ByOperand ->
               LET form == FormOf(name, operands)
               IN  IF ~Arity(Len(form) - 1) THEN Err(Diag(line.at, "operand count"))
                   ELSE Bind(ResolveAll(Tail(form), operands, addr, syms), LAMBDA r :
                        LET args == Arranged(name, r)
                            Checked(cfg) ==
                                IF IsOk(cfg) THEN Ok(<<Instr(form[1], args)>>)
                                ELSE Err(Diag(operands[ConfigOperand[cfg.err]].at,
                                              "not in v1"))
                        IN  Checked(IF name = "set_config" THEN DecodeConfig(args[1])
                                    ELSE Ok(args)))
          [] name = "li" ->
               IF ~Arity(2) THEN Err(Diag(line.at, "operand count"))
               ELSE Bind(ResolveReg(operands[1]), LAMBDA rd :
                    Bind(LiValue(operands[2], syms), LAMBDA v : Ok(TileLi(rd, v))))
          [] name \in {"la", "call", "ret"} -> Err(Diag(line.at, "not supported"))
          [] OTHER -> Err(Diag(line.at, "unknown instruction"))

-----------------------------------------------------------------------------
(* symbol.rs and lib.rs: the passes.                                       *)

\* A symbol table is a function of its names; a name is defined once.
Insert(pass, name, sym) ==
    IF name \in DOMAIN pass.syms
    THEN [pass EXCEPT !.diags = Append(@,
            [Diag(sym.at, "duplicate symbol") EXCEPT !.also = {pass.syms[name].at}])]
    ELSE [pass EXCEPT !.syms = [n \in DOMAIN @ \cup {name} |->
            IF n = name THEN sym ELSE @[n]]]

\* Pass 0: .equ constants, in source order.
Collect(p, line) ==
    LET Complain(d) == [p EXCEPT !.diags = Append(@, d)]
    IN  IF line.k # "dir" \/ line.name # "equ" THEN p
        ELSE IF Len(line.args) # 2 THEN Complain(Diag(line.at, "operand count"))
        ELSE IF line.args[1].k = "num"
             THEN Complain(Diag(line.args[1].at, "name must be an identifier"))
        ELSE LET r == ResolveImm(line.args[2], p.syms)
             IN  IF IsOk(r)
                 THEN Insert(p, line.args[1].v,
                             [k |-> "equ", v |-> r.ok, at |-> line.args[1].at])
                 ELSE Complain(r.err)

CollectEqus(lines) ==
    LET after[n \in 0..Len(lines)] ==
          IF n = 0 THEN [syms |-> <<>>, diags |-> <<>>, addr |-> 0]
          ELSE Collect(after[n-1], lines[n])
    IN  after[Len(lines)]

\* Pass 1: a label is the address of the next instruction word.
Assign(p, line) ==
    CASE line.k = "label" ->
           Insert(p, line.name, [k |-> "label", v |-> p.addr, at |-> line.at])
      [] line.k = "instr" ->
           [p EXCEPT !.addr = @ + InstrWordCount(line.name, line.args, p.syms)]
      [] line.k = "dir" -> p

AssignAddresses(lines, equs) ==
    LET after[n \in 0..Len(lines)] ==
          IF n = 0 THEN equs ELSE Assign(after[n-1], lines[n])
    IN  after[Len(lines)]

ValidateDirective(line) ==
    CASE line.name \in {"equ", "text"} -> <<>>
      [] line.name = "globl" ->
           IF Len(line.args) = 1 /\ line.args[1].k = "id" THEN <<>>
           ELSE <<Diag(line.at, "takes a single symbol name")>>
      [] OTHER -> <<Diag(line.at, "unsupported directive")>>

\* Pass 2: encode; after a faulty line the address keeps in step with pass 1.
EncodeInto(p, line, syms) ==
    LET Encoded(r) ==
            IF IsOk(r)
            THEN [p EXCEPT !.addr = @ + Len(r.ok), !.instrs = @ \o r.ok,
                           !.spans = @ \o [n \in 1..Len(r.ok) |-> line.at]]
            ELSE [p EXCEPT !.addr = @ + InstrWordCount(line.name, line.args, syms),
                           !.diags = Append(@, r.err)]
    IN  CASE line.k = "label" -> p
          [] line.k = "dir" -> [p EXCEPT !.diags = @ \o ValidateDirective(line)]
          [] line.k = "instr" -> Encoded(EncodeLine(line, p.addr, syms))

EncodeLines(lines, pass) ==
    LET after[n \in 0..Len(lines)] ==
          IF n = 0 THEN [addr |-> 0, instrs |-> <<>>, spans |-> <<>>, diags |-> pass.diags]
          ELSE EncodeInto(after[n-1], lines[n], pass.syms)
    IN  after[Len(lines)]

TooLong(lines, total) ==
    IF total > ImemWords THEN <<Diag(Last(lines).at, "program too long")>> ELSE <<>>

\* The program, or every diagnostic of the batch.
Assemble(src) ==
    LET Result(pass, diags) ==
            IF diags = <<>> THEN Ok([instrs |-> pass.instrs, spans |-> pass.spans])
            ELSE Err(diags)
        Pass2(pass2, long) == Result(pass2, pass2.diags \o long)
        Pass1(lines, pass1) == Pass2(EncodeLines(lines, pass1), TooLong(lines, pass1.addr))
        Lines(lines) == Pass1(lines, AssignAddresses(lines, CollectEqus(lines)))
        Parsed(r) == IF IsOk(r) THEN Lines(r.ok) ELSE Err(<<r.err>>)
    IN  Parsed(Parse(src))

-----------------------------------------------------------------------------
(* mnemonics.rs and disasm.rs: an instruction as the tokens of its text.   *)

Signed(n, bits) == IF n >= 2^(bits-1) THEN n - 2^bits ELSE n

\* The text name of an opcode in a table, from its table of mnemonics.
NameIn(table, op) == CHOOSE m \in DOMAIN table : table[m] = op

\* The registers and numbers of an instruction, in the order of its text.
RenderOperands(i) ==
    LET a == i.args
        R(n) == Id(XNames[a[n] + 1])
        N(n) == Num(a[n])
        lay == LayoutOf[i.op]
    IN  CASE lay = "none" -> <<>>
          [] lay \in {"u8", "tar"} -> <<N(1)>>
          [] lay \in {"rs", "rd"} -> <<R(1)>>
          [] lay = "bits" -> <<N(1), N(2)>>
          [] lay \in {"rsBits", "rdBits"} -> <<R(1), N(2)>>
          [] lay = "branch" -> <<R(1), R(2), Num(Signed(a[3], 11))>>
          [] lay = "wait" -> <<R(1), N(2), N(3)>>
          [] lay = "cfg" ->
               <<Id(Roles[a[1] \div 32 + 1]),
                 Id(IF (a[1] \div 8) % 4 = 3 THEN "x?" ELSE IoModes[((a[1] \div 8) % 4) + 1]),
                 Id(Scks[((a[1] \div 2) % 4) + 1]), Id(Alerts[(a[1] % 2) + 1])>>
          [] lay = "mark" -> <<N(1), R(2)>>
          [] lay = "imm21" ->
               <<R(1), IF i.op = "LUI" THEN N(2) ELSE Num(Signed(a[2], 21))>>
          [] lay = "mov" -> <<R(1), R(2)>>
          [] lay = "rrr" -> <<R(1), R(2), R(3)>>
          [] lay = "rri" -> <<R(1), R(2), Num(Signed(a[3], 11))>>
          [] lay = "shift" -> <<R(1), R(2), N(4)>>
          [] lay = "rdsr" -> <<R(1), IF a[2] = 0 THEN Id("crc") ELSE N(2)>>

RenderName(i) ==
    CASE i.op \in {"PUT_BYTE_IMM", "PUT_BYTE_REG"} -> "put_byte"
      [] i.op \in {"PUT_BITS_IMM", "PUT_BITS_REG"} -> "put_bits"
      [] i.op \in {"TAR_IMM", "TAR_REG"} -> "tar"
      [] i.op = "SHIFT" -> NameIn(Shifts, i.args[3])
      [] i.op = "MOV" -> "mov"
      [] OTHER -> CHOOSE m \in DOMAIN Forms \ {"nop", "j", "beqz", "bnez"} :
                      Forms[m][1] = i.op

Render(i) ==
    LET operands == RenderOperands(i)
        Step(text, o) == Append(IF Len(text) = 1 THEN text ELSE Append(text, Comma), o)
    IN  FoldLeft(Step, <<Id(RenderName(i))>>, operands)

\* The text of each word, or why it does not decode.
Disassemble(words) ==
    [n \in 1..Len(words) |->
        Bind(DecodeWord(words[n]), LAMBDA i : Ok(Render(i)))]

=============================================================================
