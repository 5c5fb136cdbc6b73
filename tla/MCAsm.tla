------------------------------- MODULE MCAsm -------------------------------
(***************************************************************************)
(* A source grows line by line from a menu in which labels, branches,      *)
(* two-word li's, constants and faulty lines meet, over a small store; one *)
(* line of every mnemonic with operands at and past their bounds; and raw  *)
(* words at the bounds of their fields.  A text grows character by         *)
(* character for the two lexers.                                           *)
(***************************************************************************)
EXTENDS AsmProperties

CONSTANTS
    MaxLines,       \* bound on the lines of a grown source
    MaxChars,       \* bound on the characters of a text
    MaxInt          \* the largest literal of a text

Lexers == INSTANCE Lex

VARIABLES
    text,       \* characters
    room        \* lines or characters that may still be added

vars == <<src, word, text, room>>

Csv(operands) ==
    LET Step(list, o) == IF list = <<>> THEN <<o>> ELSE list \o <<Comma, o>>
    IN  FoldLeft(Step, <<>>, operands)
Text(head, operands) == <<head>> \o Csv(operands) \o <<NL>>
Ins(name, operands) == Text(Id(name), operands)

Big == Num(16^6 * 18 + 1536)             \* two words, with the %hi carry
HighBit == Lit(2^15, 0)       \* 0x8000_0000, one lui
TooBig == Lit(2^16, 0)

Menu ==
    {<<Id("a"), Colon>>, <<Id("b"), Colon, NL>>,
     Ins("bne", <<Id("x1"), Id("t0"), Id("a")>>), Ins("j", <<Id("b")>>),
     Ins("beqz", <<Id("a5"), Id("b")>>), Ins("nop", <<>>),
     Ins("li", <<Id("x1"), Big>>), Ins("li", <<Id("x20"), Big>>),
     Ins("li", <<Id("x1"), Id("k")>>), Ins("put_byte", <<Id("k")>>),
     Text(Dir("equ"), <<Id("k"), Big>>), Text(Dir("equ"), <<Id("a"), Num(3)>>),
     Text(Dir("equ"), <<Id("k"), Id("a")>>), Text(Dir("globl"), <<Id("a")>>)}

Samples ==
    [reg |-> {Id("x0"), Id("a5"), Id("t3"), Num(1)},
     target |-> {Id("nowhere"), Num(1)},
     role |-> {Id("controller"), Id("target")}, io |-> {Id("x1"), Id("x4")},
     sck |-> {Id("sck20"), Id("sck66")}, alert |-> {Id("alert_io1"), Num(1)}]

SamplesOf(kind) ==
    IF kind \in DOMAIN Samples THEN Samples[kind]
    ELSE LET lo == Bounds[kind][1]
             hi == Bounds[kind][2]
         IN  {Num(lo - 1), Num(lo), Num(hi), Num(hi + 1), Id("k"), TooBig}

\* Every choice of operands of the kinds given.
RECURSIVE OperandLists(_)
OperandLists(kinds) ==
    IF kinds = <<>> THEN {<<>>}
    ELSE {<<o>> \o rest : o \in SamplesOf(Head(kinds)), rest \in OperandLists(Tail(kinds))}

AllForms ==
    {<<m, Forms[m]>> : m \in DOMAIN Forms}
      \cup {<<m, ByOperand[m][n]>> : m \in DOMAIN ByOperand, n \in {1, 2}}

OneLiners ==
    UNION {{Ins(f[1], operands) : operands \in OperandLists(Tail(f[2]))} : f \in AllForms}
      \cup {Ins("li", <<Id(r), v>>) : r \in {"x3", "x16"},
              v \in {Num(2^20 - 1), Num(2^20), Num(-(2^20)), Num(-(2^20) - 1),
                     Num(2^20 + 1024), Num(-(2^30) - 2^30), Num((2^30 - 1) + 2^30),
                     HighBit, Lit(2^16 - 1, 2^16 - 1), TooBig,
                     Lit(-(2^15) - 1, 0), Big}}
      \cup {<<Id("halt"), NL>>, <<Id("halt"), Num(1), Num(2), NL>>, <<Comma, NL>>,
            <<Id("mov"), Id("x1"), Comma, NL>>, <<Id("mov"), Colon, Colon, NL>>,
            Ins("call", <<>>), Ins("bogus", <<>>), Text(Dir("data"), <<>>),
            Text(Dir("globl"), <<>>), Text(Dir("text"), <<>>),
            Text(Dir("equ"), <<Num(1), Num(2)>>), Text(Dir("equ"), <<Id("k")>>),
            Ins("rdsr", <<Id("x1"), Id("crc")>>),
            Text(Dir("equ"), <<Id("x5"), Num(7)>>) \o Ins("put_byte", <<Id("x5")>>),
            Text(Dir("equ"), <<Id("x40"), Num(7)>>) \o Ins("put_byte", <<Id("x40")>>)}

\* What TLC assembles are sources the theorems speak of.
ASSUME SourceAssumption == Menu \cup OneLiners \subseteq Seq(Tokens)

Words ==
    [grp : 0..3, sub : 0..15, rd : {0, 1, 31}, rs1 : {0, 17}, rs2 : {0, 2},
     imm : {0, 1, 15, 16, 31, 32, 63, 64, 255, 256, 511, 512, 1055, 1536, 1567, 2047}]

Zero == [grp |-> 0, sub |-> 0, rd |-> 0, rs1 |-> 0, rs2 |-> 0, imm |-> 0]

Characters == {"a", "0", "1", "x", "b", "_", "-", ",", " ", "\n", "/", "*", "#"}

Init ==
    /\ text = <<>>
    /\ \/ src = <<>> /\ word \in Words /\ room = 0
       \/ src \in OneLiners /\ word = Zero /\ room = 0
       \/ src = <<>> /\ word = Zero /\ room = MaxLines

AddLine(line) ==
    /\ room > 0 /\ text = <<>>
    /\ src' = src \o line
    /\ room' = room - 1
    /\ UNCHANGED <<word, text>>

\* A text begins with a mnemonic.
AddChar(c) ==
    /\ src = <<>> /\ Len(text) < MaxChars /\ room > 0
    /\ text' = (IF text = <<>> THEN <<"a", " ">> ELSE text) \o <<c>>
    /\ UNCHANGED <<src, word, room>>

Next == \/ \E line \in Menu : AddLine(line)
        \/ \E c \in Characters : AddChar(c)

Spec == Init /\ [][Next]_vars

-----------------------------------------------------------------------------
(* Properties.                                                             *)

\* The 32-bit pattern of a literal.
Pattern(v) == Rig!ToBits(v[2], 16) \cup {n + 16 : n \in Rig!ToBits(v[1], 16)}

\* What an operand denotes: a literal, or what its one .equ says.
RECURSIVE Meaning(_, _)
Meaning(o, lines) ==
    IF o.k = "num" THEN o.n
    ELSE Meaning((CHOOSE e \in ToSet(lines) :
                    e.k = "dir" /\ e.name = "equ" /\ e.args[1].v = o.v).args[2], lines)

\* The value the words at the places given leave in their rd.
Loaded(words, places) ==
    LET Step(reg, n) == Rig!DataResult(Rig!Decode(words[n]), words[n], reg, {}, 32)
    IN  FoldLeft(Step, {}, SetToSortSeq(places, <))

MeanTheirLines(lines, asm) ==
    LET words == [n \in DOMAIN asm.instrs |-> Encode(asm.instrs[n])]
    IN  /\ \A n \in DOMAIN words : Rig!Decode(words[n]) = asm.instrs[n].op
        /\ \A n \in DOMAIN lines :
             lines[n].k = "instr" /\ lines[n].name = "li" =>
                Loaded(words, WordsAt(asm, lines[n].at)) = Pattern(Meaning(lines[n].args[2], lines))

\* The rig decodes every assembled word to the instruction the host meant,
\* and the words of a li, run by the rig's ALU, load exactly its 32-bit
\* value, %hi carry and wrap included (encoder.rs tile_li against Alu.hs).
WordsMeanTheirLines == IfAssembled(MeanTheirLines)

RegistersOf(i) ==
    LET w == Encode(i)
    IN  CASE LayoutOf[i.op] = "imm21" -> {w.rd}
          [] OTHER -> {w.rd, w.rs1, w.rs2}

InV1(i) == /\ LayoutOf[i.op] # "branch"
           /\ \A r \in RegistersOf(i) : r < 16
           /\ i.op = "SET_CONFIG" => IsOk(DecodeConfig(i.args[1]))

\* The instructions of src and of word, if they are any.
Instructions ==
    LET Program(asm) == IF IsOk(asm) THEN ToSet(asm.ok.instrs) ELSE {}
        One(i) == IF IsOk(i) THEN {i.ok} ELSE {}
    IN  Program(Assemble(src)) \cup One(DecodeWord(word))

\* What the disassembler prints of a word that only names registers of the
\* 16-word file, and no configuration of a later version, assembles to that
\* word again; branches excepted, whose text has no label.
RenderRoundTrip ==
    LET Is(asm, i) == IsOk(asm) /\ asm.ok.instrs = <<i>>
    IN  \A i \in Instructions :
            InV1(i) => Is(Assemble(Disassemble(<<Encode(i)>>)[1].ok), i)

\* The tokens of a raw statement: operands apart by commas, up to the end.
RawTokens(toks) ==
    LET end == CHOOSE n \in DOMAIN toks : toks[n].k \in {"\n", "eof"}
                                           /\ \A m \in 1..n-1 : toks[m].k \notin {"\n", "eof"}
    IN  SubSeq(toks, 1, end - 1)
IsRaw(toks) ==
    /\ toks # <<>> /\ toks[1].k = "id"
    /\ Len(toks) = 1 \/ Len(toks) % 2 = 0
    /\ \A n \in 2..Len(toks) :
         IF n % 2 = 0 THEN toks[n].k \in {"id", "num"} ELSE toks[n].k = ","

\* The operands of a raw statement, copied from the language of one lexer
\* into that of the other (emit.rs lower_raw), are the same tokens there, and
\* its numbers the same numbers; a number that the assembler refuses has
\* separators in it, or is none in the language either.
RawLinesSurvive ==
    LET tam == Lexers!TamLex(text)
        raw == IF IsOk(tam) THEN RawTokens(tam.ok) ELSE <<>>
        asm == Lexers!AsmLex(Lexers!RawLine(text, raw))
        Number(n) == Lexers!ParseNumber(Lexers!Lexeme(text, raw[n]))
        Numbers == {n \in DOMAIN raw : raw[n].k = "num"}
        Spaced(n) == "_" \in ToSet(Lexers!Lexeme(text, raw[n]))
    IN  IsRaw(raw) =>
            IF \E n \in Numbers : Spaced(n) \/ ~IsOk(Number(n))
            THEN ~IsOk(asm)
            ELSE /\ IsOk(asm)
                 /\ [n \in DOMAIN asm.ok |-> asm.ok[n].k]
                      = [n \in DOMAIN raw |-> raw[n].k] \o <<"\n", "eof">>
                 /\ \A n \in Numbers : asm.ok[n].n = Number(n).ok

=============================================================================
