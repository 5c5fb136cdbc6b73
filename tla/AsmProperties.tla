--------------------------- MODULE AsmProperties ---------------------------
(***************************************************************************)
(* What the assembler promises of a source, and the host's decoder of a    *)
(* raw word beside the rig's.  The properties of a source are about its    *)
(* parsed lines and its assembled program.                                 *)
(***************************************************************************)
EXTENDS Asm, FiniteSets

Rig == INSTANCE Alu

VARIABLES
    src,        \* the source
    word        \* a raw word

\* The host's decoder and the rig's accept the same words, reject the others
\* for the same reason, and no bit of an accepted word is lost.
DecodersAgree ==
    LET host == DecodeWord(word)
        rig == Rig!Decode(word)
    IN  IF IsOk(host) THEN host.ok.op = rig /\ Encode(host.ok) = word
                      ELSE host.err = rig

-----------------------------------------------------------------------------
(* The passes.                                                             *)

WordsAt(asm, at) == {n \in DOMAIN asm.spans : asm.spans[n] = at}

BranchNames == DOMAIN Branches \cup {"j", "beqz", "bnez"}

Land(lines, asm) ==
    \A n \in DOMAIN lines :
        lines[n].k = "instr" /\ lines[n].name \in BranchNames =>
            LET here == CHOOSE w \in WordsAt(asm, lines[n].at) : TRUE
                label == CHOOSE l \in ToSet(lines) :
                           l.k = "label" /\ l.name = Last(lines[n].args).v
                before == {w \in DOMAIN asm.spans : asm.spans[w] < label.at}
                off == Encode(asm.instrs[here]).imm
            IN  (here - 1 + (IF off >= 1024 THEN off - 2048 ELSE off)) % ImemWords
                  = Cardinality(before) % ImemWords

\* P of what src parses and assembles to, if it does.
IfAssembled(P(_, _)) ==
    LET Of(asm) == IsOk(asm) => P(Parse(src).ok, asm.ok) IN Of(Assemble(src))

\* Taken on the rig, a branch goes to the first word that comes from behind
\* its label, whatever was one or two words long in between; past the last
\* word of a full store the pc wraps to word 0.
BranchesLand == IfAssembled(Land)

\* Pass 2 counts words as pass 1 did, faulty lines included, so that one bad
\* line never moves the labels under the branches of the others.
PassesAgree ==
    LET Agree(lines, pass1) == EncodeLines(lines, pass1).addr = pass1.addr
        Of(lines) == Agree(lines, AssignAddresses(lines, CollectEqus(lines)))
    IN  IsOk(Parse(src)) => Of(Parse(src).ok)

=============================================================================
