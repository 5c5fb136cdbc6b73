------------------------------ MODULE MCEngine ------------------------------
(***************************************************************************)
(* Small programs for the engine.  The bus family is every sequence of     *)
(* three instructions of a menu that reaches each handler and each trap,   *)
(* then HALT; the trace family fills a small ring in every way there is,   *)
(* and its programs are reloaded and re-run over each other's leftovers.   *)
(***************************************************************************)
EXTENDS DrainProperties

I(g, s, rd, rs1, rs2, imm) ==
    [grp |-> g, sub |-> s, rd |-> rd, rs1 |-> rs1, rs2 |-> rs2, imm |-> imm]

CsAssert   == I(0, 0, 0, 0, 0, 0)
CsDeassert == I(0, 1, 0, 0, 0, 0)
PutBits(n, byte) == I(0, 5, 0, 0, 0, (n-1) * 256 + byte)
PutByte(b) == I(0, 2, 0, 0, 0, b)
PutBitsReg(r, n) == I(0, 6, 0, r, 0, (n-1) * 256)
RstDeassert == I(0, 11, 0, 0, 0, 0)
PutReg(r)  == I(0, 3, 0, r, 0, 0)
GetByte(r) == I(0, 4, r, 0, 0, 0)
GetBits(r, n) == I(0, 7, r, 0, 0, (n-1) * 256)
TarImm(n)  == I(0, 8, 0, 0, 0, n)
TarReg(r)  == I(0, 9, 0, r, 0, 0)
RstAssert  == I(0, 10, 0, 0, 0, 0)
GetAlert(r) == I(0, 12, r, 0, 0, 0)
HALT(st)   == I(1, 0, 0, 0, 0, st)
Bne(a, b, off) == I(1, 2, 0, a, b, off % 2048)
WaitOn(r, t) == I(1, 5, r, 0, 0, t)
SetConfig(p) == I(1, 6, 0, 0, 0, p)
MARK(l, r) == I(1, 7, 0, r, 0, l)
CrcReset   == I(1, 8, 0, 0, 0, 0)
Addi(rd, a, n) == I(2, 4, rd, a, 0, n)
RDSR(rd, sr) == I(2, 13, rd, 0, 0, sr)
Illegal    == I(3, 0, 0, 0, 0, 0)
Reserved   == I(0, 0, 1, 0, 0, 0)

\* A program behind which the store still holds its power-up zero words.
Prog(p) == [a \in 0..InstrSlots-1 |->
              IF a < Len(p) THEN p[a+1] ELSE CsAssert]

Menu == {CsAssert, CsDeassert, PutBits(2, 64), PutReg(1), GetBits(1, 2),
         TarImm(2), TarReg(1), GetAlert(1), WaitOn(1, 1), SetConfig(1),
         SetConfig(2), Addi(1, 1, 3), MARK(5, 1), Illegal, RstAssert}

\* The instructions outside the menu, each once.
Tours ==
    {Prog(<<GetByte(1), RDSR(2, 0), PutBitsReg(2, 3), HALT(7)>>),
     Prog(<<GetByte(1), CrcReset, RDSR(2, 0), RDSR(2, 1)>>),
     Prog(<<RstAssert, RstDeassert, PutByte(165), Reserved>>),
     Prog(<<GetBits(1, 1), Bne(1, 0, -1), TarImm(0), HALT(7)>>)}

BusPrograms ==
    {Prog(<<a, b, c, HALT(7)>>) : a, b, c \in Menu} \cup Tours

\* RingSlots = 4 leaves two words for records: CAPTUREs and MARKs that fill
\* it exactly, overfill it, and stop short of it.
TracePrograms ==
    {Prog(<<a, b, c, HALT(7)>>) :
        a, b, c \in {GetBits(1, 1), MARK(5, 1), CrcReset, Reserved}}
    \cup {Prog(<<GetBits(1, 1), MARK(5, 1), Bne(1, 0, -2), RDSR(2, 1)>>),
          Prog(<<Addi(1, 0, 2047), MARK(5, 1), GetBits(1, 1), HALT(7)>>)}

\* One run of each program; the engine then rests in Halted.
Rest == phase = "Halted" /\ UNCHANGED vars

SpecOnce == Init /\ [][(phase = "Idle" /\ Start) \/ Cycle \/ Rest]_vars

FairOnce == SpecOnce /\ WF_vars(Cycle)

=============================================================================
