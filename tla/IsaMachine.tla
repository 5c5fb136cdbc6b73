----------------------------- MODULE IsaMachine -----------------------------
(***************************************************************************)
(* What the engine promises, instruction by instruction: the instantaneous *)
(* reference interpreter of the engine design (2026-07-02-tamal-engine-    *)
(* design.md, section 9.2), of which hdl/tests/Test/Engine.hs has the DATA *)
(* part.  One step executes one whole instruction; the trace is a sequence *)
(* that takes a record's words all at once or not at all, and once a       *)
(* record has been dropped takes none.  There are no cycles, beats or      *)
(* block RAMs here.                                                        *)
(*                                                                         *)
(* `lost` marks the one case where the engine breaks the promise: a MARK   *)
(* on an exactly full trace.  After it nothing is promised until a start.  *)
(***************************************************************************)
EXTENDS Integers, Sequences, Alu, Crc

CONSTANTS InstrSlots, Capacity

VARIABLES mode, prog, pc, regs, alertSource, rxCrc, csN, rstN,
          trace, ovf, report, lost

vars == <<mode, prog, pc, regs, alertSource, rxCrc, csN, rstN,
          trace, ovf, report, lost>>

None == [tag |-> "NONE"]
Word == BitVec(32)

Fresh ==
    /\ pc = 0 /\ regs = [r \in 0..15 |-> {}] /\ alertSource = "AlertPin"
    /\ rxCrc = {} /\ csN = 1 /\ rstN = 1
    /\ trace = <<>> /\ ovf = FALSE /\ report = None /\ lost = FALSE

Init == mode = "idle" /\ Fresh

Load == /\ mode # "run"
        /\ UNCHANGED <<mode, pc, regs, alertSource, rxCrc, csN, rstN, trace,
                       ovf, report, lost>>

Start == mode # "run" /\ mode' = "run" /\ Fresh' /\ UNCHANGED prog

-----------------------------------------------------------------------------
i  == prog[pc]
Op == Decode(i)
Reg(r) == regs[r % 16]

Goto(n) == pc' = n % InstrSlots /\ UNCHANGED <<mode, report>>

Writes(v) == regs' = [regs EXCEPT ![i.rd % 16] = IF i.rd % 16 = 0 THEN {} ELSE v]

\* Push the words of one record, all or none.
Push(words) ==
    IF ~ovf /\ Len(trace) + Len(words) <= Capacity
    THEN trace' = trace \o words /\ UNCHANGED ovf
    ELSE ovf' = TRUE /\ UNCHANGED trace

Ends(trap, reason, status) ==
    /\ mode' = "halted"
    /\ report' = [tag |-> "HALT", trap |-> trap, reason |-> reason,
                  ovf |-> ovf, status |-> status]
    /\ IF trap THEN csN' = 1 /\ rstN' = 1 ELSE UNCHANGED <<csN, rstN>>
    /\ UNCHANGED <<pc, regs, alertSource, rxCrc, trace, ovf>>

Compute ==
    /\ \/ Op \in DataOps /\ Writes(DataResult(Op, i, Reg(i.rs1), Reg(i.rs2), 32))
       \/ Op = "RDSR" /\ i.imm = 0 /\ Writes(rxCrc)
       \/ Op \in {"GET_ALERT", "WAIT_ON"} /\ \E v \in {{}, {0}} : Writes(v)
    /\ Goto(pc + 1)
    /\ UNCHANGED <<alertSource, rxCrc, csN, rstN, trace, ovf>>

Control ==
    /\ \/ /\ Op \in Branches
          /\ Goto(pc + IF BranchTaken(Op, Reg(i.rs1), Reg(i.rs2))
                       THEN i.imm ELSE 1)
          /\ UNCHANGED <<alertSource, rxCrc, csN, rstN>>
       \/ /\ Op \in {"CS_ASSERT", "CS_DEASSERT"}
          /\ csN' = IF Op = "CS_ASSERT" THEN 0 ELSE 1
          /\ Goto(pc + 1)
          /\ UNCHANGED <<alertSource, rxCrc, rstN>>
       \/ /\ Op \in {"RST_ASSERT", "RST_DEASSERT"}
          /\ rstN' = IF Op = "RST_ASSERT" THEN 0 ELSE 1
          /\ Goto(pc + 1)
          /\ UNCHANGED <<alertSource, rxCrc, csN>>
       \/ /\ Op = "CRC_RESET" /\ rxCrc' = {}
          /\ Goto(pc + 1)
          /\ UNCHANGED <<alertSource, csN, rstN>>
       \/ /\ Op = "SET_CONFIG" /\ i.imm \in {0, 1}
          /\ alertSource' = IF i.imm = 0 THEN "AlertPin" ELSE "AlertIo1"
          /\ Goto(pc + 1)
          /\ UNCHANGED <<rxCrc, csN, rstN>>
       \/ /\ Op \in {"PUT_BYTE_IMM", "PUT_BYTE_REG", "PUT_BITS_IMM",
                     "PUT_BITS_REG", "TAR_IMM", "TAR_REG"}
          /\ Goto(pc + 1)
          /\ UNCHANGED <<alertSource, rxCrc, csN, rstN>>
    /\ UNCHANGED <<regs, trace, ovf>>

\* The byte read is right-justified; only GET_BYTE folds the CRC.
Receive ==
    /\ Op \in {"GET_BYTE", "GET_BITS"}
    /\ LET n == IF Op = "GET_BYTE" THEN 8 ELSE i.imm \div 256 + 1
       IN  \E b \in BitVec(n) :
             /\ Writes(b)
             /\ rxCrc' = IF Op = "GET_BYTE" THEN CrcUpdate(rxCrc, b) ELSE rxCrc
             /\ Push(<<[tag |-> "CAPTURE", nbits |-> n, byte |-> b]>>)
    /\ Goto(pc + 1)
    /\ UNCHANGED <<alertSource, csN, rstN>>

Mark ==
    /\ Op = "MARK"
    /\ Push(<<[tag |-> "MARK", label |-> i.imm],
              [tag |-> "PAYLOAD", value |-> Reg(i.rs1)]>>)
    /\ Goto(pc + 1)
    /\ UNCHANGED <<regs, alertSource, rxCrc, csN, rstN>>

End ==
    \/ Op = "HALT" /\ Ends(FALSE, 0, i.imm)
    \/ Op \in DecodeErrors /\ Ends(TRUE, 1, 0)
    \/ Op = "SET_CONFIG" /\ i.imm \notin {0, 1} /\ Ends(TRUE, 2, 0)
    \/ Op = "RDSR" /\ i.imm # 0 /\ Ends(TRUE, 3, 0)

Instruction == /\ mode = "run"
               /\ Compute \/ Control \/ Receive \/ Mark \/ End
               /\ UNCHANGED <<prog, lost>>

\* The broken case: the record is accepted although no slot is left.
Lose == /\ mode = "run" /\ Op = "MARK"
        /\ ~ovf /\ Len(trace) = Capacity
        /\ lost' = TRUE /\ UNCHANGED <<mode, prog>>

\* After it, nothing is promised but that the program ends or runs on.
Unpromised == /\ lost /\ mode = "run"
              /\ mode' \in {"run", "halted"} /\ UNCHANGED <<prog, lost>>

Next == Load \/ Start \/ Instruction \/ Lose \/ Unpromised

Spec == Init /\ [][Next]_vars

=============================================================================
