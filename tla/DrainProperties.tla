-------------------------- MODULE DrainProperties --------------------------
(***************************************************************************)
(* What the host must read in the words a halted engine leaves behind.     *)
(***************************************************************************)
EXTENDS EngineProperties, HostTrace

\* The words the loader drains: those below the pointer, and the terminator.
Drained ==
    [a \in 1..ringPtr + 1 |-> RingBits(ring[IF a <= ringPtr THEN a - 1 ELSE TermAddr])]

\* The records the engine kept, in order: a CAPTURE is one word, a MARK a
\* label and the payload behind it.
RecordsKept ==
    LET from[a \in 1..ringPtr + 1] ==
          IF a >= ringPtr THEN <<>>
          ELSE LET w == ring[a]
               IN  IF w.tag = "MARK"
                   THEN <<[label |-> ToBits(w.label, 14), payload |-> ring[a+1].value]>>
                          \o from[a+2]
                   ELSE <<[nbits |-> ToBits(w.nbits, 4), byte |-> w.byte]>> \o from[a+1]
    IN  from[1]

\* How the run ended, from the instruction it ended with.
Verdict ==
    LET Trapped(why) == [reason |-> why, trap |-> TRUE, ovf |-> ovf, status |-> {}]
    IN  CASE Op = "HALT" -> [reason |-> "None", trap |-> FALSE, ovf |-> ovf,
                             status |-> ToBits(instrWord.imm, 8)]
          [] Op \in DecodeErrors -> Trapped("Decode")
          [] Op = "SET_CONFIG"   -> Trapped("Config")
          [] Op = "RDSR"         -> Trapped("Rdsr")

\* What the loader drains of a halted run decodes, on the host, to exactly
\* the records the engine kept, in order, and to the verdict of the
\* instruction that ended the run.  The payload of a MARK may look like a
\* CAPTURE, a MARK or a terminator (Engine.hs against trace.rs).
DrainDecodes ==
    phase = "Halted" /\ ~wrapped =>
        DecodeTrace(Drained) = Ok([revision |-> <<{}, {0}, {}>>, records |-> RecordsKept,
                                   halt |-> Verdict])

\* The inductive invariant of the verdict: the terminator says how the
\* instruction fetched last has ended the run.
TerminatorWord ==
    LET Trapped(reason) == HaltWord(TRUE, reason, ovf, 0)
    IN  CASE Op = "HALT" -> HaltWord(FALSE, 0, ovf, instrWord.imm)
          [] Op \in DecodeErrors -> Trapped(1)
          [] Op = "SET_CONFIG"   -> Trapped(2)
          [] Op = "RDSR"         -> Trapped(3)

VerdictInv ==
    phase = "Halted" =>
        /\ Op \in DecodeErrors \cup {"HALT", "SET_CONFIG", "RDSR"}
        /\ ring[TermAddr] = TerminatorWord

=============================================================================
