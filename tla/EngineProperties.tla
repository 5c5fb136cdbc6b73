-------------------------- MODULE EngineProperties --------------------------
(***************************************************************************)
(* What must hold of the engine, whatever program it runs.                 *)
(***************************************************************************)
EXTENDS Engine

\* Every variable has its type.
TypeOK ==
    /\ phase \in Phases /\ pc \in 0..InstrSlots-1
    /\ regs \in [0..15 -> Word] /\ alertSource \in {"AlertPin", "AlertIo1"}
    /\ rxCrc \in Byte
    /\ csN \in Level /\ sck \in Level /\ rstN \in Level /\ lanes \in Lanes
    /\ busPhase \in 0..4 /\ beatIx \in 0..15 /\ beatTot \in 0..15
    /\ shifter \in Byte /\ pending \in Pending /\ waitTimer \in 0..511
    /\ ringPtr \in 0..TermAddr /\ ovf \in BOOLEAN
    /\ ring \in [0..TermAddr -> RingWord]
    /\ imem \in [0..InstrSlots-1 -> InstrWord] /\ instrWord \in InstrWord
    /\ written \subseteq 0..TermAddr /\ wrapped \in BOOLEAN
    /\ edges \in Seq(Drive)

-----------------------------------------------------------------------------
(* The trace ring.                                                         *)

Running == phase \notin {"Idle", "Preamble"}

\* The words below the write pointer are whole records behind the REVISION
\* word: the host's positional decoder (tamal-abi trace.rs) pairs every MARK
\* label with its payload.  Only the MARK being emitted may lack its second
\* word.  Holds until a MARK is accepted on an exactly full ring.
WholeRecords ==
    Running /\ ~wrapped =>
        /\ ring[0] = Revision
        /\ ringPtr >= 1
        /\ \A a \in 1..ringPtr-1 :
             /\ ring[a].tag \in {"CAPTURE", "MARK", "PAYLOAD"}
             /\ ring[a].tag = "PAYLOAD" <=> ring[a-1].tag = "MARK"
             /\ ring[a].tag = "MARK" /\ a = ringPtr-1 => phase = "TraceEmit"

\* The ring is not cleared between runs, yet no word the loader drains is
\* left over from an earlier run: every word below the pointer, and the
\* terminator, was written since the start.  It holds of wrapped rings too.
DrainedWordsAreFresh ==
    phase = "Halted" => (0..ringPtr-1) \cup {TermAddr} \subseteq written

\* The terminator slot is kept for the HALT word.
TerminatorReserved ==
    ~wrapped /\ TermAddr \in written => phase = "Halted"

\* As the design states it, for every program: "never write past limit".
NeverPastLimit == TermAddr \in written => phase = "Halted"

\* Overflow is sticky and freezes the record stream: after one record was
\* dropped, none is added until the next start, so the trace is a prefix.
OverflowFreezesTrace ==
    [][ovf /\ phase' # "Preamble" => ovf' /\ ringPtr' = ringPtr]_vars

\* The inductive invariant of the three ring invariants and of the freeze:
\* until a MARK is accepted on a full ring, exactly the slots below the
\* pointer (and the terminator, once halted) have been written.
WrittenSlots ==
    /\ ~Running => written = {} /\ ringPtr = 1 /\ ~wrapped
    /\ Running /\ ~wrapped =>
         written = (0..ringPtr-1) \cup (IF phase = "Halted" THEN {TermAddr} ELSE {})
    /\ wrapped => 0..TermAddr \subseteq written
    /\ phase = "Halted" => TermAddr \in written

PendingMark ==
    /\ phase = "TraceEmit" => ~ovf
    /\ phase = "TraceEmit" /\ ~wrapped =>
         2 <= ringPtr /\ ringPtr < TermAddr /\ ring[ringPtr-1].tag = "MARK"

RingInv == WrittenSlots /\ PendingMark /\ WholeRecords

-----------------------------------------------------------------------------
(* The bus.                                                                *)

\* SCK is high only in the last two of a beat's five cycles.
SckIdlesLow == sck = 1 <=> phase = "BusBeat" /\ busPhase >= 3

\* Setup and hold over any instruction sequence: the lanes never change in a
\* cycle that leaves SCK high, and CS# moves only while SCK rests low.
BusSetupAndHold ==
    [][/\ lanes' # lanes => sck' = 0
       /\ csN' # csN => sck = 0 /\ sck' = 0]_vars

\* What a peripheral clocks in and out at the SCK rising edges of an
\* instruction: a PUT shows the byte's bits from bit 7 down, a GET drives
\* nothing and shifts the IO[1] samples in most significant first, a TAR
\* drives one beat high and then releases the lane.
EdgesCarryTheData ==
    phase = "BusBeat" =>
        /\ Len(edges) = beatIx + (IF sck = 1 THEN 1 ELSE 0)
        /\ beatIx < beatTot
        /\ lanes = BeatLanes(beatIx)
        /\ CASE pending.kind = "Get" ->
                  /\ lanes = hiZ
                  /\ shifter = {Len(edges) - n :
                                  n \in {m \in 1..Len(edges) : edges[m] = "1"}}
             [] pending.kind = "Tar" ->
                  \A n \in 1..Len(edges) : edges[n] = (IF n = 1 THEN "1" ELSE "z")
             [] OTHER ->
                  \A n \in 1..Len(edges) :
                      edges[n] = (IF 8-n \in shifter THEN "1" ELSE "0")

\* The clocks an instruction asks for.
ClocksOf ==
    CASE Op \in {"PUT_BYTE_IMM", "PUT_BYTE_REG", "GET_BYTE"} -> 8
      [] Op \in {"TAR_IMM", "TAR_REG"}                       -> TarClocks
      [] Op \in {"PUT_BITS_IMM", "PUT_BITS_REG", "GET_BITS"} -> BitCount

\* A bus instruction gives exactly the clocks it names, no more on the last
\* beat and no fewer, before the next instruction is fetched.
ExactClocks ==
    [][phase = "BusBeat" /\ phase' # "BusBeat" => Len(edges) = ClocksOf]_vars

\* The inductive invariant of the bus properties.
BusInv ==
    /\ SckIdlesLow /\ EdgesCarryTheData
    /\ phase = "BusBeat" =>
         beatTot = ClocksOf /\ (pending.kind = "Get" => beatTot <= 8)

-----------------------------------------------------------------------------
(* Progress.                                                               *)

\* No instruction runs forever: a running engine comes back to Exec or ends.
InstructionsComplete == []<>(phase \in {"Exec", "Idle", "Halted"})

-----------------------------------------------------------------------------
(* The cycle-accurate engine implements the instruction-level machine.     *)

Promise == INSTANCE IsaMachine WITH
    mode   <- CASE phase = "Idle" -> "idle" [] phase = "Halted" -> "halted"
                [] OTHER -> "run",
    prog   <- imem,
    trace  <- [a \in 1..(ringPtr - IF phase = "TraceEmit" THEN 2 ELSE 1) |-> ring[a]],
    report <- IF phase = "Halted" THEN ring[TermAddr] ELSE [tag |-> "NONE"],
    lost   <- wrapped,
    Capacity <- TermAddr - 1

\* Registers, CRC, pins, trace words, overflow and outcome all move as the
\* reference interpreter says, one instruction at a time.
ImplementsIsa == Promise!Spec

=============================================================================
