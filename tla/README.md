# tamal in TLA+

Tamal is an eSPI test rig: an FPGA (Clash, `hdl/`) that runs small bus programs
cycle by cycle and records what it saw, and Rust tooling (`crates/`) that
assembles programs, ships them over a UART and reads the trace back. This
directory models what the two do with each other: the engine that executes
programs, the loader that feeds and drains it, the wire format they share, a host
session over a line that damages frames, the UART below it, and the host's tool
chain: the compiler of the test language, the assembler, the encoders and decoders
of words and traces. TLC checks the models on small instances; TLAPS proves the
engine's properties and that it implements the instruction-level machine, for rings,
stores and programs of any size; that the UART delivers bytes, at any clock and rates
within a stated tolerance; what a session's `Ok` means; that the two ends have one
instruction set and one trace format; that the assembler's passes agree and its
branches land; and the soundness of register allocation.

Run from this directory: `tlc -workers 2 -config MCEngine_bus.cfg MCEngine`, and so
for every pair in the table of runs; `tlapm EngineProofs.tla` for the proofs.

## The system

| part | code | state | operations |
|---|---|---|---|
| engine | `hdl/src/Tamal/Engine.hs`, `Bus/Serdes.hs`, `RegFile.hs` | phase, pc, 16 registers, config, CRC, pins and lanes, beat counters, ring pointer, overflow | one `step` a clock, by phase: idle, preamble, fetch, exec, bus beat, wait, trace emit, halted |
| decode, ALU, branch, CRC | `Isa.hs`, `Alu.hs`, `Branch.hs`, `Crc.hs` | none | pure functions |
| trace records | `Trace.hs`, `tamal-abi/trace.rs` | none | encode and decode records |
| block RAMs | `Mem.hs` | instruction store, trace ring | synchronous read, one write a clock |
| wire format | `Wire.hs`, `Wire/Cobs.hs`, `tamal-abi/{wire,cobs,crc8}.rs` | none | frame, unframe, COBS both ways |
| streaming COBS | `Loader/Cobs.hs` | group counters; a group buffer | a decode step per byte, an encode step per clock |
| loader | `Loader.hs` | life cycle, the frame being parsed, write slot, the drain's registers | `rxStep`, `runStep`, `drainStep` |
| UART | `Uart/{Tx,Rx,BaudGen}.hs` | shift registers, sample counters, rate accumulator | a tick 16 times a bit |
| top, pins, boards | `Top.hs`, `Io.hs`, `Board/*` | status LED | wiring |
| host session | `tamal-loader/{device,transport,error}.rs` | attempt, the frame being read | `load_program`, `trigger`, `read_trace`, `run` |
| words on the host | `tamal-abi/{isa,config,trace}.rs` | none | encode and decode instructions, configurations, drained words |
| assembler | `tamal-asm` | symbol table, address | lex, parse, two passes, encode, disassemble |
| language | `tamal-lang` | environment, emitted lines, scopes and registers, open frames and their verdicts, budgets | lex, parse, constant evaluation, lowering, register allocation, remapping of diagnostics |
| command lines | `*-cli` | none | arguments and files |

How they interact: the host sends LOAD and then TRIGGER as two frames, without an
acknowledgement. The loader decodes bytes as they come and writes each whole word
of a LOAD into the instruction store at once; only the TRIGGER's CRC matters for
starting. The engine reads the store a cycle after presenting an address, writes
records into the ring, and ends with a HALT word in the ring's last slot. The
loader then reads the ring through the same kind of RAM, encodes the words as one
frame and listens again. Between TRIGGER and the end of the drain received
bytes are not looked at. The compiler turns a `.tam` source into assembly text with
a source span per line, hands the text to the assembler, and moves the assembler's
diagnostics back through the spans; the assembler's words are what the session
loads and the engine decodes.

What is hard about it: pointer arithmetic at the width of the pointer; records of
one or two words in a ring with a reserved last slot; data left over from an
earlier run or load; RAM latency; a transmitter that is ready only now and then;
frames that are damaged, cut, or arrive at the wrong time; and a host that retries
without knowing what reached the rig. In the tool chain: two passes that must count
the same words, decoders written by hand on both sides, registers that must outlive
the scope that took them, statements expanded many times over and still blamed
where they were written, and text that passes from one lexer to another.
`PROJECT.json` lists each at its line.

## The modules

**Engine side.** `Bits` (bit vectors as sets of positions, of any width), `Crc`,
`Isa` (a word is the record of its fields; `Decode`), `Alu` (ALU, write-back,
branch conditions), then `Engine`: one variable per field of `State`, plus the
two RAMs. Each action is one clock in one phase, or one group of instructions
in Exec: `Fetch`, `ExecData`, `ExecPut`, `Tick`, `NextBeat`, `Complete`, and so on;
`Start` and `LoadProgram` are what the loader does to it. A traced word is a record
with a tag rather than 32 packed bits. History variables: `written` (ring slots
written since the start), `wrapped` (a MARK was accepted on a full ring), `edges`
(lane levels at SCK's rising edges). `EngineProperties` has the properties and the
inductive invariants, `DrainProperties` what the host must read in the words of a
halted engine. `IsaMachine` is the abstract specification: one step per
instruction, no cycles, a trace that takes a record's words all or none;
`ImplementsIsa` says that `Engine` refines it. `EngineProofs` has all theorems about
the engine.

**Wire and loader side.** `Cobs` has four codecs: the HDL's pure one, the
host's, and the loader's streaming decoder and encoder. `Wire` adds CRC, opcodes
and messages. `Loader` has `rxStep` as `Receive` (a byte) and `Delimiter`
(`finalize`), `runStep` as `BeginDrain`, and `drainStep` as one action per
`DrainPhase`, each a clock. A word is the sequence of its bytes, so splitting and
assembling words is regrouping. A run of the engine is the single step
`EngineHalts`, which leaves any ring the configuration lists. `seen`, `base` and
`sent` are history. `LoaderProperties` compares with `Wire`.

**Session.** `Rig` has `Device::run` with its attempts, deadlines and port
errors, and the rig at frame granularity, with a line that damages control frames and
drains and may break a drain into two frames. `Call` is a call of `run` with what
`validate_program_bytes` lets through, `ReadTrace` a frame that was read,
`TimeoutInDue` and `TimeoutEarly` the deadline, `PortFails` an I/O error. What a damaged LOAD may do to the store (any words over a prefix) is what
`Loader` shows with `StoreFollowsFrame`; that nothing but a good TRIGGER starts a
run is `TriggerIffGood`. A drain whose damage its CRC does not notice is not
modelled.

**Line.** `Uart` has both shift machines, the synchroniser and a rate generator at
either end, a clock of the receiver a step: `Send` is a clock in which a byte is
taken, `Continue` any other, `PullLow` and `Release` bound a break. The
transmitter stands for the rig's own (the loopback) or for a host's whose clock is
off. Glitches are one tick long and fall within data bits: one just before a start
bit does cost a frame, and nothing says otherwise.

**Words.** `HostIsa` has the instruction forms of `tamal-abi` with their encoder and
their decoder, reserved bits in the order in which the code rejects them, and
`Config` packed and unpacked. A word is a record of its fields, as in `Isa`, so the
host's and the rig's decoders can be compared. `HostTrace` has the 32 bits of a ring
word, as the set of the positions that are set, and the host's positional decoder, a
recursive function of the position. `Result` is Rust's `Result` with `?`.

**Assembler.** `Asm`: `Parse`, `CollectEqus` and `AssignAddresses` (pass 1),
`EncodeLines` (pass 2), `Forms` with every mnemonic and its operands, `TileLi`,
`ResolveBranchTarget`, and the renderer of the disassembler. Every loop is a recursive
function of the position or of the line, so that it can be proved about, and the state
before each line is the value the function has there. The input is tokens, a
span is the index of a token, a literal a pair of 16-bit halves so that literals
past 32 bits exist. `Lex` has both lexers over characters, which yield the ranges
and values those tokens stand for. `AsmProperties` has what is proved in `AsmProofs`: that
the passes agree, that branches land and that the two decoders are one; the rest of the
assembler's properties are in `MCAsm`. An address is a `u16` in the code, which
wraps, in both passes alike; it is unbounded in the model. Only a program that is refused
as too long can tell the difference.

**Compiler.** `Syntax` is the recursive-descent parser over tokens, `ConstEval` the
evaluation of constant expressions with scopes and defaults, `RegAlloc` the register
allocator. `Emit` is the whole driver as a state machine: `ParseSource`,
`ResolveModule`, one action per kind of statement with the work still to do as a
stack, `EmitTrailers`, and `Backend`, which runs `Asm` on the text and remaps its
diagnostics. Loops of the code over bytes or verdicts are folds within one action;
bodies of frames, procs and repeats are work of their own. `AllocClient` is the
abstract specification of how the emitter may use the allocator, which `Emit`
implements (`UsesAllocator`) and about which `AllocProofs` proves.

The `MC*` modules give the constants values. The sections "Plausible bugs" of the
modules hold mutated forms of definitions; PROJECT.json pairs each property with
one that breaks it.

## The runs

| run | what it shows |
|---|---|
| `engine_bus` | every sequence of three instructions from a menu of 15 (each handler, each trap), each then HALT: types, lane data at SCK edges, setup and hold, exact clock counts, progress, refinement of `IsaMachine` |
| `engine_trace` | programs that fill, overfill and underfill a ring of 4, reloaded and re-run: whole records, no stale word drained, terminator slot reserved, overflow freezes; the host's decoder reads the drain as the records the engine kept, payloads that look like other records included |
| `engine_mark_limit` | violation: a MARK on an exactly full ring writes the terminator slot |
| `codec` | all byte sequences up to 7 with groups of 2: round trip, same bytes and same verdict of host and rig, streaming decoder |
| `loader_frames` | whole, odd, damaged, cut frames in any order; drains of 1 to 3 words and each CRC value |
| `rig_faults` | two calls, two programs that fit and one that does not, up to three faults (damage, a drain broken in two, a deadline or the port cut short), one retry |
| `rig_garbage` | violation: `Ok` with another program's trace after one damaged LOAD |
| `rig_wedged` | violation: one lost LOAD and an intact TRIGGER, and no retry succeeds |
| `uart_noise` | own rate at the real 25 clocks to 8 ticks, bytes offered in any clock, breaks and glitches: bytes intact, a break reported once, the rate exact |
| `uart_drift` | a sender 1.6% slower or faster, frames back to back or not: every byte arrives, intact, before the next may begin |
| `assembler` | all sources of four lines from a menu of 14 (labels, branches, two-word `li`, `.equ` before and after its use, faulty lines) over a store of 4 words; every mnemonic with each operand below, at and above its bounds; 12 288 words at field bounds; all texts of an identifier and four more characters: words mean their lines on the rig, branches land, both passes agree, both decoders agree, disassembly re-assembles, raw lines survive the change of lexer |
| `lang` | programs of two statements from a menu of 13 in a frame, or one in a repeat or behind a proc, each printed in two layouts and run against eight sequences of answers: the words do what the tree says; some 80 faults planted at top level, in a frame, a repeat, a proc or among the items: blamed where they stand; the allocator is sound and used by its rules |

Bounds. Three instructions reach every handler behind every other one. A ring
of 4 has two record slots: enough for a record to fit, to fit exactly, to miss by one
word, and for a MARK to meet a full ring. COBS groups of 2 meet every case of the
group boundary within 7 bytes (three groups and a rest); nothing in the code
depends on 254 but the boundary. Bytes of 2 bits still have a delimiter, three
opcodes and the full code. A store of 2 words is overflowed by a LOAD of 3; `MaxSeen`
bounds the bytes between two delimiters, more than any two damaged frames need. In
`Rig` a store of 3 words holds programs of different length, so that a tail remains. The UART has all eight
data bits; the bytes are those in which order and single bits show (`uart_noise`) or
whose edges are furthest apart (`uart_drift`). Both accumulators go through every
phase. With a sender 3.1% fast a frame that follows at once is lost; 3.1% slow still
works. `Retries` of one and three faults are enough for retries to be used up by one and by
several faults. `ImemWords` of 4 makes sources overflow the store and branches
wrap in it; it also gives the range of a displacement, as 1024 does in the code, so
that a label behind a full store is just out of range for a branch in word 0. `NumRegs` of 6 is just enough
for the programs of `lang` and too little for one of its faults; `MaxUnroll`,
`MaxEmittedLines` and `MaxExpansions` are so small that the planted programs
exceed them. `MaxChars` admits prefixes, separators, comments and commas next to
each other, and `MaxInt` of 9 numbers that are too large. `MaxInstructions` bounds a run of
compiled words: eight answers never keep a wait state polling that long.
`MaxOwed` would stop a sender whose bytes do not arrive; `OneInFlight` shows
that it never does.

Fairness. `FairOnce` in the engine and `Progress` in the loader say that the
clock ticks and that a busy UART transmitter is ready again. `FairSpec` of
`Rig` says that bytes sent arrive, that a program with a HALT halts, that a drain
is sent, and that the host's deadline passes. That of `Uart` says that the clock
ticks. No run assumes that a program halts,
that anybody calls, or that faults occur or do not.

Deadlock checking is off where the system may rest: a codec run ends at its
length, a session after its last call, an assembly or a compilation when it is done.

## What is proved

For every ring of at least 4 slots, every store whose size divides 2048 (the pc's
relative offsets are taken modulo it), every set of programs and every behaviour of
the pins (`SlotsAssumption` and `ProgramsAssumption` of `Engine.tla`):

- `TypeCorrect`: every reachable state is well typed. `TypeOK` is inductive by
  itself; the lemmas of `EngineProofs` give the types of ALU results, CRC, fields,
  lanes and records.
- `RecordsStayWhole`, `DrainIsFresh`, `TerminatorIsReserved`, `OverflowFreezes`. The
  inductive invariant is `RingInv`: until a MARK is accepted on a full ring, the
  slots written since the start are exactly those below the pointer (and the last,
  once halted), and a MARK in the middle of its two words has its label just below
  the pointer. `WholeRecords` is not inductive without it, since nothing else rules
  out a payload emitted at the terminator's slot.
- `EdgesAreTheData`, `ClocksAreExact`, `SetupAndHold`, from `BusInv`: SCK is
  high exactly in the last two cycles of a beat, the beat total is what the
  instruction names, and the edges seen so far are the byte's bits so far.
- `DrainsDecode`: for each run that was not `wrapped`, the host's decoder makes of the words the
  loader drains the records the engine kept and the verdict of the instruction that
  ended the run. The inductive invariant is `VerdictInv` beside `RingInv`: the terminator is
  the word that the last fetched instruction calls for, which no later step may change
  and which the property itself, since it speaks of the decoder, cannot carry. From there
  the decoder is followed downwards from the ring pointer: at each slot in which a record
  starts (`WholeRecords` says which do) it reads that record and then the records behind it,
  whatever the bits of a payload (a counterexample nearest to the pointer cannot exist); the lemmas about
  `RingBits` and `Field` show that each tag and field comes back out of the 32 bits.
- `EngineImplementsIsa`: every behaviour of the engine is one of
  `IsaMachine`, under the mapping of `ImplementsIsa`. An instruction takes effect in
  one cycle (its Exec, its last beat, the end of its wait, or the second word of its
  record), and every other cycle is a stutter. Beside the invariants above this needs
  `IsaInv`: register 0 reads zero; in Exec the fetched word is the store's word at
  the pc; and what a phase has put off (the record still to be written, the
  registers and flags to be set when a beat completes) is what the instruction
  would have done at once.

For every clock, baud rate (with at most one tick a clock), sender's rate, byte width
and set of bytes (`UartAssumption` of `Uart.tla`):

- `TypeCorrect` of `UartProofs`; and `RateIsExact`, from `RateInv`: ticks times
  `Modulus` plus what is left in the accumulator is clocks times `Increment`. At the
  end of a period the rest must be zero, and the tick count exact.
- `BytesIntact`, `BreaksReported`, `OneFrameInFlight`: if the rates are within
  `Tolerated`, every byte sent is received, with its value, before the next one
  can be owed, and a break is reported once. `Tolerated` says that an error of the rates, over
  the ten bits of a frame and with the synchroniser's delay, stays below half
  a bit; `MCUart` has it as an assumption that TLC evaluates for both
  instances, and `LoopbackTolerated` proves it for a sender with the receiver's own
  rate. The inductive invariant is `Stage` and `Pace`. `Stage` says for each moment
  of a frame (idle, the byte asked for, start bit, data bits, stop bit, break) where the two
  shift machines are relative to each other and which of the byte's bits the receiver
  has; `Pace` ties the two rate accumulators and sample counters to the clocks since
  the start bit's edge left the synchroniser. Together they give that the receiver's machine is
  never half a bit away from the sender's (`OnTime`), so that samples 7 to 9 fall in
  the bit they are meant for; without `Pace`, `Stage` is not inductive.

For all programs, stores, numbers of retries and faults (`Rig.tla`):

- `SoundWhenControlIntact` and `RunsTheLoadedProgram` of `RigProofs`. The inductive
  invariant relates what is on the line to what the host waits for: `Counts` pays
  for each failed attempt with a fault of its own, `Reading` says that a frame the
  host may read while no fault is left over is the drain of its own attempt, and
  `Stage` which of LOAD, TRIGGER and drain are still under way. Soundness alone is
  not inductive: a drain left behind by an earlier attempt must be ruled out, and only the count
  of faults does that.

For groups and bytes of any size, and sequences of any length (`MaxGroupAssumption` of
`Cobs.tla`; in the code 254):

- `EncodingsRoundTrip`, `SameBytesOnTheWire`, `SameVerdictAlways`, `StreamDecodesAlways` of
  `CodecProofs`: what TLC checks in the run `codec` for short sequences. The codecs are
  recursive functions over the positions of a sequence. Since the library's induction
  theorems cannot be instantiated here, `CobsLemmas` proves the induction it needs from the
  least counterexample, once for properties of sequences (`SeqInduction`, a property being
  the set of sequences that have it) and once for the existence of such a function
  (`FoldExists`). Three relations carry the argument: `Opens` (the encoder's output so far,
  followed by anything, decodes to the data up to the open group), `Follows` (what the pure decoder makes of the
  whole frame is what the streaming decoder has emitted, then what it makes of the rest), and
  `EagerStep` (the encoder that closes a full group at once is, after each byte, one group ahead of
  the one that waits for the next byte, or where that one is).

For every store, ring, word and group size, every CRC table, all initial words of the store and
everything a run may leave in the ring (`LoaderAssumption` of `Loader.tla`, `WireAssumption` and
`MaxGroupAssumption`: the sizes are positive, a ring has a slot for REVISION and one for the
terminator, and a run leaves words in it and a pointer to one of its slots; that it leaves
records is what `EngineProofs` shows):

- `LoaderTypes` of `LoaderProofs`, from `Typed`, which adds to `TypeOK` what `EngineHalts` and the drain
  need: the engine runs only while the loader waits for it, and has halted whenever a drain is under way.
- `StartsOnGoodTriggers` and `LoadsWhatWasSent`: the loader, which looks at a byte a time and
  never has the frame, decides at the delimiter as the pure decoder does of the whole frame.
  The inductive invariant is `FrameInv`. It says that for some sequence of words the bytes
  confirmed so far are the opcode, those words and less than one more (`Received`), and
  that the store is what it was with exactly those words in front, as far as it reaches
  (`Stored`). That the streaming decoder has emitted what the pure one decodes is `Follows` of
  `CobsLemmas`; since the last byte is held back, at the delimiter the parts are the message and its CRC.
  What the properties say at the delimiter alone is not inductive: it relates neither the
  CRC register nor the words already written to the bytes before.
- `SendsTheTrace`, from `DrainInv`: the encoder has sent what the pure encoder writes for the bytes
  taken so far, up to the open group (`Sends`), and those are the opcode and the words of the
  trace up to the generator's position (`Generates`), however often the
  transmitter was not ready. The trace is named by the ring's contents at the halt, so that a
  word read too early or twice contradicts it. `DrainsDecode` adds that the pure decoder
  of results gives the trace back. Both leave out a pointer of zero, which no run of the engine ends with
  unless a MARK was accepted on a full ring.

For every number of registers, set of names and depth of nesting (`NumRegsAssumption`
of `RegAlloc.tla`):

- `AllocatorIsSound` of `AllocProofs`: every bound name and every verdict not yet
  branched on has a busy register that no other value can be given. The inductive
  invariant is `TypeOK /\ AllocSound`; its core is `OwnersAgree`. Leaving nested
  expansions takes a pending register again in one scope after the other, so that
  it has several owners; what saves it is that all of them lie inside the frame,
  whose own exit comes after the verdicts. Without the clause about scopes
  outside the frame the step of `CloseExpansion` is not inductive. `UsesAllocator`
  connects the theorem to the compiler: TLC checks on every program of `lang` that
  each step of the emitter is a step of `AllocClient` or none.

For every word of 32 bits, and for all sequences of tokens as sources with any store of at most
1024 words (`ImemWordsAssumption` of `Asm.tla`; 1024 in the code, and beyond it an 11-bit
displacement would not reach; the condition
`src \in Seq(Tokens)` is what the lexer yields, and `SourceAssumption` of `MCAsm` has TLC
check it of the sources of the run):

- `OneInstructionSet` of `AsmProofs`: the host's decoder and the rig's read the same
  instruction in a word or refuse it for the same reason, and the host's encoder restores
  each accepted word bit for bit. There is one lemma for each layout of operands (`LayoutRrr`,
  `LayoutShift` and so on): the reserved bits that `tamal-abi` tests field by field are those the
  rig's `ReservedZero` names, and packing what was unpacked gives the word.
- `PassesHoldStep`: at each line, faulty or not, pass 2 has come to the address at which pass 1 was.
  The two passes are followed side by side, line by line: the words that pass 1
  counts for a line with the symbols known so far are as many as `EncodeLine` yields with
  all of them, since every `.equ` is collected before, and between a line and the end of
  pass 1 only labels are added (`Grows`), which a `li` does not take as a value.
- `BranchesReach`: in a source that assembles, a branch goes to the first word that comes from
  behind its label. Beside the agreement of the passes this needs `Blocks`, an
  invariant over the lines: the words between the addresses of two successive lines are those of
  the first, with its span, and there are no others; that a label, once assigned, keeps
  its address; and that an accepted displacement comes back from its 11 bits with its sign, in
  every such store.

The inductions of `AsmProofs` are over lines and tokens. They use `Ladder` and `Downward`, which are
proved with the set of the numbers that have a property in place of the property.

Only model-checked:

- That words mean what their lines say (`WordsMeanTheirLines`), that disassembly re-assembles
  (`RenderRoundTrip`) and that raw lines survive the change of lexer (`RawLinesSurvive`): what a `li`
  builds needs arithmetic on 32-bit vectors, the others compare texts and lexers,
  recursive over their characters.
- The compiler (`RunsAsWritten`, `BlamesTheCulprit`, and `UsesAllocator`, which ties it to
  `AllocProofs`): its parser and evaluator are RECURSIVE operators, for which the prover
  has no back end. `AllocSound` itself is proved of `AllocClient`, and checked of the compiler in `lang`.
- Liveness under fairness (`DrainEnds` among it), which is out of the prover's reach.

## Where the code and its documents disagree

- A MARK on an exactly full ring is accepted, because `ringPtr + 1` wraps
  (`Engine.hs:418`), although the engine design says nothing is written past the
  limit. Theorems about the ring are therefore stated up to that event (`wrapped`).
- A LOAD that fails its CRC is not discarded: its words are in the store already
  (`Loader.hs:172`), and the TRIGGER that follows at once runs them.
- A run that does not end cannot be ended: the loader ignores every frame until
  HALT (`Loader.hs:120`), so retries do not help after a lost LOAD.
- A drain that damage breaks into two frames fails two attempts, and leaves a drain
  behind that is read as the answer to the next call (`device.rs:61`): `run` may
  return the trace of the program before.
- `Device::run` has no length check of its own (`device.rs:56`), although the host
  design says so; `Rig` has the one of the command line.
- A disassembled word that names x16 to x31, or a later configuration, does not
  re-assemble (`mnemonics.rs:47`). `RenderRoundTrip` leaves these words out.
- WAIT_ON ignores its condition field (`Engine.hs:430`); the reserved group
  halts with reason 1 and reason 4 is never given (`Engine.hs:223`).

`SoundIfControlIntact` says what does hold: over a line that keeps control frames
intact, with deadlines long enough and drains that are not broken in two, an Ok is the caller's trace and each
failed attempt needs a fault of its own. A deadline that passes in the middle of
a drain may cost two attempts, since the rest of that drain is read as a bad frame.

Behaviour that may surprise but that no document denies: a raw statement may write
registers the allocator holds; an `expect crc` that follows no `wait_state` uses
the CRC since the last reset, which a frame does not do; `fail 0` reads as a pass;
leaving a scope unbinds a name even if an outer scope had bound it; numbers with
`_` in raw operands and `fail` are refused by the assembler, whose lexer has no
separators; a label behind the last word of a full store is word 0.

## Not modelled

- Pins, tristates, the two-flop synchroniser, clock domains and boards, and the status
  LED: electrical, vendor specific, or without a state that anything depends on. `Engine`
  takes any value of its inputs in any cycle.
- The command lines: arguments, files and printing around one call each.
- In the tool chain: the wording of messages; names and numbers as text outside
  `Lex`; an `i64` is an integer of TLC, with negative and too large ones as marked
  literals; Rust's `Debug` output. Work of the constant evaluator is outside both
  budgets in the code, and nothing is said of how long it takes.
- Control frames or drains whose damage their CRC does not notice.

## What could come next

That `Emit` implements `AllocClient`, and with it `AllocSound` of the compiler, would need the
language's parser and evaluator as functions instead of recursive operators. The half of
`WordsMeanTheirLines` that is not about `li`, that a line's mnemonic and operands are those of
its word, is within reach of the lemmas of `AsmProofs`.
