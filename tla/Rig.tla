-------------------------------- MODULE Rig --------------------------------
(***************************************************************************)
(* A host session (tamal-loader device.rs) and the rig, a frame at a time, *)
(* over a line that may damage frames.  Loader.tla has the rig's side byte *)
(* by byte: a good LOAD overlays the store, a damaged one overlays it with *)
(* whatever words it still yields, only a good TRIGGER starts a run, and a *)
(* frame that comes during a run or a drain is dropped, its end too unless *)
(* the drain ends while it is on its way.                                  *)
(*                                                                         *)
(* A word stands for what it adds to the trace; execution goes from slot 0 *)
(* to the first HALT and never ends if there is none.                      *)
(***************************************************************************)
EXTENDS Integers, Sequences, SequencesExt

CONSTANTS
    InstrSlots,    \* words of the instruction store
    Ops, HALT,     \* words; HALT is one of them
    Programs,      \* what callers ask for: sequences of words, HALT the last one
    InitialStore,  \* the store at power-up
    Retries,       \* opts.retries
    MaxCalls,      \* calls of run in the session
    MaxFaults,     \* damaged frames and reads given up too early
    MayBreak       \* whether damage may break a drain into two frames

ASSUME RigAssumption ==
    /\ InstrSlots \in Nat \ {0} /\ Retries \in Nat /\ HALT \in Ops
    /\ MayBreak \in BOOLEAN
    /\ \A p \in Programs : p \in Seq(Ops) /\ p # <<>> /\ Last(p) = HALT

Slots == 0..InstrSlots - 1

VARIABLES
    at,            \* the host: "idle", or "reading" within run
    program,       \* the words run was called with
    attempt,       \* how many attempts run has begun
    outcome,       \* what run returned: "none", "Ok" or an error
    got,           \* the trace of an Ok
    toRig,         \* frames on their way to the rig
    toHost,        \* result frames the host has not read
    phase,         \* the loader's lifecycle
    store,         \* the instruction store
    half,          \* whether the host dropped the front of the drain under way
    calls,         \* history: calls of run
    badControl,    \* history: damaged control frames
    badDrains,     \* history: damaged and lost drains of this call
    early,         \* history: reads given up while the rig was not done
    broken         \* history: a drain was broken into two frames

host == <<at, program, attempt, outcome, got, calls>>
rig == <<phase, store>>
faults == <<badControl, badDrains, early, broken>>
vars == <<host, toRig, toHost, rig, half, faults>>

MayFail == badControl + badDrains + early < MaxFaults

Load(p) == [kind |-> "LOAD", words |-> p]
Trigger == [kind |-> "TRIGGER", words |-> <<>>]
Good(trace) == [ok |-> TRUE, trace |-> trace]
Bad == [ok |-> FALSE, trace |-> <<>>]

Init ==
    /\ at = "idle" /\ program = <<>> /\ attempt = 0 /\ outcome = "none" /\ got = <<>>
    /\ toRig = <<>> /\ toHost = <<>> /\ phase = "RxControl" /\ store = InitialStore
    /\ half = FALSE /\ calls = 0 /\ badControl = 0 /\ badDrains = 0 /\ early = 0
    /\ broken = FALSE

-----------------------------------------------------------------------------
(* Plausible bugs, for showing that the properties notice them.            *)

TriggersFirst(p) == <<Trigger, Load(p)>>
AcceptsDamaged(f) == TRUE
WaitsForADrain == toHost # <<>>

-----------------------------------------------------------------------------
(* The rig.                                                                *)

Overlay(words) == [a \in Slots |-> IF a < Len(words) THEN words[a+1] ELSE store[a]]

Terminates == \E a \in Slots : store[a] = HALT

\* The trace of a run of what is stored.
Executed(s) ==
    LET end == CHOOSE a \in Slots : s[a] = HALT /\ \A b \in 0..a-1 : s[b] # HALT
    IN  [k \in 1..end |-> s[k-1]]

\* The words a damaged LOAD may still yield, before its CRC shows the damage.
Remains(words) == UNION {[1..n -> Ops] : n \in 0..Len(words)}

Take == toRig # <<>> /\ toRig' = Tail(toRig) /\ UNCHANGED <<host, toHost, half>>

Spoil(f) == \E words \in Remains(f.words) : store' = Overlay(words)

ReceiveLoad ==
    /\ Take /\ phase = "RxControl" /\ Head(toRig).kind = "LOAD"
    /\ store' = Overlay(Head(toRig).words)
    /\ UNCHANGED <<phase, faults>>

ReceiveTrigger ==
    /\ Take /\ phase = "RxControl" /\ Head(toRig).kind = "TRIGGER"
    /\ phase' = "Run"
    /\ UNCHANGED <<store, faults>>

\* A frame that lost its front while the rig was draining.
ReceiveRest ==
    /\ Take /\ phase = "RxControl" /\ Head(toRig).kind = "REST"
    /\ Spoil(Head(toRig))
    /\ UNCHANGED <<phase, faults>>

NotListening ==
    /\ Take /\ phase # "RxControl"
    /\ UNCHANGED <<rig, faults>>

\* The line damages a frame; a lost delimiter takes the next one with it.
DamageControl ==
    /\ toRig # <<>> /\ phase = "RxControl" /\ MayFail
    /\ badControl' = badControl + 1
    /\ Spoil(Head(toRig))
    /\ \/ toRig' = Tail(toRig)
       \/ Len(toRig) > 1 /\ toRig' = Tail(Tail(toRig))
    /\ UNCHANGED <<host, toHost, phase, half, badDrains, early, broken>>

Halts ==
    /\ phase = "Run" /\ Terminates
    /\ phase' = "Drain"
    /\ UNCHANGED <<host, toRig, toHost, store, half, faults>>

\* The drain arrives whole, or without the front that the host dropped; of
\* that, a lone delimiter is skipped.
SendDrain ==
    /\ phase = "Drain" /\ phase' = "RxControl" /\ half' = FALSE
    /\ \/ ~half /\ toHost' = Append(toHost, Good(Executed(store)))
       \/ half /\ toHost' = Append(toHost, Bad)
       \/ half /\ UNCHANGED toHost
    /\ \/ UNCHANGED toRig
       \/ /\ toRig # <<>>
          /\ toRig' = <<[Head(toRig) EXCEPT !.kind = "REST"]>> \o Tail(toRig)
    /\ UNCHANGED <<host, store, faults>>

\* The line damages the drain, or loses all of it; a byte that becomes a
\* delimiter makes two frames of it, for push_frame_byte only skips a
\* delimiter that stands alone.
DamageDrain ==
    /\ phase = "Drain" /\ phase' = "RxControl" /\ half' = FALSE /\ MayFail
    /\ badDrains' = badDrains + 1
    /\ \/ toHost' = Append(toHost, Bad) /\ UNCHANGED broken
       \/ UNCHANGED <<toHost, broken>>
       \/ MayBreak /\ toHost' = toHost \o <<Bad, Bad>> /\ broken' = TRUE
    /\ UNCHANGED <<host, toRig, store, badControl, early>>

-----------------------------------------------------------------------------
(* The host.                                                               *)

\* What validate_program_bytes lets through to run.
ValidProgram(p) == Len(p) <= InstrSlots

\* What one attempt sends.
Attempt(p) == <<Load(p), Trigger>>

Call(p) ==
    /\ at = "idle" /\ calls < MaxCalls /\ ValidProgram(p)
    /\ at' = "reading" /\ program' = p /\ attempt' = 1 /\ outcome' = "none" /\ got' = <<>>
    /\ calls' = calls + 1 /\ toRig' = toRig \o Attempt(p)
    /\ badDrains' = 0
    /\ UNCHANGED <<toHost, rig, half, badControl, early, broken>>

AttemptsLeft == attempt < Retries + 1

\* A drain was lost or malformed: the next attempt, if there is one.
Retry ==
    \/ /\ AttemptsLeft
       /\ attempt' = attempt + 1 /\ toRig' = toRig \o Attempt(program)
       /\ UNCHANGED <<at, program, outcome, got, calls>>
    \/ /\ ~AttemptsLeft
       /\ at' = "idle" /\ outcome' = "RetriesExhausted"
       /\ UNCHANGED <<program, attempt, got, calls, toRig>>

\* Does the frame decode?
Decodes(f) == f.ok

ReadTrace ==
    /\ at = "reading" /\ toHost # <<>> /\ toHost' = Tail(toHost)
    /\ \/ /\ Decodes(Head(toHost))
          /\ at' = "idle" /\ outcome' = "Ok" /\ got' = Head(toHost).trace
          /\ UNCHANGED <<program, attempt, calls, toRig>>
       \/ ~Decodes(Head(toHost)) /\ Retry
    /\ UNCHANGED <<rig, half, faults>>

\* Nothing more will come unless the host sends again.
Settled ==
    /\ toRig = <<>> /\ toHost = <<>>
    /\ phase = "RxControl" \/ (phase = "Run" /\ ~Terminates)

\* The deadline passes: no frame has come.
DeadlinePassed == toHost = <<>>

\* A deadline long enough for the program.
TimeoutInDue ==
    /\ at = "reading" /\ DeadlinePassed /\ Settled
    /\ Retry
    /\ UNCHANGED <<toHost, rig, half, faults>>

\* The read ends although more may come; what has come of a drain is dropped.
GiveUp ==
    /\ at = "reading" /\ DeadlinePassed /\ MayFail
    /\ early' = early + 1
    /\ half' \in IF phase = "Drain" THEN {half, TRUE} ELSE {half}
    /\ UNCHANGED <<toHost, rig, badControl, badDrains, broken>>

\* A deadline that is too short.
TimeoutEarly == GiveUp /\ ~Settled /\ Retry

\* An I/O error of the port is returned at once.
PortFails ==
    /\ GiveUp
    /\ at' = "idle" /\ outcome' = "Io"
    /\ UNCHANGED <<program, attempt, got, calls, toRig>>

Rx == ReceiveLoad \/ ReceiveTrigger \/ ReceiveRest \/ NotListening
Host == ReadTrace \/ TimeoutInDue

Next ==
    \/ \E p \in Programs : Call(p)
    \/ Rx \/ DamageControl \/ Halts \/ SendDrain \/ DamageDrain
    \/ Host \/ TimeoutEarly \/ PortFails

Spec == Init /\ [][Next]_vars

\* Frames arrive, a terminating program ends, the drain is sent, and the host
\* reads on until its deadline.  Nobody is obliged to call or to fail.
FairSpec == Spec /\ WF_vars(Rx) /\ WF_vars(Halts) /\ WF_vars(SendDrain) /\ WF_vars(Host)

-----------------------------------------------------------------------------
(* Properties.                                                             *)

\* The trace a program produces, behind which the store does not matter.
TraceOf(p) == LET n == CHOOSE k \in 1..Len(p) : p[k] = HALT /\ \A j \in 1..k-1 : p[j] # HALT
              IN  SubSeq(p, 1, n - 1)

\* The trace run returns is its program's: "The only FPGA -> host traffic is
\* the drain; its trailing CRC and leading REVISION validate the whole
\* round-trip" (docs/superpowers/specs/2026-07-02-tamal-wire-format-design.md:83).
OkIsOurTrace == outcome = "Ok" => got = TraceOf(program)

\* With reads that last long enough each failed attempt needs a fault of its own, so
\* that retries absorb as many: "A control frame that fails its CRC is silently
\* discarded (no load, no trigger) -> no drain -> the host times out and
\* re-runs (deterministic, byte-reproducible)" (the same line).
RetriesAbsorbFaults ==
    outcome = "RetriesExhausted" /\ early = 0 => badControl + badDrains > Retries

\* While control frames arrive whole, no read is given up early and no drain is
\* broken in two, both hold over any number of calls with different programs,
\* whatever else happens to the drains (device.rs run and read_trace).  Of a
\* broken drain the second half fails the next attempt, and the drain of that
\* attempt is then read as the next call's.
SoundIfControlIntact ==
    badControl = 0 /\ early = 0 /\ ~broken => OkIsOurTrace /\ RetriesAbsorbFaults

\* Whatever is damaged, and even with a rig that runs for ever, run returns.
RunReturns == at = "reading" ~> at = "idle"

\* Over a line that keeps control frames and the number of drains intact, with
\* deadlines long enough,
\* what runs is the program of the call under way, whatever was in the store
\* and however the drains before it failed (device.rs re-sends the LOAD with
\* every TRIGGER; Loader.hs drops what comes during a run or a drain).
RunsWhatWasLoaded ==
    [][phase = "RxControl" /\ phase' = "Run" /\ badControl = 0 /\ early = 0 /\ ~broken
         => Terminates /\ Executed(store) = TraceOf(program)]_vars

=============================================================================
