------------------------------ MODULE RigProofs ------------------------------
(***************************************************************************)
(* A host session over a line that keeps control frames whole: what run    *)
(* returns is the trace of the program it was called with, for every set   *)
(* of programs, store size, number of retries and of calls.                *)
(***************************************************************************)
EXTENDS Rig, TLAPS, SequenceTheorems, WellFoundedInduction

-----------------------------------------------------------------------------
(* Traces.                                                                 *)

\* Every nonempty set of naturals has a least element.
LEMMA Least ==
    ASSUME NEW S \in SUBSET Nat, S # {}
    PROVE  \E m \in S : \A k \in S : m <= k
<1>1. IsWellFoundedOn(OpToRel(<, Nat), Nat)
  BY NatLessThanWellFounded
<1>2. PICK m \in S : \A k \in S : ~(<<k, m>> \in OpToRel(<, Nat))
  BY <1>1, WFMin
<1>3. \A k \in S : ~(k < m)
  BY <1>2 DEF OpToRel
<1>4. m \in Nat /\ \A k \in S : k \in Nat
  OBVIOUS
<1> QED
  BY <1>3, <1>4

\* The store holds the program from slot 0 up.
Loaded(s, p) == \A a \in Slots : a < Len(p) => s[a] = p[a+1]

\* Where a program stands in the store, its trace is the store's: whatever is
\* behind its first HALT does not matter.
LEMMA LoadedRuns ==
    ASSUME NEW p \in Programs, ValidProgram(p), NEW s, Loaded(s, p)
    PROVE  (\E a \in Slots : s[a] = HALT) /\ Executed(s) = TraceOf(p)
<1>1. p \in Seq(Ops) /\ p # <<>> /\ Last(p) = HALT /\ InstrSlots \in Nat
  BY RigAssumption
<1>2. Len(p) \in Nat /\ Len(p) >= 1 /\ Len(p) <= InstrSlots /\ p[Len(p)] = HALT
  BY <1>1, EmptySeq, LenProperties DEF ValidProgram, Last
<1> DEFINE Stops == {a \in 0..Len(p)-1 : p[a+1] = HALT}
<1>3. Len(p) - 1 \in Stops /\ Stops \in SUBSET Nat
  BY <1>2
<1>4. PICK e \in Stops : \A k \in Stops : e <= k
  BY <1>3, Least
<1>5. /\ e \in Slots /\ e \in Nat /\ e < Len(p) /\ p[e+1] = HALT
      /\ \A a \in 0..e-1 : p[a+1] # HALT
  <2>1. e \in 0..Len(p)-1 /\ p[e+1] = HALT
    OBVIOUS
  <2>2. e \in Nat /\ e < Len(p) /\ e \in Slots
    BY <2>1, <1>1, <1>2 DEF Slots
  <2>3. \A a \in 0..e-1 : p[a+1] # HALT
    <3> SUFFICES ASSUME NEW a \in 0..e-1, p[a+1] = HALT PROVE FALSE
      OBVIOUS
    <3>1. a \in Nat /\ a < e /\ a \in 0..Len(p)-1
      BY <2>2, <1>2
    <3>2. a \in Stops
      BY <3>1
    <3> QED
      BY <3>1, <3>2, <2>2, <1>4
  <2> QED
    BY <2>1, <2>2, <2>3
<1>6. \A a \in 0..e : a \in Slots /\ s[a] = p[a+1]
  BY <1>1, <1>2, <1>5 DEF Loaded, Slots
<1>7. s[e] = HALT /\ \A a \in 0..e-1 : s[a] # HALT
  BY <1>5, <1>6
<1>8. Executed(s) = [k \in 1..e |-> s[k-1]]
  <2> DEFINE end == CHOOSE a \in Slots : s[a] = HALT /\ \A b \in 0..a-1 : s[b] # HALT
  <2>1. end \in Slots /\ s[end] = HALT /\ \A b \in 0..end-1 : s[b] # HALT
    BY <1>5, <1>7
  <2>a. Executed(s) = [k \in 1..end |-> s[k-1]]
    BY DEF Executed
  <2> HIDE DEF end
  <2>2. end = e
    <3>1. end \in Nat /\ e \in Nat
      BY <2>1, <1>5 DEF Slots
    <3>2. ~(end < e) /\ ~(e < end)
      BY <2>1, <1>5, <1>7, <3>1
    <3> QED
      BY <3>1, <3>2
  <2> QED
    BY <2>2, <2>a
<1>9. TraceOf(p) = SubSeq(p, 1, e)
  <2> DEFINE n == CHOOSE k \in 1..Len(p) : p[k] = HALT /\ \A j \in 1..k-1 : p[j] # HALT
  <2>1. e + 1 \in 1..Len(p) /\ \A j \in 1..(e+1)-1 : p[j] # HALT
    <3>1. \A j \in 1..(e+1)-1 : j - 1 \in 0..e-1 /\ (j - 1) + 1 = j
      BY <1>5
    <3> QED
      BY <1>2, <1>5, <3>1
  <2>2. n \in 1..Len(p) /\ p[n] = HALT /\ \A j \in 1..n-1 : p[j] # HALT
    BY <2>1, <1>5
  <2>3. TraceOf(p) = SubSeq(p, 1, n - 1)
    BY DEF TraceOf
  <2> HIDE DEF n
  <2>4. n = e + 1
    BY <2>1, <2>2, <1>2, <1>5
  <2>5. n - 1 = e
    BY <2>4, <1>5
  <2> QED
    BY <2>3, <2>5
<1>10. SubSeq(p, 1, e) = [k \in 1..e |-> p[k]]
  BY <1>1, <1>2, <1>5
<1>11. \A k \in 1..e : s[k-1] = p[k]
  BY <1>5, <1>6
<1> QED
  BY <1>5, <1>7, <1>8, <1>9, <1>10, <1>11

-----------------------------------------------------------------------------
(* The invariant.                                                          *)

\* What keeps the two ends in step.
Intact == badControl = 0 /\ early = 0 /\ ~broken

\* The history counts.
Counts == badControl \in Nat /\ badDrains \in Nat /\ early \in Nat /\ broken \in BOOLEAN

\* A call is under way.
Reading ==
    /\ at = "reading" /\ outcome = "none"
    /\ program \in Programs /\ ValidProgram(program)
    /\ attempt \in 1..Retries+1 /\ badDrains >= attempt - 1

\* What the store holds ends with this call's trace.
Ready == Loaded(store, program)

\* Where an attempt can be: nothing is in two places, and a frame is never
\* left behind for the next attempt.
Stage ==
    \/ /\ toRig = Attempt(program) /\ toHost = <<>> /\ phase = "RxControl"
    \/ /\ toRig = <<Trigger>> /\ toHost = <<>> /\ phase = "RxControl" /\ Ready
    \/ /\ toRig = <<>> /\ toHost = <<>> /\ phase \in {"Run", "Drain"} /\ Ready
    \/ /\ toRig = <<>> /\ toHost = <<Good(TraceOf(program))>> /\ phase = "RxControl"
    \/ /\ toRig = <<>> /\ toHost \in {<<>>, <<Bad>>} /\ phase = "RxControl"
       /\ badDrains >= attempt

Idle ==
    /\ at = "idle" /\ toRig = <<>> /\ toHost = <<>> /\ phase = "RxControl"
    /\ outcome \in {"none", "Ok", "RetriesExhausted"}
    /\ outcome = "Ok" => got = TraceOf(program)
    /\ outcome = "RetriesExhausted" => badDrains > Retries

IInv == Counts /\ (Intact => ~half /\ (Idle \/ (Reading /\ Stage)))

\* The frames of an attempt, one after the other.
LEMMA AttemptFrames ==
    ASSUME NEW p
    PROVE  /\ Attempt(p) # <<>> /\ Head(Attempt(p)) = Load(p) /\ Tail(Attempt(p)) = <<Trigger>>
           /\ <<Trigger>> # <<>> /\ Head(<<Trigger>>) = Trigger /\ Tail(<<Trigger>>) = <<>>
           /\ Load(p).kind = "LOAD" /\ Load(p).words = p /\ Trigger.kind = "TRIGGER"
           /\ <<>> \o Attempt(p) = Attempt(p)
<1>1. Load(p).kind = "LOAD" /\ Load(p).words = p /\ Trigger.kind = "TRIGGER"
  BY DEF Load, Trigger
<1> HIDE DEF Load, Trigger
<1>2. Attempt(p) # <<>> /\ Head(Attempt(p)) = Load(p) /\ Tail(Attempt(p)) = <<Trigger>>
  BY DEF Attempt
<1>3. <<Trigger>> # <<>> /\ Head(<<Trigger>>) = Trigger /\ Tail(<<Trigger>>) = <<>>
  OBVIOUS
<1>4. <<>> \o Attempt(p) = Attempt(p)
  BY DEF Attempt
<1> QED
  BY <1>1, <1>2, <1>3, <1>4

\* A drain that the host reads, one after the other.
LEMMA DrainFrames ==
    ASSUME NEW f
    PROVE  /\ <<f>> # <<>> /\ Head(<<f>>) = f /\ Tail(<<f>>) = <<>>
           /\ Append(<<>>, f) = <<f>>
OBVIOUS

\* What a step does to the history: the counts grow, but for that of failed
\* drains, which each call begins anew.
LEMMA HistoryGrows ==
    ASSUME Next
    PROVE  /\ badControl' = badControl \/ badControl' = badControl + 1
           /\ badDrains' = badDrains \/ badDrains' = badDrains + 1 \/ badDrains' = 0
           /\ early' = early \/ early' = early + 1
           /\ broken' = broken \/ broken' = TRUE
<1>1. CASE \E p \in Programs : Call(p)
  BY <1>1 DEF Call
<1>2. CASE Rx
  BY <1>2 DEF Rx, ReceiveLoad, ReceiveTrigger, ReceiveRest, NotListening, faults
<1>3. CASE DamageControl
  BY <1>3 DEF DamageControl
<1>4. CASE Halts \/ SendDrain \/ Host
  BY <1>4 DEF Halts, SendDrain, Host, ReadTrace, TimeoutInDue, faults
<1>5. CASE DamageDrain
  BY <1>5 DEF DamageDrain
<1>6. CASE TimeoutEarly \/ PortFails
  BY <1>6 DEF TimeoutEarly, PortFails, GiveUp
<1> QED
  BY <1>1, <1>2, <1>3, <1>4, <1>5, <1>6 DEF Next

\* A line that was kept whole was so before the step.
LEMMA IntactBefore ==
    ASSUME IInv, Next, Intact'
    PROVE  Intact
<1>1. broken \in BOOLEAN /\ (broken' = broken \/ broken' = TRUE)
  BY HistoryGrows DEF IInv, Counts
<1>2. badControl = 0 /\ early = 0
  BY HistoryGrows DEF IInv, Counts, Intact
<1>3. ~broken
  BY <1>1 DEF Intact
<1> QED
  BY <1>2, <1>3 DEF Intact

\* The session starts idle.
LEMMA InitEstablishes ==
    Init => IInv
<1> SUFFICES ASSUME Init PROVE IInv
  OBVIOUS
<1>1. broken \in BOOLEAN
  BY Zenon DEF Init
<1>2. badControl \in Nat /\ badDrains \in Nat /\ early \in Nat /\ ~half /\ Idle
  BY DEF Init, Idle
<1> QED
  BY <1>1, <1>2 DEF IInv, Counts

\* A step keeps the history counts natural.
LEMMA CountsKept ==
    ASSUME IInv, Next
    PROVE  Counts'
<1>1. broken' \in BOOLEAN
  BY HistoryGrows, Zenon DEF IInv, Counts
<1>2. badControl' \in Nat /\ badDrains' \in Nat /\ early' \in Nat
  BY HistoryGrows DEF IInv, Counts
<1> QED
  BY <1>1, <1>2 DEF Counts

\* The two ends in step.
InStep == ~half /\ (Idle \/ (Reading /\ Stage))

\* A call on an idle line.
LEMMA CallKeeps ==
    ASSUME InStep, Counts, NEW p \in Programs, Call(p)
    PROVE  InStep'
<1>1. Idle
  BY DEF InStep, Reading, Call
<1>2. toRig' = Attempt(p) /\ toHost' = <<>> /\ phase' = "RxControl"
  BY <1>1, AttemptFrames DEF Idle, Call, rig
<1>3. attempt' \in 1..Retries+1 /\ badDrains' >= attempt' - 1
  BY RigAssumption DEF Call
<1> QED
  BY <1>1, <1>2, <1>3 DEF InStep, Call, Reading, Stage, ValidProgram

\* The LOAD is stored.
LEMMA LoadKeeps ==
    ASSUME InStep, ReceiveLoad
    PROVE  InStep'
<1>1. Reading /\ toRig = Attempt(program) /\ toHost = <<>> /\ phase = "RxControl"
  BY AttemptFrames DEF InStep, ReceiveLoad, Take, Idle, Stage
<1>2. toRig' = <<Trigger>> /\ toHost' = <<>> /\ phase' = "RxControl"
  BY <1>1, AttemptFrames DEF ReceiveLoad, Take
<1>3. store' = Overlay(program)
  BY <1>1, AttemptFrames DEF ReceiveLoad
<1>4. Ready'
  <2>1. program' = program
    BY DEF ReceiveLoad, Take, host
  <2>2. \A a \in Slots : a < Len(program) => Overlay(program)[a] = program[a+1]
    BY DEF Overlay
  <2> QED
    BY <1>3, <2>1, <2>2 DEF Ready, Loaded
<1>5. Reading' /\ ~half'
  BY <1>1 DEF InStep, Reading, ReceiveLoad, Take, host, faults, ValidProgram
<1> QED
  BY <1>2, <1>4, <1>5 DEF InStep, Stage

\* The TRIGGER starts the run.
LEMMA TriggerKeeps ==
    ASSUME InStep, ReceiveTrigger
    PROVE  InStep' /\ Ready /\ Reading
<1>1. Reading /\ toRig = <<Trigger>> /\ toHost = <<>> /\ phase = "RxControl" /\ Ready
  BY AttemptFrames DEF InStep, ReceiveTrigger, Take, Idle, Stage
<1>2. toRig' = <<>> /\ toHost' = <<>> /\ phase' = "Run"
  BY <1>1, AttemptFrames DEF ReceiveTrigger, Take
<1>3. Ready' /\ Reading' /\ ~half'
  BY <1>1 DEF InStep, Ready, Reading, ReceiveTrigger, Take, host, faults, ValidProgram, Loaded
<1> QED
  BY <1>1, <1>2, <1>3 DEF InStep, Stage

\* No other frame arrives.
LEMMA NoOtherFrame ==
    ASSUME InStep, ReceiveRest \/ NotListening
    PROVE  FALSE
BY AttemptFrames DEF InStep, ReceiveRest, NotListening, Take, Idle, Stage

\* The program ends.
LEMMA HaltKeeps ==
    ASSUME InStep, Halts
    PROVE  InStep'
<1>1. Reading /\ toRig = <<>> /\ toHost = <<>> /\ phase = "Run" /\ Ready
  BY AttemptFrames DEF InStep, Halts, Idle, Stage
<1>2. toRig' = <<>> /\ toHost' = <<>> /\ phase' = "Drain"
  BY <1>1 DEF Halts
<1>3. Ready' /\ Reading' /\ ~half'
  BY <1>1 DEF InStep, Ready, Reading, Halts, host, faults, ValidProgram, Loaded
<1> QED
  BY <1>1, <1>2, <1>3 DEF InStep, Stage

\* The drain is the trace of the program of this call.
LEMMA DrainKeeps ==
    ASSUME InStep, SendDrain
    PROVE  InStep'
<1>1. Reading /\ toRig = <<>> /\ toHost = <<>> /\ phase = "Drain" /\ Ready /\ ~half
  BY AttemptFrames DEF InStep, SendDrain, Idle, Stage
<1>2. Executed(store) = TraceOf(program)
  BY <1>1, LoadedRuns DEF Ready, Reading
<1>3. toRig' = <<>> /\ phase' = "RxControl" /\ ~half'
  BY <1>1 DEF SendDrain
<1>4. toHost' = <<Good(TraceOf(program))>>
  BY <1>1, <1>2, DrainFrames DEF SendDrain
<1>5. Reading' /\ program' = program
  BY <1>1 DEF Reading, SendDrain, host, faults, ValidProgram
<1> QED
  BY <1>3, <1>4, <1>5 DEF InStep, Stage

\* A drain that fails is counted.
LEMMA BadDrainKeeps ==
    ASSUME InStep, Counts, DamageDrain, ~broken'
    PROVE  InStep'
<1>1. Reading /\ toRig = <<>> /\ toHost = <<>> /\ phase = "Drain"
  BY AttemptFrames DEF InStep, DamageDrain, Idle, Stage
<1>2. toRig' = <<>> /\ phase' = "RxControl" /\ ~half'
  BY <1>1 DEF DamageDrain
<1>3. toHost' \in {<<>>, <<Bad>>}
  BY <1>1, DrainFrames DEF DamageDrain
<1>4. badDrains' = badDrains + 1 /\ UNCHANGED host
  BY DEF DamageDrain
<1>5. attempt \in Nat /\ badDrains \in Nat /\ badDrains >= attempt - 1
  BY <1>1, RigAssumption DEF Reading, Counts
<1>6. badDrains' >= attempt' /\ badDrains' >= attempt' - 1
  BY <1>4, <1>5 DEF host
<1>7. Reading'
  BY <1>1, <1>4, <1>6 DEF Reading, host, ValidProgram
<1> QED
  BY <1>2, <1>3, <1>6, <1>7 DEF InStep, Stage

\* A retry on an empty line, after as many failures as attempts.
LEMMA RetryKeeps ==
    ASSUME Reading, Counts, ~half, toRig = <<>>, phase = "RxControl", badDrains >= attempt,
           Retry, toHost' = <<>>, UNCHANGED <<rig, half, faults>>
    PROVE  InStep'
<1>0. Retries \in Nat /\ attempt \in Nat /\ badDrains \in Nat
  BY RigAssumption DEF Reading, Counts
<1>1. CASE AttemptsLeft
  <2>1. attempt' = attempt + 1 /\ toRig' = Attempt(program)
    BY <1>1, AttemptFrames DEF Retry
  <2>2. attempt' \in 1..Retries+1 /\ badDrains' >= attempt' - 1
    BY <1>0, <1>1, <2>1 DEF AttemptsLeft, Reading, faults
  <2>3. UNCHANGED <<at, program, outcome>>
    BY <1>1 DEF Retry
  <2>4. Reading'
    BY <2>2, <2>3 DEF Reading, ValidProgram
  <2> QED
    BY <2>1, <2>3, <2>4 DEF InStep, Stage, rig
<1>2. CASE ~AttemptsLeft
  <2>1. at' = "idle" /\ outcome' = "RetriesExhausted" /\ toRig' = <<>>
    BY <1>2 DEF Retry
  <2>2. badDrains' > Retries
    BY <1>0, <1>2 DEF AttemptsLeft, faults, Reading
  <2> QED
    BY <2>1, <2>2 DEF InStep, Idle, rig
<1> QED
  BY <1>1, <1>2

\* The host reads a drain: the call's trace, or one that was counted.
LEMMA ReadKeeps ==
    ASSUME InStep, Counts, ReadTrace
    PROVE  InStep'
<1>1. Reading /\ toRig = <<>> /\ phase = "RxControl" /\ ~half
  BY AttemptFrames DEF InStep, ReadTrace, Idle, Stage
<1>2. CASE toHost = <<Good(TraceOf(program))>>
  <2>1. Head(toHost).ok /\ Head(toHost).trace = TraceOf(program) /\ Tail(toHost) = <<>>
    BY <1>2, DrainFrames DEF Good
  <2> QED
    BY <1>1, <2>1 DEF InStep, Idle, ReadTrace, Decodes, rig
<1>3. CASE toHost # <<Good(TraceOf(program))>>
  <2>1. toHost = <<Bad>> /\ badDrains >= attempt
    BY <1>1, <1>3, AttemptFrames DEF InStep, ReadTrace, Stage, Reading, Idle
  <2>2. ~Head(toHost).ok /\ Tail(toHost) = <<>>
    BY <2>1, DrainFrames DEF Bad
  <2>3. Retry /\ toHost' = <<>> /\ UNCHANGED <<rig, half, faults>>
    BY <2>2 DEF ReadTrace, Decodes
  <2> QED
    BY <1>1, <2>1, <2>3, RetryKeeps
<1> QED
  BY <1>2, <1>3

\* A deadline that passes in due time follows a drain that was lost.
LEMMA TimeoutKeeps ==
    ASSUME InStep, Counts, TimeoutInDue
    PROVE  InStep'
<1>1. Reading /\ toRig = <<>> /\ toHost = <<>> /\ ~half
  BY DEF InStep, TimeoutInDue, Settled, Idle
<1>2. phase = "RxControl"
  <2> SUFFICES ASSUME phase = "Run" PROVE FALSE
    BY DEF TimeoutInDue, Settled
  <2>1. Ready
    BY <1>1, AttemptFrames DEF InStep, Stage, Idle, Reading
  <2>2. Terminates
    BY <1>1, <2>1, LoadedRuns DEF Ready, Reading, Terminates
  <2> QED
    BY <2>2 DEF TimeoutInDue, Settled
<1>3. badDrains >= attempt
  BY <1>1, <1>2, AttemptFrames, DrainFrames DEF InStep, Stage, Idle, Reading
<1> QED
  BY <1>1, <1>2, <1>3, RetryKeeps DEF TimeoutInDue

\* Every step keeps the invariant.
LEMMA StepKeeps ==
    IInv /\ [Next]_vars => IInv'
<1> SUFFICES ASSUME IInv, [Next]_vars PROVE IInv'
  OBVIOUS
<1>1. CASE UNCHANGED vars
  BY <1>1 DEF IInv, Counts, Intact, Idle, Reading, Stage, Ready, Loaded, ValidProgram,
     vars, host, rig, faults
<1>2. CASE Next
  <2>1. Counts /\ Counts'
    BY <1>2, CountsKept DEF IInv
  <2> SUFFICES ASSUME Intact' PROVE InStep'
    BY <2>1 DEF IInv, InStep
  <2>2. Intact /\ InStep
    BY <1>2, IntactBefore DEF IInv, InStep
  <2>3. badControl = 0 /\ early = 0 /\ badControl' = 0 /\ early' = 0 /\ ~broken'
    BY <2>2 DEF Intact
  <2>4. CASE \E p \in Programs : Call(p)
    BY <2>1, <2>2, <2>4, CallKeeps
  <2>5. CASE Rx
    BY <2>2, <2>5, LoadKeeps, TriggerKeeps, NoOtherFrame DEF Rx
  <2>6. CASE DamageControl
    BY <2>3, <2>6 DEF DamageControl
  <2>7. CASE Halts
    BY <2>2, <2>7, HaltKeeps
  <2>8. CASE SendDrain
    BY <2>2, <2>8, DrainKeeps
  <2>9. CASE DamageDrain
    BY <2>1, <2>2, <2>3, <2>9, BadDrainKeeps
  <2>10. CASE Host
    BY <2>1, <2>2, <2>10, ReadKeeps, TimeoutKeeps DEF Host
  <2>11. CASE TimeoutEarly \/ PortFails
    BY <2>3, <2>11 DEF TimeoutEarly, PortFails, GiveUp
  <2> QED
    BY <1>2, <2>4, <2>5, <2>6, <2>7, <2>8, <2>9, <2>10, <2>11 DEF Next
<1> QED
  BY <1>1, <1>2

\* Over every run of the session.
THEOREM InvariantHolds == Spec => []IInv
<1> QED
  BY InitEstablishes, StepKeeps, PTL DEF Spec

-----------------------------------------------------------------------------
(* What run promises.                                                      *)

\* For any programs, any number of calls and retries and any damage to the
\* drains: run returns its program's trace, and gives up only after more
\* failed drains than retries (device.rs run).
THEOREM SoundWhenControlIntact == Spec => []SoundIfControlIntact
<1>1. IInv => SoundIfControlIntact
  <2> SUFFICES ASSUME IInv, Intact PROVE OkIsOurTrace /\ RetriesAbsorbFaults
    BY DEF SoundIfControlIntact, Intact
  <2>1. badControl = 0 /\ badDrains \in Nat /\ Retries \in Nat
    BY RigAssumption DEF IInv, Counts, Intact
  <2> QED
    BY <2>1 DEF IInv, Idle, Reading, OkIsOurTrace, RetriesAbsorbFaults
<1> QED
  BY <1>1, InvariantHolds, PTL

\* What a TRIGGER starts is the program of the call under way, whatever the
\* store held before and whatever became of earlier drains (Loader.hs).
THEOREM RunsTheLoadedProgram == Spec => RunsWhatWasLoaded
<1>1. IInv /\ [Next]_vars =>
        [phase = "RxControl" /\ phase' = "Run" /\ badControl = 0 /\ early = 0 /\ ~broken
           => Terminates /\ Executed(store) = TraceOf(program)]_vars
  <2> SUFFICES ASSUME IInv, [Next]_vars, phase = "RxControl", phase' = "Run",
                      badControl = 0, early = 0, ~broken
               PROVE  Terminates /\ Executed(store) = TraceOf(program)
    OBVIOUS
  <2>1. InStep
    BY DEF IInv, InStep, Intact
  <2>2. ReceiveTrigger
    BY DEF Next, Call, Rx, ReceiveLoad, ReceiveRest, NotListening, Take,
       DamageControl, Halts, SendDrain, DamageDrain, Host, ReadTrace, TimeoutInDue,
       TimeoutEarly, PortFails, GiveUp, vars, rig
  <2>3. Ready /\ Reading
    BY <2>1, <2>2, TriggerKeeps
  <2> QED
    BY <2>3, LoadedRuns DEF Ready, Reading, Terminates
<1> QED
  BY <1>1, InvariantHolds, PTL DEF Spec, RunsWhatWasLoaded

=============================================================================
