-------------------------------- MODULE Uart --------------------------------
(***************************************************************************)
(* The UART (Uart.hs, Uart/BaudGen.hs, Uart/Tx.hs, Uart/Rx.hs): a line     *)
(* from a transmitter to a receiver, each with a rate generator of its     *)
(* own, so that the transmitter may be the rig's (the loopback) or a host  *)
(* whose clock is a little off.  A step is one clock of the receiver; the  *)
(* machines step together.  A byte is the sequence of its bits, the least  *)
(* significant first.  The line may be pulled low (a break) or disturbed   *)
(* for one tick within a data bit.  Registers nothing reads (a bit number  *)
(* outside TxData and RxData, an idle transmitter's byte) rest at a fixed  *)
(* value.                                                                  *)
(***************************************************************************)
EXTENDS Integers, Sequences

CONSTANTS
    Modulus,       \* fClk
    Increment,     \* inc, 16 * baud
    SenderRates,   \* increments a transmitter may have
    DataBits,      \* bits of a byte, 8 in the code
    Bytes,         \* bytes that may be sent
    Disturbed,     \* whether the line suffers breaks and glitches
    MaxOwed        \* bound: bytes sent and not received

ASSUME UartAssumption ==
    /\ Modulus \in Nat \ {0} /\ DataBits \in Nat \ {0}
    /\ Increment \in 1..Modulus /\ SenderRates \subseteq 1..Modulus
    /\ Bytes \subseteq [1..DataBits -> {0, 1}] /\ Disturbed \in BOOLEAN /\ MaxOwed \in Nat

VARIABLES
    rate, txAcc,   \* the transmitter's increment and phase accumulator
    tx,            \* TxS
    sync1, synced, \* the two-flop synchroniser
    rxAcc,         \* the receiver's phase accumulator
    rx,            \* RxS
    strobe,        \* the receiver's output of the last clock
    break,         \* what the line does: "none", "low" and "mark", the pause after
    noisy,         \* a tick of this data bit was disturbed
    owed,          \* history: bytes accepted and not received
    reported,      \* history: this break was reported
    elapsed, ticked \* history: clocks, and ticks in them, modulo Modulus clocks

wire == <<break, noisy>>
history == <<owed, reported, elapsed, ticked>>
vars == <<rate, txAcc, tx, sync1, synced, rxAcc, rx, strobe, wire, history>>

LastTick == 15
Bit == {0, 1}
Quiet == [byte |-> <<>>, err |-> FALSE]

Init ==
    /\ rate \in SenderRates /\ txAcc = 0 /\ rxAcc = 0
    /\ tx = [state |-> "TxIdle", bit |-> 1, shift |-> <<>>, cnt |-> 0]
    /\ rx = [state |-> "RxIdle", bit |-> 1, cnt |-> 0, prev |-> 1,
             shift |-> [i \in 1..DataBits |-> 0], votes |-> [k \in 7..9 |-> 0]]
    /\ sync1 = 1 /\ synced = 1 /\ strobe = Quiet
    /\ break = "none" /\ noisy = FALSE
    /\ owed = <<>> /\ reported = FALSE /\ elapsed = 0 /\ ticked = 0

-----------------------------------------------------------------------------
(* Plausible bugs, for showing that the properties notice them.            *)

NoWrap(acc, inc) == acc + inc
DropsPhase(acc, inc) == IF acc + inc >= Modulus THEN 0 ELSE acc + inc
CountLessOne == tx.cnt = LastTick - 1
StopAtTheEnd == LastTick
LevelStarts(line) == line = 0
FirstSampleOnly(v) == v[7]

-----------------------------------------------------------------------------
(* The rate generator: a numerically controlled oscillator.                *)

Ticks(acc, inc) == acc + inc >= Modulus

NextAcc(acc, inc) == IF Ticks(acc, inc) THEN acc + inc - Modulus ELSE acc + inc

-----------------------------------------------------------------------------
(* The transmitter.                                                        *)

Line == CASE tx.state = "TxIdle"  -> 1
          [] tx.state = "TxStart" -> 0
          [] tx.state = "TxData"  -> tx.shift[1]
          [] tx.state = "TxStop"  -> 1

Ready == tx.state = "TxIdle"

\* A byte is taken in any clock in which the transmitter is idle.
Accept(b) ==
    /\ Ready
    /\ tx' = [state |-> "TxStart", bit |-> 1, shift |-> b, cnt |-> 0]

BitDone == tx.cnt = LastTick

TxAdvance ==
    \/ tx.state = "TxStart" /\ tx' = [tx EXCEPT !.state = "TxData", !.bit = 1, !.cnt = 0]
    \/ /\ tx.state = "TxData" /\ tx.bit = DataBits
       /\ tx' = [tx EXCEPT !.state = "TxStop", !.cnt = 0]
    \/ /\ tx.state = "TxData" /\ tx.bit < DataBits
       /\ tx' = [tx EXCEPT !.bit = @ + 1, !.shift = Tail(@), !.cnt = 0]
    \/ /\ tx.state = "TxStop"
       /\ tx' = [tx EXCEPT !.state = "TxIdle", !.shift = <<>>, !.bit = 1, !.cnt = 0]

TxStep(tick) ==
    \/ (Ready \/ ~tick) /\ UNCHANGED tx
    \/ ~Ready /\ tick /\ ~BitDone /\ tx' = [tx EXCEPT !.cnt = @ + 1]
    \/ ~Ready /\ tick /\ BitDone /\ TxAdvance

-----------------------------------------------------------------------------
(* The receiver.                                                           *)

Maj(v) == IF v[7] + v[8] + v[9] >= 2 THEN 1 ELSE 0

\* The votes with this tick's sample.
Capture(line) == IF rx.cnt \in 7..9 THEN [rx.votes EXCEPT ![rx.cnt] = line] ELSE rx.votes

\* The stop bit is decided at its centre, the others at their end.
DecideAt == IF rx.state = "RxStop" THEN 9 ELSE LastTick

\* Only a falling edge starts a frame.
StartEdge(line) == rx.prev = 1 /\ line = 0

RxIdle(line) ==
    /\ rx.state = "RxIdle"
    /\ rx' = IF StartEdge(line) THEN [rx EXCEPT !.state = "RxStart", !.cnt = 0, !.prev = line]
                                ELSE [rx EXCEPT !.prev = line]
    /\ strobe' = Quiet

RxSample(line) ==
    /\ rx.state # "RxIdle" /\ rx.cnt # DecideAt
    /\ rx' = [rx EXCEPT !.votes = Capture(line), !.cnt = @ + 1, !.prev = line]
    /\ strobe' = Quiet

DecideStart(line) ==
    /\ rx.state = "RxStart" /\ rx.cnt = DecideAt
    /\ rx' = [rx EXCEPT !.state = IF Maj(Capture(line)) = 0 THEN "RxData" ELSE "RxIdle",
                        !.bit = 1, !.votes = Capture(line), !.cnt = 0, !.prev = line]
    /\ strobe' = Quiet

DecideData(line) ==
    /\ rx.state = "RxData" /\ rx.cnt = DecideAt
    /\ rx' = [rx EXCEPT !.state = IF rx.bit = DataBits THEN "RxStop" ELSE "RxData",
                        !.bit = IF @ = DataBits THEN 1 ELSE @ + 1,
                        !.shift[rx.bit] = Maj(Capture(line)),
                        !.votes = Capture(line), !.cnt = 0, !.prev = line]
    /\ strobe' = Quiet

DecideStop(line) ==
    /\ rx.state = "RxStop" /\ rx.cnt = DecideAt
    /\ rx' = [rx EXCEPT !.state = "RxIdle", !.votes = Capture(line), !.cnt = 0, !.prev = line]
    /\ strobe' = IF Maj(Capture(line)) = 1 THEN [byte |-> <<rx.shift>>, err |-> FALSE]
                                           ELSE [byte |-> <<>>, err |-> TRUE]

RxStep(tick, line) ==
    \/ ~tick /\ UNCHANGED rx /\ strobe' = Quiet
    \/ tick /\ (\/ RxIdle(line) \/ RxSample(line)
                \/ DecideStart(line) \/ DecideData(line) \/ DecideStop(line))

-----------------------------------------------------------------------------
(* A clock.  Every machine steps in every one of the actions below.        *)

\* The level at the receiver's pin.
Pin == IF break = "low" THEN 0 ELSE Line

RxTick == Ticks(rxAcc, Increment)

\* Of every data bit one tick may be disturbed.
Glitch == Disturbed /\ RxTick /\ rx.state = "RxData" /\ ~noisy

Sampled == {synced} \cup (IF Glitch THEN {1 - synced} ELSE {})

Noise(line) ==
    noisy' = (rx.state = "RxData" /\ ~(RxTick /\ rx.cnt = LastTick) /\ (noisy \/ line # synced))

Received == IF strobe'.byte # <<>> /\ owed # <<>> THEN Tail(owed) ELSE owed

\* The rate generators, the synchroniser and the receiver.
Clock ==
    /\ txAcc' = NextAcc(txAcc, rate) /\ rxAcc' = NextAcc(rxAcc, Increment)
    /\ sync1' = Pin /\ synced' = sync1
    /\ \E line \in Sampled : RxStep(RxTick, line) /\ Noise(line)
    /\ elapsed' = (elapsed + 1) % Modulus
    /\ ticked' = IF elapsed' = 0 THEN 0 ELSE IF RxTick THEN ticked + 1 ELSE ticked
    /\ UNCHANGED rate

\* A byte on offer is taken, tick or not.
Send(b) ==
    /\ Clock /\ break = "none" /\ Len(owed) < MaxOwed
    /\ Accept(b)
    /\ owed' = Append(Received, b)
    /\ UNCHANGED <<break, reported>>

\* Nothing is offered, or what is offered within a frame is ignored.
Continue ==
    /\ Clock /\ TxStep(Ticks(txAcc, rate))
    /\ owed' = Received
    /\ reported' = (break = "low" /\ (reported \/ strobe'.err))
    /\ break' = IF break = "mark" /\ rx.prev = 1 THEN "none" ELSE break

\* A break begins on a quiet line and outlasts a frame.
PullLow ==
    /\ Disturbed /\ Clock
    /\ break = "none" /\ Ready /\ owed = <<>> /\ rx.state = "RxIdle" /\ rx.prev = 1
    /\ break' = "low" /\ UNCHANGED <<tx, owed, reported>>

Release ==
    /\ Clock /\ break = "low" /\ reported
    /\ break' = "mark" /\ reported' = FALSE
    /\ UNCHANGED <<tx, owed>>

Next == (\E b \in Bytes : Send(b)) \/ Continue \/ PullLow \/ Release

Spec == Init /\ [][Next]_vars

\* The clock does not stop.
FairSpec == Spec /\ WF_vars(Next)

-----------------------------------------------------------------------------
(* Properties.                                                             *)

\* What two clocks may differ by: from the edge to the centre of the stop bit the faster
\* transmitter gains less than four ticks, the slower one loses at most five, so that the
\* samples at the centre of a bit are of that bit (rxStep decides at ticks 7 to 9).
Tolerated == \A r \in SenderRates :
    LET frame == 16 * (DataBits + 1) + 12
    IN  /\ (Modulus * frame) * (r - Increment) <= Increment * (4 * Modulus - 2 * r)
        /\ (Modulus * frame) * (Increment - r) <= Increment * (5 * Modulus + 2 * r)

\* Type invariant: every counter keeps its width and every accumulator its modulus.
TypeOK ==
    /\ rate \in SenderRates
    /\ txAcc \in 0..(Modulus - 1) /\ rxAcc \in 0..(Modulus - 1)
    /\ tx \in [state : {"TxIdle", "TxStart", "TxData", "TxStop"}, bit : 1..DataBits,
               shift : Seq(Bit), cnt : 0..LastTick]
    /\ tx.state \in {"TxStart", "TxData"} => Len(tx.shift) = DataBits + 1 - tx.bit
    /\ tx.state = "TxStart" => tx.bit = 1
    /\ rx \in [state : {"RxIdle", "RxStart", "RxData", "RxStop"}, bit : 1..DataBits,
               cnt : 0..LastTick, prev : Bit, shift : [1..DataBits -> Bit],
               votes : [7..9 -> Bit]]
    /\ rx.state = "RxStop" => rx.cnt <= DecideAt
    /\ sync1 \in Bit /\ synced \in Bit
    /\ strobe \in [byte : Seq([1..DataBits -> Bit]), err : BOOLEAN] /\ Len(strobe.byte) <= 1
    /\ break \in {"none", "low", "mark"} /\ noisy \in BOOLEAN /\ reported \in BOOLEAN
    /\ elapsed \in 0..(Modulus - 1) /\ ticked \in 0..elapsed
    /\ owed \in Seq(Bytes) /\ Len(owed) <= MaxOwed

\* What the receiver hands over is the oldest byte sent and not yet received, bit for
\* bit, whatever the phase of the two clocks, back-to-back frames and single glitches
\* do: nothing lost, repeated, torn or invented (decideBit, rxStep against txStep).
BytesArriveIntact ==
    [][strobe'.byte # <<>> => owed # <<>> /\ strobe'.byte[1] = owed[1]]_vars

\* The receiver is through with a frame before the transmitter can begin another one:
\* it decides the stop bit at its centre, not at its end (rxStep, RxStop).
OneInFlight == Ready => owed = <<>>

\* A framing error is reported for a break only, and once for each, however long the
\* line stays low; until the line was high again the receiver waits.  A frame starts
\* at an edge, not at a level (rxStep, RxIdle).
BreakReportedOnce ==
    [][/\ strobe'.err => break = "low" /\ ~reported
       /\ reported => rx'.state = "RxIdle"]_vars

\* In Modulus clocks there are exactly Increment ticks: the accumulator keeps the
\* fraction it wraps with, so no rate error builds up over a frame (oversampleTick).
RateExact ==
    [][elapsed = Modulus - 1 => ticked + (IF RxTick THEN 1 ELSE 0) = Increment]_vars

\* Every byte taken by the transmitter reaches the receiver's owner.
AllArrive == owed # <<>> ~> owed = <<>>

=============================================================================
