------------------------------ MODULE UartProofs ----------------------------
(***************************************************************************)
(* Types, rate and frames of the UART, for every clock, baud rate, byte    *)
(* width and set of bytes: what is sent arrives, as long as the two clocks *)
(* differ by no more than a frame bears.                                   *)
(***************************************************************************)
EXTENDS Uart, TLAPS

\* The tick count is the accumulated phase, less the part still in the accumulator.
RateInv ==
    /\ rxAcc \in 0..(Modulus - 1)
    /\ elapsed \in 0..(Modulus - 1) /\ ticked \in Nat
    /\ ticked * Modulus + rxAcc = elapsed * Increment

\* One clock adds Increment to the phase, with a tick for each Modulus of it.
LEMMA PhaseStep ==
    ASSUME RateInv
    PROVE  /\ NextAcc(rxAcc, Increment) \in 0..(Modulus - 1)
           /\ (ticked + (IF RxTick THEN 1 ELSE 0)) * Modulus + NextAcc(rxAcc, Increment)
                = (elapsed + 1) * Increment
<1> DEFINE t == IF RxTick THEN 1 ELSE 0
<1>1. /\ rxAcc \in Nat /\ Modulus \in Nat /\ Increment \in Nat /\ elapsed \in Nat
      /\ ticked \in Nat /\ Increment <= Modulus /\ rxAcc < Modulus
  BY UartAssumption DEF RateInv
<1>2. /\ NextAcc(rxAcc, Increment) \in 0..(Modulus - 1)
      /\ t * Modulus + NextAcc(rxAcc, Increment) = rxAcc + Increment
  BY <1>1 DEF NextAcc, Ticks, RxTick
<1>3. (ticked + t) * Modulus = ticked * Modulus + t * Modulus
  BY <1>1
<1>4. (elapsed + 1) * Increment = elapsed * Increment + Increment
  BY <1>1
<1>5. /\ ticked * Modulus \in Int /\ t * Modulus \in Int /\ elapsed * Increment \in Int
      /\ NextAcc(rxAcc, Increment) \in Int
  BY <1>1, <1>2
<1>6. (ticked + t) * Modulus + NextAcc(rxAcc, Increment) = (elapsed + 1) * Increment
  <2> DEFINE p == ticked * Modulus
             q == t * Modulus
             r == elapsed * Increment
             a == NextAcc(rxAcc, Increment)
  <2>1. p \in Int /\ q \in Int /\ r \in Int /\ a \in Int
    BY <1>5
  <2>2. p + rxAcc = r /\ q + a = rxAcc + Increment
    BY <1>2 DEF RateInv
  <2>3. (ticked + t) * Modulus = p + q /\ (elapsed + 1) * Increment = r + Increment
    BY <1>3, <1>4
  <2> HIDE DEF p, q, r, a
  <2>4. p + q + a = r + Increment
    BY <1>1, <2>1, <2>2
  <2> QED
    BY <2>3, <2>4 DEF a
<1> QED
  BY <1>2, <1>6

\* In the last clock of a period the accumulator comes back to where it began.
LEMMA PeriodEnds ==
    ASSUME RateInv, elapsed = Modulus - 1
    PROVE  /\ ticked + (IF RxTick THEN 1 ELSE 0) = Increment
           /\ NextAcc(rxAcc, Increment) = 0
<1> DEFINE n == ticked + (IF RxTick THEN 1 ELSE 0)
           a == NextAcc(rxAcc, Increment)
<1>1. n \in Nat /\ Modulus \in Nat \ {0} /\ Increment \in Nat
  BY UartAssumption DEF RateInv
<1>2. a \in 0..(Modulus - 1) /\ n * Modulus + a = Modulus * Increment
  BY PhaseStep, <1>1 DEF RateInv
<1> HIDE DEF n, a
<1>3. (Increment - n) * Modulus = a
  BY <1>1, <1>2
<1>4. ~(Increment - n >= 1)
  <2> SUFFICES ASSUME Increment - n >= 1 PROVE FALSE
    OBVIOUS
  <2> DEFINE d == Increment - n - 1
  <2>1. d \in Nat /\ (Increment - n) * Modulus = d * Modulus + Modulus /\ d * Modulus \in Nat
    BY <1>1
  <2> QED
    BY <2>1, <1>1, <1>2, <1>3
<1>5. ~(Increment - n <= -1)
  <2> SUFFICES ASSUME Increment - n <= -1 PROVE FALSE
    OBVIOUS
  <2> DEFINE d == n - Increment - 1
  <2>1. d \in Nat /\ (Increment - n) * Modulus = -(d * Modulus) - Modulus /\ d * Modulus \in Nat
    BY <1>1
  <2> QED
    BY <2>1, <1>1, <1>2, <1>3
<1>6. n = Increment
  BY <1>1, <1>4, <1>5
<1>7. a = 0
  BY <1>1, <1>2, <1>3, <1>6
<1> QED
  BY <1>6, <1>7 DEF n, a

LEMMA RateStep ==
    ASSUME RateInv, Clock
    PROVE  RateInv'
<1>1. CASE elapsed = Modulus - 1
  <2>1. elapsed' = 0 /\ ticked' = 0 /\ rxAcc' = 0
    BY <1>1, PeriodEnds, UartAssumption DEF Clock, RateInv
  <2> QED
    BY <2>1, UartAssumption DEF RateInv
<1>2. CASE elapsed # Modulus - 1
  <2>1. elapsed' = elapsed + 1 /\ elapsed' # 0 /\ elapsed' \in 0..(Modulus - 1)
    BY <1>2, UartAssumption DEF Clock, RateInv
  <2>2. ticked' = ticked + (IF RxTick THEN 1 ELSE 0) /\ rxAcc' = NextAcc(rxAcc, Increment)
    BY <2>1 DEF Clock, RateInv
  <2> QED
    BY <2>1, <2>2, PhaseStep DEF RateInv
<1> QED
  BY <1>1, <1>2

LEMMA RateAlways == Spec => []RateInv
<1>1. Init => RateInv
  BY UartAssumption DEF Init, RateInv
<1>2. RateInv /\ [Next]_vars => RateInv'
  <2> SUFFICES ASSUME RateInv, [Next]_vars PROVE RateInv'
    OBVIOUS
  <2>1. CASE Clock
    BY <2>1, RateStep
  <2>2. CASE UNCHANGED vars
    BY <2>2 DEF vars, history, RateInv
  <2> QED
    BY <2>1, <2>2 DEF Next, Send, Continue, PullLow, Release
<1> QED
  BY <1>1, <1>2, PTL DEF Spec

\* The rate is exact: no fraction of a tick is lost in a period, for every clock and
\* baud rate with at most one tick a clock (oversampleTick).
THEOREM RateIsExact == Spec => RateExact
<1>1. RateInv /\ [Next]_vars
        => [elapsed = Modulus - 1 => ticked + (IF RxTick THEN 1 ELSE 0) = Increment]_vars
  BY PeriodEnds
<1> QED
  BY <1>1, RateAlways, PTL DEF Spec, RateExact

-----------------------------------------------------------------------------
(* Types.                                                                  *)

Byte == [1..DataBits -> Bit]

LEMMA PinIsABit ==
    ASSUME TypeOK
    PROVE  Pin \in Bit
<1>1. CASE tx.state = "TxData"
  <2>1. Len(tx.shift) >= 1 /\ tx.shift \in Seq(Bit)
    BY <1>1, UartAssumption DEF TypeOK
  <2>2. tx.shift[1] \in Bit
    BY <2>1
  <2> QED
    BY <1>1, <2>2 DEF Pin, Line, Bit
<1>2. CASE tx.state # "TxData"
  BY <1>2 DEF TypeOK, Pin, Line, Bit
<1> QED
  BY <1>1, <1>2

TxOK(t) ==
    /\ t \in [state : {"TxIdle", "TxStart", "TxData", "TxStop"}, bit : 1..DataBits,
              shift : Seq(Bit), cnt : 0..LastTick]
    /\ t.state \in {"TxStart", "TxData"} => Len(t.shift) = DataBits + 1 - t.bit
    /\ t.state = "TxStart" => t.bit = 1

LEMMA AcceptType ==
    ASSUME NEW b \in Bytes, Accept(b)
    PROVE  TxOK(tx')
<1>1. b \in Seq(Bit) /\ Len(b) = DataBits
  BY UartAssumption DEF Bit
<1> QED
  BY <1>1, UartAssumption DEF Accept, TxOK, LastTick

\* A record of the right fields is one: a step of its own keeps the provers fast.
LEMMA TxRecord ==
    ASSUME NEW s \in {"TxIdle", "TxStart", "TxData", "TxStop"}, NEW i \in 1..DataBits,
           NEW h \in Seq(Bit), NEW n \in 0..LastTick,
           s \in {"TxStart", "TxData"} => Len(h) = DataBits + 1 - i,
           s = "TxStart" => i = 1
    PROVE  TxOK([state |-> s, bit |-> i, shift |-> h, cnt |-> n])
BY DEF TxOK

LEMMA TxStepType ==
    ASSUME TxOK(tx), NEW tick, TxStep(tick)
    PROVE  TxOK(tx')
<1> DEFINE Rec(s, i, h, n) == [state |-> s, bit |-> i, shift |-> h, cnt |-> n]
<1>0. /\ tx.state \in {"TxIdle", "TxStart", "TxData", "TxStop"} /\ tx.bit \in 1..DataBits
      /\ tx.shift \in Seq(Bit) /\ tx.cnt \in 0..LastTick
      /\ tx.state \in {"TxStart", "TxData"} => Len(tx.shift) = DataBits + 1 - tx.bit
      /\ tx.state = "TxStart" => tx.bit = 1
      /\ 0 \in 0..LastTick /\ 1 \in 1..DataBits
  BY UartAssumption DEF TxOK, LastTick
<1>1. CASE UNCHANGED tx
  BY <1>1
<1>2. CASE ~BitDone /\ tx' = [tx EXCEPT !.cnt = @ + 1]
  <2>1. tx' = Rec(tx.state, tx.bit, tx.shift, tx.cnt + 1) /\ tx.cnt + 1 \in 0..LastTick
    BY <1>2 DEF TxOK, BitDone, LastTick
  <2> QED
    BY <1>0, <2>1, TxRecord
<1>3. CASE TxAdvance
  <2>1. CASE tx.state = "TxStart" /\ tx' = [tx EXCEPT !.state = "TxData", !.bit = 1, !.cnt = 0]
    <3>1. tx' = Rec("TxData", 1, tx.shift, 0)
      BY <2>1 DEF TxOK
    <3>2. Len(tx.shift) = DataBits + 1 - 1
      BY <1>0, <2>1
    <3> QED
      BY <1>0, <3>1, <3>2, TxRecord, Zenon
  <2>2. CASE /\ tx.state = "TxData" /\ tx.bit = DataBits
             /\ tx' = [tx EXCEPT !.state = "TxStop", !.cnt = 0]
    <3>1. tx' = Rec("TxStop", tx.bit, tx.shift, 0)
      BY <2>2 DEF TxOK
    <3> QED
      BY <1>0, <3>1, TxRecord
  <2>3. CASE /\ tx.state = "TxData" /\ tx.bit < DataBits
             /\ tx' = [tx EXCEPT !.bit = @ + 1, !.shift = Tail(@), !.cnt = 0]
    <3>1. tx' = Rec("TxData", tx.bit + 1, Tail(tx.shift), 0)
      BY <2>3 DEF TxOK
    <3>2. Len(tx.shift) = DataBits + 1 - tx.bit /\ tx.bit + 1 \in 1..DataBits
      BY <1>0, <2>3, UartAssumption
    <3>3. Len(tx.shift) >= 1
      BY <1>0, <2>3, <3>2, UartAssumption
    <3>4. Tail(tx.shift) \in Seq(Bit) /\ Len(Tail(tx.shift)) = Len(tx.shift) - 1
      BY <1>0, <3>3
    <3>5. Len(Tail(tx.shift)) = DataBits + 1 - (tx.bit + 1)
      BY <1>0, <3>2, <3>4, UartAssumption
    <3>6. /\ "TxData" \in {"TxIdle", "TxStart", "TxData", "TxStop"}
          /\ "TxData" # "TxStart"
      OBVIOUS
    <3> QED
      BY <1>0, <3>1, <3>2, <3>4, <3>5, <3>6, TxRecord, Zenon
  <2>4. CASE /\ tx.state = "TxStop"
             /\ tx' = [tx EXCEPT !.state = "TxIdle", !.shift = <<>>, !.bit = 1, !.cnt = 0]
    <3>1. tx' = Rec("TxIdle", 1, <<>>, 0)
      BY <2>4 DEF TxOK
    <3>2. <<>> \in Seq(Bit)
      OBVIOUS
    <3>3. /\ "TxIdle" \in {"TxIdle", "TxStart", "TxData", "TxStop"}
          /\ "TxIdle" \notin {"TxStart", "TxData"} /\ "TxIdle" # "TxStart"
      OBVIOUS
    <3> QED
      BY <1>0, <3>1, <3>2, <3>3, TxRecord, Zenon
  <2> QED
    BY <1>3, <2>1, <2>2, <2>3, <2>4 DEF TxAdvance
<1> QED
  BY <1>1, <1>2, <1>3 DEF TxStep

RxOK(r) ==
    /\ r \in [state : {"RxIdle", "RxStart", "RxData", "RxStop"}, bit : 1..DataBits,
              cnt : 0..LastTick, prev : Bit, shift : Byte, votes : [7..9 -> Bit]]
    /\ r.state = "RxStop" => r.cnt <= 9

StrobeOK(o) == o \in [byte : Seq(Byte), err : BOOLEAN] /\ Len(o.byte) <= 1

LEMMA QuietType == StrobeOK(Quiet)
BY DEF StrobeOK, Quiet

LEMMA CaptureType ==
    ASSUME RxOK(rx), NEW line \in Bit
    PROVE  Capture(line) \in [7..9 -> Bit] /\ Maj(Capture(line)) \in Bit
BY DEF RxOK, Capture, Maj, Bit

LEMMA RxRecord ==
    ASSUME NEW s \in {"RxIdle", "RxStart", "RxData", "RxStop"}, NEW i \in 1..DataBits,
           NEW n \in 0..LastTick, NEW p \in Bit, NEW h \in Byte, NEW v \in [7..9 -> Bit],
           s = "RxStop" => n <= 9
    PROVE  RxOK([state |-> s, bit |-> i, cnt |-> n, prev |-> p, shift |-> h, votes |-> v])
BY DEF RxOK

LEMMA RxStepType ==
    ASSUME RxOK(rx), NEW tick, NEW line \in Bit, RxStep(tick, line)
    PROVE  RxOK(rx') /\ StrobeOK(strobe')
<1> DEFINE Rec(s, i, n, p, h, v) ==
             [state |-> s, bit |-> i, cnt |-> n, prev |-> p, shift |-> h, votes |-> v]
           cap == Capture(line)
           byte == [rx.shift EXCEPT ![rx.bit] = Maj(cap)]
<1>0. /\ rx.state \in {"RxIdle", "RxStart", "RxData", "RxStop"} /\ rx.bit \in 1..DataBits
      /\ rx.cnt \in 0..LastTick /\ rx.shift \in Byte /\ rx.votes \in [7..9 -> Bit]
      /\ rx.state = "RxStop" => rx.cnt <= 9
      /\ 0 \in 0..LastTick /\ 1 \in 1..DataBits
  BY UartAssumption DEF RxOK, LastTick
<1>c. cap \in [7..9 -> Bit] /\ Maj(cap) \in Bit
  BY CaptureType
<1>1. CASE UNCHANGED rx /\ strobe' = Quiet
  BY <1>1, QuietType
<1>2. CASE RxIdle(line)
  <2>1. \/ rx' = Rec("RxStart", rx.bit, 0, line, rx.shift, rx.votes)
        \/ rx' = Rec(rx.state, rx.bit, rx.cnt, line, rx.shift, rx.votes)
    BY <1>2 DEF RxIdle, RxOK
  <2>2. RxOK(rx')
    BY <1>0, <2>1, RxRecord
  <2> QED
    BY <1>2, <2>2, QuietType DEF RxIdle
<1>3. CASE RxSample(line)
  <2>1. rx' = Rec(rx.state, rx.bit, rx.cnt + 1, line, rx.shift, cap)
    BY <1>3 DEF RxSample, RxOK
  <2>2. rx.cnt + 1 \in 0..LastTick /\ (rx.state = "RxStop" => rx.cnt + 1 <= 9)
    BY <1>0, <1>3 DEF RxSample, DecideAt, LastTick
  <2>3. RxOK(rx')
    BY <1>0, <1>c, <2>1, <2>2, RxRecord
  <2> QED
    BY <1>3, <2>3, QuietType DEF RxSample
<1>4. CASE DecideStart(line)
  <2>1. \/ rx' = Rec("RxData", 1, 0, line, rx.shift, cap)
        \/ rx' = Rec("RxIdle", 1, 0, line, rx.shift, cap)
    BY <1>4 DEF DecideStart, RxOK
  <2>2. RxOK(rx')
    BY <1>0, <1>c, <2>1, RxRecord
  <2> QED
    BY <1>4, <2>2, QuietType DEF DecideStart
<1>5. CASE DecideData(line)
  <2>1. byte \in Byte
    BY <1>0, <1>c DEF Byte
  <2>2. \/ rx.bit = DataBits /\ rx' = Rec("RxStop", 1, 0, line, byte, cap)
        \/ rx.bit # DataBits /\ rx' = Rec("RxData", rx.bit + 1, 0, line, byte, cap)
    BY <1>5 DEF DecideData, RxOK
  <2>3. rx.bit # DataBits => rx.bit + 1 \in 1..DataBits
    BY <1>0, UartAssumption
  <2> HIDE DEF byte
  <2>4. RxOK(rx')
    BY <1>0, <1>c, <2>1, <2>2, <2>3, RxRecord
  <2> QED
    BY <1>5, <2>4, QuietType DEF DecideData
<1>6. CASE DecideStop(line)
  <2>1. rx' = Rec("RxIdle", rx.bit, 0, line, rx.shift, cap)
    BY <1>6 DEF DecideStop, RxOK
  <2>2. RxOK(rx')
    BY <1>0, <1>c, <2>1, RxRecord
  <2>3. strobe' = [byte |-> <<rx.shift>>, err |-> FALSE] \/ strobe' = [byte |-> <<>>, err |-> TRUE]
    BY <1>6 DEF DecideStop
  <2>4. /\ <<rx.shift>> \in Seq(Byte) /\ Len(<<rx.shift>>) = 1
        /\ <<>> \in Seq(Byte) /\ Len(<<>>) = 0
    BY <1>0
  <2>5. ASSUME NEW bs \in Seq(Byte), Len(bs) <= 1, NEW e \in BOOLEAN
        PROVE  StrobeOK([byte |-> bs, err |-> e])
    BY <2>5 DEF StrobeOK
  <2>6. Len(<<rx.shift>>) <= 1 /\ Len(<<>>) <= 1
    BY <2>4
  <2>7. StrobeOK(strobe')
    BY <2>3, <2>4, <2>5, <2>6, Zenon
  <2> QED
    BY <2>2, <2>7
<1> QED
  BY <1>1, <1>2, <1>3, <1>4, <1>5, <1>6 DEF RxStep

LEMMA AccumulatorType ==
    ASSUME NEW acc \in 0..(Modulus - 1), NEW inc \in 1..Modulus
    PROVE  NextAcc(acc, inc) \in 0..(Modulus - 1)
BY UartAssumption DEF NextAcc, Ticks

LEMMA TypeParts == TypeOK =>
    /\ TxOK(tx) /\ RxOK(rx) /\ StrobeOK(strobe)
BY DEF TypeOK, TxOK, RxOK, StrobeOK, Byte, DecideAt

\* What every clock does to the generators, the synchroniser and the receiver.
LEMMA ClockTypes ==
    ASSUME TypeOK, Clock
    PROVE  /\ rate' \in SenderRates
           /\ txAcc' \in 0..(Modulus - 1) /\ rxAcc' \in 0..(Modulus - 1)
           /\ sync1' \in Bit /\ synced' \in Bit /\ noisy' \in BOOLEAN
           /\ RxOK(rx') /\ StrobeOK(strobe')
           /\ elapsed' \in 0..(Modulus - 1) /\ ticked' \in 0..elapsed'
<1>1. rate' \in SenderRates
  BY DEF TypeOK, Clock
<1>2. rate \in 1..Modulus /\ Increment \in 1..Modulus
  BY UartAssumption DEF TypeOK
<1>3. txAcc' \in 0..(Modulus - 1) /\ rxAcc' \in 0..(Modulus - 1)
  BY <1>2, AccumulatorType DEF TypeOK, Clock
<1>4. sync1' \in Bit /\ synced' \in Bit
  BY PinIsABit DEF Clock, TypeOK
<1>5. PICK line \in Sampled : RxStep(RxTick, line) /\ Noise(line)
  BY DEF Clock
<1>6. line \in Bit
  BY <1>5 DEF Sampled, TypeOK, Bit
<1>7. noisy' \in BOOLEAN
  BY <1>5 DEF Noise
<1>8. RxOK(rx') /\ StrobeOK(strobe')
  BY <1>5, <1>6, TypeParts, RxStepType
<1>9. elapsed' \in 0..(Modulus - 1) /\ ticked' \in 0..elapsed'
  <2>1. elapsed \in 0..(Modulus - 1) /\ ticked \in 0..elapsed /\ Modulus \in Nat \ {0}
    BY UartAssumption DEF TypeOK
  <2>2. CASE elapsed = Modulus - 1
    BY <2>1, <2>2 DEF Clock
  <2>3. CASE elapsed # Modulus - 1
    BY <2>1, <2>3 DEF Clock
  <2> QED
    BY <2>2, <2>3
<1> QED
  BY <1>1, <1>3, <1>4, <1>7, <1>8, <1>9

LEMMA ReceivedType ==
    ASSUME TypeOK
    PROVE  Received \in Seq(Bytes) /\ Len(Received) <= Len(owed)
<1>1. owed \in Seq(Bytes)
  BY DEF TypeOK
<1>2. CASE owed = <<>>
  BY <1>1, <1>2 DEF Received
<1>3. CASE owed # <<>>
  <2>1. Tail(owed) \in Seq(Bytes) /\ Len(Tail(owed)) = Len(owed) - 1
    BY <1>1, <1>3
  <2> QED
    BY <1>1, <2>1 DEF Received
<1> QED
  BY <1>2, <1>3

\* Every reachable state of the UART is well typed.
THEOREM TypeCorrect == Spec => []TypeOK
<1>1. Init => TypeOK
  <2> SUFFICES ASSUME Init PROVE TypeOK
    OBVIOUS
  <2>0. 1 \in 1..DataBits /\ 0 \in 0..LastTick /\ 0 \in 0..(Modulus - 1)
    BY UartAssumption DEF LastTick
  <2>1. TxOK(tx)
    BY <2>0 DEF Init, TxOK
  <2>2. RxOK(rx)
    BY <2>0 DEF Init, RxOK, Byte, Bit
  <2>3. StrobeOK(strobe)
    BY QuietType DEF Init
  <2>4. owed \in Seq(Bytes) /\ Len(owed) <= MaxOwed
    BY UartAssumption DEF Init
  <2>5. /\ rate \in SenderRates /\ sync1 \in Bit /\ synced \in Bit
        /\ break \in {"none", "low", "mark"} /\ noisy \in BOOLEAN /\ reported \in BOOLEAN
    BY DEF Init, Bit
  <2>6. /\ txAcc \in 0..(Modulus - 1) /\ rxAcc \in 0..(Modulus - 1)
        /\ elapsed \in 0..(Modulus - 1) /\ ticked \in 0..elapsed
    BY <2>0 DEF Init
  <2> QED
    BY <2>1, <2>2, <2>3, <2>4, <2>5, <2>6
    DEF TypeOK, TxOK, RxOK, StrobeOK, Byte, DecideAt
<1>2. TypeOK /\ [Next]_vars => TypeOK'
  <2> SUFFICES ASSUME TypeOK, [Next]_vars PROVE TypeOK'
    OBVIOUS
  <2>r. owed \in Seq(Bytes) /\ Len(owed) <= MaxOwed /\ TxOK(tx) /\ MaxOwed \in Nat
        /\ break \in {"none", "low", "mark"} /\ reported \in BOOLEAN
    BY TypeParts, UartAssumption DEF TypeOK
  <2>q. ASSUME Clock, TxOK(tx'), owed' \in Seq(Bytes), Len(owed') <= MaxOwed,
               break' \in {"none", "low", "mark"}, reported' \in BOOLEAN
        PROVE  TypeOK'
    BY <2>q, ClockTypes DEF TypeOK, TxOK, RxOK, StrobeOK, Byte, DecideAt
  <2>1. CASE \E b \in Bytes : Send(b)
    <3> PICK b \in Bytes : Send(b)
      BY <2>1
    <3>1. TxOK(tx')
      BY AcceptType DEF Send
    <3>2. /\ owed' = Append(Received, b) /\ Len(owed) < MaxOwed
          /\ Received \in Seq(Bytes) /\ Len(Received) <= Len(owed)
      BY ReceivedType DEF Send
    <3>3. owed' \in Seq(Bytes) /\ Len(owed') <= MaxOwed
      BY <2>r, <3>2
    <3> QED
      BY <2>q, <2>r, <3>1, <3>3 DEF Send
  <2>2. CASE Continue
    <3>1. TxOK(tx')
      BY <2>2, <2>r, TxStepType DEF Continue
    <3>2. owed' \in Seq(Bytes) /\ Len(owed') <= MaxOwed
      BY <2>2, <2>r, ReceivedType DEF Continue
    <3>3. break' \in {"none", "low", "mark"} /\ reported' \in BOOLEAN
      BY <2>2, <2>r DEF Continue
    <3> QED
      BY <2>2, <2>q, <3>1, <3>2, <3>3 DEF Continue
  <2>3. CASE PullLow
    BY <2>3, <2>q, <2>r DEF PullLow
  <2>4. CASE Release
    BY <2>4, <2>q, <2>r DEF Release
  <2>5. CASE UNCHANGED vars
    BY <2>5 DEF vars, wire, history, TypeOK, DecideAt
  <2> QED
    BY <2>1, <2>2, <2>3, <2>4, <2>5 DEF Next
<1> QED
  BY <1>1, <1>2, PTL DEF Spec

-----------------------------------------------------------------------------
(* A frame.  Where the two machines are in it, how far the transmitter is   *)
(* ahead, and what the registers hold then: the stages a frame and a break *)
(* pass through.                                                           *)

\* The bit of the frame each machine is in, the start bit being 0, and its tick of the frame.
TxSlot == CASE tx.state = "TxStart" -> 0 [] tx.state = "TxData" -> tx.bit [] OTHER -> DataBits + 1
RxSlot == CASE rx.state = "RxStart" -> 0 [] rx.state = "RxData" -> rx.bit [] OTHER -> DataBits + 1
TxPlace == 16 * TxSlot + tx.cnt
RxPlace == 16 * RxSlot + rx.cnt

\* The level of a slot of the frame of byte b.
Level(b, slot) == IF slot = 0 THEN 0 ELSE IF slot <= DataBits THEN b[slot] ELSE 1

\* The shift register holds what is left of b.
Sends(b) ==
    tx.state \in {"TxStart", "TxData"} =>
        \A k \in 1..(DataBits + 1 - tx.bit) : tx.shift[k] = b[tx.bit + k - 1]

\* The synchroniser follows the line by one and two clocks, a tick at most each.
Synced ==
    /\ tx.cnt >= 1 => sync1 = Line
    /\ tx.cnt >= 2 => synced = Line

\* Of the samples taken of a bit at most one is wrong, and none without a disturbance.
Right(v, c, e) == \A k \in 7..9 : k < c => v[k] = e
Nearly(v, c, e) == \A j, k \in 7..9 : j < c /\ k < c /\ v[j] # e /\ v[k] # e => j = k

\* The receiver r has the votes for a bit of level e.
Voted(r, noise, e) ==
    /\ ~noise => Right(r.votes, r.cnt, e)
    /\ Nearly(r.votes, r.cnt, e)
    /\ noise => r.state = "RxData"

\* The receiver has the bits of b it is through with.
Copied(b) == \A j \in 1..DataBits : j < RxSlot => rx.shift[j] = b[j]

\* No break, and none still unreported.
Quiescent == break = "none" /\ ~reported

\* Nothing is under way; the transmitter may still be in the stop bit.
Rest ==
    /\ Quiescent /\ owed = <<>>
    /\ Ready \/ (tx.state = "TxStop" /\ tx.cnt >= 2)
    /\ sync1 = 1 /\ synced = 1 /\ rx.state = "RxIdle" /\ rx.prev = 1

\* The start bit's edge is at the pin, in the first flop, or through.
Edge == \/ sync1 = 1 /\ synced = 1 /\ tx.cnt = 0
        \/ sync1 = 0 /\ synced = 1 /\ tx.cnt <= 1
        \/ sync1 = 0 /\ synced = 0

\* Byte b is being sent and the receiver has not seen its edge.
Asked(b) ==
    /\ Quiescent /\ owed = <<b>>
    /\ tx.state = "TxStart" /\ Sends(b) /\ Edge
    /\ rx.state = "RxIdle" /\ rx.prev = 1

\* Both machines are in the frame of b.
Framed(b) ==
    /\ Quiescent /\ owed = <<b>>
    /\ ~Ready /\ Sends(b) /\ Synced
    /\ rx.state # "RxIdle" /\ Voted(rx, noisy, Level(b, RxSlot)) /\ Copied(b)

\* The line is held low: the break reaches the receiver, is sampled as a frame of zeros,
\* is reported, and after its end the line rises again.
Broken == break = "low" /\ Ready /\ owed = <<>>

Falling ==
    /\ Broken /\ ~reported
    /\ synced = 0 => sync1 = 0
    /\ rx.state = "RxIdle" /\ rx.prev = 1

Low ==
    /\ Broken /\ ~reported
    /\ sync1 = 0 /\ synced = 0
    /\ rx.state # "RxIdle" /\ Voted(rx, noisy, 0)

Told ==
    /\ Broken /\ reported
    /\ sync1 = 0 /\ synced = 0 /\ rx.state = "RxIdle" /\ rx.prev = 0

Rising ==
    /\ break = "mark" /\ ~reported /\ Ready /\ owed = <<>>
    /\ synced = 1 => sync1 = 1
    /\ rx.prev = 1 => synced = 1
    /\ rx.state = "RxIdle"

Stage == \/ Rest \/ Falling \/ Low \/ Told \/ Rising
         \/ \E b \in Bytes : Asked(b) \/ Framed(b)

\* How far the transmitter is ahead of the receiver, now and after this clock.
Lead == TxPlace - RxPlace
Tick(t) == IF t THEN 1 ELSE 0
NextLead == Lead + Tick(Ticks(txAcc, rate)) - Tick(RxTick)

\* While a byte is under way the machines are never half a bit apart.
OnTime ==
    /\ owed # <<>> /\ rx.state = "RxIdle" => tx.cnt <= 10
    /\ owed # <<>> /\ rx.state # "RxIdle" => Lead \in -5..6 /\ NextLead \in -5..6

\* What a step may show the owner of the receiver.
Outcome ==
    /\ strobe'.byte # <<>> => owed # <<>> /\ strobe'.byte[1] = owed[1]
    /\ strobe'.err => break = "low" /\ ~reported
    /\ reported => rx'.state = "RxIdle"

-----------------------------------------------------------------------------
(* What a clock does to the machines.                                      *)

\* The transmitter within a frame.
LEMMA TxMoves ==
    ASSUME TxOK(tx), ~Ready, NEW tick \in BOOLEAN, TxStep(tick)
    PROVE  \/ ~tick /\ tx' = tx
           \/ /\ tick /\ tx.cnt < 15 /\ tx'.cnt = tx.cnt + 1
              /\ tx'.state = tx.state /\ tx'.bit = tx.bit /\ tx'.shift = tx.shift
           \/ /\ tick /\ tx.cnt = 15 /\ tx'.cnt = 0
              /\ \/ /\ tx.state = "TxStart" /\ tx'.state = "TxData"
                    /\ tx'.bit = 1 /\ tx'.shift = tx.shift
                 \/ tx.state = "TxData" /\ tx.bit = DataBits /\ tx'.state = "TxStop"
                 \/ /\ tx.state = "TxData" /\ tx.bit < DataBits /\ tx'.state = "TxData"
                    /\ tx'.bit = tx.bit + 1 /\ tx'.shift = Tail(tx.shift)
                 \/ tx.state = "TxStop" /\ tx'.state = "TxIdle"
<1>1. CASE UNCHANGED tx /\ ~tick
  BY <1>1
<1>2. CASE tick /\ ~BitDone /\ tx' = [tx EXCEPT !.cnt = @ + 1]
  BY <1>2 DEF TxOK, BitDone, LastTick
<1>3. CASE tick /\ BitDone /\ TxAdvance
  BY <1>3 DEF TxOK, BitDone, LastTick, TxAdvance
<1> QED
  BY <1>1, <1>2, <1>3 DEF TxStep

\* The line has the level of the bit being sent.
LEMMA LineIs ==
    ASSUME TxOK(tx), ~Ready, NEW b, Sends(b)
    PROVE  Line = Level(b, TxSlot)
<1>0. /\ tx.state \in {"TxStart", "TxData", "TxStop"} /\ tx.bit \in 1..DataBits
      /\ DataBits \in Nat \ {0}
  BY UartAssumption DEF TxOK, Ready
<1>1. CASE tx.state = "TxStart"
  BY <1>1 DEF Line, Level, TxSlot
<1>2. CASE tx.state = "TxData"
  <2>1. 1 \in 1..(DataBits + 1 - tx.bit)
    BY <1>0
  <2>2. tx.shift[1] = b[tx.bit + 1 - 1] /\ tx.bit + 1 - 1 = tx.bit
    BY <1>0, <1>2, <2>1 DEF Sends
  <2>3. Level(b, TxSlot) = b[tx.bit]
    BY <1>0, <1>2 DEF Level, TxSlot
  <2> QED
    BY <1>2, <2>2, <2>3 DEF Line
<1>3. CASE tx.state = "TxStop"
  BY <1>0, <1>3 DEF Line, Level, TxSlot
<1> QED
  BY <1>0, <1>1, <1>2, <1>3

\* Before the last tick of the frame the transmitter stays in it, a tick at a time.
LEMMA TxFrame ==
    ASSUME TxOK(tx), ~Ready, NEW b, Sends(b), NEW tick \in BOOLEAN, TxStep(tick),
           tick => TxPlace < 16 * (DataBits + 1) + 15
    PROVE  /\ ~Ready' /\ Sends(b)'
           /\ TxPlace' = TxPlace + Tick(tick)
           /\ tx'.cnt >= 1 => Line' = Line /\ (tx'.cnt >= 2 => tx.cnt >= 1)
<1>0. /\ tx.state \in {"TxStart", "TxData", "TxStop"} /\ tx.bit \in 1..DataBits
      /\ DataBits \in Nat \ {0} /\ tx.cnt \in 0..15 /\ tx.shift \in Seq(Bit)
      /\ tx.state \in {"TxStart", "TxData"} => Len(tx.shift) = DataBits + 1 - tx.bit
      /\ tx.state = "TxStart" => tx.bit = 1
  BY UartAssumption DEF TxOK, Ready, LastTick
<1>1. CASE ~tick /\ tx' = tx
  <2>1. ~Ready' /\ Sends(b)' /\ TxPlace' = TxPlace /\ Line' = Line
    BY <1>1 DEF Ready, Sends, TxPlace, TxSlot, Line
  <2>2. TxPlace \in Nat
    <3>1. TxSlot \in Nat
      BY <1>0 DEF TxSlot
    <3> QED
      BY <1>0, <3>1 DEF TxPlace, Tick
  <2> QED
    BY <1>0, <1>1, <2>1, <2>2 DEF Tick
<1>2. CASE /\ tick /\ tx.cnt < 15 /\ tx'.cnt = tx.cnt + 1
           /\ tx'.state = tx.state /\ tx'.bit = tx.bit /\ tx'.shift = tx.shift
  <2>1. TxSlot' = TxSlot /\ TxSlot \in Nat /\ Line' = Line /\ ~Ready' /\ Sends(b)'
    BY <1>0, <1>2 DEF Ready, Sends, TxSlot, Line
  <2> QED
    BY <1>0, <1>2, <2>1 DEF TxPlace, Tick
<1>3. CASE /\ tick /\ tx.cnt = 15 /\ tx'.cnt = 0 /\ tx.state = "TxStart" /\ tx'.state = "TxData"
           /\ tx'.bit = 1 /\ tx'.shift = tx.shift
  <2>1. TxSlot = 0 /\ TxSlot' = 1 /\ ~Ready'
    BY <1>3 DEF Ready, TxSlot
  <2>2. \A k \in 1..(DataBits + 1 - tx.bit) : tx.shift[k] = b[tx.bit + k - 1]
    BY <1>3 DEF Sends
  <2>3. tx.bit = 1
    BY <1>0, <1>3
  <2>4. Sends(b)'
    BY <1>3, <2>2, <2>3 DEF Sends
  <2> QED
    BY <1>0, <1>3, <2>1, <2>4 DEF TxPlace, Tick
<1>4. CASE /\ tick /\ tx.cnt = 15 /\ tx'.cnt = 0
           /\ tx.state = "TxData" /\ tx.bit = DataBits /\ tx'.state = "TxStop"
  <2>1. TxSlot = DataBits /\ TxSlot' = DataBits + 1 /\ ~Ready' /\ Sends(b)'
    BY <1>0, <1>4 DEF Ready, Sends, TxSlot
  <2> QED
    BY <1>0, <1>4, <2>1 DEF TxPlace, Tick
<1>5. CASE /\ tick /\ tx.cnt = 15 /\ tx'.cnt = 0
           /\ tx.state = "TxData" /\ tx.bit < DataBits /\ tx'.state = "TxData"
           /\ tx'.bit = tx.bit + 1 /\ tx'.shift = Tail(tx.shift)
  <2>1. TxSlot = tx.bit /\ TxSlot' = tx.bit + 1 /\ ~Ready'
    BY <1>0, <1>5 DEF Ready, TxSlot
  <2>2. Sends(b)'
    <3> SUFFICES ASSUME NEW k \in 1..(DataBits + 1 - (tx.bit + 1))
                 PROVE  tx'.shift[k] = b[(tx.bit + 1) + k - 1]
      BY <1>5 DEF Sends
    <3>1. k + 1 \in 1..(DataBits + 1 - tx.bit) /\ Len(tx.shift) = DataBits + 1 - tx.bit
      BY <1>0, <1>5
    <3>2. tx.shift[k + 1] = b[tx.bit + (k + 1) - 1]
      BY <1>5, <3>1 DEF Sends
    <3>3. tx'.shift[k] = tx.shift[k + 1]
      BY <1>0, <1>5, <3>1
    <3>4. tx.bit + (k + 1) - 1 = (tx.bit + 1) + k - 1
      BY <1>0
    <3> QED
      BY <3>2, <3>3, <3>4
  <2> QED
    BY <1>0, <1>5, <2>1, <2>2 DEF TxPlace, Tick
<1>6. CASE tick /\ tx.cnt = 15 /\ tx.state = "TxStop"
  <2>1. TxPlace = 16 * (DataBits + 1) + 15
    BY <1>0, <1>6 DEF TxPlace, TxSlot
  <2> QED
    BY <1>6, <2>1
<1> QED
  BY <1>1, <1>2, <1>3, <1>4, <1>5, <1>6, TxMoves

\* The synchroniser keeps up with the line.
LEMMA SyncedStep ==
    ASSUME TypeOK, break = "none", ~Ready, NEW b, Sends(b), Synced, Clock, NEW tick \in BOOLEAN,
           TxStep(tick), tick => TxPlace < 16 * (DataBits + 1) + 15
    PROVE  Synced'
<1>1. tx'.cnt >= 1 => Line' = Line /\ (tx'.cnt >= 2 => tx.cnt >= 1)
  BY TypeParts, TxFrame
<1>2. sync1' = Line /\ synced' = sync1
  BY DEF Clock, Pin
<1>3. tx'.cnt >= 2 => tx'.cnt >= 1
  <2>1. TxOK(tx')
    BY TypeParts, TxStepType
  <2> QED
    BY <2>1 DEF TxOK, LastTick
<1> QED
  BY <1>1, <1>2, <1>3 DEF Synced

\* The idle receiver: it waits or sees an edge.
LEMMA RxIdles ==
    ASSUME TypeOK, rx.state = "RxIdle", Clock
    PROVE  /\ strobe' = Quiet
           /\ \/ ~RxTick /\ rx' = rx
              \/ /\ RxTick /\ rx.prev = 1 /\ synced = 0
                 /\ rx'.state = "RxStart" /\ rx'.cnt = 0 /\ noisy' = FALSE
              \/ /\ RxTick /\ ~(rx.prev = 1 /\ synced = 0)
                 /\ rx'.state = "RxIdle" /\ rx'.prev = synced
<1>1. PICK line \in Sampled : RxStep(RxTick, line) /\ Noise(line)
  BY DEF Clock
<1>2. line = synced
  BY <1>1 DEF Sampled, Glitch
<1>3. noisy' = FALSE
  BY <1>1 DEF Noise
<1>4. RxTick => RxIdle(line)
  BY <1>1 DEF RxStep, RxSample, DecideStart, DecideData, DecideStop
<1>5. ~RxTick => rx' = rx /\ strobe' = Quiet
  BY <1>1 DEF RxStep, RxIdle, RxSample, DecideStart, DecideData, DecideStop
<1>6. RxOK(rx)
  BY TypeParts
<1>7. ASSUME RxTick, StartEdge(line)
      PROVE  rx'.state = "RxStart" /\ rx'.cnt = 0 /\ strobe' = Quiet
  BY <1>4, <1>6, <1>7 DEF RxIdle, RxOK
<1>8. ASSUME RxTick, ~StartEdge(line)
      PROVE  rx'.state = "RxIdle" /\ rx'.prev = synced /\ strobe' = Quiet
  BY <1>2, <1>4, <1>6, <1>8 DEF RxIdle, RxOK
<1> QED
  BY <1>2, <1>3, <1>5, <1>7, <1>8, Zenon DEF StartEdge

\* One wrong sample of three does not change the majority, and none does not change any.
LEMMA Votes ==
    ASSUME NEW v \in [7..9 -> Bit], NEW c \in 0..15, NEW e \in Bit, NEW l \in Bit,
           NEW w, w = IF c \in 7..9 THEN [v EXCEPT ![c] = l] ELSE v
    PROVE  /\ Right(v, c, e) => Nearly(w, c + 1, e) /\ Nearly(v, c, e)
           /\ (c \in 7..9 => l = e)
                => /\ Right(v, c, e) => Right(w, c + 1, e)
                   /\ Nearly(v, c, e) => Nearly(w, c + 1, e)
           /\ c >= 10 /\ Nearly(v, c, e) => Maj(v) = e
           /\ c = 9 /\ l = e /\ Right(v, c, e) => Maj(w) = e
<1>1. c \in 7..9 => w = [v EXCEPT ![c] = l]
  OBVIOUS
<1>2. c \notin 7..9 => w = v
  OBVIOUS
<1>3. Right(v, c, e) => Nearly(w, c + 1, e) /\ Nearly(v, c, e)
  BY <1>1, <1>2 DEF Right, Nearly
<1>4. ASSUME c \in 7..9 => l = e
      PROVE  /\ Right(v, c, e) => Right(w, c + 1, e)
             /\ Nearly(v, c, e) => Nearly(w, c + 1, e)
  BY <1>1, <1>2, <1>4 DEF Right, Nearly
<1>5. c >= 10 /\ Nearly(v, c, e) => Maj(v) = e
  BY DEF Nearly, Maj, Bit
<1>6. c = 9 /\ l = e /\ Right(v, c, e) => Maj(w) = e
  BY <1>1 DEF Right, Maj, Bit
<1> QED
  BY <1>3, <1>4, <1>5, <1>6

\* What the receiver does within a frame, when the bit's level is e.
RxMove(e) ==
    \/ ~RxTick /\ rx' = rx /\ strobe' = Quiet /\ Voted(rx', noisy', e)
    \/ /\ RxTick /\ strobe' = Quiet /\ rx'.state = rx.state /\ rx'.bit = rx.bit
       /\ rx'.shift = rx.shift /\ rx'.cnt = rx.cnt + 1 /\ rx.cnt < 15
       /\ rx.state = "RxStop" => rx.cnt < 9
       /\ Voted(rx', noisy', e)
    \/ /\ RxTick /\ strobe' = Quiet /\ rx.cnt = 15 /\ rx'.cnt = 0 /\ noisy' = FALSE
       /\ rx.state = "RxStart" /\ rx'.state = "RxData" /\ rx'.bit = 1
       /\ rx'.shift = rx.shift
    \/ /\ RxTick /\ strobe' = Quiet /\ rx.cnt = 15 /\ rx'.cnt = 0 /\ noisy' = FALSE
       /\ rx.state = "RxData" /\ rx'.shift = [rx.shift EXCEPT ![rx.bit] = e]
       /\ IF rx.bit = DataBits THEN rx'.state = "RxStop"
          ELSE rx'.state = "RxData" /\ rx'.bit = rx.bit + 1
    \/ /\ RxTick /\ rx.cnt = 9 /\ rx.state = "RxStop"
       /\ rx'.state = "RxIdle" /\ rx'.prev = synced
       /\ strobe'.byte = (IF e = 1 THEN <<rx.shift>> ELSE <<>>)
       /\ strobe'.err = (e # 1)

\* The receiver within a frame, if the centre of the bit is sampled at its level.
LEMMA RxMoves ==
    ASSUME TypeOK, rx.state # "RxIdle", Clock, NEW e \in Bit, Voted(rx, noisy, e),
           RxTick /\ rx.cnt \in 7..9 => synced = e, rx.state = "RxStart" => e = 0
    PROVE  RxMove(e)
<1>1. PICK line \in Sampled : RxStep(RxTick, line) /\ Noise(line)
  BY DEF Clock
<1>2. /\ RxOK(rx) /\ line \in Bit /\ rx.cnt \in 0..15 /\ rx.votes \in [7..9 -> Bit]
      /\ rx.state = "RxStop" => rx.cnt <= 9
  BY TypeParts, <1>1 DEF Sampled, TypeOK, RxOK, Bit, LastTick, DecideAt
<1> DEFINE w == Capture(line)
           v == rx.votes
<1>3. w = IF rx.cnt \in 7..9 THEN [v EXCEPT ![rx.cnt] = line] ELSE v
  BY DEF Capture
<1>4. /\ Right(v, rx.cnt, e) => Nearly(w, rx.cnt + 1, e) /\ Nearly(v, rx.cnt, e)
      /\ (rx.cnt \in 7..9 => line = e)
           => /\ Right(v, rx.cnt, e) => Right(w, rx.cnt + 1, e)
              /\ Nearly(v, rx.cnt, e) => Nearly(w, rx.cnt + 1, e)
      /\ rx.cnt >= 10 /\ Nearly(v, rx.cnt, e) => Maj(v) = e
      /\ rx.cnt = 9 /\ line = e /\ Right(v, rx.cnt, e) => Maj(w) = e
  BY <1>2, <1>3, Votes
<1>5. CASE ~RxTick
  <2>1. rx' = rx /\ strobe' = Quiet
    BY <1>1, <1>5 DEF RxStep, RxIdle, RxSample, DecideStart, DecideData, DecideStop
  <2>2. line = synced
    BY <1>1, <1>5 DEF Sampled, Glitch
  <2>3. noisy' = (rx.state = "RxData" /\ noisy)
    BY <1>1, <1>5, <2>2, Zenon DEF Noise
  <2>4. Voted(rx', noisy', e)
    BY <2>1, <2>3, Zenon DEF Voted
  <2> QED
    BY <1>5, <2>1, <2>4 DEF RxMove
<1>6. CASE RxTick /\ rx.cnt # DecideAt
  <2>1. RxSample(line)
    BY <1>1, <1>6 DEF RxStep, RxIdle, RxSample, DecideStart, DecideData, DecideStop
  <2>2. /\ strobe' = Quiet /\ rx'.state = rx.state /\ rx'.bit = rx.bit /\ rx'.shift = rx.shift
        /\ rx'.cnt = rx.cnt + 1 /\ rx'.votes = w
    BY <1>2, <2>1 DEF RxSample, RxOK
  <2>3. rx.cnt < 15 /\ (rx.state = "RxStop" => rx.cnt < 9)
    BY <1>2, <1>6 DEF DecideAt, LastTick
  <2>4. ~(RxTick /\ rx.cnt = LastTick)
    BY <2>3 DEF LastTick
  <2>5. noisy' = (rx.state = "RxData" /\ (noisy \/ line # synced))
    BY <1>1, <2>4, Zenon DEF Noise
  <2>6. line # synced => rx.state = "RxData" /\ ~noisy
    BY <1>1, Zenon DEF Sampled, Glitch
  <2>7. rx.cnt \in 7..9 => synced = e
    BY <1>6
  <2>8. Voted(rx', noisy', e)
    <3>1. CASE noisy'
      <4>1. rx'.state = "RxData" /\ (noisy \/ line # synced)
        BY <2>2, <2>5, <3>1, Zenon
      <4>2. CASE line = synced
        BY <1>4, <2>2, <2>7, <3>1, <4>1, <4>2, Zenon DEF Voted
      <4>3. CASE line # synced
        BY <1>4, <2>2, <2>6, <3>1, <4>1, <4>3, Zenon DEF Voted
      <4> QED
        BY <4>2, <4>3
    <3>2. CASE ~noisy'
      <4>1. ~noisy /\ line = synced
        BY <2>5, <2>6, <3>2, Zenon DEF Voted
      <4> QED
        BY <1>4, <2>2, <2>7, <3>2, <4>1, Zenon DEF Voted
    <3> QED
      BY <3>1, <3>2, Zenon
  <2> QED
    BY <1>6, <2>2, <2>3, <2>8 DEF RxMove
<1>7. CASE RxTick /\ rx.state = "RxStart" /\ rx.cnt = DecideAt
  <2>1. DecideStart(line)
    BY <1>1, <1>7 DEF RxStep, RxIdle, RxSample, DecideStart, DecideData, DecideStop
  <2>2. rx.cnt = 15 /\ w = v
    BY <1>3, <1>7 DEF DecideAt, LastTick
  <2>3. Maj(w) = 0
    <3>1. Nearly(v, rx.cnt, e)
      BY Zenon DEF Voted
    <3> QED
      BY <1>4, <1>7, <2>2, <3>1
  <2>4. /\ strobe' = Quiet /\ rx'.state = "RxData" /\ rx'.bit = 1 /\ rx'.cnt = 0
        /\ rx'.shift = rx.shift
    BY <1>2, <2>1, <2>3 DEF DecideStart, RxOK
  <2>5. noisy' = FALSE
    BY <1>1, <1>7, Zenon DEF Noise
  <2> QED
    BY <1>7, <2>2, <2>4, <2>5 DEF RxMove
<1>8. CASE RxTick /\ rx.state = "RxData" /\ rx.cnt = DecideAt
  <2>1. DecideData(line)
    BY <1>1, <1>8 DEF RxStep, RxIdle, RxSample, DecideStart, DecideData, DecideStop
  <2>2. rx.cnt = 15 /\ w = v
    BY <1>3, <1>8 DEF DecideAt, LastTick
  <2>3. Maj(w) = e
    <3>1. Nearly(v, rx.cnt, e)
      BY Zenon DEF Voted
    <3> QED
      BY <1>4, <2>2, <3>1
  <2>4. /\ strobe' = Quiet /\ rx'.cnt = 0 /\ rx'.shift = [rx.shift EXCEPT ![rx.bit] = e]
        /\ IF rx.bit = DataBits THEN rx'.state = "RxStop"
           ELSE rx'.state = "RxData" /\ rx'.bit = rx.bit + 1
    BY <1>2, <2>1, <2>3 DEF DecideData, RxOK
  <2>5. noisy' = FALSE
    BY <1>1, <1>8, <2>2, Zenon DEF Noise, LastTick
  <2> QED
    BY <1>8, <2>2, <2>4, <2>5 DEF RxMove
<1>9. CASE RxTick /\ rx.state = "RxStop" /\ rx.cnt = DecideAt
  <2>1. DecideStop(line)
    BY <1>1, <1>9 DEF RxStep, RxIdle, RxSample, DecideStart, DecideData, DecideStop
  <2>2. rx.cnt = 9 /\ line = synced
    BY <1>1, <1>9 DEF DecideAt, Sampled, Glitch
  <2>3. Maj(w) = e
    <3>1. ~noisy
      BY <1>9, Zenon DEF Voted
    <3>2. Right(v, rx.cnt, e)
      BY <3>1, Zenon DEF Voted
    <3> QED
      BY <1>4, <1>9, <2>2, <3>2
  <2>4. /\ rx'.state = "RxIdle" /\ rx'.prev = synced
        /\ strobe' = IF e = 1 THEN [byte |-> <<rx.shift>>, err |-> FALSE]
                              ELSE [byte |-> <<>>, err |-> TRUE]
    BY <1>2, <2>1, <2>2, <2>3 DEF DecideStop, RxOK
  <2>5. strobe'.byte = (IF e = 1 THEN <<rx.shift>> ELSE <<>>) /\ strobe'.err = (e # 1)
    BY <2>4
  <2> QED
    BY <1>9, <2>2, <2>4, <2>5, Zenon DEF RxMove
<1> QED
  BY <1>2, <1>5, <1>6, <1>7, <1>8, <1>9 DEF RxOK

-----------------------------------------------------------------------------
(* Time.  From the clock in which the edge is through the synchroniser the  *)
(* two generators run side by side, and their phases say how far apart the *)
(* machines can be.                                                        *)

LEMMA Every == Next => Clock
BY DEF Next, Send, Continue, PullLow, Release

LEMMA QuietIs == Quiet.byte = <<>> /\ Quiet.err = FALSE
BY DEF Quiet

\* The ranges of the places.
LEMMA Places ==
    ASSUME TypeOK
    PROVE  /\ DataBits \in Nat \ {0} /\ tx.cnt \in 0..15 /\ rx.cnt \in 0..15
           /\ ~Ready => /\ TxSlot \in 0..DataBits + 1 /\ TxPlace \in Nat
                        /\ TxSlot = DataBits + 1 <=> tx.state = "TxStop"
           /\ rx.state # "RxIdle"
                => /\ RxSlot \in 0..DataBits + 1 /\ RxPlace \in Nat
                   /\ RxSlot = DataBits + 1 <=> rx.state = "RxStop"
                   /\ rx.state = "RxStop" => rx.cnt <= 9
                   /\ RxPlace <= 16 * (DataBits + 1) + 9
<1>1. /\ DataBits \in Nat \ {0} /\ tx.cnt \in 0..15 /\ rx.cnt \in 0..15
      /\ tx.bit \in 1..DataBits /\ rx.bit \in 1..DataBits
      /\ tx.state \in {"TxIdle", "TxStart", "TxData", "TxStop"}
      /\ rx.state \in {"RxIdle", "RxStart", "RxData", "RxStop"}
      /\ rx.state = "RxStop" => rx.cnt <= 9
  BY UartAssumption DEF TypeOK, LastTick, DecideAt
<1>2. ~Ready => /\ TxSlot \in 0..DataBits + 1
                /\ TxSlot = DataBits + 1 <=> tx.state = "TxStop"
  BY <1>1 DEF TxSlot, Ready
<1>3. rx.state # "RxIdle" => /\ RxSlot \in 0..DataBits + 1
                             /\ RxSlot = DataBits + 1 <=> rx.state = "RxStop"
  BY <1>1 DEF RxSlot
<1>4. ~Ready => TxPlace \in Nat
  BY <1>1, <1>2 DEF TxPlace
<1>5. rx.state # "RxIdle" => RxPlace \in Nat /\ RxPlace <= 16 * (DataBits + 1) + 9
  BY <1>1, <1>3 DEF RxPlace
<1> QED
  BY <1>1, <1>2, <1>3, <1>4, <1>5


\* The ticks the receiver has counted since it saw the edge.
RxGone == IF rx.state = "RxIdle" THEN 0 ELSE RxPlace + 1

\* A generator's phase after n clocks, in whole ticks and the accumulator's part of one.
Phase(ticks, acc, start, n, inc) == Modulus * ticks + acc = start + n * inc

\* For n clocks both generators have run with the edge in the synchroniser.
Since ==
    \E n \in Nat, c \in 0..(Modulus - 1), y \in (2 * rate)..(Modulus + 2 * rate - 1) :
        /\ Phase(TxPlace, txAcc, y, n, rate)
        /\ Phase(RxGone, rxAcc, c, n, Increment)

\* Where the generators are while the edge travels, and from then on.
Pace ==
    owed # <<>> =>
        \/ rx.state = "RxIdle" /\ sync1 = 1 /\ synced = 1 /\ tx.cnt = 0
        \/ /\ rx.state = "RxIdle" /\ sync1 = 0 /\ synced = 1
           /\ Modulus * tx.cnt + txAcc \in rate..(Modulus + rate - 1)
        \/ (rx.state = "RxIdle" => synced = 0) /\ Since

\* What a clock does to the generators.
LEMMA Generators ==
    ASSUME TypeOK, Clock
    PROVE  /\ rate' = rate /\ rate \in 1..Modulus
           /\ txAcc' \in 0..(Modulus - 1) /\ rxAcc' \in 0..(Modulus - 1)
           /\ Modulus * Tick(Ticks(txAcc, rate)) + txAcc' = txAcc + rate
           /\ Modulus * Tick(RxTick) + rxAcc' = rxAcc + Increment
<1>1. /\ Modulus \in Nat \ {0} /\ rate \in 1..Modulus /\ Increment \in 1..Modulus
      /\ txAcc \in 0..(Modulus - 1) /\ rxAcc \in 0..(Modulus - 1)
  BY UartAssumption DEF TypeOK
<1>2. rate' = rate /\ txAcc' = NextAcc(txAcc, rate) /\ rxAcc' = NextAcc(rxAcc, Increment)
  BY DEF Clock
<1>3. /\ txAcc' \in 0..(Modulus - 1)
      /\ Modulus * Tick(Ticks(txAcc, rate)) + txAcc' = txAcc + rate
  BY <1>1, <1>2 DEF NextAcc, Ticks, Tick
<1>4. /\ rxAcc' \in 0..(Modulus - 1)
      /\ Modulus * Tick(RxTick) + rxAcc' = rxAcc + Increment
  BY <1>1, <1>2 DEF NextAcc, Ticks, Tick, RxTick
<1> QED
  BY <1>1, <1>2, <1>3, <1>4

\* A clock adds an increment to the phase.
LEMMA PhaseAdds ==
    ASSUME NEW i \in Nat, NEW p \in Nat, NEW a \in Nat, NEW s \in Nat, NEW n \in Nat,
           NEW t \in {0, 1}, NEW a2 \in Nat, Phase(p, a, s, n, i), Phase(t, a2, a, 1, i)
    PROVE  Phase(p + t, a2, s, n + 1, i)
<1> DEFINE mp == Modulus * p
           mt == Modulus * t
           ni == n * i
<1>1. mp \in Nat /\ mt \in Nat /\ ni \in Nat
  BY UartAssumption
<1>2. Modulus * (p + t) = mp + mt /\ (n + 1) * i = ni + i
  BY UartAssumption
<1>3. mp + a = s + ni /\ mt + a2 = a + i
  BY DEF Phase
<1> HIDE DEF mp, mt, ni
<1>4. mp + mt + a2 = s + (ni + i)
  BY <1>1, <1>3
<1> QED
  BY <1>2, <1>4 DEF Phase

\* A clock in which both machines count their ticks.
LEMMA SinceStep ==
    ASSUME TypeOK, Clock, Since, TxPlace \in Nat, RxGone \in Nat,
           TxPlace' = TxPlace + Tick(Ticks(txAcc, rate)), RxGone' = RxGone + Tick(RxTick)
    PROVE  Since'
<1>1. PICK n \in Nat, c \in 0..(Modulus - 1), y \in (2 * rate)..(Modulus + 2 * rate - 1) :
         /\ Phase(TxPlace, txAcc, y, n, rate)
         /\ Phase(RxGone, rxAcc, c, n, Increment)
  BY DEF Since
<1>2. /\ Modulus \in Nat /\ Increment \in Nat /\ rate \in Nat /\ rate' = rate
      /\ txAcc \in Nat /\ rxAcc \in Nat /\ txAcc' \in Nat /\ rxAcc' \in Nat
      /\ c \in Nat /\ y \in Nat /\ n + 1 \in Nat
      /\ Tick(Ticks(txAcc, rate)) \in {0, 1} /\ Tick(RxTick) \in {0, 1}
  BY Generators, UartAssumption DEF TypeOK, Tick
<1>3. /\ Phase(Tick(Ticks(txAcc, rate)), txAcc', txAcc, 1, rate)
      /\ Phase(Tick(RxTick), rxAcc', rxAcc, 1, Increment)
  BY <1>2, Generators DEF Phase
<1>4. /\ Phase(TxPlace + Tick(Ticks(txAcc, rate)), txAcc', y, n + 1, rate)
      /\ Phase(RxGone + Tick(RxTick), rxAcc', c, n + 1, Increment)
  BY <1>1, <1>2, <1>3, PhaseAdds
<1>5. y \in (2 * rate')..(Modulus + 2 * rate' - 1)
  BY <1>2
<1>6. /\ Phase(TxPlace', txAcc', y, n + 1, rate')
      /\ Phase(RxGone', rxAcc', c, n + 1, Increment)
  BY <1>2, <1>4
<1>7. \E k \in Nat : /\ Phase(TxPlace', txAcc', y, k, rate')
                     /\ Phase(RxGone', rxAcc', c, k, Increment)
  BY <1>2, <1>6
<1> QED
  BY <1>1, <1>5, <1>7 DEF Since, Phase

\* Order and multiplication.
LEMMA Cancel ==
    ASSUME NEW i \in Nat \ {0}, NEW x \in Int, NEW z \in Int, i * x <= i * z
    PROVE  x <= z
<1> SUFFICES ASSUME x >= z + 1 PROVE FALSE
  OBVIOUS
<1> DEFINE k == x - z - 1
<1>1. k \in Nat /\ i * x = i * z + i + i * k /\ i * k \in Nat /\ i * z \in Int
  OBVIOUS
<1> QED
  BY <1>1

LEMMA Scales ==
    ASSUME NEW k \in Nat, NEW x \in Int, NEW z \in Int, x <= z
    PROVE  x * k <= z * k
<1> DEFINE d == z - x
<1>1. d \in Nat /\ z * k = x * k + d * k /\ d * k \in Nat /\ x * k \in Int
  OBVIOUS
<1> QED
  BY <1>1

\* A generator that is g ahead in every clock gains at most h in the n clocks of a frame.
LEMMA Gain ==
    ASSUME NEW i \in Nat \ {0}, NEW n \in Nat, NEW f \in Nat, NEW g \in Int, NEW h \in Nat,
           n * i <= f, f * g <= i * h
    PROVE  n * g <= h
<1>1. CASE g <= 0
  <2>1. n * g <= 0
    <3> DEFINE k == -g
    <3>1. k \in Nat /\ n * g = -(n * k) /\ n * k \in Nat
      BY <1>1
    <3> QED
      BY <3>1
  <2> QED
    BY <2>1
<1>2. CASE g > 0
  <2>1. g \in Nat /\ n * i \in Int
    BY <1>2
  <2>2. (n * i) * g <= f * g
    BY <2>1, Scales
  <2>3. (n * i) * g = i * (n * g) /\ n * g \in Int
    BY <1>2
  <2>4. i * (n * g) <= i * h
    <3> DEFINE u == i * (n * g)
               v == f * g
               w == i * h
    <3>1. u \in Int /\ v \in Int /\ w \in Int
      BY <2>3
    <3>2. u <= v /\ v <= w
      BY <2>2, <2>3
    <3> HIDE DEF u, v, w
    <3>3. u <= w
      BY <3>1, <3>2
    <3> QED
      BY <3>3 DEF u, w
  <2> QED
    BY <2>3, <2>4, Cancel
<1> QED
  BY <1>1, <1>2

\* Within a frame the machines stay less than half a bit apart.
LEMMA LeadBound ==
    ASSUME Tolerated, NEW r \in SenderRates, NEW n \in Nat, NEW p \in Nat, NEW q \in Nat,
           q <= 16 * (DataBits + 1) + 11, NEW a \in 0..(Modulus - 1), NEW d \in 0..(Modulus - 1),
           NEW c \in 0..(Modulus - 1), NEW y \in (2 * r)..(Modulus + 2 * r - 1),
           Phase(p, a, y, n, r), Phase(q, d, c, n, Increment)
    PROVE  p - q \in -6..5
<1> DEFINE frame == 16 * (DataBits + 1) + 12
<1>1. /\ Modulus \in Nat \ {0} /\ Increment \in Nat \ {0} /\ r \in 1..Modulus
      /\ DataBits \in Nat /\ frame \in Nat
  BY UartAssumption
<1>0. Modulus * p + a = y + n * r /\ Modulus * q + d = c + n * Increment
  BY DEF Phase
<1>2. n * Increment <= Modulus * frame
  <2>1. Modulus * (q + 1) = Modulus * q + Modulus /\ Modulus * q \in Nat /\ n * Increment \in Nat
    BY <1>1
  <2>2. n * Increment <= Modulus * (q + 1)
    BY <1>0, <1>1, <2>1
  <2>3. (q + 1) * Modulus <= frame * Modulus
    BY <1>1, Scales
  <2>4. (q + 1) * Modulus = Modulus * (q + 1) /\ frame * Modulus = Modulus * frame
    BY <1>1
  <2>5. Modulus * (q + 1) \in Int /\ Modulus * frame \in Int
    BY <1>1
  <2> QED
    BY <2>1, <2>2, <2>3, <2>4, <2>5
<1> DEFINE up == n * (r - Increment)
           down == n * (Increment - r)
<1>3. up <= 4 * Modulus - 2 * r
  <2>1. (Modulus * frame) * (r - Increment) <= Increment * (4 * Modulus - 2 * r)
    BY DEF Tolerated
  <2>2. Modulus * frame \in Nat /\ 4 * Modulus - 2 * r \in Nat /\ r - Increment \in Int
    BY <1>1
  <2> HIDE DEF frame
  <2> QED
    BY <1>1, <1>2, <2>1, <2>2, Gain
<1>4. down <= 5 * Modulus + 2 * r
  <2>1. (Modulus * frame) * (Increment - r) <= Increment * (5 * Modulus + 2 * r)
    BY DEF Tolerated
  <2>2. Modulus * frame \in Nat /\ 5 * Modulus + 2 * r \in Nat /\ Increment - r \in Int
    BY <1>1
  <2> HIDE DEF frame
  <2> QED
    BY <1>1, <1>2, <2>1, <2>2, Gain
<1> DEFINE mp == Modulus * p
           mq == Modulus * q
           nr == n * r
           ni == n * Increment
           diff == Modulus * (p - q)
<1>5. /\ mp \in Int /\ mq \in Int /\ nr \in Int /\ ni \in Int
      /\ up = nr - ni /\ down = ni - nr /\ diff = mp - mq
  BY <1>1
<1>6. mp + a = y + nr /\ mq + d = c + ni
  BY <1>0
<1> HIDE DEF mp, mq, nr, ni, up, down, diff
<1>7. diff < 6 * Modulus /\ diff > -7 * Modulus
  BY <1>1, <1>3, <1>4, <1>5, <1>6
<1>8. ASSUME p - q >= 6 PROVE FALSE
  <2>1. 6 * Modulus <= (p - q) * Modulus
    BY <1>1, <1>8, Scales
  <2> QED
    BY <1>1, <1>7, <2>1 DEF diff
<1>9. ASSUME p - q <= -7 PROVE FALSE
  <2>1. (p - q) * Modulus <= -7 * Modulus
    BY <1>1, <1>9, Scales
  <2> QED
    BY <1>1, <1>7, <2>1 DEF diff
<1> QED
  BY <1>8, <1>9


\* The machines are on time, in every clock and in the next.
LEMMA OnTimeHolds ==
    ASSUME Tolerated, TypeOK, Stage, Pace
    PROVE  OnTime
<1> SUFFICES ASSUME owed # <<>>
             PROVE  /\ rx.state = "RxIdle" => tx.cnt <= 10
                    /\ rx.state # "RxIdle" => Lead \in -5..6 /\ NextLead \in -5..6
  BY DEF OnTime
<1>1. PICK b \in Bytes : Asked(b) \/ Framed(b)
  BY DEF Stage, Rest, Falling, Low, Told, Rising, Broken
<1>2. ~Ready /\ (rx.state = "RxIdle" => tx.state = "TxStart")
  BY <1>1 DEF Asked, Framed, Ready
<1>3. /\ rate \in SenderRates /\ rate \in 1..Modulus /\ Modulus \in Nat \ {0} /\ DataBits \in Nat
      /\ txAcc \in 0..(Modulus - 1) /\ rxAcc \in 0..(Modulus - 1)
      /\ tx.cnt \in 0..15 /\ TxPlace \in Nat
      /\ rx.state # "RxIdle" => RxPlace \in Nat /\ RxPlace <= 16 * (DataBits + 1) + 9
  BY <1>2, Places, UartAssumption DEF TypeOK
<1>4. CASE rx.state = "RxIdle" /\ sync1 = 1 /\ synced = 1 /\ tx.cnt = 0
  BY <1>4
<1>5. CASE rx.state = "RxIdle" /\ Modulus * tx.cnt + txAcc \in rate..(Modulus + rate - 1)
  <2>1. tx.cnt <= 2
    <3> SUFFICES ASSUME tx.cnt >= 2 PROVE FALSE
      BY <1>3
    <3> DEFINE mc == Modulus * tx.cnt
    <3>1. 2 * Modulus <= tx.cnt * Modulus
      BY <1>3, Scales
    <3>2. mc \in Int /\ 2 * Modulus <= mc
      BY <1>3, <3>1
    <3>3. mc + txAcc <= Modulus + rate - 1
      BY <1>3, <1>5, <3>2
    <3> HIDE DEF mc
    <3> QED
      BY <1>3, <3>2, <3>3
  <2> QED
    BY <1>3, <1>5, <2>1
<1>6. CASE Since
  <2>1. PICK n \in Nat, c \in 0..(Modulus - 1), y \in (2 * rate)..(Modulus + 2 * rate - 1) :
           /\ Phase(TxPlace, txAcc, y, n, rate)
           /\ Phase(RxGone, rxAcc, c, n, Increment)
    BY <1>6 DEF Since
  <2>2. CASE rx.state = "RxIdle"
    <3>1. RxGone = 0 /\ TxPlace = tx.cnt
      <4>1. TxSlot = 0
        BY <1>2, <2>2 DEF TxSlot
      <4> QED
        BY <1>3, <2>2, <4>1 DEF RxGone, TxPlace
    <3>2. RxGone \in Nat /\ RxGone <= 16 * (DataBits + 1) + 11
      BY <1>3, <3>1
    <3>3. TxPlace - RxGone \in -6..5
      BY <1>3, <2>1, <3>2, LeadBound
    <3> QED
      BY <1>3, <2>2, <3>1, <3>3
  <2>3. CASE rx.state # "RxIdle"
    <3>1. RxGone = RxPlace + 1 /\ RxGone \in Nat /\ RxGone <= 16 * (DataBits + 1) + 10
      BY <1>3, <2>3 DEF RxGone
    <3>2. TxPlace - RxGone \in -6..5
      <4>1. RxGone <= 16 * (DataBits + 1) + 11
        BY <1>3, <3>1
      <4> QED
        BY <1>3, <2>1, <3>1, <4>1, LeadBound
    <3>3. Lead \in -5..6
      <4>1. TxPlace \in Nat /\ RxPlace \in Nat /\ RxGone = RxPlace + 1
        BY <1>3, <2>3, <3>1
      <4> QED
        BY <3>2, <4>1 DEF Lead
    <3> DEFINE t == Tick(Ticks(txAcc, rate))
               u == Tick(RxTick)
               a == NextAcc(txAcc, rate)
               d == NextAcc(rxAcc, Increment)
    <3>4. /\ t \in {0, 1} /\ u \in {0, 1} /\ a \in 0..(Modulus - 1) /\ d \in 0..(Modulus - 1)
          /\ Phase(t, a, txAcc, 1, rate) /\ Phase(u, d, rxAcc, 1, Increment)
      BY <1>3, UartAssumption DEF NextAcc, Ticks, Tick, RxTick, Phase
    <3> HIDE DEF t, u, a, d
    <3>5. /\ Modulus \in Nat /\ rate \in Nat /\ Increment \in Nat /\ txAcc \in Nat /\ rxAcc \in Nat
          /\ a \in Nat /\ d \in Nat /\ y \in Nat /\ c \in Nat /\ n + 1 \in Nat
      BY <1>3, <3>4, UartAssumption
    <3>6. Phase(TxPlace + t, a, y, n + 1, rate) /\ Phase(RxGone + u, d, c, n + 1, Increment)
      BY <1>3, <2>1, <3>1, <3>4, <3>5, PhaseAdds
    <3>8. /\ TxPlace + t \in Nat /\ RxGone + u \in Nat
          /\ RxGone + u <= 16 * (DataBits + 1) + 11
      BY <1>3, <3>1, <3>4
    <3>9. (TxPlace + t) - (RxGone + u) \in -6..5
      BY <1>3, <2>1, <3>4, <3>5, <3>6, <3>8, LeadBound
    <3>10. NextLead \in -5..6
      <4>1. TxPlace \in Nat /\ RxPlace \in Nat /\ RxGone = RxPlace + 1
        BY <1>3, <2>3, <3>1
      <4>2. NextLead = (TxPlace - RxPlace) + t - u
        BY DEF NextLead, Lead, t, u
      <4> QED
        BY <3>4, <3>9, <4>1, <4>2
    <3> QED
      BY <2>3, <3>3, <3>10
  <2> QED
    BY <2>2, <2>3
<1> QED
  BY <1>4, <1>5, <1>6 DEF Pace

-----------------------------------------------------------------------------
(* One lemma for each stage: where a clock leads, and what it shows.       *)

LEMMA RestStep ==
    ASSUME TypeOK, Rest, Next
    PROVE  Stage' /\ Pace' /\ Outcome
<1>0. /\ Clock /\ break = "none" /\ ~reported /\ owed = <<>> /\ sync1 = 1 /\ synced = 1
      /\ Ready \/ (tx.state = "TxStop" /\ tx.cnt >= 2)
      /\ rx.state = "RxIdle" /\ rx.prev = 1
  BY Every DEF Rest, Quiescent
<1>1. strobe' = Quiet /\ rx'.state = "RxIdle" /\ rx'.prev = 1
  BY <1>0, RxIdles
<1>2. sync1' = 1 /\ synced' = 1
  BY <1>0 DEF Clock, Pin, Line, Ready
<1>3. Outcome
  BY <1>0, <1>1, QuietIs DEF Outcome
<1>4. Received = <<>>
  BY <1>0 DEF Received
<1>5. CASE \E b \in Bytes : Send(b)
  <2>1. PICK b \in Bytes : Send(b)
    BY <1>5
  <2>2. /\ tx' = [state |-> "TxStart", bit |-> 1, shift |-> b, cnt |-> 0]
        /\ owed' = <<b>> /\ break' = "none" /\ ~reported'
    BY <1>0, <1>4, <2>1 DEF Send, Accept
  <2>3. tx'.state = "TxStart" /\ tx'.bit = 1 /\ tx'.shift = b /\ tx'.cnt = 0
    BY <2>2
  <2>4. Sends(b)'
    BY <2>3, UartAssumption DEF Sends
  <2>5. Asked(b)'
    BY <1>1, <1>2, <2>2, <2>3, <2>4 DEF Asked, Quiescent, Edge
  <2> QED
    BY <1>1, <1>2, <1>3, <2>3, <2>5 DEF Stage, Pace
<1>6. CASE Continue
  <2>1. owed' = <<>> /\ break' = "none" /\ reported' = FALSE
    BY <1>0, <1>4, <1>6, Zenon DEF Continue
  <2>2. Ready' \/ (tx'.state = "TxStop" /\ tx'.cnt >= 2)
    <3>1. CASE Ready
      BY <1>6, <3>1 DEF Continue, TxStep, Ready
    <3>2. CASE ~Ready
      <4>1. Ticks(txAcc, rate) \in BOOLEAN
        BY DEF Ticks
      <4>2. TxOK(tx) /\ TxStep(Ticks(txAcc, rate)) /\ tx.cnt \in Nat
        BY <1>6, TypeParts DEF Continue, TxOK, LastTick
      <4> QED
        BY <1>0, <3>2, <4>1, <4>2, TxMoves DEF Ready
    <3> QED
      BY <3>1, <3>2
  <2>3. Rest'
    BY <1>1, <1>2, <2>1, <2>2 DEF Rest, Quiescent
  <2> QED
    BY <1>3, <2>1, <2>3 DEF Stage, Pace
<1>7. CASE PullLow
  <2>1. Broken' /\ ~reported'
    BY <1>0, <1>7 DEF PullLow, Broken, Ready
  <2>2. Falling'
    BY <1>1, <1>2, <2>1 DEF Falling
  <2> QED
    BY <1>3, <2>1, <2>2 DEF Broken, Stage, Pace
<1> QED
  BY <1>0, <1>5, <1>6, <1>7 DEF Next, Release

\* While the line is broken nothing is sent.
LEMMA BrokenStep ==
    ASSUME Next, break # "none", Ready, owed = <<>>, reported \in BOOLEAN,
           strobe'.byte = <<>>, strobe'.err \in BOOLEAN
    PROVE  /\ Clock /\ tx' = tx /\ owed' = <<>>
           /\ \/ /\ break' = IF break = "mark" /\ rx.prev = 1 THEN "none" ELSE break
                 /\ reported' = IF break = "low" /\ (reported = TRUE \/ strobe'.err = TRUE)
                                THEN TRUE ELSE FALSE
              \/ break = "low" /\ reported /\ break' = "mark" /\ reported' = FALSE
<1>1. Clock
  BY Every
<1>2. CASE Continue
  <2>1. /\ Clock /\ tx' = tx /\ owed' = <<>>
        /\ break' = IF break = "mark" /\ rx.prev = 1 THEN "none" ELSE break
    BY <1>1, <1>2 DEF Continue, Received, TxStep
  <2>2. reported' = (break = "low" /\ (reported \/ strobe'.err))
    BY <1>2 DEF Continue
  <2>3. reported' = IF break = "low" /\ (reported = TRUE \/ strobe'.err = TRUE)
                    THEN TRUE ELSE FALSE
    BY <2>2, Zenon
  <2> QED
    BY <2>1, <2>3
<1>3. CASE Release
  BY <1>1, <1>3 DEF Release
<1> QED
  BY <1>2, <1>3 DEF Next, Send, PullLow

LEMMA FallingStep ==
    ASSUME TypeOK, Falling, Next
    PROVE  Stage' /\ Outcome
<1>0. /\ Clock /\ break = "low" /\ reported = FALSE /\ owed = <<>> /\ Ready
      /\ synced = 0 => sync1 = 0
      /\ rx.state = "RxIdle" /\ rx.prev = 1
  BY Every DEF Falling, Broken, TypeOK
<1>1. /\ strobe' = Quiet
      /\ \/ ~RxTick /\ rx' = rx
         \/ /\ RxTick /\ rx.prev = 1 /\ synced = 0
            /\ rx'.state = "RxStart" /\ rx'.cnt = 0 /\ noisy' = FALSE
         \/ /\ RxTick /\ ~(rx.prev = 1 /\ synced = 0)
            /\ rx'.state = "RxIdle" /\ rx'.prev = synced
  BY <1>0, RxIdles
<1>2. sync1' = 0 /\ synced' = sync1
  BY <1>0 DEF Clock, Pin
<1>3. Outcome
  BY <1>0, <1>1, QuietIs DEF Outcome
<1>4. Broken' /\ reported' = FALSE
  BY <1>0, <1>1, QuietIs, BrokenStep DEF Broken, Ready
<1>5. CASE rx'.state = "RxStart" /\ rx'.cnt = 0 /\ noisy' = FALSE /\ synced = 0
  <2>1. Voted(rx', noisy', 0)
    BY <1>5 DEF Voted, Right, Nearly
  <2>2. Low'
    BY <1>0, <1>2, <1>4, <1>5, <2>1 DEF Low
  <2> QED
    BY <1>3, <2>2 DEF Stage
<1>6. CASE rx'.state = "RxIdle" /\ rx'.prev = 1
  BY <1>2, <1>3, <1>4, <1>6 DEF Falling, Stage
<1> QED
  BY <1>0, <1>1, <1>5, <1>6 DEF TypeOK, Bit

LEMMA LowStep ==
    ASSUME TypeOK, Low, Next
    PROVE  Stage' /\ Outcome
<1>0. /\ Clock /\ break = "low" /\ reported = FALSE /\ owed = <<>> /\ Ready
      /\ sync1 = 0 /\ synced = 0 /\ rx.state # "RxIdle" /\ Voted(rx, noisy, 0)
  BY Every DEF Low, Broken, TypeOK
<1>1. 0 \in Bit /\ 0 # 1
  BY DEF Bit
<1>2. RxMove(0)
  BY <1>0, <1>1, RxMoves
<1>3. sync1' = 0 /\ synced' = 0
  BY <1>0 DEF Clock, Pin
<1>4. ASSUME strobe' = Quiet, rx'.state # "RxIdle", Voted(rx', noisy', 0)
      PROVE  Stage' /\ Outcome
  <2>1. Broken' /\ reported' = FALSE
    BY <1>0, <1>4, QuietIs, BrokenStep DEF Broken, Ready
  <2>2. Outcome
    BY <1>0, <1>4, QuietIs DEF Outcome
  <2> QED
    BY <1>3, <1>4, <2>1, <2>2 DEF Low, Stage
<1>5. ASSUME strobe' = Quiet, rx'.state # "RxIdle", rx'.cnt = 0, noisy' = FALSE
      PROVE  Stage' /\ Outcome
  <2>1. Voted(rx', noisy', 0)
    BY <1>5 DEF Voted, Right, Nearly
  <2> QED
    BY <1>4, <1>5, <2>1
<1>6. ASSUME rx'.state = "RxIdle", rx'.prev = synced, strobe'.byte = <<>>, strobe'.err = TRUE
      PROVE  Stage' /\ Outcome
  <2>1. Broken' /\ reported' = TRUE
    BY <1>0, <1>6, BrokenStep DEF Broken, Ready
  <2>2. Outcome
    BY <1>0, <1>6 DEF Outcome
  <2> QED
    BY <1>0, <1>3, <1>6, <2>1, <2>2 DEF Told, Stage
<1> QED
  <2>1. \/ strobe' = Quiet /\ rx'.state = rx.state /\ Voted(rx', noisy', 0)
        \/ strobe' = Quiet /\ rx'.state \in {"RxData", "RxStop"} /\ rx'.cnt = 0 /\ noisy' = FALSE
        \/ /\ rx'.state = "RxIdle" /\ rx'.prev = synced
           /\ strobe'.byte = <<>> /\ strobe'.err = (0 # 1)
    BY <1>1, <1>2, Zenon DEF RxMove
  <2>2. (0 # 1) = TRUE
    OBVIOUS
  <2>3. CASE strobe' = Quiet /\ rx'.state = rx.state /\ Voted(rx', noisy', 0)
    BY <1>0, <1>4, <2>3
  <2>4. CASE strobe' = Quiet /\ rx'.state \in {"RxData", "RxStop"} /\ rx'.cnt = 0 /\ noisy' = FALSE
    BY <1>5, <2>4
  <2>5. CASE /\ rx'.state = "RxIdle" /\ rx'.prev = synced
             /\ strobe'.byte = <<>> /\ strobe'.err = (0 # 1)
    BY <1>6, <2>2, <2>5
  <2> QED
    BY <2>1, <2>3, <2>4, <2>5

LEMMA ToldStep ==
    ASSUME TypeOK, Told, Next
    PROVE  Stage' /\ Outcome
<1>0. /\ Clock /\ break = "low" /\ reported = TRUE /\ owed = <<>> /\ Ready
      /\ sync1 = 0 /\ synced = 0 /\ rx.state = "RxIdle" /\ rx.prev = 0
  BY Every DEF Told, Broken, TypeOK
<1>1. strobe' = Quiet /\ rx'.state = "RxIdle" /\ rx'.prev = 0
  BY <1>0, RxIdles
<1>2. sync1' = 0 /\ synced' = 0
  BY <1>0 DEF Clock, Pin
<1>3. Outcome
  BY <1>0, <1>1, QuietIs DEF Outcome
<1>4. /\ Ready' /\ owed' = <<>>
      /\ \/ break' = "low" /\ reported' = TRUE
         \/ break' = "mark" /\ reported' = FALSE
  BY <1>0, <1>1, QuietIs, BrokenStep DEF Ready
<1> QED
  BY <1>1, <1>2, <1>3, <1>4 DEF Told, Rising, Broken, Stage

LEMMA RisingStep ==
    ASSUME TypeOK, Rising, Next
    PROVE  Stage' /\ Outcome
<1>0. /\ Clock /\ break = "mark" /\ reported = FALSE /\ owed = <<>> /\ Ready
      /\ synced = 1 => sync1 = 1
      /\ rx.prev = 1 => synced = 1
      /\ rx.state = "RxIdle"
  BY Every DEF Rising, TypeOK
<1>1. strobe' = Quiet /\ rx'.state = "RxIdle" /\ rx'.prev \in {rx.prev, synced}
  <2>1. /\ strobe' = Quiet
        /\ \/ ~RxTick /\ rx' = rx
           \/ RxTick /\ rx.prev = 1 /\ synced = 0
           \/ RxTick /\ rx'.state = "RxIdle" /\ rx'.prev = synced
    BY <1>0, RxIdles
  <2> QED
    BY <1>0, <2>1
<1>2. sync1' = 1 /\ synced' = sync1
  BY <1>0 DEF Clock, Pin, Line, Ready
<1>3. Outcome
  BY <1>0, <1>1, QuietIs DEF Outcome
<1>4. /\ Ready' /\ owed' = <<>> /\ reported' = FALSE
      /\ break' = IF rx.prev = 1 THEN "none" ELSE "mark"
  BY <1>0, <1>1, QuietIs, BrokenStep DEF Ready
<1>5. CASE rx.prev = 1
  BY <1>0, <1>1, <1>2, <1>3, <1>4, <1>5 DEF Rest, Quiescent, Stage
<1>6. CASE rx.prev # 1
  BY <1>0, <1>1, <1>2, <1>3, <1>4, <1>6 DEF Rising, Stage
<1> QED
  BY <1>5, <1>6

\* A byte the receiver has just begun to sample has no votes yet.
LEMMA NoVotes ==
    ASSUME rx'.cnt = 0, noisy' = FALSE, NEW e
    PROVE  Voted(rx', noisy', e)
BY DEF Voted, Right, Nearly

\* Before the stop bit is decided the receiver stays in the frame, a tick at a time.
LEMMA RxFrame ==
    ASSUME TypeOK, rx.state # "RxIdle", NEW b \in Bytes, Copied(b), RxMove(Level(b, RxSlot)),
           ~(RxTick /\ rx.cnt = 9 /\ rx.state = "RxStop")
    PROVE  /\ rx'.state # "RxIdle" /\ strobe' = Quiet /\ RxPlace' = RxPlace + Tick(RxTick)
           /\ Voted(rx', noisy', Level(b, RxSlot)') /\ Copied(b)'
<1>0. /\ DataBits \in Nat \ {0} /\ rx.cnt \in 0..15 /\ rx.bit \in 1..DataBits
      /\ rx.shift \in [1..DataBits -> Bit] /\ RxSlot \in 0..DataBits + 1
  BY Places DEF TypeOK
<1> DEFINE e == Level(b, RxSlot)
<1>1. CASE ~RxTick /\ rx' = rx /\ strobe' = Quiet /\ Voted(rx', noisy', e)
  <2>1. RxSlot' = RxSlot /\ RxPlace' = RxPlace /\ RxPlace \in Nat
    BY <1>1, Places DEF RxSlot, RxPlace
  <2>2. Level(b, RxSlot)' = e /\ Copied(b)'
    BY <1>1, <2>1 DEF Level, Copied
  <2> QED
    BY <1>1, <2>1, <2>2 DEF Tick
<1>2. CASE /\ RxTick /\ strobe' = Quiet /\ rx'.state = rx.state /\ rx'.bit = rx.bit
           /\ rx'.shift = rx.shift /\ rx'.cnt = rx.cnt + 1 /\ Voted(rx', noisy', e)
  <2>1. RxSlot' = RxSlot
    BY <1>2 DEF RxSlot
  <2>2. RxPlace' = RxPlace + 1
    BY <1>0, <1>2, <2>1 DEF RxPlace
  <2>3. Level(b, RxSlot)' = e /\ Copied(b)'
    BY <1>2, <2>1 DEF Level, Copied
  <2> QED
    BY <1>2, <2>2, <2>3 DEF Tick
<1>3. CASE /\ RxTick /\ strobe' = Quiet /\ rx.cnt = 15 /\ rx'.cnt = 0 /\ noisy' = FALSE
           /\ rx.state = "RxStart" /\ rx'.state = "RxData" /\ rx'.bit = 1
           /\ rx'.shift = rx.shift
  <2>1. RxSlot = 0 /\ RxSlot' = 1
    BY <1>3 DEF RxSlot
  <2>2. RxPlace' = RxPlace + 1
    BY <1>3, <2>1 DEF RxPlace
  <2>3. Copied(b)'
    BY <2>1 DEF Copied
  <2> QED
    BY <1>3, <2>2, <2>3, NoVotes DEF Tick
<1>4. CASE /\ RxTick /\ strobe' = Quiet /\ rx.cnt = 15 /\ rx'.cnt = 0 /\ noisy' = FALSE
           /\ rx.state = "RxData" /\ rx'.shift = [rx.shift EXCEPT ![rx.bit] = e]
           /\ IF rx.bit = DataBits THEN rx'.state = "RxStop"
              ELSE rx'.state = "RxData" /\ rx'.bit = rx.bit + 1
  <2>1. RxSlot = rx.bit /\ RxSlot' = rx.bit + 1 /\ rx'.state # "RxIdle"
    BY <1>0, <1>4 DEF RxSlot
  <2>2. RxPlace' = RxPlace + 1
    BY <1>0, <1>4, <2>1 DEF RxPlace
  <2>3. e = b[rx.bit]
    BY <1>0, <2>1 DEF Level
  <2>4. Copied(b)'
    <3> SUFFICES ASSUME NEW j \in 1..DataBits, j < rx.bit + 1
                 PROVE  rx'.shift[j] = b[j]
      BY <2>1 DEF Copied
    <3>1. CASE j = rx.bit
      BY <1>0, <1>4, <2>3, <3>1
    <3>2. CASE j # rx.bit
      <4>1. j < RxSlot
        BY <1>0, <2>1, <3>2
      <4> QED
        BY <1>0, <1>4, <3>2, <4>1 DEF Copied
    <3> QED
      BY <3>1, <3>2
  <2> QED
    BY <1>4, <2>1, <2>2, <2>4, NoVotes DEF Tick
<1> HIDE DEF e
<1>5. RxMove(e)
  BY DEF e
<1> QED
  BY <1>1, <1>2, <1>3, <1>4, <1>5, Zenon DEF RxMove

\* While the transmitter is in a frame no byte is taken and no break begins.
LEMMA OnlyContinue ==
    ASSUME Next, break = "none", ~Ready
    PROVE  /\ Clock /\ TxStep(Ticks(txAcc, rate)) /\ owed' = Received
           /\ break' = "none" /\ reported' = FALSE
<1>1. Continue
  BY DEF Next, Send, Accept, PullLow, Release
<1>2. reported' = FALSE
  BY <1>1, Zenon DEF Continue
<1> QED
  BY <1>1, <1>2 DEF Continue

LEMMA AskedStep ==
    ASSUME TypeOK, OnTime, Pace, Next, NEW b \in Bytes, Asked(b)
    PROVE  Stage' /\ Pace' /\ Outcome
<1> DEFINE tick == Ticks(txAcc, rate)
<1>0. /\ break = "none" /\ ~reported /\ owed = <<b>> /\ tx.state = "TxStart" /\ Sends(b) /\ Edge
      /\ rx.state = "RxIdle" /\ rx.prev = 1 /\ ~Ready /\ tick \in BOOLEAN
  BY DEF Asked, Quiescent, Ready, Ticks
<1>1. Clock /\ TxStep(tick) /\ owed' = Received /\ break' = "none" /\ reported' = FALSE
  BY <1>0, OnlyContinue
<1> HIDE DEF tick
<1>2. tx.cnt \in 0..10 /\ DataBits \in Nat \ {0}
  BY <1>0, Places DEF OnTime
<1>3. TxPlace = tx.cnt
  BY <1>0, <1>2 DEF TxPlace, TxSlot
<1>4. ~Ready' /\ Sends(b)' /\ TxPlace' = TxPlace + Tick(tick)
  BY <1>0, <1>1, <1>2, <1>3, TypeParts, TxFrame
<1>5. tx'.state = "TxStart" /\ tx'.cnt \in {tx.cnt, tx.cnt + 1}
  BY <1>0, <1>1, <1>2, TypeParts, TxMoves
<1>6. sync1' = 0 /\ synced' = sync1
  BY <1>0, <1>1 DEF Clock, Pin, Line
<1>7. Edge'
  BY <1>0, <1>2, <1>5, <1>6 DEF Edge
<1>8. /\ strobe' = Quiet
      /\ \/ ~RxTick /\ rx' = rx
         \/ /\ RxTick /\ rx.prev = 1 /\ synced = 0
            /\ rx'.state = "RxStart" /\ rx'.cnt = 0 /\ noisy' = FALSE
         \/ /\ RxTick /\ ~(rx.prev = 1 /\ synced = 0)
            /\ rx'.state = "RxIdle" /\ rx'.prev = synced
  BY <1>0, <1>1, RxIdles
<1>9. Outcome
  BY <1>0, <1>8, QuietIs DEF Outcome
<1>10. owed' = <<b>>
  BY <1>0, <1>1, <1>8, QuietIs DEF Received
<1>p. Pace'
  <2>0. /\ TxPlace' = tx'.cnt /\ tx'.cnt = tx.cnt + Tick(tick) /\ TxPlace \in Nat
        /\ Modulus \in Nat \ {0}
    BY <1>2, <1>3, <1>4, <1>5, Places, UartAssumption DEF TxPlace, TxSlot
  <2>1. /\ rate' = rate /\ rate \in 1..Modulus
        /\ txAcc \in 0..(Modulus - 1) /\ txAcc' \in 0..(Modulus - 1)
        /\ rxAcc' \in 0..(Modulus - 1)
        /\ Modulus * Tick(tick) + txAcc' = txAcc + rate
    BY <1>1, Generators DEF tick, TypeOK
  <2>2. CASE sync1 = 1 /\ synced = 1 /\ tx.cnt = 0
    <3>1. rx'.state = "RxIdle" /\ sync1' = 0 /\ synced' = 1
      BY <1>0, <1>6, <1>8, <2>2
    <3>2. tx'.cnt = Tick(tick)
      BY <2>0, <2>2 DEF Tick
    <3>3. Modulus * tx'.cnt + txAcc' \in rate'..(Modulus + rate' - 1)
      <4>1. Modulus * tx'.cnt + txAcc' = txAcc + rate
        BY <2>1, <3>2, Zenon
      <4>2. txAcc + rate \in rate..(Modulus + rate - 1)
        BY <2>0, <2>1
      <4> QED
        BY <2>1, <4>1, <4>2, Zenon
    <3> QED
      BY <3>1, <3>3 DEF Pace
  <2>3. CASE /\ sync1 = 0 /\ synced = 1
             /\ Modulus * tx.cnt + txAcc \in rate..(Modulus + rate - 1)
    <3>1. rx'.state = "RxIdle" /\ synced' = 0 /\ RxGone' = 0
      BY <1>0, <1>6, <1>8, <2>3 DEF RxGone
    <3> DEFINE y == Modulus * tx'.cnt + txAcc'
    <3>2. y \in (2 * rate)..(Modulus + 2 * rate - 1)
      <4>1. Modulus * tx'.cnt = Modulus * tx.cnt + Modulus * Tick(tick)
        BY <1>2, <2>0 DEF Tick
      <4> DEFINE mc == Modulus * tx.cnt
                 mt == Modulus * Tick(tick)
      <4>2. mc \in Int /\ mt \in Int /\ y = mc + mt + txAcc'
        BY <1>2, <2>0, <2>1, <4>1 DEF Tick
      <4>3. mc + txAcc \in rate..(Modulus + rate - 1) /\ mt + txAcc' = txAcc + rate
        BY <2>1, <2>3
      <4>4. /\ Modulus \in Int /\ rate \in Int /\ txAcc \in Int /\ txAcc' \in Int
        BY <2>0, <2>1
      <4> HIDE DEF y, mc, mt
      <4>5. \A v, w, k, l, m, r \in Int :
               v + k \in r..(m + r - 1) /\ w + l = k + r
                 => v + w + l \in (2 * r)..(m + 2 * r - 1)
        OBVIOUS
      <4>6. mc + mt + txAcc' \in (2 * rate)..(Modulus + 2 * rate - 1)
        BY <4>2, <4>3, <4>4, <4>5
      <4> QED
        BY <4>2, <4>6, Zenon
    <3>3. /\ Phase(TxPlace', txAcc', y, 0, rate')
          /\ Phase(RxGone', rxAcc', rxAcc', 0, Increment)
      <4>1. 0 * rate' = 0 /\ 0 * Increment = 0 /\ Modulus * 0 = 0 /\ y \in Int
        BY <2>0, <2>1, <3>2, UartAssumption
      <4> HIDE DEF y
      <4>2. Modulus * TxPlace' + txAcc' = y
        BY <2>0 DEF y
      <4> QED
        BY <2>1, <3>1, <4>1, <4>2 DEF Phase
    <3> HIDE DEF y
    <3>4. Since'
      BY <2>1, <3>2, <3>3 DEF Since, Phase
    <3> QED
      BY <3>1, <3>4 DEF Pace
  <2>4. CASE synced = 0 /\ Since
    <3>1. RxGone = 0 /\ sync1 = 0
      BY <1>0, <2>4 DEF RxGone, Edge
    <3>2. RxGone' = Tick(RxTick)
      BY <1>0, <1>8, <2>4 DEF RxGone, RxPlace, RxSlot, Tick
    <3>3. Since'
      BY <1>1, <1>4, <2>0, <2>4, <3>1, <3>2, SinceStep DEF tick, Tick
    <3> QED
      BY <1>6, <3>1, <3>3 DEF Pace
  <2> QED
    BY <1>0, <2>2, <2>3, <2>4 DEF Pace
<1>11. CASE rx'.state = "RxIdle" /\ rx'.prev = 1
  <2>1. Asked(b)'
    BY <1>1, <1>4, <1>5, <1>7, <1>10, <1>11 DEF Asked, Quiescent
  <2> QED
    BY <1>9, <1>p, <2>1 DEF Stage
<1>12. CASE synced = 0 /\ rx'.state = "RxStart" /\ rx'.cnt = 0 /\ noisy' = FALSE
  <2>1. Synced'
    <3>1. Line' = 0 /\ sync1 = 0
      BY <1>0, <1>5, <1>12 DEF Line, Edge
    <3> QED
      BY <1>6, <3>1 DEF Synced
  <2>2. Copied(b)'
    BY <1>12 DEF Copied, RxSlot
  <2>3. Voted(rx', noisy', Level(b, RxSlot)')
    BY <1>12, NoVotes
  <2>4. Framed(b)'
    BY <1>1, <1>4, <1>10, <1>12, <2>1, <2>2, <2>3 DEF Framed, Quiescent
  <2> QED
    BY <1>9, <1>p, <2>4 DEF Stage
<1> QED
  BY <1>0, <1>8, <1>11, <1>12 DEF TypeOK, Bit

LEMMA FramedStep ==
    ASSUME TypeOK, OnTime, Pace, Next, NEW b \in Bytes, Framed(b)
    PROVE  Stage' /\ Pace' /\ Outcome
<1> DEFINE tick == Ticks(txAcc, rate)
           e == Level(b, RxSlot)
           Stop == RxTick /\ rx.cnt = 9 /\ rx.state = "RxStop"
           last == 16 * (DataBits + 1) + 15
<1>0. /\ break = "none" /\ ~reported /\ owed = <<b>> /\ ~Ready /\ Sends(b) /\ Synced
      /\ rx.state # "RxIdle" /\ Voted(rx, noisy, e) /\ Copied(b) /\ tick \in BOOLEAN
  BY DEF Framed, Quiescent, Ticks
<1>1. Clock /\ TxStep(tick) /\ owed' = Received /\ break' = "none" /\ reported' = FALSE
  BY <1>0, OnlyContinue
<1>2. /\ DataBits \in Nat \ {0} /\ tx.cnt \in 0..15 /\ rx.cnt \in 0..15
      /\ TxSlot \in 0..DataBits + 1 /\ TxPlace \in Nat
      /\ TxSlot = DataBits + 1 <=> tx.state = "TxStop"
      /\ RxSlot \in 0..DataBits + 1 /\ RxPlace \in Nat
      /\ RxSlot = DataBits + 1 <=> rx.state = "RxStop"
      /\ rx.state = "RxStop" => rx.cnt <= 9
      /\ RxPlace <= 16 * (DataBits + 1) + 9
  BY <1>0, Places
<1>3. Lead \in -5..6 /\ Lead + Tick(tick) - Tick(RxTick) \in -5..6
  BY <1>0 DEF OnTime, NextLead
<1>4. TxPlace = 16 * TxSlot + tx.cnt /\ RxPlace = 16 * RxSlot + rx.cnt /\ Lead = TxPlace - RxPlace
  BY DEF TxPlace, RxPlace, Lead
<1>5. Line = Level(b, TxSlot)
  BY <1>0, TypeParts, LineIs
<1>6. rx.cnt \in 7..9 => TxSlot = RxSlot /\ tx.cnt >= 2 /\ synced = e
  <2>1. rx.cnt \in 7..9 => TxSlot = RxSlot /\ tx.cnt >= 2
    BY <1>2, <1>3, <1>4
  <2> QED
    BY <1>0, <1>5, <2>1 DEF Synced
<1>7. e \in Bit
  BY <1>2, UartAssumption DEF Level, Bit
<1>8. rx.state = "RxStart" => e = 0
  BY DEF Level, RxSlot
<1>9. RxMove(e)
  BY <1>0, <1>1, <1>6, <1>7, <1>8, RxMoves
<1>10. CASE ~Stop
  <2>1. /\ rx'.state # "RxIdle" /\ strobe' = Quiet
        /\ Voted(rx', noisy', Level(b, RxSlot)') /\ Copied(b)'
        /\ RxPlace' = RxPlace + Tick(RxTick)
    BY <1>0, <1>9, <1>10, RxFrame
  <2>2. tick => TxPlace < last
    <3> SUFFICES ASSUME tick, TxPlace >= last PROVE FALSE
      BY <1>2
    <3>1. Lead >= 6
      BY <1>2, <1>4
    <3>2. Lead = 6 /\ RxPlace = 16 * (DataBits + 1) + 9 /\ RxTick
      BY <1>2, <1>3, <1>4, <3>1 DEF Tick
    <3>3. rx.state = "RxStop" /\ rx.cnt = 9
      BY <1>2, <1>4, <3>2
    <3> QED
      BY <1>10, <3>2, <3>3
  <2>3. ~Ready' /\ Sends(b)' /\ TxPlace' = TxPlace + Tick(tick)
    BY <1>0, <1>1, <2>2, TypeParts, TxFrame
  <2>4. Synced'
    BY <1>0, <1>1, <2>2, SyncedStep
  <2>5. owed' = <<b>>
    BY <1>0, <1>1, <2>1, QuietIs DEF Received
  <2>6. Framed(b)'
    BY <1>1, <2>1, <2>3, <2>4, <2>5 DEF Framed, Quiescent
  <2>7. Outcome
    BY <1>0, <2>1, QuietIs DEF Outcome
  <2>8. Pace'
    <3>1. Since
      BY <1>0 DEF Pace
    <3>2. RxGone \in Nat /\ RxGone' = RxGone + Tick(RxTick)
      BY <1>0, <1>2, <2>1 DEF RxGone, Tick
    <3>3. Since'
      BY <1>1, <1>2, <2>3, <3>1, <3>2, SinceStep
    <3> QED
      BY <2>1, <3>3 DEF Pace
  <2> QED
    BY <2>6, <2>7, <2>8 DEF Stage
<1>11. CASE Stop
  <2>1. RxSlot = DataBits + 1 /\ e = 1 /\ TxSlot = DataBits + 1 /\ tx.cnt >= 4
    BY <1>2, <1>3, <1>4, <1>6, <1>11 DEF Level
  <2>2. /\ rx'.state = "RxIdle" /\ rx'.prev = synced
        /\ strobe'.byte = <<rx.shift>> /\ strobe'.err = FALSE
    <3> HIDE DEF e
    <3>1. /\ rx'.state = "RxIdle" /\ rx'.prev = synced
          /\ strobe'.byte = (IF e = 1 THEN <<rx.shift>> ELSE <<>>)
          /\ strobe'.err = (e # 1)
      <4>1. RxTick /\ rx.cnt = 9 /\ rx.state = "RxStop"
        BY <1>11
      <4>2. rx.cnt # 15 /\ "RxStop" # "RxStart" /\ "RxStop" # "RxData" /\ ~(rx.cnt < 9)
        BY <4>1
      <4> QED
        BY <1>9, <4>1, <4>2, Zenon DEF RxMove
    <3>2. (e # 1) = FALSE
      BY <2>1
    <3> QED
      BY <2>1, <3>1, <3>2
  <2>3. rx.shift = b
    <3>1. rx.shift \in [1..DataBits -> Bit] /\ b \in [1..DataBits -> Bit]
      BY UartAssumption DEF TypeOK, Bit
    <3>2. \A j \in 1..DataBits : rx.shift[j] = b[j]
      BY <1>0, <1>2, <2>1 DEF Copied
    <3>3. /\ rx.shift = [j \in 1..DataBits |-> rx.shift[j]]
          /\ b = [j \in 1..DataBits |-> b[j]]
      BY <3>1
    <3> QED
      BY <3>2, <3>3, Zenon
  <2>4. owed' = <<>> /\ Outcome
    <3>1. strobe'.byte # <<>> /\ strobe'.byte[1] = b
      BY <2>2, <2>3
    <3> QED
      BY <1>0, <1>1, <2>2, <3>1 DEF Received, Outcome
  <2>5. sync1' = 1 /\ synced' = 1 /\ synced = 1
    BY <1>0, <1>1, <1>2, <1>5, <1>6, <1>11, <2>1 DEF Clock, Pin, Synced, Level
  <2>6. Ready' \/ (tx'.state = "TxStop" /\ tx'.cnt >= 2)
    BY <1>0, <1>1, <1>2, <2>1, TypeParts, TxMoves DEF Ready
  <2>7. Rest'
    BY <1>1, <2>2, <2>4, <2>5, <2>6 DEF Rest, Quiescent
  <2> QED
    BY <2>4, <2>7 DEF Stage, Pace
<1> QED
  BY <1>10, <1>11

\* A clock leads from stage to stage.
LEMMA StageStep ==
    ASSUME Tolerated, TypeOK, Stage, Pace, Next
    PROVE  Stage' /\ Pace' /\ Outcome
<1>1. OnTime
  BY OnTimeHolds
<1>2. ASSUME break # "none", owed = <<>>
      PROVE  Pace'
  BY <1>2 DEF Next, Send, Continue, PullLow, Release, Received, Pace
<1>3. CASE Rest
  BY <1>3, RestStep
<1>4. CASE Falling
  BY <1>2, <1>4, FallingStep DEF Falling, Broken
<1>5. CASE Low
  BY <1>2, <1>5, LowStep DEF Low, Broken
<1>6. CASE Told
  BY <1>2, <1>6, ToldStep DEF Told, Broken
<1>7. CASE Rising
  BY <1>2, <1>7, RisingStep DEF Rising
<1>8. CASE \E b \in Bytes : Asked(b) \/ Framed(b)
  BY <1>1, <1>8, AskedStep, FramedStep
<1> QED
  BY <1>3, <1>4, <1>5, <1>6, <1>7, <1>8 DEF Stage

-----------------------------------------------------------------------------
(* The invariant, and what follows from it.                                *)

IInv == TypeOK /\ Stage /\ Pace

LEMMA IInvAlways == Tolerated => (Spec => []IInv)
<1> SUFFICES ASSUME Tolerated PROVE Spec => []IInv
  OBVIOUS
<1>1. Init => Stage /\ Pace
  BY DEF Init, Stage, Pace, Rest, Quiescent, Ready
<1>2. TypeOK /\ TypeOK' /\ Stage /\ Pace /\ [Next]_vars => Stage' /\ Pace'
  <2>1. CASE UNCHANGED vars
    <3> SUFFICES ASSUME Stage, Pace PROVE Stage' /\ Pace'
      BY <2>1, StageStep
    <3>0. /\ tx' = tx /\ rx' = rx /\ sync1' = sync1 /\ synced' = synced /\ break' = break
          /\ noisy' = noisy /\ owed' = owed /\ reported' = reported
      BY <2>1 DEF vars, wire, history
    <3>a. Ready' = Ready /\ Line' = Line /\ RxSlot' = RxSlot /\ Quiescent' = Quiescent
          /\ Broken' = Broken /\ Edge' = Edge /\ Synced' = Synced
      BY <3>0 DEF Ready, Line, RxSlot, Quiescent, Broken, Edge, Synced
    <3>b. /\ Rest' = Rest /\ Falling' = Falling /\ Low' = Low /\ Told' = Told
          /\ Rising' = Rising
      BY <3>0, <3>a DEF Rest, Falling, Low, Told, Rising
    <3>c. ASSUME NEW b \in Bytes
          PROVE  Asked(b)' = Asked(b) /\ Framed(b)' = Framed(b)
      BY <3>0, <3>a DEF Asked, Framed, Sends, Level, Copied
    <3>1. Stage'
      BY <3>b, <3>c DEF Stage
    <3>2. Pace'
      BY <2>1 DEF vars, wire, history, Pace, Since, RxGone, RxPlace, RxSlot, TxPlace, TxSlot
    <3> QED
      BY <3>1, <3>2
  <2> QED
    BY <2>1, StageStep
<1> QED
  BY <1>1, <1>2, TypeCorrect, PTL DEF Spec, IInv

\* The receiver is as fast as the transmitter: the loopback is within the tolerance.
LEMMA LoopbackTolerated == SenderRates = {Increment} => Tolerated
<1> SUFFICES ASSUME SenderRates = {Increment}, NEW r \in SenderRates
             PROVE  LET frame == 16 * (DataBits + 1) + 12
                    IN  /\ (Modulus * frame) * (r - Increment) <= Increment * (4 * Modulus - 2 * r)
                        /\ (Modulus * frame) * (Increment - r) <= Increment * (5 * Modulus + 2 * r)
  BY DEF Tolerated
<1> DEFINE frame == 16 * (DataBits + 1) + 12
<1>1. r - Increment = 0 /\ Increment - r = 0 /\ Modulus * frame \in Nat
  BY UartAssumption
<1>2. (Modulus * frame) * 0 = 0
  BY <1>1
<1>3. 4 * Modulus - 2 * r \in Nat /\ 5 * Modulus + 2 * r \in Nat /\ Increment \in Nat
  BY UartAssumption
<1>4. Increment * (4 * Modulus - 2 * r) \in Nat /\ Increment * (5 * Modulus + 2 * r) \in Nat
  BY <1>3
<1> QED
  BY <1>1, <1>2, <1>4

LEMMA OutcomeAlways == Tolerated => (Spec => [][Outcome]_vars)
<1> SUFFICES ASSUME Tolerated PROVE Spec => [][Outcome]_vars
  OBVIOUS
<1>1. IInv /\ [Next]_vars => [Outcome]_vars
  BY StageStep DEF IInv
<1> QED
  BY <1>1, IInvAlways, PTL DEF Spec

\* For every pair of clocks within the tolerance, every set of bytes and every glitch of one
\* tick in a data bit: what the receiver hands over is the byte sent (rxStep, txStep).
THEOREM BytesIntact == Tolerated => (Spec => BytesArriveIntact)
<1> SUFFICES ASSUME Tolerated PROVE Spec => BytesArriveIntact
  OBVIOUS
<1>1. [Outcome]_vars => [strobe'.byte # <<>> => owed # <<>> /\ strobe'.byte[1] = owed[1]]_vars
  BY DEF Outcome
<1> QED
  BY <1>1, OutcomeAlways, PTL DEF BytesArriveIntact

\* A framing error means a break and is reported once for each (rxStep, RxIdle and RxStop).
THEOREM BreaksReported == Tolerated => (Spec => BreakReportedOnce)
<1> SUFFICES ASSUME Tolerated PROVE Spec => BreakReportedOnce
  OBVIOUS
<1>1. [Outcome]_vars => [/\ strobe'.err => break = "low" /\ ~reported
                         /\ reported => rx'.state = "RxIdle"]_vars
  BY DEF Outcome
<1> QED
  BY <1>1, OutcomeAlways, PTL DEF BreakReportedOnce

\* The receiver is through with a frame before the transmitter can begin the next one.
THEOREM OneFrameInFlight == Tolerated => (Spec => []OneInFlight)
<1> SUFFICES ASSUME Tolerated PROVE Spec => []OneInFlight
  OBVIOUS
<1>1. IInv => OneInFlight
  BY DEF IInv, Stage, OneInFlight, Rest, Falling, Low, Told, Rising, Broken, Asked, Framed, Ready
<1> QED
  BY <1>1, IInvAlways, PTL

=============================================================================
