------------------------------- MODULE MCUart -------------------------------
(* A few bytes: no edge, one edge, an edge at every bit. *)
EXTENDS Uart

Zeros == [i \in 1..DataBits |-> 0]
Ones == [i \in 1..DataBits |-> 1]
Stripes == [i \in 1..DataBits |-> i % 2]
Halves == [i \in 1..DataBits |-> IF 2 * i > DataBits THEN 1 ELSE 0]

\* What an order of bits or a wrong bit shows in.
Uneven == {Stripes, Halves}

\* What drift hurts most: the latest and the earliest first edge.
LongRuns == {Zeros, Ones}

OwnRate == {Increment}
DriftingRates == {Increment - 1, Increment + 1}

\* The instances are within what the theorems of UartProofs ask for.
ASSUME ToleranceAssumption == Tolerated
=============================================================================
