------------------------------ MODULE MCLoader ------------------------------
(***************************************************************************)
(* The loader with a line that brings whole, damaged and truncated frames  *)
(* in any order.  A frame whose front came while the loader was running or *)
(* draining, and was not looked at, is one of Frames without that front.   *)
(* Bytes have two bits, words two bytes, and the CRC is the one with the   *)
(* polynomial x^2 + x + 1.                                                 *)
(***************************************************************************)
EXTENDS LoaderProperties

CONSTANTS Frames,     \* what the line may bring, a frame at a time
          MaxSeen     \* most bytes between two delimiters

VARIABLE line         \* the rest of the frame on the line

CrcTable == <<0, 3, 1, 2>>
BitXor == <<<<0, 1, 2, 3>>, <<1, 0, 3, 2>>, <<2, 3, 0, 1>>, <<3, 2, 1, 0>>>>
Crc2 == [p \in (0..3) \X (0..3) |-> CrcTable[BitXor[p[1]+1][p[2]+1] + 1]]

Store == [a \in 0..InstrSlots - 1 |-> <<3, 3>>]

\* Drains of one to three words before the terminator, of a terminator that
\* gives the CRC each value, and of the MARK on an exactly full ring, which
\* leaves ringPtr = 0.
RingWith(last) == [a \in 0..3 |-> CASE a = 0 -> <<1, 0>> [] a = 1 -> <<2, 3>>
                                    [] a = 2 -> <<0, 0>> [] a = 3 -> last]
MCRuns == [ring : {RingWith(<<3, 1>>)}, ringPtr : 0..3]
          \cup [ring : {RingWith(<<3, b>>) : b \in 0..3}, ringPtr : {2}]

-----------------------------------------------------------------------------
One == <<1, 2>>
Two == <<0, 3>>
Three == <<2, 0>>

GoodFrames ==
    {EncodeControl(LoadMsg(ws)) : ws \in {<<>>, <<One>>, <<Two, One>>,
                                          <<Three, One, Two>>}}
    \cup {EncodeControl(TriggerMsg)}
OddFrames == {<<0>>, FrameEncode(<<>>), FrameEncode(<<TRIGGER, 2>>),
              FrameEncode(<<TRIGGER, 1, 2>>), FrameEncode(<<LOAD, 1, 2, 3>>),
              FrameEncode(<<DRAIN, 1, 2>>)}

\* One byte lost or changed, and the front lost.
Hurt == {EncodeControl(LoadMsg(<<Two, One>>)), EncodeControl(TriggerMsg)}
OneByteLost == UNION {{RemoveAt(f, i) : i \in 1..Len(f)} : f \in Hurt}
OneByteChanged == UNION {{ReplaceAt(f, i, b) : i \in 1..Len(f), b \in {0, 1, 2}} : f \in Hurt}
FrontLost == UNION {{SubSeq(f, i, Len(f)) : i \in 2..Len(f)} : f \in Hurt}

MCFrames == GoodFrames \cup OddFrames \cup OneByteLost \cup OneByteChanged
            \cup FrontLost

-----------------------------------------------------------------------------
Start == Init /\ line = <<>>

Arrive ==
    /\ phase = "RxControl" /\ line = <<>>
    /\ \E f \in Frames : (Len(seen) + Len(f) <= MaxSeen \/ f = <<0>>) /\ line' = f
    /\ UNCHANGED vars

Deliver ==
    /\ line # <<>> /\ line' = Tail(line)
    /\ \/ Receive(Head(line))
       \/ Head(line) = 0 /\ Delimiter

Inside == (EngineHalts \/ Cycle) /\ UNCHANGED line

Behaviour == Start /\ [][Arrive \/ Deliver \/ Inside]_<<vars, line>>

FairBehaviour == Behaviour /\ Progress

=============================================================================
