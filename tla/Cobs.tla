-------------------------------- MODULE Cobs --------------------------------
(***************************************************************************)
(* Consistent Overhead Byte Stuffing, four times over: the pure encoder    *)
(* and decoder of the HDL (Wire/Cobs.hs), the host's (tamal-abi cobs.rs),  *)
(* and the loader's streaming ones (Loader/Cobs.hs), one step a clock.     *)
(* A group has at most MaxGroup data bytes; the code byte of a full one,   *)
(* MaxGroup + 1, is the largest byte value (254 and 255 in the code).      *)
(*                                                                         *)
(* An optional value is a sequence of length at most one.                  *)
(***************************************************************************)
EXTENDS Integers, Sequences, SequencesExt

CONSTANT MaxGroup

ASSUME MaxGroupAssumption == MaxGroup \in Nat \ {0}

FullCode == MaxGroup + 1
WireByte == 0..FullCode

None == <<>>
Some(x) == <<x>>

-----------------------------------------------------------------------------
(* Plausible bugs, for showing that the properties notice them.            *)

FoldsZeroIntoFullGroup(acc, b) ==
    IF b = 0 THEN [out |-> acc.out \o <<Len(acc.grp) + 1>> \o acc.grp, grp |-> <<>>]
    ELSE IF Len(acc.grp) = MaxGroup
         THEN [out |-> acc.out \o <<FullCode>> \o acc.grp, grp |-> <<b>>]
         ELSE [acc EXCEPT !.grp = Append(@, b)]
HostClosesFullGroup(acc, b, isLast) ==
    LET full == Append(acc.grp, b)
    IN  IF b = 0 THEN [out |-> acc.out \o <<Len(acc.grp) + 1>> \o acc.grp
                               \o IF isLast THEN <<1>> ELSE <<>>, grp |-> <<>>]
        ELSE IF Len(full) = MaxGroup \/ isLast
        THEN [out |-> acc.out \o <<Len(full) + 1>> \o full
                      \o IF isLast /\ Len(full) = MaxGroup THEN <<1>> ELSE <<>>,
              grp |-> <<>>]
        ELSE [acc EXCEPT !.grp = full]
ZeroAfterFullGroup(d) == d.cnt = 1
ForgetsLastZero(e, in) ==
    IF Len(e.buf) = MaxGroup \/ in.byte = 0
    THEN [e EXCEPT !.mode = "Emitting", !.ix = 0,
                   !.pend = IF Len(e.buf) = MaxGroup THEN Some(in) ELSE @]
    ELSE [e EXCEPT !.mode = IF in.last THEN "Emitting" ELSE @, !.ix = 0,
                   !.buf = Append(@, in.byte), !.last = in.last]

-----------------------------------------------------------------------------
(* The pure codec of the HDL.                                              *)

Group(grp) == <<Len(grp) + 1>> \o grp

\* One byte of cobsEncode: a full group is flushed before the byte is looked
\* at, so that a zero that meets a full group closes an empty one.
EncodeByte(acc, b) ==
    LET flushed == IF Len(acc.grp) = MaxGroup
                   THEN [out |-> acc.out \o Group(acc.grp), grp |-> <<>>] ELSE acc
    IN  IF b = 0 THEN [out |-> flushed.out \o Group(flushed.grp), grp |-> <<>>]
                 ELSE [flushed EXCEPT !.grp = Append(@, b)]

\* The groups closed so far and the one that is open, after each byte.
EncodeBytes(bytes) ==
    LET acc[i \in 0..Len(bytes)] ==
            IF i = 0 THEN [out |-> <<>>, grp |-> <<>>] ELSE EncodeByte(acc[i-1], bytes[i])
    IN  acc

CobsEncode(bytes) ==
    LET end == EncodeBytes(bytes)[Len(bytes)] IN end.out \o Group(end.grp)

\* The data of the groups from position k on, if they are well formed.
GroupsFrom(bytes) ==
    LET n == Len(bytes)
        go[k \in 1..n] ==
            LET end  == k + bytes[k] - 1
                data == SubSeq(bytes, k + 1, end)
                zero == IF bytes[k] = FullCode THEN <<>> ELSE <<0>>
            IN  IF end > n THEN None
                ELSE IF end = n THEN Some(data)
                ELSE IF go[end+1] = None THEN None
                ELSE Some(data \o zero \o go[end+1][1])
    IN  go

AcceptsNothing(bytes) ==
    IF bytes = <<>> THEN Some(<<>>) ELSE IF Contains(bytes, 0) THEN None ELSE GroupsFrom(bytes)[1]

\* The decoded bytes, or None of an empty, truncated or zero-holding frame.
CobsDecode(bytes) ==
    IF bytes = <<>> \/ Contains(bytes, 0) THEN None ELSE GroupsFrom(bytes)[1]

-----------------------------------------------------------------------------
(* The host's codec, with its eager flush of a full group.                 *)

HostEncodeByte(acc, b, isLast) ==
    LET full == [acc EXCEPT !.grp = Append(@, b)]
        Flush(a) == [out |-> a.out \o Group(a.grp), grp |-> <<>>]
        OwedGroup == IF isLast THEN <<1>> ELSE <<>>
    IN  IF b = 0 THEN [Flush(acc) EXCEPT !.out = @ \o OwedGroup]
        ELSE IF Len(full.grp) = MaxGroup \/ isLast THEN Flush(full) ELSE full

HostEncodeBytes(data) ==
    LET acc[i \in 0..Len(data)] ==
            IF i = 0 THEN [out |-> <<>>, grp |-> <<>>]
            ELSE HostEncodeByte(acc[i-1], data[i], i = Len(data))
    IN  acc

HostEncode(data) == IF data = <<>> THEN <<1>> ELSE HostEncodeBytes(data)[Len(data)].out

\* The loop at index i: the bytes decoded so far end in out.
HostLoop(data) ==
    LET n == Len(data)
        loop[i \in 1..n+1] ==
            IF i = n + 1 THEN Some(<<>>)
            ELSE LET end   == i + data[i] - 1
                     group == SubSeq(data, i + 1, end)
                     zero  == IF data[i] # FullCode /\ end < n THEN <<0>> ELSE <<>>
                 IN  IF data[i] = 0 \/ end > n \/ Contains(group, 0) THEN None
                     ELSE IF loop[end+1] = None THEN None
                     ELSE Some(group \o zero \o loop[end+1][1])
    IN  loop

HostDecode(data) == IF data = <<>> THEN None ELSE HostLoop(data)[1]

-----------------------------------------------------------------------------
(* The loader's streaming decoder: DecSt and cobsDecodeStep.               *)

InitDec == [cnt |-> 0, full |-> FALSE, pend |-> FALSE, got |-> FALSE]

\* A group that just got its last byte owes a zero unless it was full.
OwesZero(d) == d.cnt = 1 /\ ~d.full

\* A nonzero byte: the decoded byte it yields, if any, and the next state.
DecodeByte(d, b) ==
    IF d.cnt = 0
    THEN [out |-> IF d.pend THEN Some(0) ELSE None,
          dec |-> [cnt |-> b - 1, full |-> b = FullCode, pend |-> b = 1, got |-> TRUE]]
    ELSE [out |-> Some(b),
          dec |-> [d EXCEPT !.cnt = @ - 1, !.got = TRUE, !.pend = OwesZero(d)]]

\* At the frame's end: was it empty, or cut within a group?
Malformed(d) == ~d.got \/ d.cnt # 0

-----------------------------------------------------------------------------
(* The loader's streaming encoder: EncSt and cobsEncodeStep.  `buf` is the *)
(* filled part of the group buffer, `pend` the byte that met a full group. *)

InitEnc == [mode |-> "Filling", buf |-> <<>>, ix |-> 0, pend |-> None,
            final |-> FALSE, last |-> FALSE]

Emit(e) == [e EXCEPT !.mode = "Emitting", !.ix = 0]

\* A full group is flushed first; otherwise a zero or the last byte closes it.
Fill(e, in) ==
    CASE Len(e.buf) = MaxGroup -> [Emit(e) EXCEPT !.pend = Some(in)]
      [] Len(e.buf) < MaxGroup /\ in.byte = 0 ->
            [Emit(e) EXCEPT !.final = in.last, !.last = in.last]
      [] Len(e.buf) < MaxGroup /\ in.byte # 0 /\ in.last ->
            [Emit(e) EXCEPT !.buf = Append(@, in.byte), !.last = TRUE, !.final = FALSE]
      [] Len(e.buf) < MaxGroup /\ in.byte # 0 /\ ~in.last ->
            [e EXCEPT !.buf = Append(@, in.byte)]

\* The byte that met the full group starts the next one; a zero is an empty
\* group of its own.
FreshGroup(e) ==
    [Emit(e) EXCEPT !.buf = <<>>, !.pend = None,
                    !.final = e.pend[1].last, !.last = e.pend[1].last]

Resume(e) ==
    CASE e.pend[1].byte = 0 -> FreshGroup(e)
      [] e.pend[1].byte # 0 /\ e.pend[1].last ->
            [Emit(e) EXCEPT !.buf = <<e.pend[1].byte>>, !.pend = None, !.last = TRUE]
      [] e.pend[1].byte # 0 /\ ~e.pend[1].last ->
            [e EXCEPT !.mode = "Filling", !.buf = <<e.pend[1].byte>>, !.pend = None]

\* After the group's last byte: the owed empty group, the byte set aside, the
\* end, or the next group.
AfterGroup(e) ==
    CASE e.final                       -> [e EXCEPT !.buf = <<>>, !.ix = 0, !.final = FALSE]
      [] ~e.final /\ e.pend # None     -> Resume(e)
      [] ~e.final /\ e.pend = None /\ e.last  -> InitEnc
      [] ~e.final /\ e.pend = None /\ ~e.last ->
            [e EXCEPT !.mode = "Filling", !.buf = <<>>]

\* One clock with the offered input (optional) and the taker's readiness.
EncodeStep(e, in, ready) ==
    LET filling  == e.mode = "Filling"
        emitting == ~filling /\ ready /\ e.ix <= Len(e.buf)
        leaving  == ~filling /\ ready /\ e.ix > Len(e.buf)
    IN  [took |-> filling,
         out  |-> IF emitting THEN Some((Group(e.buf))[e.ix + 1]) ELSE None,
         done |-> leaving /\ ~e.final /\ e.pend = None /\ e.last,
         enc  |-> CASE filling /\ in # None -> Fill(e, in[1])
                    [] emitting             -> [e EXCEPT !.ix = @ + 1]
                    [] leaving              -> AfterGroup(e)
                    [] OTHER                -> e]

=============================================================================
