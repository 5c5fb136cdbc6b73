------------------------------ MODULE MCCodec ------------------------------
(***************************************************************************)
(* The codecs on every byte sequence up to MaxLen: `data` grows a byte a   *)
(* step, and `dec` follows it through the streaming decoder.               *)
(***************************************************************************)
EXTENDS Cobs

CONSTANT MaxLen

VARIABLES data, dec, decoded

Init == data = <<>> /\ dec = InitDec /\ decoded = <<>>

Next == \E b \in WireByte :
    /\ Len(data) < MaxLen
    /\ data' = Append(data, b)
    /\ IF b = 0 THEN UNCHANGED <<dec, decoded>>
       ELSE LET r == DecodeByte(dec, b)
            IN  dec' = r.dec /\ decoded' = decoded \o r.out

Spec == Init /\ [][Next]_<<data, dec, decoded>>

\* What either side encodes the other decodes, and no delimiter appears inside
\* (Wire/Cobs.hs cobsEncode and cobsDecode, cobs.rs).
RoundTrip ==
    /\ ~Contains(CobsEncode(data), 0)
    /\ CobsDecode(CobsEncode(data)) = Some(data)
    /\ HostDecode(CobsEncode(data)) = Some(data)

\* Host and rig put the same bytes on the wire, the eager and the lazy flush
\* of a full group notwithstanding (cobs.rs: "Byte-exact with the HDL").
SameWireBytes == HostEncode(data) = CobsEncode(data)

\* Of any bytes at all, well formed or not, host and rig decode the same.
SameVerdict == HostDecode(data) = CobsDecode(data)

\* The streaming decoder yields what the pure one does of a frame without
\* zeros, and calls exactly the malformed ones malformed (Loader/Cobs.hs).
StreamDecodes ==
    ~Contains(data, 0) =>
        /\ Malformed(dec) <=> CobsDecode(data) = None
        /\ ~Malformed(dec) => CobsDecode(data) = Some(decoded)

=============================================================================
