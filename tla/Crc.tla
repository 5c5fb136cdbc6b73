-------------------------------- MODULE Crc --------------------------------
(***************************************************************************)
(* The CRC-8 of the RX path and of both wire directions: polynomial        *)
(* x^8 + x^2 + x + 1, initial value 0, most significant bit first.         *)
(***************************************************************************)
EXTENDS Bits

Byte == BitVec(8)

Poly == {0, 1, 2}        \* 0x07

\* One step: the feedback bit is the register's top bit xor the input bit.
Feed == [c \in Byte |-> [in \in {0, 1} |->
           IF (7 \in c) # (in = 1) THEN Xor(ShiftLeft(c, 1, 8), Poly)
                                   ELSE ShiftLeft(c, 1, 8)]]

\* The fold over the byte, bit 7 down to bit 0.
CrcUpdate(crc, byte) ==
    LET F(c, i) == Feed[c][IF i \in byte THEN 1 ELSE 0]
    IN  F(F(F(F(F(F(F(F(crc, 7), 6), 5), 4), 3), 2), 1), 0)

=============================================================================
