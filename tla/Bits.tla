------------------------------- MODULE Bits -------------------------------
(***************************************************************************)
(* Bit vectors of a fixed width w, as Clash's BitVector w: the set of the  *)
(* positions that hold a 1, position 0 the least significant.  Addition    *)
(* and comparison are carry-lookahead forms, so that no definition is      *)
(* recursive and every width is covered by the same text.                  *)
(***************************************************************************)
EXTENDS Integers

BitVec(w) == SUBSET (0..w-1)

\* The low w bits of the number n (n may be a two's complement negative).
ToBits(n, w) == {i \in 0..w-1 : (n \div 2^i) % 2 = 1}

Truncate(b, w) == b \cap (0..w-1)

SignExtend(b, from, w) == IF from-1 \in b THEN b \cup (from..w-1) ELSE b

Complement(b, w) == (0..w-1) \ b

Xor(a, b) == (a \cup b) \ (a \cap b)

ShiftLeft(b, k, w) == {i \in 0..w-1 : i-k \in b}

ShiftRight(b, k, w) == {i \in 0..w-1 : i+k \in b}

\* Sign-filling right shift: the vacated positions take the top bit.
ArithShiftRight(b, k, w) ==
    {i \in 0..w-1 : i+k \in b \/ (i+k > w-1 /\ w-1 \in b)}

\* The carry into position i of a + b + cin.
Carry(a, b, cin, i) ==
    \/ cin /\ 0..i-1 \subseteq a \cup b
    \/ \E j \in 0..i-1 : j \in a \cap b /\ j+1..i-1 \subseteq a \cup b

AddCarry(a, b, cin, w) ==
    {i \in 0..w-1 : (i \in a) # ((i \in b) # Carry(a, b, cin, i))}

Add(a, b, w) == AddCarry(a, b, FALSE, w)

Sub(a, b, w) == AddCarry(a, Complement(b, w), TRUE, w)

\* Unsigned a < b: the most significant position that differs is set in b.
LessThan(a, b) == \E i \in b \ a : \A j \in a \ b : j < i

=============================================================================
