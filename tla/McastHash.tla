----------------------------- MODULE McastHash -----------------------------
(***************************************************************************)
(* HashGet() of hcpmac.c: the position, among the 64 bits of MACHASH1 and  *)
(* MACHASH2, that stands for a multicast address.  The code takes the six  *)
(* bytes three at a time and folds shifted copies of them together; the    *)
(* shifts to the left are done on the promoted integer, so nothing is lost *)
(* before the final mask.                                                  *)
(***************************************************************************)
EXTENDS Integers

Byte == 0 .. 255
EthAddress == [1 .. 6 -> Byte]

\* Bit i of the number x.
BitOf(x, i) == (x \div 2^i) % 2

(* The exclusive or of numbers of at most twelve bits: a byte shifted to   *)
(* the left by four is the longest that HashGet() meets.                   *)
XorBit(x, y, i) == ((BitOf(x, i) + BitOf(y, i)) % 2) * 2^i

BitXor(x, y) ==
  XorBit(x, y, 0) + XorBit(x, y, 1) + XorBit(x, y, 2) + XorBit(x, y, 3)
    + XorBit(x, y, 4) + XorBit(x, y, 5) + XorBit(x, y, 6) + XorBit(x, y, 7)
    + XorBit(x, y, 8) + XorBit(x, y, 9) + XorBit(x, y, 10) + XorBit(x, y, 11)

\* Mutant: the two bits of the third byte that cross into the next group are lost.
Fold3Masked(b, c, d) ==
  BitXor(BitXor(BitXor(b \div 4, b * 16), BitXor(c \div 16, c * 4)), d)

Fold3(b, c, d) ==
  BitXor(BitXor(BitXor(b \div 4, b * 16), BitXor(c \div 16, c * 4)), BitXor(d \div 64, d))

HashGet(Address) ==
  BitXor(Fold3(Address[1], Address[2], Address[3]),
         Fold3(Address[4], Address[5], Address[6])) % 64
-----------------------------------------------------------------------------
(* What the filter computes, without the shifts: bit i of the hash is the  *)
(* parity of the bits i, i+6, ..., i+42 of the 48-bit address, whose bit 0 *)
(* is the lowest bit of the last byte.                                     *)

AddressBit(a, k) == BitOf(a[6 - (k \div 8)], k % 8)

Parity(a, i) ==
  (AddressBit(a, i) + AddressBit(a, i + 6) + AddressBit(a, i + 12)
     + AddressBit(a, i + 18) + AddressBit(a, i + 24) + AddressBit(a, i + 30)
     + AddressBit(a, i + 36) + AddressBit(a, i + 42)) % 2

\* The address a with bit k inverted.
Flip(a, k) ==
  [a EXCEPT ![6 - (k \div 8)] = IF AddressBit(a, k) = 1 THEN @ - 2^(k % 8)
                                                        ELSE @ + 2^(k % 8)]

\* The addresses that differ from a in at most two of their 48 bits.
Near(a) ==
  LET one == {a} \cup {Flip(a, k) : k \in 0 .. 47}
  IN  one \cup {Flip(b, k) : b \in one, k \in 0 .. 47}
=============================================================================
