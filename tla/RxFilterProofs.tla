--------------------------- MODULE RxFilterProofs ---------------------------
(***************************************************************************)
(* Proofs about McastHash and RxFilter.  HashGet() computes what its       *)
(* reference says for every six-byte address.  Of the hash the proofs      *)
(* about the filter use only that its values are positions of the filter:  *)
(* the filter works by the order of its calls, for every set of groups.    *)
(***************************************************************************)
EXTENDS RxFilter, TLAPS

(* The six low bits of a number written as a sum of powers of two.         *)
LEMMA BitsOf ==
  ASSUME NEW b0 \in 0..1, NEW b1 \in 0..1, NEW b2 \in 0..1, NEW b3 \in 0..1,
         NEW b4 \in 0..1, NEW b5 \in 0..1, NEW r \in Nat, NEW n \in Nat,
         n = b0 + 2*b1 + 4*b2 + 8*b3 + 16*b4 + 32*b5 + 64*r
  PROVE  /\ BitOf(n, 0) = b0 /\ BitOf(n, 1) = b1 /\ BitOf(n, 2) = b2
         /\ BitOf(n, 3) = b3 /\ BitOf(n, 4) = b4 /\ BitOf(n, 5) = b5
 <1>0. BitOf(n, 0) = b0 BY DEF BitOf, Byte
 <1>1. BitOf(n, 1) = b1 BY DEF BitOf, Byte
 <1>2. BitOf(n, 2) = b2 BY DEF BitOf, Byte
 <1>3. BitOf(n, 3) = b3 BY DEF BitOf, Byte
 <1>s. n \div 16 = b4 + 2*b5 + 4*r
   <2>1. PICK lo \in 0 .. 15, hi \in Nat : lo = b0 + 2*b1 + 4*b2 + 8*b3 /\ hi = b4 + 2*b5 + 4*r
     OBVIOUS
   <2>2. n = lo + 16 * hi
     BY <2>1
   <2>3. n \div 16 = hi
     BY <2>2
   <2>4. QED BY <2>1, <2>3
 <1>4. BitOf(n, 4) = b4 BY <1>s DEF BitOf
 <1>5. BitOf(n, 5) = b5
   <2>1. n \div 32 = (n \div 16) \div 2
     OBVIOUS
   <2>2. (n \div 32) % 2 = b5
     BY <1>s, <2>1
   <2>3. QED BY <2>2 DEF BitOf
 <1>6. QED
   BY <1>0, <1>1, <1>2, <1>3, <1>4, <1>5

(* A bit is zero or one.                                                   *)
LEMMA BitRange ==
  ASSUME NEW x \in Nat
  PROVE  \A i \in 0 .. 11 : BitOf(x, i) \in 0 .. 1
  <1>1. /\ BitOf(x, 0) \in 0 .. 1 /\ BitOf(x, 1) \in 0 .. 1 /\ BitOf(x, 2) \in 0 .. 1
        /\ BitOf(x, 3) \in 0 .. 1 /\ BitOf(x, 4) \in 0 .. 1 /\ BitOf(x, 5) \in 0 .. 1
        /\ BitOf(x, 6) \in 0 .. 1 /\ BitOf(x, 7) \in 0 .. 1 /\ BitOf(x, 8) \in 0 .. 1
        /\ BitOf(x, 9) \in 0 .. 1 /\ BitOf(x, 10) \in 0 .. 1 /\ BitOf(x, 11) \in 0 .. 1
    BY DEF BitOf, Byte
  <1>2. QED
    BY <1>1

(* So is the sum of two bits without its carry.                            *)
LEMMA SumBit ==
  ASSUME NEW x \in Nat, NEW y \in Nat, NEW i \in 0 .. 11
  PROVE  (BitOf(x, i) + BitOf(y, i)) % 2 \in 0 .. 1
  <1>1. PICK b \in 0 .. 1, c \in 0 .. 1 : b = BitOf(x, i) /\ c = BitOf(y, i)
    BY BitRange, Zenon
  <1>2. (b + c) % 2 \in 0 .. 1
    OBVIOUS
  <1>3. QED
    BY <1>1, <1>2, Zenon

\* What BitXor does to the bits that the final mask of HashGet() keeps.
IsXor(z, x, y) ==
  z \in Nat /\ \A i \in 0 .. 5 : BitOf(z, i) = (BitOf(x, i) + BitOf(y, i)) % 2

\* The same for the six terms of one round of the loop of HashGet().
IsFold(f, b, c, d) ==
  /\ f \in Nat
  /\ \A i \in 0 .. 5 :
       BitOf(f, i) = (BitOf(b \div 4, i) + BitOf(b * 16, i) + BitOf(c \div 16, i)
                        + BitOf(c * 4, i) + BitOf(d \div 64, i) + BitOf(d, i)) % 2

(* The exclusive or of the model is one, bit by bit.                       *)
LEMMA XorBits ==
  ASSUME NEW x \in Nat, NEW y \in Nat
  PROVE  IsXor(BitXor(x, y), x, y)
  <1> DEFINE b(i) == (BitOf(x, i) + BitOf(y, i)) % 2
  <1>0. \A i \in 0 .. 11 : b(i) \in 0 .. 1
    BY SumBit
  <1>3. BitXor(x, y) = b(0) * 1 + b(1) * 2 + b(2) * 4 + b(3) * 8 + b(4) * 16 + b(5) * 32
        + b(6) * 64 + b(7) * 128 + b(8) * 256 + b(9) * 512 + b(10) * 1024 + b(11) * 2048
    BY <1>0, SMT DEF BitXor, XorBit
  <1> HIDE DEF b
  <1>4. PICK b0 \in 0..1, b1 \in 0..1, b2 \in 0..1, b3 \in 0..1, b4 \in 0..1, b5 \in 0..1 :
          b0 = b(0) /\ b1 = b(1) /\ b2 = b(2) /\ b3 = b(3) /\ b4 = b(4) /\ b5 = b(5)
    BY <1>0
  <1>5. PICK b6 \in 0..1, b7 \in 0..1, b8 \in 0..1, b9 \in 0..1, b10 \in 0..1, b11 \in 0..1 :
          b6 = b(6) /\ b7 = b(7) /\ b8 = b(8) /\ b9 = b(9) /\ b10 = b(10) /\ b11 = b(11)
    BY <1>0
  <1>6. PICK n : n = BitXor(x, y)
    OBVIOUS
  <1>7. n = b0 * 1 + b1 * 2 + b2 * 4 + b3 * 8 + b4 * 16 + b5 * 32
        + b6 * 64 + b7 * 128 + b8 * 256 + b9 * 512 + b10 * 1024 + b11 * 2048
    BY <1>3, <1>4, <1>5, <1>6
  <1>8. PICK r \in 0..63 : r = b6 + b7 * 2 + b8 * 4 + b9 * 8 + b10 * 16 + b11 * 32
    <2>1. b6 + b7 * 2 + b8 * 4 + b9 * 8 + b10 * 16 + b11 * 32 \in 0 .. 63
      OBVIOUS
    <2>2. QED BY <2>1, Zenon
  <1>9. n \in Nat /\ n = b0 + 2*b1 + 4*b2 + 8*b3 + 16*b4 + 32*b5 + 64*r
    BY <1>7, <1>8
  <1>10. /\ BitOf(n, 0) = b0 /\ BitOf(n, 1) = b1
         /\ BitOf(n, 2) = b2 /\ BitOf(n, 3) = b3
         /\ BitOf(n, 4) = b4 /\ BitOf(n, 5) = b5
    BY <1>9, BitsOf
  <1>11. ASSUME NEW i \in 0 .. 5 PROVE BitOf(n, i) = b(i)
    <2>3. i = 0 \/ i = 1 \/ i = 2 \/ i = 3 \/ i = 4 \/ i = 5
      OBVIOUS
    <2>4. QED
      BY <2>3, <1>4, <1>10, Zenon
  <1>12. QED
    BY <1>6, <1>9, <1>11 DEF b, IsXor

(* A round of the loop of HashGet() adds up the bits of its six terms.     *)
LEMMA Fold3Bits ==
  ASSUME NEW b \in Byte, NEW c \in Byte, NEW d \in Byte
  PROVE  IsFold(Fold3(b, c, d), b, c, d)
  <1>1. PICK b1 \in Nat, b2 \in Nat, c1 \in Nat, c2 \in Nat, d1 \in Nat, d2 \in Nat :
          /\ b1 = b \div 4 /\ b2 = b * 16 /\ c1 = c \div 16
          /\ c2 = c * 4 /\ d1 = d \div 64 /\ d2 = d
    BY DEF Byte
  <1>2. PICK x, y, z : x = BitXor(b1, b2) /\ y = BitXor(c1, c2) /\ z = BitXor(d1, d2)
    OBVIOUS
  <1>3. IsXor(x, b1, b2) /\ IsXor(y, c1, c2) /\ IsXor(z, d1, d2)
    BY <1>2, XorBits, Zenon
  <1>4. x \in Nat /\ y \in Nat /\ z \in Nat
    BY <1>3, Zenon DEF IsXor
  <1>5. PICK w : w = BitXor(x, y)
    OBVIOUS
  <1>6. IsXor(w, x, y)
    BY <1>4, <1>5, XorBits, Zenon
  <1>7. w \in Nat
    BY <1>6, Zenon DEF IsXor
  <1>8. PICK f : f = BitXor(w, z)
    OBVIOUS
  <1>9. IsXor(f, w, z)
    BY <1>4, <1>7, <1>8, XorBits, Zenon
  <1>10. Fold3(b, c, d) = f
    BY <1>1, <1>2, <1>5, <1>8, Zenon DEF Fold3
  <1>11. ASSUME NEW i \in 0 .. 5
         PROVE  BitOf(f, i) = (BitOf(b1, i) + BitOf(b2, i) + BitOf(c1, i) + BitOf(c2, i)
                                 + BitOf(d1, i) + BitOf(d2, i)) % 2
    <2>1. i \in 0 .. 11
      OBVIOUS
    <2>2. /\ BitOf(f, i) = (BitOf(w, i) + BitOf(z, i)) % 2
          /\ BitOf(w, i) = (BitOf(x, i) + BitOf(y, i)) % 2
          /\ BitOf(x, i) = (BitOf(b1, i) + BitOf(b2, i)) % 2
          /\ BitOf(y, i) = (BitOf(c1, i) + BitOf(c2, i)) % 2
          /\ BitOf(z, i) = (BitOf(d1, i) + BitOf(d2, i)) % 2
      BY <1>3, <1>6, <1>9, Zenon DEF IsXor
    <2>3. PICK p \in 0 .. 1, q \in 0 .. 1, r \in 0 .. 1, s \in 0 .. 1, t \in 0 .. 1, u \in 0 .. 1 :
            /\ p = BitOf(b1, i) /\ q = BitOf(b2, i) /\ r = BitOf(c1, i)
            /\ s = BitOf(c2, i) /\ t = BitOf(d1, i) /\ u = BitOf(d2, i)
      BY <2>1, BitRange, Zenon
    <2>4. (((((p + q) % 2) + ((r + s) % 2)) % 2) + ((t + u) % 2)) % 2 = (p + q + r + s + t + u) % 2
      OBVIOUS
    <2>5. BitOf(f, i) = (((((p + q) % 2) + ((r + s) % 2)) % 2) + ((t + u) % 2)) % 2
      BY <2>2, <2>3, Zenon
    <2>6. QED
      BY <2>3, <2>4, <2>5, Zenon
  <1>12. f \in Nat
    BY <1>9, Zenon DEF IsXor
  <1>13. QED
    BY <1>1, <1>10, <1>11, <1>12, Zenon DEF IsFold

(* The bits of tmpval>>2 and tmpval<<4, for the first byte of a round.     *)
LEMMA ShiftedFirst ==
  ASSUME NEW b \in Byte
  PROVE  /\ BitOf(b \div 4, 0) = BitOf(b, 2)
         /\ BitOf(b * 16, 0) = 0
         /\ BitOf(b \div 4, 1) = BitOf(b, 3)
         /\ BitOf(b * 16, 1) = 0
         /\ BitOf(b \div 4, 2) = BitOf(b, 4)
         /\ BitOf(b * 16, 2) = 0
         /\ BitOf(b \div 4, 3) = BitOf(b, 5)
         /\ BitOf(b * 16, 3) = 0
         /\ BitOf(b \div 4, 4) = BitOf(b, 6)
         /\ BitOf(b * 16, 4) = BitOf(b, 0)
         /\ BitOf(b \div 4, 5) = BitOf(b, 7)
         /\ BitOf(b * 16, 5) = BitOf(b, 1)
  <1>1. BitOf(b \div 4, 0) = BitOf(b, 2)
    BY DEF BitOf, Byte
  <1>2. BitOf(b * 16, 0) = 0
    BY DEF BitOf, Byte
  <1>3. BitOf(b \div 4, 1) = BitOf(b, 3)
    BY DEF BitOf, Byte
  <1>4. BitOf(b * 16, 1) = 0
    BY DEF BitOf, Byte
  <1>5. BitOf(b \div 4, 2) = BitOf(b, 4)
    BY DEF BitOf, Byte
  <1>6. BitOf(b * 16, 2) = 0
    BY DEF BitOf, Byte
  <1>7. BitOf(b \div 4, 3) = BitOf(b, 5)
    BY DEF BitOf, Byte
  <1>8. BitOf(b * 16, 3) = 0
    BY DEF BitOf, Byte
  <1>9. BitOf(b \div 4, 4) = BitOf(b, 6)
    BY DEF BitOf, Byte
  <1>10. BitOf(b * 16, 4) = BitOf(b, 0)
    BY DEF BitOf, Byte
  <1>11. BitOf(b \div 4, 5) = BitOf(b, 7)
    BY DEF BitOf, Byte
  <1>12. BitOf(b * 16, 5) = BitOf(b, 1)
    BY DEF BitOf, Byte
  <1>q. QED
    BY <1>1, <1>2, <1>3, <1>4, <1>5, <1>6, <1>7, <1>8, <1>9, <1>10, <1>11, <1>12, Zenon

(* The bits of tmpval>>4 and tmpval<<2, for the second byte.               *)
LEMMA ShiftedSecond ==
  ASSUME NEW b \in Byte
  PROVE  /\ BitOf(b \div 16, 0) = BitOf(b, 4)
         /\ BitOf(b * 4, 0) = 0
         /\ BitOf(b \div 16, 1) = BitOf(b, 5)
         /\ BitOf(b * 4, 1) = 0
         /\ BitOf(b \div 16, 2) = BitOf(b, 6)
         /\ BitOf(b * 4, 2) = BitOf(b, 0)
         /\ BitOf(b \div 16, 3) = BitOf(b, 7)
         /\ BitOf(b * 4, 3) = BitOf(b, 1)
         /\ BitOf(b \div 16, 4) = 0
         /\ BitOf(b * 4, 4) = BitOf(b, 2)
         /\ BitOf(b \div 16, 5) = 0
         /\ BitOf(b * 4, 5) = BitOf(b, 3)
  <1>1. BitOf(b \div 16, 0) = BitOf(b, 4)
    BY DEF BitOf, Byte
  <1>2. BitOf(b * 4, 0) = 0
    BY DEF BitOf, Byte
  <1>3. BitOf(b \div 16, 1) = BitOf(b, 5)
    BY DEF BitOf, Byte
  <1>4. BitOf(b * 4, 1) = 0
    BY DEF BitOf, Byte
  <1>5. BitOf(b \div 16, 2) = BitOf(b, 6)
    BY DEF BitOf, Byte
  <1>6. BitOf(b * 4, 2) = BitOf(b, 0)
    BY DEF BitOf, Byte
  <1>7. BitOf(b \div 16, 3) = BitOf(b, 7)
    BY DEF BitOf, Byte
  <1>8. BitOf(b * 4, 3) = BitOf(b, 1)
    BY DEF BitOf, Byte
  <1>9. BitOf(b \div 16, 4) = 0
    BY DEF BitOf, Byte
  <1>10. BitOf(b * 4, 4) = BitOf(b, 2)
    BY DEF BitOf, Byte
  <1>11. BitOf(b \div 16, 5) = 0
    BY DEF BitOf, Byte
  <1>12. BitOf(b * 4, 5) = BitOf(b, 3)
    BY DEF BitOf, Byte
  <1>q. QED
    BY <1>1, <1>2, <1>3, <1>4, <1>5, <1>6, <1>7, <1>8, <1>9, <1>10, <1>11, <1>12, Zenon

(* The bits of tmpval>>6, for the third byte.                              *)
LEMMA ShiftedThird ==
  ASSUME NEW b \in Byte
  PROVE  /\ BitOf(b \div 64, 0) = BitOf(b, 6)
         /\ BitOf(b \div 64, 1) = BitOf(b, 7)
         /\ BitOf(b \div 64, 2) = 0
         /\ BitOf(b \div 64, 3) = 0
         /\ BitOf(b \div 64, 4) = 0
         /\ BitOf(b \div 64, 5) = 0
  <1>1. BitOf(b \div 64, 0) = BitOf(b, 6)
    BY DEF BitOf, Byte
  <1>2. BitOf(b \div 64, 1) = BitOf(b, 7)
    BY DEF BitOf, Byte
  <1>3. BitOf(b \div 64, 2) = 0
    BY DEF BitOf, Byte
  <1>4. BitOf(b \div 64, 3) = 0
    BY DEF BitOf, Byte
  <1>5. BitOf(b \div 64, 4) = 0
    BY DEF BitOf, Byte
  <1>6. BitOf(b \div 64, 5) = 0
    BY DEF BitOf, Byte
  <1>q. QED
    BY <1>1, <1>2, <1>3, <1>4, <1>5, <1>6, Zenon

(* The bits of a byte.                                                     *)
LEMMA ByteBits ==
  ASSUME NEW b \in Byte
  PROVE  /\ BitOf(b, 0) \in 0 .. 1 /\ BitOf(b, 1) \in 0 .. 1 /\ BitOf(b, 2) \in 0 .. 1
         /\ BitOf(b, 3) \in 0 .. 1 /\ BitOf(b, 4) \in 0 .. 1 /\ BitOf(b, 5) \in 0 .. 1
         /\ BitOf(b, 6) \in 0 .. 1 /\ BitOf(b, 7) \in 0 .. 1
  BY DEF BitOf, Byte

\* The four bits of three bytes that a round folds into each bit of the hash.
FoldBits(f, b, c, d) ==
  /\ BitOf(f, 0) = (BitOf(b, 2) + BitOf(c, 4) + BitOf(d, 6) + BitOf(d, 0)) % 2
  /\ BitOf(f, 1) = (BitOf(b, 3) + BitOf(c, 5) + BitOf(d, 7) + BitOf(d, 1)) % 2
  /\ BitOf(f, 2) = (BitOf(b, 4) + BitOf(c, 6) + BitOf(c, 0) + BitOf(d, 2)) % 2
  /\ BitOf(f, 3) = (BitOf(b, 5) + BitOf(c, 7) + BitOf(c, 1) + BitOf(d, 3)) % 2
  /\ BitOf(f, 4) = (BitOf(b, 6) + BitOf(b, 0) + BitOf(c, 2) + BitOf(d, 4)) % 2
  /\ BitOf(f, 5) = (BitOf(b, 7) + BitOf(b, 1) + BitOf(c, 3) + BitOf(d, 5)) % 2

(* Of the six terms of a round two are always shifted out: four bits of    *)
(* the three bytes are left for each bit of the hash.                      *)
LEMMA Fold3At ==
  ASSUME NEW b \in Byte, NEW c \in Byte, NEW d \in Byte, NEW f, IsFold(f, b, c, d)
  PROVE  FoldBits(f, b, c, d)
  <1>0. BitOf(f, 0) = (BitOf(b, 2) + BitOf(c, 4) + BitOf(d, 6) + BitOf(d, 0)) % 2
    <2>1. BitOf(f, 0)
            = (BitOf(b \div 4, 0) + BitOf(b * 16, 0) + BitOf(c \div 16, 0)
                 + BitOf(c * 4, 0) + BitOf(d \div 64, 0) + BitOf(d, 0)) % 2
      <3>1. 0 \in 0 .. 5
        OBVIOUS
      <3>2. QED
        BY <3>1, Zenon DEF IsFold
    <2>2. PICK p \in 0 .. 1, q \in 0 .. 1, r \in 0 .. 1, s \in 0 .. 1 :
            p = BitOf(b, 2) /\ q = BitOf(c, 4) /\ r = BitOf(d, 6) /\ s = BitOf(d, 0)
      BY ByteBits, Zenon
    <2>3. BitOf(f, 0) = (p + 0 + q + 0 + r + s) % 2
      BY <2>1, <2>2, ShiftedFirst, ShiftedSecond, ShiftedThird, Zenon
    <2>4. p + 0 + q + 0 + r + s = p + q + r + s
      OBVIOUS
    <2>5. QED
      BY <2>2, <2>3, <2>4, Zenon
  <1>1. BitOf(f, 1) = (BitOf(b, 3) + BitOf(c, 5) + BitOf(d, 7) + BitOf(d, 1)) % 2
    <2>1. BitOf(f, 1)
            = (BitOf(b \div 4, 1) + BitOf(b * 16, 1) + BitOf(c \div 16, 1)
                 + BitOf(c * 4, 1) + BitOf(d \div 64, 1) + BitOf(d, 1)) % 2
      <3>1. 1 \in 0 .. 5
        OBVIOUS
      <3>2. QED
        BY <3>1, Zenon DEF IsFold
    <2>2. PICK p \in 0 .. 1, q \in 0 .. 1, r \in 0 .. 1, s \in 0 .. 1 :
            p = BitOf(b, 3) /\ q = BitOf(c, 5) /\ r = BitOf(d, 7) /\ s = BitOf(d, 1)
      BY ByteBits, Zenon
    <2>3. BitOf(f, 1) = (p + 0 + q + 0 + r + s) % 2
      BY <2>1, <2>2, ShiftedFirst, ShiftedSecond, ShiftedThird, Zenon
    <2>4. p + 0 + q + 0 + r + s = p + q + r + s
      OBVIOUS
    <2>5. QED
      BY <2>2, <2>3, <2>4, Zenon
  <1>2. BitOf(f, 2) = (BitOf(b, 4) + BitOf(c, 6) + BitOf(c, 0) + BitOf(d, 2)) % 2
    <2>1. BitOf(f, 2)
            = (BitOf(b \div 4, 2) + BitOf(b * 16, 2) + BitOf(c \div 16, 2)
                 + BitOf(c * 4, 2) + BitOf(d \div 64, 2) + BitOf(d, 2)) % 2
      <3>1. 2 \in 0 .. 5
        OBVIOUS
      <3>2. QED
        BY <3>1, Zenon DEF IsFold
    <2>2. PICK p \in 0 .. 1, q \in 0 .. 1, r \in 0 .. 1, s \in 0 .. 1 :
            p = BitOf(b, 4) /\ q = BitOf(c, 6) /\ r = BitOf(c, 0) /\ s = BitOf(d, 2)
      BY ByteBits, Zenon
    <2>3. BitOf(f, 2) = (p + 0 + q + r + 0 + s) % 2
      BY <2>1, <2>2, ShiftedFirst, ShiftedSecond, ShiftedThird, Zenon
    <2>4. p + 0 + q + r + 0 + s = p + q + r + s
      OBVIOUS
    <2>5. QED
      BY <2>2, <2>3, <2>4, Zenon
  <1>3. BitOf(f, 3) = (BitOf(b, 5) + BitOf(c, 7) + BitOf(c, 1) + BitOf(d, 3)) % 2
    <2>1. BitOf(f, 3)
            = (BitOf(b \div 4, 3) + BitOf(b * 16, 3) + BitOf(c \div 16, 3)
                 + BitOf(c * 4, 3) + BitOf(d \div 64, 3) + BitOf(d, 3)) % 2
      <3>1. 3 \in 0 .. 5
        OBVIOUS
      <3>2. QED
        BY <3>1, Zenon DEF IsFold
    <2>2. PICK p \in 0 .. 1, q \in 0 .. 1, r \in 0 .. 1, s \in 0 .. 1 :
            p = BitOf(b, 5) /\ q = BitOf(c, 7) /\ r = BitOf(c, 1) /\ s = BitOf(d, 3)
      BY ByteBits, Zenon
    <2>3. BitOf(f, 3) = (p + 0 + q + r + 0 + s) % 2
      BY <2>1, <2>2, ShiftedFirst, ShiftedSecond, ShiftedThird, Zenon
    <2>4. p + 0 + q + r + 0 + s = p + q + r + s
      OBVIOUS
    <2>5. QED
      BY <2>2, <2>3, <2>4, Zenon
  <1>4. BitOf(f, 4) = (BitOf(b, 6) + BitOf(b, 0) + BitOf(c, 2) + BitOf(d, 4)) % 2
    <2>1. BitOf(f, 4)
            = (BitOf(b \div 4, 4) + BitOf(b * 16, 4) + BitOf(c \div 16, 4)
                 + BitOf(c * 4, 4) + BitOf(d \div 64, 4) + BitOf(d, 4)) % 2
      <3>1. 4 \in 0 .. 5
        OBVIOUS
      <3>2. QED
        BY <3>1, Zenon DEF IsFold
    <2>2. PICK p \in 0 .. 1, q \in 0 .. 1, r \in 0 .. 1, s \in 0 .. 1 :
            p = BitOf(b, 6) /\ q = BitOf(b, 0) /\ r = BitOf(c, 2) /\ s = BitOf(d, 4)
      BY ByteBits, Zenon
    <2>3. BitOf(f, 4) = (p + q + 0 + r + 0 + s) % 2
      BY <2>1, <2>2, ShiftedFirst, ShiftedSecond, ShiftedThird, Zenon
    <2>4. p + q + 0 + r + 0 + s = p + q + r + s
      OBVIOUS
    <2>5. QED
      BY <2>2, <2>3, <2>4, Zenon
  <1>5. BitOf(f, 5) = (BitOf(b, 7) + BitOf(b, 1) + BitOf(c, 3) + BitOf(d, 5)) % 2
    <2>1. BitOf(f, 5)
            = (BitOf(b \div 4, 5) + BitOf(b * 16, 5) + BitOf(c \div 16, 5)
                 + BitOf(c * 4, 5) + BitOf(d \div 64, 5) + BitOf(d, 5)) % 2
      <3>1. 5 \in 0 .. 5
        OBVIOUS
      <3>2. QED
        BY <3>1, Zenon DEF IsFold
    <2>2. PICK p \in 0 .. 1, q \in 0 .. 1, r \in 0 .. 1, s \in 0 .. 1 :
            p = BitOf(b, 7) /\ q = BitOf(b, 1) /\ r = BitOf(c, 3) /\ s = BitOf(d, 5)
      BY ByteBits, Zenon
    <2>3. BitOf(f, 5) = (p + q + 0 + r + 0 + s) % 2
      BY <2>1, <2>2, ShiftedFirst, ShiftedSecond, ShiftedThird, Zenon
    <2>4. p + q + 0 + r + 0 + s = p + q + r + s
      OBVIOUS
    <2>5. QED
      BY <2>2, <2>3, <2>4, Zenon
  <1>6. QED
    BY <1>0, <1>1, <1>2, <1>3, <1>4, <1>5, Zenon DEF FoldBits

(* HashGet() is a position of the filter; its bits add up the two rounds.  *)
LEMMA HashBits ==
  ASSUME NEW a \in EthAddress
  PROVE  /\ HashGet(a) \in 0 .. 63
         /\ \E f, g :
              /\ FoldBits(f, a[1], a[2], a[3]) /\ FoldBits(g, a[4], a[5], a[6])
              /\ \A i \in 0 .. 5 : BitOf(HashGet(a), i) = (BitOf(f, i) + BitOf(g, i)) % 2
  <1>1. /\ a[1] \in Byte /\ a[2] \in Byte /\ a[3] \in Byte
        /\ a[4] \in Byte /\ a[5] \in Byte /\ a[6] \in Byte
    BY DEF EthAddress
  <1>2. PICK f, g : f = Fold3(a[1], a[2], a[3]) /\ g = Fold3(a[4], a[5], a[6])
    OBVIOUS
  <1>3. IsFold(f, a[1], a[2], a[3]) /\ IsFold(g, a[4], a[5], a[6])
    BY <1>1, <1>2, Fold3Bits, Zenon
  <1>4. FoldBits(f, a[1], a[2], a[3]) /\ FoldBits(g, a[4], a[5], a[6])
    BY <1>1, <1>3, Fold3At, Zenon
  <1>5. f \in Nat /\ g \in Nat
    BY <1>3, Zenon DEF IsFold
  <1>6. PICK x : x = BitXor(f, g)
    OBVIOUS
  <1>7. IsXor(x, f, g)
    BY <1>5, <1>6, XorBits, Zenon
  <1>8. PICK h \in Nat : h = x
    BY <1>7, Zenon DEF IsXor
  <1>9. HashGet(a) = h % 64
    BY <1>2, <1>6, <1>8, Zenon DEF HashGet
  <1>10. h % 64 \in 0 .. 63
    OBVIOUS
  <1>11. ASSUME NEW i \in 0 .. 5 PROVE BitOf(h % 64, i) = BitOf(h, i)
    <2>0. BitOf(h % 64, 0) = BitOf(h, 0) BY DEF BitOf, Byte
    <2>1. BitOf(h % 64, 1) = BitOf(h, 1) BY DEF BitOf, Byte
    <2>2. BitOf(h % 64, 2) = BitOf(h, 2) BY DEF BitOf, Byte
    <2>3. BitOf(h % 64, 3) = BitOf(h, 3) BY DEF BitOf, Byte
    <2>4. BitOf(h % 64, 4) = BitOf(h, 4) BY DEF BitOf, Byte
    <2>5. BitOf(h % 64, 5) = BitOf(h, 5) BY DEF BitOf, Byte
    <2>6. i = 0 \/ i = 1 \/ i = 2 \/ i = 3 \/ i = 4 \/ i = 5
      OBVIOUS
    <2>7. QED
      BY <2>0, <2>1, <2>2, <2>3, <2>4, <2>5, <2>6, Zenon
  <1>12. ASSUME NEW i \in 0 .. 5
        PROVE  BitOf(HashGet(a), i) = (BitOf(f, i) + BitOf(g, i)) % 2
      BY <1>7, <1>8, <1>9, <1>11, Zenon DEF IsXor
  <1>13. QED
    BY <1>4, <1>9, <1>10, <1>12, Zenon

(* Bit i of HashGet() is the parity of the address bits i, i+6, ..., i+42. *)
THEOREM HashParity ==
  ASSUME NEW a \in EthAddress
  PROVE  \A i \in 0 .. 5 : BitOf(HashGet(a), i) = Parity(a, i)
  <1>1. PICK b1 \in Byte, b2 \in Byte, b3 \in Byte,
             b4 \in Byte, b5 \in Byte, b6 \in Byte :
          /\ b1 = a[1] /\ b2 = a[2] /\ b3 = a[3] /\ b4 = a[4] /\ b5 = a[5] /\ b6 = a[6]
    BY DEF EthAddress
  <1>0. PICK f, g :
           /\ FoldBits(f, a[1], a[2], a[3]) /\ FoldBits(g, a[4], a[5], a[6])
           /\ \A i \in 0 .. 5 : BitOf(HashGet(a), i) = (BitOf(f, i) + BitOf(g, i)) % 2
    BY HashBits, Zenon
  <1>2. FoldBits(f, b1, b2, b3) /\ FoldBits(g, b4, b5, b6)
    BY <1>0, <1>1, Zenon
  <1> SUFFICES ASSUME NEW i \in 0 .. 5 PROVE BitOf(HashGet(a), i) = Parity(a, i)
    OBVIOUS
  <1>3. BitOf(HashGet(a), i) = (BitOf(f, i) + BitOf(g, i)) % 2
    BY <1>0, Zenon
  <1>c0. CASE i = 0
    <2>1. BitOf(f, 0) = (BitOf(b1, 2) + BitOf(b2, 4) + BitOf(b3, 6) + BitOf(b3, 0)) % 2
      BY <1>2, Zenon DEF FoldBits
    <2>2. BitOf(g, 0) = (BitOf(b4, 2) + BitOf(b5, 4) + BitOf(b6, 6) + BitOf(b6, 0)) % 2
      BY <1>2, Zenon DEF FoldBits
    <2>3. Parity(a, 0) = (BitOf(b6, 0) + BitOf(b6, 6) + BitOf(b5, 4) + BitOf(b4, 2)
                        + BitOf(b3, 0) + BitOf(b3, 6) + BitOf(b2, 4) + BitOf(b1, 2)) % 2
      BY <1>1, SMT DEF Parity, AddressBit
    <2>4. PICK p \in 0 .. 1, q \in 0 .. 1, r \in 0 .. 1, s \in 0 .. 1 :
            /\ p = BitOf(b6, 0)
            /\ q = BitOf(b6, 6)
            /\ r = BitOf(b5, 4)
            /\ s = BitOf(b4, 2)
      BY ByteBits, Zenon
    <2>5. PICK t \in 0 .. 1, u \in 0 .. 1, v \in 0 .. 1, w \in 0 .. 1 :
            /\ t = BitOf(b3, 0)
            /\ u = BitOf(b3, 6)
            /\ v = BitOf(b2, 4)
            /\ w = BitOf(b1, 2)
      BY ByteBits, Zenon
    <2>6. (((w + v + u + t) % 2) + ((s + r + q + p) % 2)) % 2 = (p + q + r + s + t + u + v + w) % 2
      OBVIOUS
    <2>7. BitOf(HashGet(a), 0) = (((w + v + u + t) % 2) + ((s + r + q + p) % 2)) % 2
      BY <1>c0, <1>3, <2>1, <2>2, <2>4, <2>5, Zenon
    <2>8. Parity(a, 0) = (p + q + r + s + t + u + v + w) % 2
      BY <2>3, <2>4, <2>5, Zenon
    <2>9. QED
      BY <1>c0, <2>6, <2>7, <2>8, Zenon
  <1>c1. CASE i = 1
    <2>1. BitOf(f, 1) = (BitOf(b1, 3) + BitOf(b2, 5) + BitOf(b3, 7) + BitOf(b3, 1)) % 2
      BY <1>2, Zenon DEF FoldBits
    <2>2. BitOf(g, 1) = (BitOf(b4, 3) + BitOf(b5, 5) + BitOf(b6, 7) + BitOf(b6, 1)) % 2
      BY <1>2, Zenon DEF FoldBits
    <2>3. Parity(a, 1) = (BitOf(b6, 1) + BitOf(b6, 7) + BitOf(b5, 5) + BitOf(b4, 3)
                        + BitOf(b3, 1) + BitOf(b3, 7) + BitOf(b2, 5) + BitOf(b1, 3)) % 2
      BY <1>1, SMT DEF Parity, AddressBit
    <2>4. PICK p \in 0 .. 1, q \in 0 .. 1, r \in 0 .. 1, s \in 0 .. 1 :
            /\ p = BitOf(b6, 1)
            /\ q = BitOf(b6, 7)
            /\ r = BitOf(b5, 5)
            /\ s = BitOf(b4, 3)
      BY ByteBits, Zenon
    <2>5. PICK t \in 0 .. 1, u \in 0 .. 1, v \in 0 .. 1, w \in 0 .. 1 :
            /\ t = BitOf(b3, 1)
            /\ u = BitOf(b3, 7)
            /\ v = BitOf(b2, 5)
            /\ w = BitOf(b1, 3)
      BY ByteBits, Zenon
    <2>6. (((w + v + u + t) % 2) + ((s + r + q + p) % 2)) % 2 = (p + q + r + s + t + u + v + w) % 2
      OBVIOUS
    <2>7. BitOf(HashGet(a), 1) = (((w + v + u + t) % 2) + ((s + r + q + p) % 2)) % 2
      BY <1>c1, <1>3, <2>1, <2>2, <2>4, <2>5, Zenon
    <2>8. Parity(a, 1) = (p + q + r + s + t + u + v + w) % 2
      BY <2>3, <2>4, <2>5, Zenon
    <2>9. QED
      BY <1>c1, <2>6, <2>7, <2>8, Zenon
  <1>c2. CASE i = 2
    <2>1. BitOf(f, 2) = (BitOf(b1, 4) + BitOf(b2, 6) + BitOf(b2, 0) + BitOf(b3, 2)) % 2
      BY <1>2, Zenon DEF FoldBits
    <2>2. BitOf(g, 2) = (BitOf(b4, 4) + BitOf(b5, 6) + BitOf(b5, 0) + BitOf(b6, 2)) % 2
      BY <1>2, Zenon DEF FoldBits
    <2>3. Parity(a, 2) = (BitOf(b6, 2) + BitOf(b5, 0) + BitOf(b5, 6) + BitOf(b4, 4)
                        + BitOf(b3, 2) + BitOf(b2, 0) + BitOf(b2, 6) + BitOf(b1, 4)) % 2
      BY <1>1, SMT DEF Parity, AddressBit
    <2>4. PICK p \in 0 .. 1, q \in 0 .. 1, r \in 0 .. 1, s \in 0 .. 1 :
            /\ p = BitOf(b6, 2)
            /\ q = BitOf(b5, 0)
            /\ r = BitOf(b5, 6)
            /\ s = BitOf(b4, 4)
      BY ByteBits, Zenon
    <2>5. PICK t \in 0 .. 1, u \in 0 .. 1, v \in 0 .. 1, w \in 0 .. 1 :
            /\ t = BitOf(b3, 2)
            /\ u = BitOf(b2, 0)
            /\ v = BitOf(b2, 6)
            /\ w = BitOf(b1, 4)
      BY ByteBits, Zenon
    <2>6. (((w + v + u + t) % 2) + ((s + r + q + p) % 2)) % 2 = (p + q + r + s + t + u + v + w) % 2
      OBVIOUS
    <2>7. BitOf(HashGet(a), 2) = (((w + v + u + t) % 2) + ((s + r + q + p) % 2)) % 2
      BY <1>c2, <1>3, <2>1, <2>2, <2>4, <2>5, Zenon
    <2>8. Parity(a, 2) = (p + q + r + s + t + u + v + w) % 2
      BY <2>3, <2>4, <2>5, Zenon
    <2>9. QED
      BY <1>c2, <2>6, <2>7, <2>8, Zenon
  <1>c3. CASE i = 3
    <2>1. BitOf(f, 3) = (BitOf(b1, 5) + BitOf(b2, 7) + BitOf(b2, 1) + BitOf(b3, 3)) % 2
      BY <1>2, Zenon DEF FoldBits
    <2>2. BitOf(g, 3) = (BitOf(b4, 5) + BitOf(b5, 7) + BitOf(b5, 1) + BitOf(b6, 3)) % 2
      BY <1>2, Zenon DEF FoldBits
    <2>3. Parity(a, 3) = (BitOf(b6, 3) + BitOf(b5, 1) + BitOf(b5, 7) + BitOf(b4, 5)
                        + BitOf(b3, 3) + BitOf(b2, 1) + BitOf(b2, 7) + BitOf(b1, 5)) % 2
      BY <1>1, SMT DEF Parity, AddressBit
    <2>4. PICK p \in 0 .. 1, q \in 0 .. 1, r \in 0 .. 1, s \in 0 .. 1 :
            /\ p = BitOf(b6, 3)
            /\ q = BitOf(b5, 1)
            /\ r = BitOf(b5, 7)
            /\ s = BitOf(b4, 5)
      BY ByteBits, Zenon
    <2>5. PICK t \in 0 .. 1, u \in 0 .. 1, v \in 0 .. 1, w \in 0 .. 1 :
            /\ t = BitOf(b3, 3)
            /\ u = BitOf(b2, 1)
            /\ v = BitOf(b2, 7)
            /\ w = BitOf(b1, 5)
      BY ByteBits, Zenon
    <2>6. (((w + v + u + t) % 2) + ((s + r + q + p) % 2)) % 2 = (p + q + r + s + t + u + v + w) % 2
      OBVIOUS
    <2>7. BitOf(HashGet(a), 3) = (((w + v + u + t) % 2) + ((s + r + q + p) % 2)) % 2
      BY <1>c3, <1>3, <2>1, <2>2, <2>4, <2>5, Zenon
    <2>8. Parity(a, 3) = (p + q + r + s + t + u + v + w) % 2
      BY <2>3, <2>4, <2>5, Zenon
    <2>9. QED
      BY <1>c3, <2>6, <2>7, <2>8, Zenon
  <1>c4. CASE i = 4
    <2>1. BitOf(f, 4) = (BitOf(b1, 6) + BitOf(b1, 0) + BitOf(b2, 2) + BitOf(b3, 4)) % 2
      BY <1>2, Zenon DEF FoldBits
    <2>2. BitOf(g, 4) = (BitOf(b4, 6) + BitOf(b4, 0) + BitOf(b5, 2) + BitOf(b6, 4)) % 2
      BY <1>2, Zenon DEF FoldBits
    <2>3. Parity(a, 4) = (BitOf(b6, 4) + BitOf(b5, 2) + BitOf(b4, 0) + BitOf(b4, 6)
                        + BitOf(b3, 4) + BitOf(b2, 2) + BitOf(b1, 0) + BitOf(b1, 6)) % 2
      BY <1>1, SMT DEF Parity, AddressBit
    <2>4. PICK p \in 0 .. 1, q \in 0 .. 1, r \in 0 .. 1, s \in 0 .. 1 :
            /\ p = BitOf(b6, 4)
            /\ q = BitOf(b5, 2)
            /\ r = BitOf(b4, 0)
            /\ s = BitOf(b4, 6)
      BY ByteBits, Zenon
    <2>5. PICK t \in 0 .. 1, u \in 0 .. 1, v \in 0 .. 1, w \in 0 .. 1 :
            /\ t = BitOf(b3, 4)
            /\ u = BitOf(b2, 2)
            /\ v = BitOf(b1, 0)
            /\ w = BitOf(b1, 6)
      BY ByteBits, Zenon
    <2>6. (((w + v + u + t) % 2) + ((s + r + q + p) % 2)) % 2 = (p + q + r + s + t + u + v + w) % 2
      OBVIOUS
    <2>7. BitOf(HashGet(a), 4) = (((w + v + u + t) % 2) + ((s + r + q + p) % 2)) % 2
      BY <1>c4, <1>3, <2>1, <2>2, <2>4, <2>5, Zenon
    <2>8. Parity(a, 4) = (p + q + r + s + t + u + v + w) % 2
      BY <2>3, <2>4, <2>5, Zenon
    <2>9. QED
      BY <1>c4, <2>6, <2>7, <2>8, Zenon
  <1>c5. CASE i = 5
    <2>1. BitOf(f, 5) = (BitOf(b1, 7) + BitOf(b1, 1) + BitOf(b2, 3) + BitOf(b3, 5)) % 2
      BY <1>2, Zenon DEF FoldBits
    <2>2. BitOf(g, 5) = (BitOf(b4, 7) + BitOf(b4, 1) + BitOf(b5, 3) + BitOf(b6, 5)) % 2
      BY <1>2, Zenon DEF FoldBits
    <2>3. Parity(a, 5) = (BitOf(b6, 5) + BitOf(b5, 3) + BitOf(b4, 1) + BitOf(b4, 7)
                        + BitOf(b3, 5) + BitOf(b2, 3) + BitOf(b1, 1) + BitOf(b1, 7)) % 2
      BY <1>1, SMT DEF Parity, AddressBit
    <2>4. PICK p \in 0 .. 1, q \in 0 .. 1, r \in 0 .. 1, s \in 0 .. 1 :
            /\ p = BitOf(b6, 5)
            /\ q = BitOf(b5, 3)
            /\ r = BitOf(b4, 1)
            /\ s = BitOf(b4, 7)
      BY ByteBits, Zenon
    <2>5. PICK t \in 0 .. 1, u \in 0 .. 1, v \in 0 .. 1, w \in 0 .. 1 :
            /\ t = BitOf(b3, 5)
            /\ u = BitOf(b2, 3)
            /\ v = BitOf(b1, 1)
            /\ w = BitOf(b1, 7)
      BY ByteBits, Zenon
    <2>6. (((w + v + u + t) % 2) + ((s + r + q + p) % 2)) % 2 = (p + q + r + s + t + u + v + w) % 2
      OBVIOUS
    <2>7. BitOf(HashGet(a), 5) = (((w + v + u + t) % 2) + ((s + r + q + p) % 2)) % 2
      BY <1>c5, <1>3, <2>1, <2>2, <2>4, <2>5, Zenon
    <2>8. Parity(a, 5) = (p + q + r + s + t + u + v + w) % 2
      BY <2>3, <2>4, <2>5, Zenon
    <2>9. QED
      BY <1>c5, <2>6, <2>7, <2>8, Zenon
  <1>4. QED
    BY <1>c0, <1>c1, <1>c2, <1>c3, <1>c4, <1>c5

(* An address with one bit inverted is an address.                         *)
LEMMA FlipAddress ==
  ASSUME NEW a \in EthAddress, NEW k \in 0 .. 47
  PROVE  Flip(a, k) \in EthAddress
  <1>1. PICK n \in 1 .. 6, j \in 0 .. 7 : n = 6 - (k \div 8) /\ j = k % 8
    OBVIOUS
  <1>2. PICK b \in Byte : b = a[n]
    BY DEF EthAddress
  <1>3. PICK p \in Nat : p = 2^j
    <2>1. j = 0 \/ j = 1 \/ j = 2 \/ j = 3 \/ j = 4 \/ j = 5 \/ j = 6 \/ j = 7
      OBVIOUS
    <2>2. /\ 2^0 \in Nat /\ 2^1 \in Nat /\ 2^2 \in Nat /\ 2^3 \in Nat
          /\ 2^4 \in Nat /\ 2^5 \in Nat /\ 2^6 \in Nat /\ 2^7 \in Nat
      OBVIOUS
    <2>3. 2^j \in Nat
      BY <2>1, <2>2
    <2>4. QED
      BY <2>3, Zenon
  <1>4. (IF BitOf(b, j) = 1 THEN b - p ELSE b + p) \in Byte
    <2>1. CASE j = 0
      BY <1>3, <2>1 DEF BitOf, Byte
    <2>2. CASE j = 1
      BY <1>3, <2>2 DEF BitOf, Byte
    <2>3. CASE j = 2
      BY <1>3, <2>3 DEF BitOf, Byte
    <2>4. CASE j = 3
      BY <1>3, <2>4 DEF BitOf, Byte
    <2>5. CASE j = 4
      BY <1>3, <2>5 DEF BitOf, Byte
    <2>6. CASE j = 5
      BY <1>3, <2>6 DEF BitOf, Byte
    <2>7. CASE j = 6
      BY <1>3, <2>7 DEF BitOf, Byte
    <2>8. CASE j = 7
      BY <1>3, <2>8 DEF BitOf, Byte
    <2>9. QED
      BY <2>1, <2>2, <2>3, <2>4, <2>5, <2>6, <2>7, <2>8
  <1>5. Flip(a, k) = [a EXCEPT ![n] = IF BitOf(b, j) = 1 THEN b - p ELSE b + p]
    BY <1>1, <1>2, <1>3, Zenon DEF Flip, AddressBit
  <1>6. PICK v \in Byte : v = IF BitOf(b, j) = 1 THEN b - p ELSE b + p
    BY <1>4, Zenon
  <1>7. Flip(a, k) = [a EXCEPT ![n] = v]
    BY <1>5, <1>6, Zenon
  <1>8. QED
    BY <1>7 DEF EthAddress

-----------------------------------------------------------------------------
(* HashAdd() and HashDel() index the 64 bits of the filter with the hash.  *)
LEMMA HashType == Hash \in [Group -> Bit]
  <1>1. ASSUME NEW g \in Group PROVE HashGet(g) \in Bit
    BY GroupAssumption, HashBits, Zenon DEF Bit
  <1>2. QED
    BY <1>1 DEF Hash

USE HashType, AddressAssumption

(* A closed device that nobody has asked for anything.                      *)
LEMMA InitInv == Init => IInv
  BY DEF Init, IInv, TypeOK, Stage, Calls, HalOpened, IFF_UP

(* The calls of cpmac_dev_mcast_set() keep the invariant.                  *)
LEMMA CallsKeep ==
  ASSUME IInv,
         \/ PromiscClearHash \/ PromiscSetCaf
         \/ AllMultiClearCaf \/ AllMultiSetHash
         \/ UnicastClearHash \/ UnicastClearCaf
  PROVE  IInv'
  <1> USE DEF IInv, TypeOK, Stage, Calls, HalOpened, IFF_UP, Call, wishes,
              Update, ConfigApply
  <1>1. CASE PromiscClearHash
    BY <1>1 DEF PromiscClearHash, RX_MULTI_ALL_Clear
  <1>2. CASE PromiscSetCaf
    BY <1>2 DEF PromiscSetCaf, RX_CAF_EN_Set
  <1>3. CASE AllMultiClearCaf
    BY <1>3 DEF AllMultiClearCaf, RX_CAF_EN_Clear
  <1>4. CASE AllMultiSetHash
    BY <1>4 DEF AllMultiSetHash, RX_MULTI_ALL_Set
  <1>5. CASE UnicastClearHash
    BY <1>5 DEF UnicastClearHash, RX_MULTI_ALL_Clear
  <1>6. CASE UnicastClearCaf
    <2>1. {Hash[g] : g \in mc} = {}
      BY <1>6 DEF UnicastClearCaf
    <2>2. QED
      BY <1>6, <2>1 DEF UnicastClearCaf, RX_CAF_EN_Set
  <1>7. QED
    BY <1>1, <1>2, <1>3, <1>4, <1>5, <1>6

(* So do those of the branch that programs the list of groups.             *)
LEMMA ListKeeps ==
  ASSUME IInv,
         ListClearHash \/ ListClearCaf \/ (\E g \in Group : ListAdd(g))
  PROVE  IInv'
  <1> USE DEF IInv, TypeOK, Stage, Calls, HalOpened, IFF_UP, Call, wishes,
              Update, ConfigApply
  <1>1. CASE ListClearHash
    BY <1>1 DEF ListClearHash, RX_MULTI_ALL_Clear
  <1>2. CASE ListClearCaf
    <2>1. {Hash[g] : g \in mc \ left} = {}
      BY <1>2 DEF ListClearCaf
    <2>2. QED
      BY <1>2, <2>1 DEF ListClearCaf, RX_CAF_EN_Set
  <1>3. ASSUME NEW g \in Group, ListAdd(g) PROVE IInv'
    <2>1. left \subseteq mc /\ g \in left /\ left' = left \ {g} /\ mc' = mc
      BY <1>3 DEF ListAdd
    <2>2. MacHash' = {Hash[h] : h \in mc \ left} \cup {Hash[g]}
      BY <1>3 DEF ListAdd, RX_MULTI_SINGLE_Set
    <2>3. {Hash[h] : h \in mc \ left} \cup {Hash[g]} = {Hash[h] : h \in mc' \ left'}
      BY <2>1
    <2>4. left' = {} => mc' \ left' = mc'
      BY <2>1
    <2>5. MacHash' = {Hash[h] : h \in mc' \ left'}
      BY <2>2, <2>3
    <2>6. MacHash' \subseteq Bit
      BY <1>3 DEF ListAdd, RX_MULTI_SINGLE_Set
    <2>7. CASE left' = {}
      <3>1. MacHash' = {Hash[h] : h \in mc'}
        BY <2>4, <2>5, <2>7
      <3>2. QED
        BY <1>3, <2>6, <2>7, <3>1 DEF ListAdd, RX_MULTI_SINGLE_Set
    <2>8. CASE left' # {}
      BY <1>3, <2>1, <2>5, <2>6, <2>8 DEF ListAdd, RX_MULTI_SINGLE_Set
    <2>9. QED
      BY <2>7, <2>8
  <1>4. QED
    BY <1>1, <1>2, <1>3

(* The kernel changes its wishes only between two runs of the driver's     *)
(* function, and starts the next one.                                      *)
LEMMA KernelKeeps ==
  ASSUME IInv,
         \/ dev_set_promiscuity \/ dev_set_allmulti
         \/ \E g \in Group : dev_mc_add(g) \/ dev_mc_delete(g)
         \/ \E a \in Address : cpmac_dev_set_mac_addr(a)
  PROVE  IInv'
  <1> USE DEF IInv, TypeOK, Stage, Calls, HalOpened, IFF_UP, Upload, FirstCall, hal
  <1>1. CASE dev_set_promiscuity
    BY <1>1 DEF dev_set_promiscuity
  <1>2. CASE dev_set_allmulti
    BY <1>2 DEF dev_set_allmulti
  <1>3. ASSUME NEW g \in Group, dev_mc_add(g) PROVE IInv'
    BY <1>3 DEF dev_mc_add
  <1>4. ASSUME NEW g \in Group, dev_mc_delete(g) PROVE IInv'
    BY <1>4 DEF dev_mc_delete
  <1>5. ASSUME NEW a \in Address, cpmac_dev_set_mac_addr(a) PROVE IInv'
    BY <1>5 DEF cpmac_dev_set_mac_addr
  <1>6. QED
    BY <1>1, <1>2, <1>3, <1>4, <1>5

(* dev_open() and dev_close() keep the invariant.                          *)
LEMMA OpenCloseKeep ==
  ASSUME IInv,
         \/ DevOpenHal \/ DevOpenFlag \/ DevOpenUpload
         \/ DevCloseHal \/ DevCloseFlag
  PROVE  IInv'
  <1> USE DEF IInv, TypeOK, Stage, Calls, HalOpened, IFF_UP, FirstCall, hal, wishes
  <1>1. CASE DevOpenHal
    BY <1>1 DEF DevOpenHal
  <1>2. CASE DevOpenFlag
    BY <1>2 DEF DevOpenFlag
  <1>3. CASE DevOpenUpload
    BY <1>3 DEF DevOpenUpload
  <1>4. CASE DevCloseHal
    BY <1>4 DEF DevCloseHal
  <1>5. CASE DevCloseFlag
    BY <1>5 DEF DevCloseFlag
  <1>6. QED
    BY <1>1, <1>2, <1>3, <1>4, <1>5

(* The inductive invariant of the receive filter holds in every state.     *)
THEOREM FilterInvariant == Spec => []IInv
  <1>1. IInv /\ [Next]_vars => IInv'
    <2> SUFFICES ASSUME IInv, [Next]_vars PROVE IInv'
      OBVIOUS
    <2>1. CASE UNCHANGED vars
      BY <2>1 DEF vars, IInv, TypeOK, HalOpened, IFF_UP
    <2>2. CASE Next
      BY <2>2, CallsKeep, ListKeeps, KernelKeeps, OpenCloseKeep DEF Next
    <2>3. QED
      BY <2>1, <2>2
  <1>2. QED
    BY InitInv, <1>1, PTL DEF Spec

(* cpmac_dev_mcast_set() loses no wanted frame, for every list.            *)
THEOREM WantedAccepted == Spec => []NoWantedFrameLost
  <1>1. IInv => NoWantedFrameLost
    BY DEF IInv, NoWantedFrameLost, Settled, Accepts, HalOpened, TypeOK
  <1>2. QED
    BY FilterInvariant, <1>1, PTL

(* cpmac_dev_mcast_set() leaves nothing of an earlier mode or list in the  *)
(* filter, for every list, once no user asks for all multicast frames.     *)
THEOREM UnwantedRejected == Spec => []NothingUnwanted
  <1>1. IInv => NothingUnwanted
    BY DEF IInv, NothingUnwanted, Settled, HalOpened, TypeOK
  <1>2. QED
    BY FilterInvariant, <1>1, PTL

(* HashGet() folds every group on the list, and every address near one,    *)
(* the way its reference does.                                             *)
THEOREM HashIsParity == Spec => []HashFoldsGroups
  <1>1. ASSUME NEW g \in Group PROVE Near(g) \subseteq EthAddress
    <2>1. g \in EthAddress
      BY GroupAssumption
    <2> DEFINE one == {g} \cup {Flip(g, k) : k \in 0 .. 47}
    <2>3. ASSUME NEW b \in one PROVE b \in EthAddress
      BY <2>1, FlipAddress
    <2> HIDE DEF one
    <2>4. ASSUME NEW x \in {Flip(b, k) : b \in one, k \in 0 .. 47} PROVE x \in EthAddress
      <3>1. PICK b \in one, k \in 0 .. 47 : x = Flip(b, k)
        OBVIOUS
      <3>2. QED
        BY <2>3, <3>1, FlipAddress
    <2>5. Near(g) = one \cup {Flip(b, k) : b \in one, k \in 0 .. 47}
      BY DEF Near, one
    <2>6. QED
      BY <2>3, <2>4, <2>5
  <1>2. ASSUME NEW g \in Group PROVE g \in FoldedGroup
    BY <1>1, HashParity, Zenon DEF FoldedGroup
  <1>3. IInv => HashFoldsGroups
    BY <1>2, Zenon DEF IInv, TypeOK, HashFoldsGroups
  <1>4. QED
    BY FilterInvariant, <1>3, PTL
=============================================================================
