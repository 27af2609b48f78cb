----------------------------- MODULE MCCppiRx -----------------------------
(* Small instances of CppiRx for TLC.  Buffers are interchangeable.         *)
EXTENDS CppiRx, TLC

BufSymmetry == Permutations(Buf)
=============================================================================
