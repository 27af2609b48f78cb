----------------------------- MODULE MCSkbPool -----------------------------
(* The sk_buff pool with a few blocks and headers.                          *)
EXTENDS SkbPool, TLC
Symmetry == Permutations(Skb) \cup Permutations(Dyn) \cup Permutations(Buf)
=============================================================================
