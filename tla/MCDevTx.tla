------------------------------ MODULE MCDevTx ------------------------------
(* DevTx for TLC: four buffers, of which one may be unwanted.              *)
EXTENDS DevTx

MCSkb == {"s1", "s2", "s3", "u"}
MCUnwanted == {"u"}
=============================================================================
