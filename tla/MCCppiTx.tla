----------------------------- MODULE MCCppiTx -----------------------------
(* Small instances of CppiTx for TLC.                                       *)
EXTENDS CppiTx
=============================================================================
