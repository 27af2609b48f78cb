----------------------------- MODULE MCCpmacDev -----------------------------
(* CpmacDev for TLC.                                                       *)
EXTENDS CpmacDev
=============================================================================
