------------------------------- MODULE MCMdio -------------------------------
(* Mdio for TLC: negotiation of all modes or of the full duplex ones, or   *)
(* full duplex 100 by hand, with partners of all modes, of one, and none.  *)
EXTENDS Mdio

MCModeChoices ==
  {[auto |-> TRUE, modes |-> Mode], [auto |-> TRUE, modes |-> {FD10, FD100}],
   [auto |-> FALSE, modes |-> {FD100, HD10}]}
MCPartners == {{}, {HD10}, {HD100, FD10}, Mode}
=============================================================================
