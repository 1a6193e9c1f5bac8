-------------------------- MODULE MCLowEnergyLogger --------------------------
(* LowEnergyLogger as TLC checks it; its constants are in the cfg, where the  *)
(* time-out is no multiple of the span of a byte, as 700 is none of 256.      *)
EXTENDS LowEnergyLogger
=============================================================================
