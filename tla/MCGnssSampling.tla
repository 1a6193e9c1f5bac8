--------------------------- MODULE MCGnssSampling ---------------------------
(* GnssSampling with the sentences of the receiver that commit values. *)
EXTENDS GnssSampling

MCSentences == <<"GGA", "RMC">>
=============================================================================
