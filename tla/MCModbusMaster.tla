---------------------------- MODULE MCModbusMaster ----------------------------
(* ModbusMaster with damaged bytes that read as a smaller and a larger count. *)
EXTENDS ModbusMaster

MCAltered == {0, 5}
=============================================================================
