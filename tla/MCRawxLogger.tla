---------------------------- MODULE MCRawxLogger ----------------------------
(* RawxLogger with a UBX and an NMEA message, and bytes altered to a length   *)
(* of 0 or to the start of an NMEA message.                                   *)
EXTENDS RawxLogger

MCMessages == <<[type |-> "UBX", len |-> 1], [type |-> "NMEA", len |-> 1]>>

MCNoise == {[kind |-> "data", msg |-> 0, pos |-> 0, val |-> 0],
            [kind |-> "$", msg |-> 0, pos |-> 0, val |-> 1]}
=============================================================================
