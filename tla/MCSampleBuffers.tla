--------------------------- MODULE MCSampleBuffers ---------------------------
(* SampleBuffers with values for TLC. *)
EXTENDS SampleBuffers

SampleIds == 0 .. MaxSamples
=============================================================================
