---------------------------- MODULE MCNmeaParser ----------------------------
(* NmeaParser with sentences of the three kinds, with and without a fix. *)
EXTENDS NmeaParser

Sentence(kind, fix, blank) == [kind |-> kind, fix |-> fix, blank |-> blank]

MCSentences == {Sentence("RMC", TRUE, FALSE), Sentence("RMC", FALSE, TRUE),
                Sentence("GGA", TRUE, FALSE), Sentence("GSA", TRUE, FALSE)}
=============================================================================
