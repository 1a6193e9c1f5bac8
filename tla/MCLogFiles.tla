----------------------------- MODULE MCLogFiles -----------------------------
(* LogFiles with values for TLC: dates are <<month, day>> and times <<hour,   *)
(* second>>; a month begins after the second tick.                            *)
EXTENDS LogFiles

MCUnset == <<0, 0>>

MCUtc == << [date |-> <<1, 2>>, time |-> <<2, 1>>],
            [date |-> <<1, 2>>, time |-> <<2, 2>>],
            [date |-> <<2, 1>>, time |-> <<0, 1>>] >>

\* The button is not released while logging.
KeepsLogging == Init /\ [][Next /\ (enLog => enLog')]_vars
=============================================================================
