------------------------------- MODULE GnssLink -------------------------------
(***************************************************************************)
(* How GNSS_logger.ino finds out whether the GNSS module is connected:     *)
(* gnssRefresh() counts the characters TinyGPSPlus has processed in every  *)
(* GNSS_NMEA_INTERVAL.  millis() and the count are uint32_t and wrap.      *)
(*                                                                         *)
(* The receiver (external) sends a burst of sentences at the start of each *)
(* period while it is connected and powered.                               *)
(***************************************************************************)
EXTENDS Naturals

CONSTANTS
  GNSS_NMEA_INTERVAL,
  Period,        \* of the receiver's fixes, in ms
  BurstLength,   \* ms a burst lasts on the wire
  CharsPerTick,  \* characters per ms of a burst
  MinChars,      \* fewer in an interval: disconnected (10)
  Word,          \* values of a uint32_t; smaller for TLC
  MaxDelay       \* the most ms by which gnssRefresh() comes late

\* Bound on the ghost clocks below, and on the time to notice a change: the
\* interval that was cut short, a whole one, and the calls that end them.
Notice == 2 * (GNSS_NMEA_INTERVAL + 1 + MaxDelay) + MaxDelay + 1

ASSUME LinkAssumption ==
  /\ {GNSS_NMEA_INTERVAL, Period, BurstLength, CharsPerTick, MinChars} \subseteq Nat \ {0}
  /\ MaxDelay \in Nat
  /\ BurstLength <= Period
  /\ BurstLength * CharsPerTick >= MinChars
  \* a whole burst fits in every interval
  /\ GNSS_NMEA_INTERVAL >= Period + BurstLength + MaxDelay
  /\ Word \in Nat /\ Word > GNSS_NMEA_INTERVAL + 1 + MaxDelay
  /\ Word > CharsPerTick * (GNSS_NMEA_INTERVAL + 2 + MaxDelay)

VARIABLES
  millis,            \* the Teensy's clock
  phase,             \* ms into the receiver's period
  talking,           \* the receiver is connected
  available,         \* characters in the serial port's buffer
  charsProcessed,    \* by gnss.encode()
  intervalStart,     \* static in gnssRefresh()
  nbCharsProcessed,  \* static in gnssRefresh()
  connected,         \* connectedDevices[GNSS_MODULE]
  late,              \* ms since gnssRefresh() last ran
  setUp,             \* setupGNSS() has returned
  unchangedFor       \* ms since `talking' last changed, up to Notice

vars == <<millis, phase, talking, available, charsProcessed, intervalStart,
          nbCharsProcessed, connected, late, setUp, unchangedFor>>

\* The first call of gnssRefresh(), from setupGNSS().
Init ==
  /\ millis \in 0 .. (Word - 1) /\ intervalStart = millis
  /\ phase \in 0 .. (Period - 1)
  /\ talking = TRUE
  /\ available = 0 /\ charsProcessed = 0 /\ nbCharsProcessed = 0
  /\ connected = FALSE /\ setUp = FALSE
  /\ late = 0 /\ unchangedFor = 0

\* Unsigned subtraction.
Minus(a, b) == (a + Word - b) % Word

\* One ms passes.
Tick ==
  /\ late <= MaxDelay
  /\ late' = late + 1
  /\ millis' = (millis + 1) % Word
  /\ phase' = (phase + 1) % Period
  /\ available' = available + (IF talking /\ phase < BurstLength THEN CharsPerTick ELSE 0)
  /\ unchangedFor' = IF unchangedFor < Notice THEN unchangedFor + 1 ELSE Notice
  /\ UNCHANGED <<talking, charsProcessed, intervalStart, nbCharsProcessed, connected, setUp>>

\* The module is unplugged, or plugged in again and starts its period.
Plug ==
  /\ talking' = ~talking
  /\ phase' = IF talking THEN phase ELSE 0
  /\ unchangedFor' = 0
  /\ UNCHANGED <<millis, available, charsProcessed, intervalStart, nbCharsProcessed,
                 connected, late, setUp>>

\* mutant: the sum of start and interval wraps, the difference does not
IntervalEnded == millis > (intervalStart + GNSS_NMEA_INTERVAL) % Word
IntervalOver == Minus(millis, intervalStart) > GNSS_NMEA_INTERVAL

\* mutant: the count at the start of the interval is not updated
EnoughSinceSetup == charsProcessed >= MinChars
Enough == Minus(charsProcessed, nbCharsProcessed) >= MinChars

gnssRefreshOne ==  \* mutant: one character is read per call
  /\ late > 0
  /\ late' = 0
  /\ IF IntervalOver
       THEN /\ connected' = Enough
            /\ intervalStart' = millis
            /\ nbCharsProcessed' = charsProcessed
       ELSE UNCHANGED <<connected, intervalStart, nbCharsProcessed>>
  /\ charsProcessed' = IF available > 0 THEN (charsProcessed + 1) % Word ELSE charsProcessed
  /\ available' = IF available > 0 THEN available - 1 ELSE 0
  /\ UNCHANGED <<millis, phase, talking, setUp, unchangedFor>>

\* The count is looked at before the characters waiting are read.
gnssRefresh ==
  /\ late > 0
  /\ late' = 0
  /\ IF IntervalOver
       THEN /\ connected' = Enough
            /\ intervalStart' = millis
            /\ nbCharsProcessed' = charsProcessed
       ELSE UNCHANGED <<connected, intervalStart, nbCharsProcessed>>
  /\ charsProcessed' = (charsProcessed + available) % Word
  /\ available' = 0
  /\ UNCHANGED <<millis, phase, talking, setUp, unchangedFor>>

\* setupGNSS() calls gnssRefresh() until a date or a time was received, which
\* is in the characters just read.
setupGNSS ==
  /\ ~setUp /\ available > 0
  /\ late > 0
  /\ late' = 0
  /\ setUp' = TRUE /\ connected' = TRUE
  /\ IF IntervalOver
       THEN intervalStart' = millis /\ nbCharsProcessed' = charsProcessed
       ELSE UNCHANGED <<intervalStart, nbCharsProcessed>>
  /\ charsProcessed' = (charsProcessed + available) % Word
  /\ available' = 0
  /\ UNCHANGED <<millis, phase, talking, unchangedFor>>

Next == Tick \/ Plug \/ gnssRefresh \/ setupGNSS

Spec == Init /\ [][Next]_vars

-----------------------------------------------------------------------------
(* Properties *)

\* Types; the serial port's buffer never holds more than two bursts' worth.
TypeOK ==
  /\ {millis, charsProcessed, intervalStart, nbCharsProcessed} \subseteq 0 .. (Word - 1)
  /\ phase \in 0 .. (Period - 1) /\ late \in 0 .. (MaxDelay + 1)
  /\ available \in 0 .. (CharsPerTick * (MaxDelay + 1))
  /\ {talking, connected, setUp} \subseteq BOOLEAN
  /\ unchangedFor \in 0 .. Notice

\* An unplugged module is reported, whatever the clocks' values, within two
\* intervals, once setup is over: a flag that setupGNSS() sets included.
SilenceNoticed == ~talking /\ setUp /\ unchangedFor = Notice => ~connected

\* So is one plugged in again: and the report does not flicker afterwards, since
\* every interval holds a whole burst.
TalkNoticed == talking /\ unchangedFor = Notice => connected
=============================================================================
