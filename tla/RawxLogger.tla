------------------------------ MODULE RawxLogger ------------------------------
(***************************************************************************)
(* GNSS_RAWX_logger: the receiver's UBX and NMEA messages are copied from  *)
(* Serial1 into SerialBuffer by the timer interrupt TC3, and from there by *)
(* loop(), a byte at a time, into serBuffer and the file.  loop() follows  *)
(* the framing of the messages so as to change files, when the RTC's alarm *)
(* has asked for it, between two of them; when it loses track it stops the *)
(* receiver and starts a new file.                                         *)
(*                                                                         *)
(* A byte knows the message it is of and its place there: the checksums    *)
(* are right exactly if what was summed is what the receiver summed (two   *)
(* different texts with one checksum are left out).  Class and ID, and the *)
(* payload, have one value each; the length keeps its two bytes.           *)
(***************************************************************************)
EXTENDS Integers, Sequences

CONSTANTS
  Messages,        \* what the receiver sends: [type, len], in order
  Noise,           \* what a byte may turn into on the line: it is of no message
  Base,            \* values of a byte (256)
  SDpacket, BufferSize, max_nmea_len, maxvalfix,
  INTERVAL,        \* minutes between files
  Seconds, Minutes,  \* seconds in a minute and minutes in an hour
  MaxLag,          \* seconds between a reading of the GNSS time and its use, at most
  MaxLow,          \* bound: readings of a low battery
  MaxTime,         \* bound: seconds
  MaxFaults        \* bound: bytes lost, altered, or dropped by a full buffer

ASSUME RawxAssumption ==
  /\ Messages \in Seq([type : {"UBX", "NMEA"}, len : Nat]) /\ (\A c \in Noise : c.msg = 0)
  /\ SDpacket \in Nat \ {0} /\ BufferSize \in Nat \ {0} /\ Base \in Nat \ {0}
  /\ max_nmea_len \in Nat /\ maxvalfix \in Nat \ {0}
  /\ Seconds \in Nat \ {0} /\ Minutes \in 1 .. 128 /\ INTERVAL \in 1 .. Minutes
  /\ MaxLag \in Nat /\ MaxLow \in Nat /\ MaxTime \in Nat /\ MaxFaults \in Nat

VARIABLES
  now,             \* the RTC, in seconds
  lag,             \* what the GNSS time is ahead of it, kept until logging begins
  alarmMinutes,    \* the RTC's alarm, -1 before it is set
  setLate,         \* it is set from a minute the RTC had left by then
  alarmFlag,
  rawxOn,          \* the receiver's messages are enabled
  msg, pos,        \* the message it sends, and the bytes of it already sent
  faults,
  SerialBuffer,
  loop_step, valfix, stop_pressed,
  lowBattery,      \* vbat < LOWBAT when it was last read
  lows,            \* low readings so far
  serBuffer,       \* its first bufferPointer bytes
  ubx_nmea_state, ubx_length,
  summed,          \* what went into the checksum of the message being read
  csum1,           \* the byte before: at the second checksum byte, the first
  name,            \* the last file's name, as the second of its opening; none: -1
  card,            \* all bytes written to the card
  emptyFile,       \* no byte was put into the open file
  stored           \* all bytes SerialBuffer has taken

clockVars == <<now, lag, alarmMinutes, setLate, alarmFlag>>
receiverVars == <<rawxOn, msg, pos, faults>>
batteryVars == <<lowBattery, lows>>
parserVars == <<ubx_nmea_state, ubx_length, summed, csum1>>
fileVars == <<name, card, emptyFile, serBuffer>>
vars == <<clockVars, receiverVars, SerialBuffer, loop_step, valfix, stop_pressed,
          batteryVars, parserVars, fileVars, stored>>

-----------------------------------------------------------------------------
(* The messages (external): UBX with its payload, NMEA with its text *)

Kinds(m) ==
  IF m.type = "UBX"
  THEN <<"B5", "62", "data", "data", "data", "data">> \o
       [i \in 1 .. m.len |-> "data"] \o <<"data", "data">>
  ELSE <<"$">> \o [i \in 1 .. m.len |-> "data"] \o <<"*", "data", "data", "CR", "LF">>

Size(n) == IF n = 0 THEN 0 ELSE Len(Kinds(Messages[n]))

\* Byte i of message n; those of the length have its value.
Byte(n, i) ==
  [kind |-> Kinds(Messages[n])[i], msg |-> n, pos |-> i,
   val |-> CASE Messages[n].type = "UBX" /\ i = 5 -> Messages[n].len % Base
             [] Messages[n].type = "UBX" /\ i = 6 -> Messages[n].len \div Base
             [] OTHER -> 1]

\* What the receiver summed for message n.
Summed(n) == IF Messages[n].type = "UBX"
             THEN [i \in 1 .. Messages[n].len + 4 |-> Byte(n, i + 2)]
             ELSE [i \in 1 .. Messages[n].len |-> Byte(n, i + 1)]

LastByte(c) == c.msg # 0 /\ c.pos = Size(c.msg)

\* a and b are the checksum of a message of that type, and it is the right one.
ChecksumRight(type, a, b) ==
  /\ a.msg # 0 /\ b.msg = a.msg /\ b.pos = a.pos + 1
  /\ Messages[b.msg].type = type
  /\ b.pos = Size(b.msg) - (IF type = "UBX" THEN 0 ELSE 2)
  /\ summed = Summed(a.msg)

-----------------------------------------------------------------------------
(* The framing: what a byte c read in write_file does to the parse state *)

\* mutant: the length is checked before it is decremented
CheckedFirst(n) == n = 0
PayloadEnds(n) == n - 1 = 0

Expect(found, next) == IF found THEN next ELSE "sync_lost"

NextState(c) ==
  CASE ubx_nmea_state = "looking_for_B5_dollar" ->
         IF c.kind = "$" THEN "looking_for_asterix"
                         ELSE Expect(c.kind = "B5", "looking_for_62")
    [] ubx_nmea_state = "looking_for_62" -> Expect(c.kind = "62", "looking_for_class")
    [] ubx_nmea_state = "looking_for_class" -> "looking_for_ID"
    [] ubx_nmea_state = "looking_for_ID" -> "looking_for_length_LSB"
    [] ubx_nmea_state = "looking_for_length_LSB" -> "looking_for_length_MSB"
    [] ubx_nmea_state = "looking_for_length_MSB" -> "processing_payload"
    [] ubx_nmea_state = "processing_payload" ->
         IF PayloadEnds(ubx_length) THEN "looking_for_checksum_A" ELSE "processing_payload"
    [] ubx_nmea_state = "looking_for_checksum_A" -> "looking_for_checksum_B"
    [] ubx_nmea_state = "looking_for_checksum_B" ->
         Expect(ChecksumRight("UBX", csum1, c), "looking_for_B5_dollar")
    [] ubx_nmea_state = "looking_for_asterix" ->
         IF c.kind = "*" /\ ubx_length + 1 <= max_nmea_len THEN "looking_for_csum1"
         ELSE Expect(ubx_length + 1 <= max_nmea_len, "looking_for_asterix")
    [] ubx_nmea_state = "looking_for_csum1" -> "looking_for_csum2"
    [] ubx_nmea_state = "looking_for_csum2" ->
         Expect(ChecksumRight("NMEA", csum1, c), "looking_for_term1")
    [] ubx_nmea_state = "looking_for_term1" -> Expect(c.kind = "CR", "looking_for_term2")
    [] ubx_nmea_state = "looking_for_term2" -> Expect(c.kind = "LF", "looking_for_B5_dollar")
    [] OTHER -> ubx_nmea_state

\* The payload still to come, or the NMEA characters so far.
NextLength(c) ==
  CASE ubx_nmea_state = "looking_for_B5_dollar" -> IF c.kind = "$" THEN 0 ELSE ubx_length
    [] ubx_nmea_state = "looking_for_length_LSB" -> c.val
    [] ubx_nmea_state = "looking_for_length_MSB" -> ubx_length + c.val * Base
    [] ubx_nmea_state = "processing_payload" -> ubx_length - 1
    [] ubx_nmea_state = "looking_for_asterix" -> ubx_length + 1
    [] OTHER -> ubx_length

InSum == {"looking_for_class", "looking_for_ID", "looking_for_length_LSB",
          "looking_for_length_MSB", "processing_payload", "looking_for_asterix"}

Parse(c) ==
  /\ ubx_nmea_state' = NextState(c)
  /\ ubx_length' = NextLength(c)
  /\ summed' = CASE ubx_nmea_state \in {"looking_for_B5_dollar", "looking_for_62"} -> << >>
                 [] ubx_nmea_state \in InSum /\ NextState(c) # "looking_for_csum1" ->
                      Append(summed, c)
                 [] OTHER -> summed
  /\ csum1' = c

-----------------------------------------------------------------------------
(* The receiver, the interrupts and the clock *)

\* Bound: nothing is followed once loop() is in a while(1).
Running == loop_step \notin {"stopped", "panic"}

Rollover(m) == m  \* mutant: minutes are not corrected for the hour
HourRollover(m) == m % Minutes

Minute(t) == (t \div Seconds) % Minutes

AlarmAt(t) == t % Seconds = 0 /\ Minute(t) = alarmMinutes

\* A second of the RTC; alarmMatch() if minutes and seconds match.
Tick ==
  /\ Running
  /\ now < MaxTime
  /\ now' = now + 1
  /\ alarmFlag' = (alarmFlag \/ AlarmAt(now'))
  /\ UNCHANGED <<lag, alarmMinutes, setLate, receiverVars, SerialBuffer, loop_step, valfix,
                 stop_pressed, batteryVars, parserVars, fileVars, stored>>

\* TC3_Handler(): store_char() drops the byte if the buffer is full.
StoreChar(c) ==
  IF Len(SerialBuffer) < BufferSize
  THEN SerialBuffer' = Append(SerialBuffer, c) /\ stored' = Append(stored, c)
  ELSE UNCHANGED <<SerialBuffer, stored>>

\* The next byte: of the message being sent, or of the next one, which begins
\* only while messages are enabled.  It may be lost on the line, or altered, or
\* dropped by store_char(): MaxFaults times in all.
Arrive ==
  /\ Running
  /\ \/ pos < Size(msg) /\ msg' = msg /\ pos' = pos + 1
     \/ pos = Size(msg) /\ rawxOn /\ msg < Len(Messages) /\ msg' = msg + 1 /\ pos' = 1
  /\ \/ Len(SerialBuffer) < BufferSize /\ StoreChar(Byte(msg', pos')) /\ UNCHANGED faults
     \/ /\ faults < MaxFaults /\ faults' = faults + 1
        /\ \/ UNCHANGED <<SerialBuffer, stored>>
           \/ \E c \in Noise \cup {Byte(msg', pos')} : StoreChar(c)
  /\ UNCHANGED <<clockVars, rawxOn, loop_step, valfix, stop_pressed, batteryVars,
                 parserVars, fileVars>>

-----------------------------------------------------------------------------
(* loop() *)

ReadBattery ==
  /\ lowBattery' \in {FALSE, lows < MaxLow}
  /\ lows' = IF lowBattery' THEN lows + 1 ELSE lows

\* The RTC is set from the GNSS time, now + lag, as the receiver last gave it.
SetTime ==
  \E age \in 0 .. MaxLag :
    /\ now + lag - age \in 0 .. MaxTime
    /\ now' = now + lag - age
    /\ lag' = age

\* Wait for maxvalfix fixes; every pass with enough of them sets the RTC.
init ==
  /\ loop_step = "init"
  /\ \E fix \in {0, 1} : valfix' = IF valfix + fix > maxvalfix THEN maxvalfix ELSE valfix + fix
  /\ ReadBattery
  /\ IF valfix' = maxvalfix
     THEN alarmFlag' = FALSE /\ SetTime /\ loop_step' = "set_alarm"
     ELSE UNCHANGED <<alarmFlag, now, lag, loop_step>>
  /\ UNCHANGED <<alarmMinutes, setLate, receiverVars, SerialBuffer, stop_pressed, parserVars,
                 fileVars, stored>>

\* The next multiple of INTERVAL after the minute of second t.
FirstAlarm(t) == HourRollover(((Minute(t) + INTERVAL) \div INTERVAL) * INTERVAL)

\* The rest of the pass: the alarm is set from the GNSS minute, asked for again:
\* the RTC may have ticked since that reading, or the minute passed since the
\* RTC's.  With a low battery the pass ends there.
SetAlarm ==
  /\ loop_step = "set_alarm"
  /\ \E t \in now - MaxLag .. now + lag :
       /\ t >= 0
       /\ alarmMinutes' = FirstAlarm(t)
       /\ setLate' = (t \div Seconds < now \div Seconds)
  /\ IF lowBattery THEN loop_step' = "init" /\ UNCHANGED lag
                   ELSE loop_step' = "start_rawx" /\ lag' = 0
  /\ UNCHANGED <<now, alarmFlag, receiverVars, SerialBuffer, valfix, stop_pressed,
                 batteryVars, parserVars, fileVars, stored>>

start_rawx ==
  /\ loop_step = "start_rawx"
  /\ rawxOn' = TRUE
  /\ serBuffer' = << >>
  /\ loop_step' = "open_file"
  /\ UNCHANGED <<clockVars, msg, pos, faults, SerialBuffer, valfix, stop_pressed,
                 batteryVars, parserVars, name, card, emptyFile, stored>>

\* The name is the RTC's date and time.  O_EXCL: it must be new, or while(1); the
\* RTC is not set any more, so that only the last file can have it.
open_file ==
  /\ loop_step = "open_file"
  /\ IF now = name
     THEN loop_step' = "panic" /\ UNCHANGED <<name, emptyFile, parserVars>>
     ELSE /\ name' = now
          /\ emptyFile' = TRUE
          /\ ubx_nmea_state' = "looking_for_B5_dollar" /\ ubx_length' = 0
          /\ loop_step' = "write_file"
          /\ UNCHANGED <<summed, csum1>>
  /\ UNCHANGED <<clockVars, receiverVars, SerialBuffer, valfix, stop_pressed, batteryVars,
                 card, serBuffer, stored>>

PacketKept == /\ serBuffer' = Append(serBuffer, Head(SerialBuffer))  \* mutant: not emptied
              /\ card' = IF Len(serBuffer') = SDpacket THEN card \o serBuffer' ELSE card
              /\ SerialBuffer' = Tail(SerialBuffer)
\* read_char() into serBuffer, which is written when it is full.
TakeByte ==
  /\ SerialBuffer' = Tail(SerialBuffer)
  /\ LET buffer == Append(serBuffer, Head(SerialBuffer))
     IN  IF Len(buffer) = SDpacket
         THEN serBuffer' = << >> /\ card' = card \o buffer
         ELSE serBuffer' = buffer /\ UNCHANGED card

CutAnywhere == TRUE  \* mutant: the parse state is not looked at
AtBoundary == ubx_nmea_state' = "looking_for_B5_dollar"

\* One pass.  The battery is read only when no byte is waiting.
write_file ==
  /\ loop_step = "write_file"
  /\ IF SerialBuffer # << >>
     THEN /\ TakeByte /\ Parse(Head(SerialBuffer)) /\ emptyFile' = FALSE
          /\ UNCHANGED batteryVars
     ELSE /\ ReadBattery
          /\ UNCHANGED <<SerialBuffer, serBuffer, card, emptyFile, parserVars>>
  /\ \E pressed \in BOOLEAN : stop_pressed' = (stop_pressed \/ pressed)
  /\ loop_step' = IF stop_pressed' \/ lowBattery' THEN "close_file"
                  ELSE IF alarmFlag /\ AtBoundary THEN "new_file"
                  ELSE IF ubx_nmea_state' = "sync_lost" THEN "restart_file" ELSE "write_file"
  /\ UNCHANGED <<clockVars, receiverVars, valfix, name, stored>>

RestDropped == serBuffer' = << >> /\ UNCHANGED card  \* mutant: the rest is not written
\* What is left in serBuffer is written.
WriteRest == serBuffer' = << >> /\ card' = card \o serBuffer

\* The alarm is set from the minute the file was changed in.
new_file ==
  /\ loop_step = "new_file"
  /\ WriteRest
  /\ alarmFlag' = FALSE
  /\ alarmMinutes' = HourRollover(Minute(now) + INTERVAL) /\ setLate' = FALSE
  /\ loop_step' = "open_file"
  /\ UNCHANGED <<now, lag, receiverVars, SerialBuffer, valfix, stop_pressed, batteryVars,
                 parserVars, name, emptyFile, stored>>

\* close_file and restart_file: setRAWXoff(), whose result is not looked at.
Off(step, dwelling) ==
  /\ loop_step = step
  /\ rawxOn' \in {FALSE, rawxOn}
  /\ loop_step' = dwelling
  /\ UNCHANGED <<clockVars, msg, pos, faults, SerialBuffer, valfix, stop_pressed,
                 batteryVars, parserVars, fileVars, stored>>

\* Residual data goes into the file without being looked at.
Drain ==
  /\ loop_step \in {"closing", "restarting"}
  /\ SerialBuffer # << >>
  /\ TakeByte
  /\ UNCHANGED <<clockVars, receiverVars, loop_step, valfix, stop_pressed, batteryVars,
                 parserVars, name, emptyFile, stored>>

\* The dwell is over; nothing makes sure that the receiver has finished.
EndOfDwell ==
  /\ loop_step \in {"closing", "restarting"}
  /\ SerialBuffer = << >>
  /\ WriteRest
  /\ loop_step' = IF loop_step = "restarting" THEN "start_rawx"
                  ELSE IF stop_pressed THEN "stopped" ELSE "battery"
  /\ UNCHANGED <<clockVars, receiverVars, SerialBuffer, valfix, stop_pressed, batteryVars,
                 parserVars, name, emptyFile, stored>>

BatteryRecovers ==
  /\ loop_step = "battery"
  /\ lowBattery' = FALSE
  /\ loop_step' = "start_rawx"
  /\ UNCHANGED <<lows, clockVars, receiverVars, SerialBuffer, valfix, stop_pressed,
                 parserVars, fileVars, stored>>

close_file == Off("close_file", "closing")
restart_file == Off("restart_file", "restarting")

loop == init \/ SetAlarm \/ start_rawx \/ open_file \/ write_file \/ new_file
        \/ close_file \/ restart_file \/ Drain \/ EndOfDwell \/ BatteryRecovers

-----------------------------------------------------------------------------
NoByte == [kind |-> "data", msg |-> 0, pos |-> 0, val |-> 0]

Init ==
  /\ now = 0 /\ lag = 0 /\ alarmMinutes = -1 /\ setLate = FALSE /\ alarmFlag = FALSE
  /\ rawxOn = FALSE /\ msg = 0 /\ pos = 0 /\ faults = 0
  /\ SerialBuffer = << >> /\ stored = << >>
  /\ loop_step = "init" /\ valfix = 0 /\ stop_pressed = FALSE /\ lowBattery = FALSE /\ lows = 0
  /\ ubx_nmea_state = "looking_for_B5_dollar" /\ ubx_length = 0
  /\ summed = << >> /\ csum1 = NoByte
  /\ name = -1 /\ card = << >> /\ emptyFile = TRUE /\ serBuffer = << >>

Next == Tick \/ Arrive \/ loop

Spec == Init /\ [][Next]_vars

-----------------------------------------------------------------------------
(* Properties *)

Steps == {"init", "set_alarm", "start_rawx", "open_file", "write_file", "new_file",
          "close_file", "restart_file", "closing", "restarting", "battery", "stopped", "panic"}

\* Types; serBuffer has room for a byte whenever loop() takes one.
TypeOK ==
  /\ now \in 0 .. MaxTime /\ lag \in 0 .. MaxLag /\ alarmMinutes \in -1 .. 255
  /\ msg \in 0 .. Len(Messages) /\ faults \in 0 .. MaxFaults
  /\ {setLate, alarmFlag, rawxOn, stop_pressed, lowBattery} \subseteq BOOLEAN
  /\ lows \in 0 .. MaxLow
  /\ loop_step \in Steps /\ valfix \in 0 .. maxvalfix
  /\ Len(SerialBuffer) <= BufferSize
  /\ Len(serBuffer) < SDpacket
  /\ name \in -1 .. now /\ emptyFile \in BOOLEAN

\* Every byte SerialBuffer took is on the card once, in order, or still in one
\* of the two buffers: through packets, changes of file, restarts and pauses.
EveryByteOnce == stored = card \o serBuffer \o SerialBuffer

\* "Only allow a new file to be opened when a complete packet has been
\* processed": whatever was lost or altered, a file that the alarm ends has at
\* its end the last byte of a message, or nothing.  (A byte altered to LF after
\* CR would be taken for the end.)
AlarmCutsBetweenMessages ==
  [][loop_step = "write_file" /\ loop_step' = "new_file" =>
       LET logged == card' \o serBuffer'
       IN  emptyFile' \/ LastByte(logged[Len(logged)])]_vars

\* "Changes to a new log file every INTERVAL minutes": unless the alarm has gone
\* off already, it does in INTERVAL minutes, or MaxLag seconds more where it was
\* set from a GNSS minute ahead of the RTC's, over restarts of init and the turn
\* of the hour.  Set from a minute the RTC had left by then, the alarm may be for
\* that very moment, and goes off an hour later.
AlarmWithinInterval ==
  alarmMinutes # -1 /\ ~alarmFlag /\ loop_step # "set_alarm" =>
    \E k \in 1 .. (IF setLate THEN Minutes ELSE INTERVAL) * Seconds + MaxLag : AlarmAt(now + k)

\* An alarm waits for the end of the message being received and no longer, in a
\* stream without faults: no message ends in write_file with the alarm pending.
\* No byte of a payload is 0xB5 or "$" here, which a file begun in the middle of a
\* message, after a pause for the battery, would take for the start of one.
\* (A length damaged to 0 holds the framing in the payload for ever.)
AlarmWaitsForOneMessage ==
  [][write_file /\ SerialBuffer # << >> /\ LastByte(Head(SerialBuffer))
     /\ alarmFlag /\ faults = 0 => loop_step' # "write_file"]_vars

\* HARDWARE.md: "The logger will keep logging until the stop switch is pressed
\* or the battery voltage starts to fall": it never hangs on a file name.
KeepsLogging == loop_step # "panic"
=============================================================================
