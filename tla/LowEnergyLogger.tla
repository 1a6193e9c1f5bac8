---------------------------- MODULE LowEnergyLogger ----------------------------
(***************************************************************************)
(* le_logger.ino: everything happens in loop(), which sleeps between two   *)
(* passes.  gnssRefresh() polls the receiver until all of time, date,      *)
(* location and altitude are new, or a time-out; then the sensors are      *)
(* read, the log file is seen to, and a row is written.                    *)
(*                                                                         *)
(* A sentence carries its number as the time of day; a row is the number   *)
(* of the reading it holds, 0 before the first.  Rows reach the card when  *)
(* their file is closed, as in LogFiles.                                   *)
(***************************************************************************)
EXTENDS Integers, Sequences

CONSTANTS
  ByteSize,          \* values of uint8_t (256), in ticks of millis()
  WATCHDOG,          \* the time-out of gnssRefresh(): 700 ms
  Patience,          \* of setupGNSS(): 7000 ms
  LOG_SEG_INTERVAL,
  DayLength,         \* sentences in a day
  NoFile, NoSentence,
  Cut,               \* what a sentence that was cut leaves: nothing usable
  MaxUptime,         \* bound: millis() stays there
  MaxSent, MaxSamples

ASSUME LowEnergyAssumption ==
  /\ ByteSize \in Nat \ {0} /\ WATCHDOG \in Nat /\ Patience \in Nat
  /\ LOG_SEG_INTERVAL \in Nat \ {0} /\ DayLength \in Nat \ {0}
  /\ MaxUptime \in Nat /\ MaxUptime > WATCHDOG + ByteSize /\ MaxSent \in Nat \ {0}
  /\ MaxSamples \in Nat

VARIABLES
  pc,
  uptime,        \* millis()
  sent,          \* the last sentence the receiver sent
  serial,        \* the receive buffer of GNSS_SERIAL, which holds one
  gnss,          \* date and time of the TinyGPSPlus object
  updated,       \* its values that are new
  since,         \* when the present gnssRefresh() began
  enLog,
  logFile,       \* NoFile, or [path, rows not yet on the card]
  logDir, logFileName,
  previous,      \* of logSegCountdown
  files,         \* on the card: path -> rows
  samples        \* readings so far: what time_ms to dist_mm hold

gnssVars == <<gnss, updated, since>>
fileVars == <<logFile, logDir, logFileName, previous, files>>
vars == <<pc, uptime, sent, serial, gnssVars, enLog, fileVars, samples>>

Date(n) == n \div DayLength + 1
Time(n) == n % DayLength

Values == {"time", "date", "location", "altitude"}

Init ==
  /\ pc = "setupGNSS" /\ uptime = 0 /\ sent = 0 /\ serial = NoSentence
  /\ gnss = [date |-> 0, time |-> 0] /\ updated = {} /\ since = 0
  /\ enLog = FALSE /\ logFile = NoFile /\ logDir = 0 /\ logFileName = 0 /\ previous = 0
  /\ files = << >> /\ samples = 0

-----------------------------------------------------------------------------
(* Time and the receiver (external) *)

TimePasses ==
  /\ uptime < MaxUptime
  /\ uptime' = uptime + 1
  /\ UNCHANGED <<pc, sent, serial, gnssVars, enLog, fileVars, samples>>

\* A sentence is longer than the buffer: unless it is being polled, it is cut,
\* or lost behind the one that is waiting.
Sentence ==
  /\ sent' \in {sent, sent + 1} /\ sent' \in 1 .. MaxSent
  /\ \/ serial # NoSentence /\ UNCHANGED serial
     \/ serial = NoSentence /\ serial' = Cut
     \/ /\ serial = NoSentence /\ pc = "await"
        /\ \E kind \in {"RMC", "GGA"}, fix \in BOOLEAN :
             serial' = [number |-> sent', kind |-> kind, fix |-> fix]
  /\ UNCHANGED <<pc, uptime, gnssVars, enLog, fileVars, samples>>

\* What the sentence s updates: see NmeaParser.
UpdatedBy(s) ==
  IF s = Cut THEN {}
  ELSE {"time"} \cup (IF s.kind = "RMC" THEN {"date"} ELSE {})
                \cup (IF s.fix THEN {"location"} ELSE {})
                \cup (IF s.fix /\ s.kind = "GGA" THEN {"altitude"} ELSE {})

-----------------------------------------------------------------------------
(* gnssRefresh() and setupGNSS() *)

Return == /\ since' = 0
          /\ pc' = IF enLog THEN "readSensors" ELSE "acquire"

WholeUptime(t) == t  \* mutant: the watchdog has the width of millis()
\* uint8_t watchdog = millis().
Watchdog(t) == t % ByteSize

NeverExpired == FALSE  \* mutant: there is no watchdog
Expired == uptime - Watchdog(since) > WATCHDOG

Refreshed ==
  /\ pc = "refresh" /\ updated = Values
  /\ Return
  /\ UNCHANGED <<uptime, sent, serial, gnss, updated, enLog, fileVars, samples>>

GiveUp ==
  /\ pc = "refresh" /\ updated # Values /\ Expired
  /\ Return
  /\ UNCHANGED <<uptime, sent, serial, gnss, updated, enLog, fileVars, samples>>

\* while (!GNSS_SERIAL.available());
Listen ==
  /\ pc = "refresh" /\ updated # Values /\ ~Expired
  /\ pc' = "await"
  /\ UNCHANGED <<uptime, sent, serial, gnssVars, enLog, fileVars, samples>>

Encode ==
  /\ pc = "await" /\ serial # NoSentence
  /\ serial' = NoSentence
  /\ LET new == UpdatedBy(serial)
     IN  /\ updated' = updated \cup new
         /\ gnss' = [date |-> IF "date" \in new THEN Date(serial.number) ELSE gnss.date,
                     time |-> IF "time" \in new THEN Time(serial.number) ELSE gnss.time]
  /\ pc' = "refresh"
  /\ UNCHANGED <<uptime, sent, since, enLog, fileVars, samples>>

gnssRefresh == Refreshed \/ GiveUp \/ Listen \/ Encode

\* A character is waited for; without one, while (1).
FirstCharacter ==
  /\ pc = "setupGNSS"
  /\ pc' = IF serial # NoSentence THEN "acquire"
           ELSE IF uptime > Patience THEN "halted" ELSE pc
  /\ UNCHANGED <<uptime, sent, serial, gnssVars, enLog, fileVars, samples>>

NoneAcquired == gnss.date = 0 /\ gnss.time = 0  \* mutant: a date or a time is enough
NotAcquired == gnss.date = 0 \/ gnss.time = 0

\* while (gps.date.value() == 0 || gps.time.value() == 0): time is only looked
\* at, and then no longer new, once there is a date.
Acquire ==
  /\ pc = "acquire"
  /\ updated' = updated \ (IF gnss.date = 0 THEN {"date"} ELSE {"date", "time"})
  /\ IF NotAcquired THEN pc' = "refresh" /\ since' = uptime
                    ELSE pc' = "loop" /\ UNCHANGED since
  /\ UNCHANGED <<uptime, sent, serial, gnss, enLog, fileVars, samples>>

setupGNSS == FirstCharacter \/ Acquire

-----------------------------------------------------------------------------
(* loop() *)

\* file.close()
Close == /\ logFile' = NoFile
         /\ files' = IF logFile = NoFile THEN files
                     ELSE [files EXCEPT ![logFile.path] = logFile.rows]

\* The button is held down to log; otherwise the file is closed.
handleDigitalIO ==
  /\ pc = "loop"
  /\ enLog' \in BOOLEAN
  /\ IF enLog' THEN pc' = "refresh" /\ since' = uptime /\ UNCHANGED <<logFile, files>>
               ELSE Close /\ UNCHANGED <<pc, since>>
  /\ UNCHANGED <<uptime, sent, serial, gnss, updated, logDir, logFileName, previous,
                 samples>>

\* mutant: the commented-out condition: read only if the receiver gave news
NewsOnly == logFile # NoFile /\ {"time", "location", "altitude"} \subseteq updated
ReadingGoes == logFile # NoFile

\* Only when a file is open, which handleLogFile() sees to after this.
readSensors ==
  /\ pc = "readSensors"
  /\ IF ReadingGoes
     THEN /\ samples < MaxSamples
          /\ samples' = samples + 1
          /\ updated' = updated \cap {"date"}
     ELSE UNCHANGED <<samples, updated>>
  /\ pc' = "handleLogFile"
  /\ UNCHANGED <<uptime, sent, serial, gnss, since, enLog, fileVars>>

NewDay == logFile = NoFile \/ logDir # gnss.date
SegmentOver == uptime - previous >= LOG_SEG_INTERVAL

\* mutant: the file stays open under its new name
OpenUnclosed(file, onCard, name) ==
  IF <<logDir', name>> \in DOMAIN onCard
  THEN logFile' = logFile /\ files' = onCard
  ELSE /\ logFile' = [path |-> <<logDir', name>>, rows |-> << >>]
       /\ files' = [p \in DOMAIN onCard \cup {<<logDir', name>>} |->
                      IF p \in DOMAIN onCard THEN onCard[p] ELSE << >>]
\* new_logFile(): a file that exists is left alone, and file with it.
Open(file, onCard, name) ==
  IF <<logDir', name>> \in DOMAIN onCard
  THEN logFile' = file /\ files' = onCard
  ELSE /\ logFile' = [path |-> <<logDir', name>>, rows |-> << >>]
       /\ files' = [p \in DOMAIN onCard \cup {<<logDir', name>>} |->
                      IF p \in DOMAIN onCard THEN onCard[p] ELSE << >>]

\* handleLogFile() with a card.
SeeToFile ==
  /\ logDir' = IF NewDay THEN gnss.date ELSE logDir
  /\ IF NewDay \/ SegmentOver
     THEN /\ logFileName' = gnss.time
          /\ updated' = updated \ {"date", "time"}
          /\ previous' = uptime
          /\ LET closed == IF logFile = NoFile THEN files
                           ELSE [files EXCEPT ![logFile.path] = logFile.rows]
             IN  Open(NoFile, closed, logFileName')
     ELSE /\ UNCHANGED <<logFileName, previous>>
          /\ updated' = updated \ {"date"}
          /\ Open(logFile, files, logFileName)

\* handleLogFile() without a card (SD.mediaPresent(): external).
NoCard ==
  /\ logFile' = NoFile
  /\ UNCHANGED <<files, logDir, logFileName, previous, updated>>

handleLogFile ==
  /\ pc = "handleLogFile"
  /\ SeeToFile \/ NoCard
  /\ pc' = "logToSD"
  /\ UNCHANGED <<uptime, sent, serial, gnss, since, enLog, samples>>

\* And Snooze.deepSleep(), until an alarm or the button.
logToSD ==
  /\ pc = "logToSD"
  /\ logFile' = IF logFile = NoFile THEN NoFile
                ELSE [logFile EXCEPT !.rows = Append(@, samples)]
  /\ pc' = "loop"
  /\ UNCHANGED <<uptime, sent, serial, gnssVars, enLog, logDir, logFileName, previous,
                 files, samples>>

loop == handleDigitalIO \/ gnssRefresh \/ readSensors \/ handleLogFile \/ logToSD

Next == TimePasses \/ Sentence \/ setupGNSS \/ loop

Spec == Init /\ [][Next]_vars

\* The processor runs and time passes; the receiver may be silent.
FairSpec == Spec /\ WF_vars(setupGNSS \/ loop) /\ WF_vars(TimePasses)

-----------------------------------------------------------------------------
(* Properties *)

Readings == Seq(0 .. samples)

\* Types; an open file exists and has the name that is kept for it.
TypeOK ==
  /\ pc \in {"setupGNSS", "acquire", "refresh", "await", "loop", "readSensors",
             "handleLogFile", "logToSD", "halted"}
  /\ uptime \in 0 .. MaxUptime /\ sent \in 0 .. MaxSent /\ updated \subseteq Values
  /\ samples \in 0 .. MaxSamples
  /\ logFile # NoFile => /\ logFile.path = <<logDir, logFileName>>
                         /\ logFile.path \in DOMAIN files /\ logFile.rows \in Readings
  /\ \A p \in DOMAIN files : files[p] \in Readings

\* A file is named only after a date and a time the receiver sent, the time no
\* earlier than the date.
NamedAsSent ==
  \A p \in DOMAIN files :
    \E n \in 1 .. sent : p[1] = Date(n) /\ \E m \in n .. sent : p[2] = Time(m)

RowsOf(p) == IF logFile # NoFile /\ logFile.path = p THEN logFile.rows ELSE files[p]

\* Within a file every row is a reading of its own: the values of an earlier
\* pass, or the initial ones, are written only as the first row of a file.
EachRowRead ==
  \A p \in DOMAIN files : \A i, j \in DOMAIN RowsOf(p) :
    i < j => RowsOf(p)[i] < RowsOf(p)[j]

\* Once the program is up for the time-out and the span of a byte (a second), no
\* gnssRefresh() listens to the receiver any more: date, time and location are
\* those of the start for good, and setup() does not end without them.
DeafAfterASecond ==
  [][uptime >= WATCHDOG + ByteSize => (pc' = "await" => pc = "await")]_vars

\* gnssRefresh() returns if the receiver keeps sending, with a fix or without.
RefreshReturns == []<><<Sentence>>_vars => (pc = "refresh" ~> pc \in {"acquire", "readSensors"})

\* What the comment in gnssRefresh() says of giving up: it could not update for
\* a while.
GivesUpAfterAWhile == [][GiveUp => uptime - since > WATCHDOG]_vars
=============================================================================
