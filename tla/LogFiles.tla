------------------------------- MODULE LogFiles -------------------------------
(***************************************************************************)
(* loop() of GNSS_logger.ino and the files it keeps on the SD card:        *)
(* handleLogFile() opens a file per segment in a directory per day, named  *)
(* from the GNSS date and time, and logToSD() appends the row popped from  *)
(* the buffers.  The buffers are one FIFO of rows here (SampleBuffers says *)
(* when they are).                                                         *)
(*                                                                         *)
(* Rows are numbers.  The contents of an open file reach the card when it  *)
(* is closed: File never flushes, and SdFat (external) writes the length   *)
(* of a file when it is closed.                                            *)
(***************************************************************************)
EXTENDS Integers, Sequences, Functions

CONSTANTS
  Utc,              \* tick of true time -> [date, time], tuples of fields
  Unset,            \* date and time of a TinyGPSPlus object that got none: zeros
  NoFile,           \* a File that is not open
  LOG_SEG_INTERVAL, \* length of a segment, in ticks
  MAX_BUFFER_SIZE,  \* rows the buffers hold
  MaxSamples,       \* bound: readSensors() calls that take a sample
  MaxFaults         \* bound: power losses and removals of the card

MaxClock == Len(Utc)  \* bound: ticks of true time

ASSUME LogFilesAssumption ==
  /\ Utc # << >>
  /\ LOG_SEG_INTERVAL \in Nat \ {0} /\ MAX_BUFFER_SIZE \in Nat \ {0}
  /\ MaxSamples \in Nat /\ MaxFaults \in Nat

VARIABLES
  pc,          \* where loop() is
  enLog,       \* logging enabled by the button
  fifo,        \* rows in the buffers
  logFile,     \* NoFile, or [path, rows not yet on the card, openedAt]
  logDir,      \* directory name (a date)
  logFileName, \* file name (a time)
  currDate,    \* currDate: field -> value, those read so far by dateToStr()
  previous,    \* logSegCountdown: when the interval began
  gnss,        \* [date, time] of the TinyGPSPlus object
  clock,       \* true time, a tick of Utc
  files,       \* on the card: path -> rows
  inserted,    \* the card is in its slot
  mounted,     \* and answers, since SD.begin() or restart()
  cardPreviouslyPresent,
  samples, faults  \* counted for the bounds

gnssVars == <<gnss, clock>>
cardVars == <<inserted, mounted>>
fileVars == <<logFile, logDir, logFileName, files, previous>>
countVars == <<samples, faults>>
vars == <<pc, enLog, fifo, currDate, cardPreviouslyPresent,
          gnssVars, cardVars, fileVars, countVars>>

\* Everything but the program counter and file state of loop().
others == <<enLog, fifo, gnssVars, cardVars, countVars>>

NFields == Len(Unset)
Complete(str) == DOMAIN str = 1 .. NFields
Path == <<logDir, logFileName>>

\* The function f, with value v at x.
Put(f, x, v) == [y \in DOMAIN f \cup {x} |-> IF y = x THEN v ELSE f[y]]

\* setup() has returned: the timers run.
Running == pc \notin {"setup", "gnss", "halted"}

Init ==
  /\ pc = "setup"
  /\ enLog = FALSE /\ fifo = << >>
  /\ logFile = NoFile /\ logDir = << >> /\ logFileName = << >> /\ currDate = << >>
  /\ previous = 1 /\ clock = 1
  /\ gnss = [date |-> Unset, time |-> Unset]
  /\ files = << >>
  /\ inserted = TRUE /\ mounted = FALSE /\ cardPreviouslyPresent = FALSE
  /\ samples = 0 /\ faults = 0

-----------------------------------------------------------------------------
(* Environment and interrupts *)

Tick == /\ clock < MaxClock
        /\ clock' = clock + 1
        /\ UNCHANGED <<pc, enLog, fifo, currDate, cardPreviouslyPresent, gnss,
                       cardVars, fileVars, countVars>>

\* gnssRefresh() feeds TinyGPSPlus: an RMC sentence commits date and time, a
\* GGA sentence the time only.
gnssRefresh ==
  /\ pc \notin {"setup", "halted"}
  /\ \/ gnss' = Utc[clock]
     \/ gnss' = [gnss EXCEPT !.time = Utc[clock].time]
  /\ UNCHANGED <<pc, enLog, fifo, currDate, cardPreviouslyPresent, clock,
                 cardVars, fileVars, countVars>>

handleDigitalIO ==
  /\ Running
  /\ enLog' = ~enLog
  /\ UNCHANGED <<pc, fifo, currDate, cardPreviouslyPresent, gnssVars,
                 cardVars, fileVars, countVars>>

readSensors ==
  /\ Running
  /\ enLog
  /\ samples < MaxSamples
  /\ samples' = samples + 1
  /\ fifo' = IF Len(fifo) < MAX_BUFFER_SIZE THEN Append(fifo, samples + 1) ELSE fifo
  /\ UNCHANGED <<pc, enLog, currDate, cardPreviouslyPresent, gnssVars,
                 cardVars, fileVars, faults>>

RemoveCard ==
  /\ inserted /\ faults < MaxFaults
  /\ inserted' = FALSE /\ mounted' = FALSE /\ faults' = faults + 1
  /\ UNCHANGED <<pc, enLog, fifo, currDate, cardPreviouslyPresent, gnssVars,
                 fileVars, samples>>

InsertCard ==
  /\ ~inserted
  /\ inserted' = TRUE
  /\ UNCHANGED <<pc, enLog, fifo, currDate, cardPreviouslyPresent, gnssVars,
                 mounted, fileVars, countVars>>

\* The RAM is lost, with the rows of the open file; its directory entry may
\* or may not have reached the card.
PowerLoss ==
  /\ faults < MaxFaults
  /\ faults' = faults + 1
  /\ pc' = "setup"
  /\ enLog' = FALSE /\ fifo' = << >>
  /\ logFile' = NoFile /\ logDir' = << >> /\ logFileName' = << >> /\ currDate' = << >>
  /\ gnss' = [date |-> Unset, time |-> Unset]
  /\ previous' = clock
  /\ mounted' = FALSE /\ cardPreviouslyPresent' = FALSE
  /\ \/ files' = files
     \/ logFile # NoFile /\ files' = Restrict(files, DOMAIN files \ {logFile.path})
  /\ UNCHANGED <<clock, inserted, samples>>

-----------------------------------------------------------------------------
(* setup() and loop() *)

\* SD.begin(); without a card, waitForReboot().
setupSDCard ==
  /\ pc = "setup"
  /\ mounted' = inserted /\ cardPreviouslyPresent' = inserted
  /\ pc' = IF inserted THEN "gnss" ELSE "halted"
  /\ UNCHANGED <<enLog, fifo, currDate, gnssVars, inserted, fileVars, countVars>>

\* Without a character in 7 s, waitForReboot(); then a date or a time is waited for.
setupGNSS ==
  /\ pc = "gnss"
  /\ pc' = IF gnss.date = Unset /\ gnss.time = Unset THEN "halted" ELSE "loop"
  /\ UNCHANGED <<currDate, cardPreviouslyPresent, fileVars, others>>

\* file.close(): what was printed reaches the card if it still answers.
Close ==
  /\ logFile' = NoFile
  /\ files' = IF logFile # NoFile /\ mounted
                THEN [files EXCEPT ![logFile.path] = logFile.rows]
                ELSE files

IdleKeepsFile ==  \* mutant: the file stays open when logging is disabled
  /\ pc = "loop" /\ fifo = << >>
  /\ UNCHANGED vars

\* Nothing to log: close the file when logging is disabled.
Idle ==
  /\ pc = "loop" /\ fifo = << >>
  /\ ~enLog
  /\ Close
  /\ UNCHANGED <<pc, logDir, logFileName, currDate, previous, cardPreviouslyPresent, others>>

\* handleLogFile() begins with SD.mediaPresent(): a card seen before is asked
\* for its status, a card not seen before is restarted.
MediaPresent == IF cardPreviouslyPresent THEN mounted ELSE inserted

CheckMediaKeepsFile ==  \* mutant: the file is not closed when the card is gone
  /\ pc = "loop" /\ fifo # << >>
  /\ cardPreviouslyPresent' = MediaPresent
  /\ mounted' = MediaPresent
  /\ pc' = IF MediaPresent THEN "date" ELSE "log"
  /\ currDate' = << >>
  /\ UNCHANGED <<enLog, fifo, gnssVars, inserted, fileVars, countVars>>

CheckMedia ==
  /\ pc = "loop" /\ fifo # << >>
  /\ cardPreviouslyPresent' = MediaPresent
  /\ IF MediaPresent
       THEN /\ mounted' = TRUE
            /\ pc' = "date" /\ currDate' = << >>
            /\ UNCHANGED <<logFile, files>>
       ELSE /\ Close
            /\ pc' = "log"
            /\ UNCHANGED <<mounted, currDate>>
  /\ UNCHANGED <<enLog, fifo, gnssVars, inserted, logDir, logFileName,
                 previous, countVars>>

\* dateToStr() reads year, month and day one call at a time: operands of one
\* chain of +, in an order that C++ leaves to the compiler.
ReadDate ==
  /\ pc = "date"
  /\ \E i \in (1 .. NFields) \ DOMAIN currDate : currDate' = Put(currDate, i, gnss.date[i])
  /\ UNCHANGED <<pc, cardPreviouslyPresent, fileVars, others>>

NewDayWhenClosed == logFile = NoFile  \* mutant: the day is looked at on opening only
NewDay == logFile = NoFile \/ logDir # currDate

\* logSegCountdown.check() (Metro, external).
SegmentOver == clock - previous >= LOG_SEG_INTERVAL

RotateLeavesOpen ==  \* mutant: the segment that is over is not closed
  /\ pc = "date" /\ Complete(currDate)
  /\ IF NewDay \/ SegmentOver
       THEN logFileName' = << >> /\ pc' = "time"
       ELSE pc' = "open" /\ UNCHANGED logFileName
  /\ logDir' = IF NewDay THEN currDate ELSE logDir
  /\ previous' = IF ~NewDay /\ SegmentOver THEN previous + LOG_SEG_INTERVAL ELSE previous
  /\ UNCHANGED <<logFile, files, currDate, cardPreviouslyPresent, others>>

\* if (!file || dirName != currDate) ... else if (logSegCountdown.check()) ...
Rotate ==
  /\ pc = "date" /\ Complete(currDate)
  /\ IF NewDay \/ SegmentOver
       THEN Close /\ logFileName' = << >> /\ pc' = "time"
       ELSE pc' = "open" /\ UNCHANGED <<logFile, files, logFileName>>
  /\ logDir' = IF NewDay THEN currDate ELSE logDir
  /\ previous' = IF ~NewDay /\ SegmentOver THEN previous + LOG_SEG_INTERVAL ELSE previous
  /\ UNCHANGED <<currDate, cardPreviouslyPresent, others>>

\* timeToStr() reads hour, minute and second one call at a time.
ReadTime ==
  /\ pc = "time"
  /\ \E i \in (1 .. NFields) \ DOMAIN logFileName :
        logFileName' = Put(logFileName, i, gnss.time[i])
  /\ pc' = IF Complete(logFileName') THEN "open" ELSE "time"
  /\ UNCHANGED <<logFile, logDir, files, previous, currDate, cardPreviouslyPresent, others>>

\* mutant: newLogFile() does not look for an existing file
NewLogFileOverExisting ==
  /\ pc = "open"
  /\ IF mounted /\ logFile = NoFile
       THEN /\ logFile' = [path |-> Path, rows |-> << >>, openedAt |-> clock]
            /\ files' = Put(files, Path, << >>)
            /\ previous' = clock
       ELSE UNCHANGED <<logFile, files, previous>>
  /\ pc' = "log"
  /\ UNCHANGED <<logDir, logFileName, currDate, cardPreviouslyPresent, others>>

\* mutant: logSegCountdown is reset whether or not a file was created
NewLogFileAlwaysResets ==
  /\ pc = "open"
  /\ IF mounted /\ Path \notin DOMAIN files
       THEN /\ logFile' = [path |-> Path, rows |-> << >>, openedAt |-> clock]
            /\ files' = Put(files, Path, << >>)
       ELSE UNCHANGED <<logFile, files>>
  /\ previous' = clock
  /\ pc' = "log"
  /\ UNCHANGED <<logDir, logFileName, currDate, cardPreviouslyPresent, others>>

\* newLogDir() and newLogFile(): a file that exists is left alone.  On a card
\* that does not answer, exists() and open() fail.
NewLogFile ==
  /\ pc = "open"
  /\ IF mounted /\ Path \notin DOMAIN files
       THEN /\ logFile' = [path |-> Path, rows |-> << >>, openedAt |-> clock]
            /\ files' = Put(files, Path, << >>)
            /\ previous' = clock
       ELSE /\ logFile' = IF mounted THEN logFile ELSE NoFile
            /\ UNCHANGED <<files, previous>>
  /\ pc' = "log"
  /\ UNCHANGED <<logDir, logFileName, currDate, cardPreviouslyPresent, others>>

\* mutant: a row that could not be written stays for the next turn of loop()
LogRowPeeks ==
  /\ pc = "log"
  /\ fifo' = IF enLog THEN Tail(fifo) ELSE fifo
  /\ logFile' = IF logFile = NoFile THEN NoFile
                ELSE [logFile EXCEPT !.rows = Append(@, Head(fifo))]
  /\ pc' = "loop"
  /\ UNCHANGED <<enLog, logDir, logFileName, files, previous, currDate,
                 cardPreviouslyPresent, gnssVars, cardVars, countVars>>

\* The pops, and logToSD(): no row is written when no file is open.
LogRow ==
  /\ pc = "log"
  /\ fifo' = Tail(fifo)
  /\ logFile' = IF logFile = NoFile THEN NoFile
                ELSE [logFile EXCEPT !.rows = Append(@, Head(fifo))]
  /\ pc' = "loop"
  /\ UNCHANGED <<enLog, logDir, logFileName, files, previous, currDate,
                 cardPreviouslyPresent, gnssVars, cardVars, countVars>>

Loop == Idle \/ CheckMedia \/ ReadDate \/ Rotate \/ ReadTime \/ NewLogFile \/ LogRow

Next == \/ Tick \/ gnssRefresh \/ handleDigitalIO \/ readSensors
        \/ RemoveCard \/ InsertCard \/ PowerLoss
        \/ setupSDCard \/ setupGNSS \/ Loop

\* loop() is called for ever once setup() has returned.
Spec == Init /\ [][Next]_vars /\ WF_vars(Loop)

-----------------------------------------------------------------------------
(* Properties *)

Rows == Seq(1 .. samples)

\* Types, and that a file is open only if it exists on the card, and only with
\* a complete date and name.
TypeOK ==
  /\ pc \in {"setup", "gnss", "halted", "loop", "date", "time", "open", "log"}
  /\ enLog \in BOOLEAN /\ inserted \in BOOLEAN
  /\ mounted \in BOOLEAN /\ cardPreviouslyPresent \in BOOLEAN
  /\ mounted => inserted
  /\ fifo \in Rows /\ Len(fifo) <= MAX_BUFFER_SIZE
  /\ pc \in {"date", "time", "open", "log"} => fifo # << >>
  /\ DOMAIN currDate \subseteq 1 .. NFields /\ DOMAIN logFileName \subseteq 1 .. NFields
  /\ logFile # NoFile => /\ logFile \in [path : DOMAIN files, rows : Rows, openedAt : Nat]
                         /\ logFile.path = Path
                         /\ Complete(logDir) /\ Complete(logFileName)
  /\ \A p \in DOMAIN files : files[p] \in Rows

\* No step, a power loss or a removal of the card included, changes or removes
\* a file other than the one being written: a segment once closed is safe.
ClosedFilesKept ==
  [][\A p \in DOMAIN files : (logFile = NoFile \/ logFile.path # p) =>
        p \in DOMAIN files' /\ files'[p] = files[p]]_vars

\* What a file holds, its rows not yet on the card included.
RowsOf(p) == IF logFile # NoFile /\ logFile.path = p THEN logFile.rows ELSE files[p]

\* Within a file rows are in the order they were sampled, and no row is
\* written twice, in the same file or in two.
RowsOnceInOrder ==
  \A p, q \in DOMAIN files :
    /\ \A i, j \in DOMAIN RowsOf(p) : i < j => RowsOf(p)[i] < RowsOf(p)[j]
    /\ p # q => Range(RowsOf(p)) \cap Range(RowsOf(q)) = {}

\* A file that is older than LOG_SEG_INTERVAL is not written any more: a power
\* loss costs no more than one segment.
SegmentsBounded ==
  [][Rotate /\ logFile' # NoFile => clock - logFile.openedAt < LOG_SEG_INTERVAL]_vars

\* A row goes to the directory of the date read when it was handled.
RowsInTheirDay ==
  [][LogRow /\ logFile # NoFile => logFile.path[1] = currDate]_vars

\* No File handle survives a restart of the card it was opened on.
NoHandleAcrossRemount == [][mounted' /\ ~mounted => logFile = NoFile]_vars

\* When the button stays off (and the power on), the buffers are emptied and
\* the file is closed.
ClosesWhenDisabled ==
  <>[](~enLog /\ Running) => <>[](logFile = NoFile /\ fifo = << >>)

\* A row popped while the card answers is written to a file.
RowsReachCard == [][LogRow /\ mounted => logFile # NoFile]_vars
=============================================================================
