---------------------------- MODULE LogFilesProofs ----------------------------
(***************************************************************************)
(* What LogFiles keeps for every calendar, segment length and bound: the   *)
(* action properties about the open file and the closed ones.              *)
(***************************************************************************)
EXTENDS LogFiles, SequenceTheorems, TLAPS

\* A file is open only while loop() runs and only on a card that handleLogFile()
\* believes present; it was opened when the segment's countdown was last reset,
\* in the directory and under the name that the globals hold.
OpenFile ==
  /\ mounted => cardPreviouslyPresent
  /\ logFile # NoFile => /\ Running
                         /\ cardPreviouslyPresent
                         /\ logFile.path = Path
                         /\ logFile.openedAt = previous

\* Between the comparison of the dates and the row, the directory is the date read.
InDay == (pc \in {"time", "open"} \/ (pc = "log" /\ logFile # NoFile)) => logDir = currDate

LInv == /\ OpenFile
        /\ InDay
        /\ pc = "time" => logFile = NoFile
        /\ clock \in Nat /\ previous \in Nat

\* The environment and the interrupts leave the file and its names alone, and
\* cannot make an unmounted card answer.
LEMMA EnvironmentStep ==
  ASSUME LInv, \/ Tick \/ gnssRefresh \/ handleDigitalIO \/ readSensors
               \/ RemoveCard \/ InsertCard
  PROVE  /\ LInv'
         /\ UNCHANGED <<files, logFile>>
         /\ mounted' => mounted
  BY DEF LInv, OpenFile, InDay, Path, Running, Tick, gnssRefresh, handleDigitalIO,
         readSensors, RemoveCard, InsertCard, gnssVars, cardVars, fileVars, countVars

\* The invariant holds initially and is kept by every step.
LEMMA InitLInv == Init => LInv
  BY DEF Init, LInv, OpenFile, InDay

LEMMA StepLInv == LInv /\ [Next]_vars => LInv'
<1> SUFFICES ASSUME LInv, [Next]_vars PROVE LInv'
  OBVIOUS
<1> USE LogFilesAssumption DEF LInv, OpenFile, InDay, Path, Running, gnssVars
<1>1. CASE \/ Tick \/ gnssRefresh \/ handleDigitalIO \/ readSensors
           \/ RemoveCard \/ InsertCard
  BY <1>1, EnvironmentStep
<1>2. CASE PowerLoss
  BY <1>2 DEF PowerLoss
<1>3. CASE setupSDCard
  BY <1>3 DEF setupSDCard, fileVars
<1>4. CASE setupGNSS
  BY <1>4 DEF setupGNSS, others, cardVars, fileVars
<1>5. CASE Idle
  BY <1>5 DEF Idle, Close, others, cardVars
<1>6. CASE CheckMedia
  BY <1>6 DEF CheckMedia, Close, MediaPresent
<1>7. CASE ReadDate
  BY <1>7 DEF ReadDate, others, cardVars, fileVars
<1>8. CASE Rotate
  BY <1>8 DEF Rotate, Close, NewDay, others, cardVars
<1>9. CASE ReadTime
  BY <1>9 DEF ReadTime, others, cardVars
<1>10. CASE NewLogFile
  <2> USE DEF NewLogFile, others, cardVars
  <2>1. CASE mounted /\ Path \notin DOMAIN files
    BY <1>10, <2>1
  <2>2. CASE ~(mounted /\ Path \notin DOMAIN files)
    BY <1>10, <2>2
  <2> QED
    BY <2>1, <2>2
<1>11. CASE LogRow
  BY <1>11 DEF LogRow, cardVars
<1>12. CASE UNCHANGED vars
  BY <1>12 DEF vars, gnssVars, cardVars, fileVars, countVars
<1> QED
  BY <1>1, <1>2, <1>3, <1>4, <1>5, <1>6, <1>7, <1>8, <1>9, <1>10, <1>11, <1>12
  DEF Next, Loop

THEOREM AlwaysLInv == Spec => []LInv
  BY InitLInv, StepLInv, PTL DEF Spec

-----------------------------------------------------------------------------
\* No File handle survives a restart of the card: handleLogFile() closes the
\* file in the turn of loop() that finds the card gone.
THEOREM HandleClosed == Spec => NoHandleAcrossRemount
<1>1. LInv /\ [Next]_vars => [mounted' /\ ~mounted => logFile = NoFile]_vars
  <2> SUFFICES ASSUME LInv, Next, mounted', ~mounted PROVE logFile = NoFile
    BY DEF vars, cardVars
  <2>1. setupSDCard \/ CheckMedia
    BY EnvironmentStep DEF Next, Loop, setupGNSS, PowerLoss, Idle, ReadDate, Rotate,
       ReadTime, NewLogFile, LogRow, others, cardVars
  <2> QED
    BY <2>1 DEF LInv, OpenFile, Running, setupSDCard, CheckMedia, MediaPresent
<1> QED
  BY <1>1, AlwaysLInv, PTL DEF Spec, NoHandleAcrossRemount

\* A closed segment is never changed or removed, by a loss of power or of the
\* card either: files are only created under unused names.
THEOREM ClosedFilesSafe == Spec => ClosedFilesKept
<1> DEFINE Closed(p) == p \in DOMAIN files /\ (logFile = NoFile \/ logFile.path # p)
           Kept(p) == p \in DOMAIN files' /\ files'[p] = files[p]
<1>1. LInv /\ [Next]_vars => [\A p : Closed(p) => Kept(p)]_vars
  <2> SUFFICES ASSUME LInv, Next, NEW p, Closed(p) PROVE Kept(p)
    OBVIOUS
  <2>1. CASE UNCHANGED files
    BY <2>1
  <2>2. CASE files' = [files EXCEPT ![logFile.path] = logFile.rows] /\ logFile # NoFile
    BY <2>2
  <2>3. CASE PowerLoss
    BY <2>3 DEF PowerLoss, Restrict
  <2>4. CASE NewLogFile
    BY <2>4 DEF NewLogFile, Put
  <2>5. CASE setupSDCard \/ setupGNSS \/ ReadDate \/ ReadTime \/ LogRow
    BY <2>5, <2>1 DEF setupSDCard, setupGNSS, ReadDate, ReadTime, LogRow, others, fileVars
  <2>6. CASE Idle \/ CheckMedia \/ Rotate
    BY <2>6, <2>1, <2>2 DEF Idle, CheckMedia, Rotate, Close
  <2> QED
    BY <2>1, <2>3, <2>4, <2>5, <2>6, EnvironmentStep DEF Next, Loop
<1>2. [\A p : Closed(p) => Kept(p)]_vars =>
        [\A p \in DOMAIN files : (logFile = NoFile \/ logFile.path # p) =>
           p \in DOMAIN files' /\ files'[p] = files[p]]_vars
  OBVIOUS
<1> QED
  BY <1>1, <1>2, AlwaysLInv, PTL DEF Spec, ClosedFilesKept

\* A file as old as LOG_SEG_INTERVAL gets no more rows: its age is that of the
\* countdown.
THEOREM SegmentsShort == Spec => SegmentsBounded
<1>1. LInv /\ [Next]_vars =>
        [Rotate /\ logFile' # NoFile => clock - logFile.openedAt < LOG_SEG_INTERVAL]_vars
  <2> SUFFICES ASSUME LInv, Rotate, logFile' # NoFile
               PROVE  clock - logFile.openedAt < LOG_SEG_INTERVAL
    OBVIOUS
  <2>1. ~SegmentOver /\ logFile # NoFile
    BY DEF Rotate, Close, NewDay
  <2> QED
    BY <2>1, LogFilesAssumption DEF LInv, OpenFile, SegmentOver
<1> QED
  BY <1>1, AlwaysLInv, PTL DEF Spec, SegmentsBounded

\* A row is written in the directory of the date that handleLogFile() read for it.
THEOREM RowsFiledByDay == Spec => RowsInTheirDay
<1>1. LInv /\ [Next]_vars => [LogRow /\ logFile # NoFile => logFile.path[1] = currDate]_vars
  BY DEF LInv, OpenFile, InDay, Path, LogRow
<1> QED
  BY <1>1, AlwaysLInv, PTL DEF Spec, RowsInTheirDay
-----------------------------------------------------------------------------
(* The types, and the rows of the files *)

\* The type invariant by the state it is about; a name is used only once it
\* was read to the end.
Control ==
  /\ pc \in {"setup", "gnss", "halted", "loop", "date", "time", "open", "log"}
  /\ enLog \in BOOLEAN /\ inserted \in BOOLEAN
  /\ mounted \in BOOLEAN /\ cardPreviouslyPresent \in BOOLEAN
  /\ mounted => inserted
BufferRows ==
  /\ samples \in Nat
  /\ fifo \in Rows /\ Len(fifo) <= MAX_BUFFER_SIZE
  /\ pc \in {"date", "time", "open", "log"} => fifo # << >>
NamesRead ==
  /\ DOMAIN currDate \subseteq 1 .. NFields /\ DOMAIN logFileName \subseteq 1 .. NFields
  /\ pc \in {"time", "open"} \/ logFile # NoFile => Complete(logDir)
  /\ pc = "open" \/ logFile # NoFile => Complete(logFileName)
OpenRows ==
  logFile # NoFile => logFile \in [path : DOMAIN files, rows : Rows, openedAt : Nat]
CardRows == \A p \in DOMAIN files : files[p] \in Rows

TInv == Control /\ BufferRows /\ NamesRead /\ OpenRows /\ CardRows

LEMMA EmptyDomain == DOMAIN << >> = {}
  BY EmptySeq, LenProperties

LEMMA InitTInv == Init => TInv
<1> SUFFICES ASSUME Init PROVE TInv
  OBVIOUS
<1> USE DEF Init
<1>1. Control
  BY DEF Control
<1>2. BufferRows
  BY EmptySeq, LogFilesAssumption DEF BufferRows, Rows
<1>3. NamesRead
  BY EmptyDomain DEF NamesRead
<1>4. OpenRows /\ CardRows
  BY EmptyDomain DEF OpenRows, CardRows
<1> QED
  BY <1>1, <1>2, <1>3, <1>4 DEF TInv

\* What was sampled stays a row when more is.
LEMMA RowsGrow ==
  ASSUME samples \in Nat, [Next]_vars
  PROVE  /\ samples' \in Nat /\ samples' >= samples
         /\ \A s : s \in Rows => s \in Rows'
<1>1. samples' = samples \/ samples' = samples + 1
  BY DEF Next, Loop, Tick, gnssRefresh, handleDigitalIO, readSensors, RemoveCard,
     InsertCard, PowerLoss, setupSDCard, setupGNSS, Idle, CheckMedia, ReadDate, Rotate,
     ReadTime, NewLogFile, LogRow, others, countVars, vars
<1>2. samples' \in Nat /\ samples' >= samples
  BY <1>1
<1>3. 1 .. samples \subseteq 1 .. samples'
  BY <1>2
<1> QED
  BY <1>2, <1>3, SeqMonotonic DEF Rows

LEMMA StepControl == LInv /\ TInv /\ [Next]_vars => Control'
<1> SUFFICES ASSUME LInv, Control, [Next]_vars PROVE Control'
  BY DEF TInv
<1> USE DEF Control
<1>1. CASE Tick \/ gnssRefresh \/ readSensors \/ UNCHANGED vars
  BY <1>1 DEF Tick, gnssRefresh, readSensors, vars, cardVars
<1>6. CASE handleDigitalIO
  <2>1. (~enLog) \in BOOLEAN
    BY Zenon
  <2> QED
    BY <1>6, <2>1, Zenon DEF handleDigitalIO, cardVars
<1>2. CASE RemoveCard \/ InsertCard \/ PowerLoss \/ setupSDCard
  <2>1. CASE RemoveCard
    BY <2>1 DEF RemoveCard
  <2>2. CASE InsertCard
    BY <2>2 DEF InsertCard
  <2>3. CASE PowerLoss
    BY <2>3 DEF PowerLoss
  <2>4. CASE setupSDCard
    BY <2>4, Zenon DEF setupSDCard
  <2> QED
    BY <1>2, <2>1, <2>2, <2>3, <2>4
<1>3. CASE setupGNSS \/ Idle \/ ReadDate \/ LogRow
  BY <1>3 DEF setupGNSS, Idle, ReadDate, LogRow, others, cardVars
<1>4. CASE CheckMedia
  BY <1>4 DEF CheckMedia, MediaPresent
<1>5. CASE Rotate \/ ReadTime \/ NewLogFile
  BY <1>5 DEF Rotate, ReadTime, NewLogFile, others, cardVars
<1> QED
  BY <1>1, <1>2, <1>3, <1>4, <1>5, <1>6 DEF Next, Loop

\* The rows popped and appended are rows, and loop() handles one that is there.
LEMMA StepBufferRows == TInv /\ [Next]_vars => BufferRows'
<1> SUFFICES ASSUME BufferRows, [Next]_vars PROVE BufferRows'
  BY DEF TInv
<1> USE DEF BufferRows
<1>0. samples' \in Nat /\ \A s : s \in Rows => s \in Rows'
  BY RowsGrow
<1>1. CASE readSensors
  <2>1. samples + 1 \in 1 .. samples' /\ pc' = pc
    BY <1>1 DEF readSensors
  <2>2. Append(fifo, samples + 1) \in Rows' /\ Len(Append(fifo, samples + 1)) = Len(fifo) + 1
    BY <1>0, <2>1 DEF Rows
  <2>3. CASE Len(fifo) < MAX_BUFFER_SIZE
    <3>1. fifo' = Append(fifo, samples + 1)
      BY <1>1, <2>3 DEF readSensors
    <3>2. Len(fifo') > 0 /\ Len(fifo') <= MAX_BUFFER_SIZE
      BY <2>2, <2>3, <3>1, LogFilesAssumption DEF Rows
    <3>3. Len(<< >>) = 0
      BY EmptySeq
    <3>4. fifo' # << >>
      BY <3>2, <3>3
    <3> QED
      BY <1>0, <2>2, <3>1, <3>2, <3>4
  <2>4. CASE ~(Len(fifo) < MAX_BUFFER_SIZE)
    BY <1>0, <1>1, <2>1, <2>4 DEF readSensors
  <2> QED
    BY <2>3, <2>4
<1>2. CASE PowerLoss
  BY <1>0, <1>2, EmptySeq, LogFilesAssumption DEF PowerLoss, Rows
<1>3. CASE LogRow
  <2>1. Tail(fifo) \in Rows /\ Len(Tail(fifo)) = Len(fifo) - 1
    BY <1>3, HeadTailProperties DEF LogRow, Rows
  <2>2. Len(Tail(fifo)) <= MAX_BUFFER_SIZE
    BY <2>1, LogFilesAssumption DEF Rows
  <2> QED
    BY <1>0, <1>3, <2>1, <2>2 DEF LogRow
<1>4. CASE /\ fifo' = fifo
           /\ pc' \in {"date", "time", "open", "log"} =>
                pc \in {"date", "time", "open", "log"} \/ fifo # << >>
  BY <1>0, <1>4
<1>5. CASE \/ Tick \/ gnssRefresh \/ handleDigitalIO \/ RemoveCard \/ InsertCard
           \/ setupSDCard \/ UNCHANGED vars
  BY <1>4, <1>5 DEF Tick, gnssRefresh, handleDigitalIO, RemoveCard, InsertCard,
     setupSDCard, vars
<1>6. CASE setupGNSS \/ Idle \/ CheckMedia \/ ReadDate \/ Rotate \/ ReadTime \/ NewLogFile
  BY <1>4, <1>6 DEF setupGNSS, Idle, CheckMedia, ReadDate, Rotate, ReadTime, NewLogFile, others
<1> QED
  BY <1>1, <1>2, <1>3, <1>5, <1>6 DEF Next, Loop

\* The directory and the file have complete names when a file is open.
LEMMA StepNamesRead == LInv /\ TInv /\ [Next]_vars => NamesRead'
<1> SUFFICES ASSUME LInv, NamesRead, [Next]_vars PROVE NamesRead'
  BY DEF TInv
<1> USE DEF NamesRead, Complete, NFields
<1>1. CASE \/ Tick \/ gnssRefresh \/ handleDigitalIO \/ readSensors
           \/ RemoveCard \/ InsertCard \/ setupSDCard \/ UNCHANGED vars
  BY <1>1 DEF Tick, gnssRefresh, handleDigitalIO, readSensors, RemoveCard, InsertCard,
     setupSDCard, vars, fileVars
<1>2. CASE PowerLoss
  BY <1>2, EmptyDomain DEF PowerLoss
<1>3. CASE setupGNSS \/ Idle
  BY <1>3 DEF setupGNSS, Idle, Close, fileVars
<1>4. CASE CheckMedia
  BY <1>4, EmptyDomain DEF CheckMedia, Close
<1>5. CASE ReadDate
  BY <1>5 DEF ReadDate, Put, fileVars
<1>6. CASE Rotate
  BY <1>6, EmptyDomain DEF Rotate, NewDay, Close
<1>7. CASE ReadTime
  <2>1. logFile' = NoFile /\ UNCHANGED <<logDir, currDate>> /\ Complete(logDir)
    BY <1>7 DEF ReadTime, LInv
  <2>2. DOMAIN logFileName' \subseteq 1 .. NFields
    BY <1>7 DEF ReadTime, Put
  <2>3. pc' = "open" => Complete(logFileName')
    BY <1>7 DEF ReadTime
  <2> QED
    BY <2>1, <2>2, <2>3
<1>8. CASE NewLogFile
  BY <1>8 DEF NewLogFile
<1>9. CASE LogRow
  BY <1>9 DEF LogRow
<1> QED
  BY <1>1, <1>2, <1>3, <1>4, <1>5, <1>6, <1>7, <1>8, <1>9 DEF Next, Loop

\* What is open and what is on the card are files of rows.
LEMMA StepFileRows == LInv /\ TInv /\ [Next]_vars => OpenRows' /\ CardRows'
<1> SUFFICES ASSUME LInv, TInv, [Next]_vars PROVE OpenRows' /\ CardRows'
  OBVIOUS
<1> USE DEF OpenRows, CardRows
<1>0. \A s : s \in Rows => s \in Rows'
  BY RowsGrow DEF TInv, BufferRows
<1>1. CASE UNCHANGED <<logFile, files>>
  BY <1>0, <1>1 DEF TInv
<1>2. CASE Close
  BY <1>0, <1>2 DEF Close, TInv
<1>3. CASE PowerLoss
  BY <1>0, <1>3 DEF PowerLoss, Restrict, TInv
<1>4. CASE NewLogFile
  <2>1. CASE mounted /\ Path \notin DOMAIN files
    <3>1. << >> \in Rows'
      BY EmptySeq DEF Rows
    <3> QED
      BY <1>0, <1>4, <2>1, <3>1 DEF NewLogFile, Put, TInv, LInv
  <2>2. CASE ~(mounted /\ Path \notin DOMAIN files)
    BY <1>0, <1>4, <2>2 DEF NewLogFile, TInv
  <2> QED
    BY <2>1, <2>2
<1>5. CASE LogRow
  <2>1. files' = files /\ CardRows'
    BY <1>0, <1>5 DEF LogRow, TInv
  <2>2. ASSUME logFile # NoFile
        PROVE  logFile' \in [path : DOMAIN files, rows : Rows, openedAt : Nat]
    <3>1. Head(fifo) \in 1 .. samples
      BY <1>5, HeadTailProperties DEF LogRow, TInv, BufferRows, Rows
    <3>2. Append(logFile.rows, Head(fifo)) \in Rows
      BY <2>2, <3>1 DEF TInv, Rows
    <3> QED
      BY <1>5, <2>2, <3>2 DEF LogRow, TInv
  <2>3. logFile' # NoFile => logFile # NoFile
    BY <1>5 DEF LogRow
  <2> QED
    BY <1>0, <2>1, <2>2, <2>3
<1>6. CASE setupSDCard \/ setupGNSS \/ ReadDate \/ ReadTime \/ UNCHANGED vars
  BY <1>1, <1>6 DEF setupSDCard, setupGNSS, ReadDate, ReadTime, LInv, fileVars, vars
<1>7. CASE Idle \/ CheckMedia \/ Rotate
  BY <1>1, <1>2, <1>7 DEF Idle, CheckMedia, Rotate
<1> QED
  BY <1>1, <1>3, <1>4, <1>5, <1>6, <1>7, EnvironmentStep DEF Next, Loop

LEMMA StepTInv == LInv /\ TInv /\ [Next]_vars => TInv'
  BY StepControl, StepBufferRows, StepNamesRead, StepFileRows DEF TInv

\* The types, for every calendar and bound: loop() goes on to handle a row only
\* while the buffers hold one, and a File is open only on a file of the card.
THEOREM TypeCorrect == Spec => []TypeOK
<1>1. LInv /\ TInv /\ [Next]_vars => (LInv /\ TInv)'
  BY StepLInv, StepTInv
<1>2. LInv /\ TInv => TypeOK
  BY DEF LInv, OpenFile, TInv, Control, BufferRows, NamesRead, OpenRows, CardRows, TypeOK
<1> QED
  BY InitLInv, InitTInv, <1>1, <1>2, PTL DEF Spec
-----------------------------------------------------------------------------
(* Each row once, in order *)

Ascending(s) == \A i, j \in DOMAIN s : i < j => s[i] < s[j]

\* The rows that wait were sampled after those that are written; a file gets
\* its rows on the card when it is closed, and is empty there until then.
Waiting ==
  /\ Ascending(fifo)
  /\ \A p \in DOMAIN files : \A i \in DOMAIN RowsOf(p), j \in DOMAIN fifo : RowsOf(p)[i] < fifo[j]
EmptyUntilClosed == logFile # NoFile => files[logFile.path] = << >>
EachOrdered == \A p \in DOMAIN files : Ascending(RowsOf(p))
NoneShared ==
  \A p, q \in DOMAIN files : p # q =>
    \A i \in DOMAIN RowsOf(p), j \in DOMAIN RowsOf(q) : RowsOf(p)[i] # RowsOf(q)[j]

RInv == LInv /\ TInv /\ Waiting /\ EmptyUntilClosed /\ EachOrdered /\ NoneShared

LEMMA InitRInv == Init => RInv
<1> SUFFICES ASSUME Init PROVE Waiting /\ EmptyUntilClosed /\ EachOrdered /\ NoneShared
  BY InitLInv, InitTInv DEF RInv
<1>1. DOMAIN files = {} /\ DOMAIN fifo = {} /\ logFile = NoFile
  BY EmptyDomain DEF Init
<1> QED
  BY <1>1 DEF Waiting, EmptyUntilClosed, EachOrdered, NoneShared, Ascending

\* What a file holds is a sequence of rows.
LEMMA RowsOfRows ==
  ASSUME TInv, NEW p \in DOMAIN files
  PROVE  /\ RowsOf(p) \in Rows /\ DOMAIN RowsOf(p) \subseteq Nat
         /\ \A i \in DOMAIN RowsOf(p) : RowsOf(p)[i] \in 1 .. samples
<1>1. RowsOf(p) \in Rows
  BY DEF TInv, OpenRows, CardRows, RowsOf
<1> QED
  BY <1>1 DEF Rows, TInv, BufferRows

\* Except where a row is written, a step leaves the rows of a file as they are
\* or (power or card lost, or a file just created) none.
LEMMA NoNewRows ==
  ASSUME RInv, [Next]_vars, ~LogRow
  PROVE  /\ \A p \in DOMAIN files' : \/ RowsOf(p)' = << >>
                                     \/ p \in DOMAIN files /\ RowsOf(p)' = RowsOf(p)
         /\ EmptyUntilClosed'
<1> USE DEF RowsOf, EmptyUntilClosed
<1>1. CASE UNCHANGED <<logFile, files>>
  BY <1>1 DEF RInv
<1>2. CASE Close
  <2>1. logFile' = NoFile /\ DOMAIN files' = DOMAIN files
    BY <1>2 DEF Close
  <2>2. ASSUME NEW p \in DOMAIN files, logFile # NoFile, logFile.path = p
        PROVE  files'[p] = logFile.rows \/ files'[p] = << >>
    BY <1>2, <2>2 DEF Close, RInv
  <2>3. ASSUME NEW p \in DOMAIN files, ~(logFile # NoFile /\ logFile.path = p)
        PROVE  files'[p] = files[p]
    BY <1>2, <2>3 DEF Close
  <2> QED
    BY <2>1, <2>2, <2>3
<1>3. CASE PowerLoss
  BY <1>3 DEF PowerLoss, Restrict, RInv
<1>4. CASE NewLogFile
  <2>1. CASE mounted /\ Path \notin DOMAIN files
    <3>1. logFile = NoFile
      BY <2>1 DEF RInv, LInv, OpenFile, TInv, OpenRows
    <3> QED
      BY <1>4, <2>1, <3>1 DEF NewLogFile, Put
  <2>2. CASE ~(mounted /\ Path \notin DOMAIN files)
    BY <1>4, <2>2 DEF NewLogFile, RInv
  <2> QED
    BY <2>1, <2>2
<1>5. CASE setupSDCard \/ setupGNSS \/ ReadDate \/ ReadTime \/ UNCHANGED vars
  BY <1>1, <1>5 DEF setupSDCard, setupGNSS, ReadDate, ReadTime, RInv, LInv, fileVars, vars
<1>6. CASE Idle \/ CheckMedia \/ Rotate
  BY <1>1, <1>2, <1>6 DEF Idle, CheckMedia, Rotate
<1> QED
  BY <1>1, <1>3, <1>4, <1>5, <1>6, EnvironmentStep DEF Next, Loop, RInv

\* Nor does it change the rows that wait, but for a new one at the end.
LEMMA FifoSteps ==
  ASSUME [Next]_vars, ~LogRow
  PROVE  \/ fifo' = fifo
         \/ fifo' = << >>
         \/ fifo' = Append(fifo, samples + 1)
  BY DEF Next, Loop, Tick, gnssRefresh, handleDigitalIO, readSensors, RemoveCard,
     InsertCard, PowerLoss, setupSDCard, setupGNSS, Idle, CheckMedia, ReadDate, Rotate,
     ReadTime, NewLogFile, others, vars

LEMMA StepRInv == RInv /\ [Next]_vars => RInv'
<1> SUFFICES ASSUME RInv, [Next]_vars
             PROVE  Waiting' /\ EmptyUntilClosed' /\ EachOrdered' /\ NoneShared'
  BY StepLInv, StepTInv DEF RInv
<1>0. /\ fifo \in Seq(Nat) /\ samples \in Nat
      /\ \A i \in DOMAIN fifo : fifo[i] \in 1 .. samples
  BY SeqMonotonic DEF RInv, TInv, BufferRows, Rows
<1>1. CASE ~LogRow
  <2>1. /\ \A p \in DOMAIN files' : \/ RowsOf(p)' = << >>
                                    \/ p \in DOMAIN files /\ RowsOf(p)' = RowsOf(p)
        /\ EmptyUntilClosed'
    BY <1>1, NoNewRows
  <2> DEFINE R(p) == RowsOf(p)
  <2>2. \A p \in DOMAIN files' : \A i \in DOMAIN R(p)' :
           p \in DOMAIN files /\ i \in DOMAIN R(p) /\ R(p)' = R(p)
    BY <2>1, EmptyDomain
  <2> HIDE DEF R
  <2>3. EachOrdered'
    BY <2>2 DEF RInv, EachOrdered, Ascending, R
  <2>4. NoneShared'
    BY <2>2 DEF RInv, NoneShared, R
  <2>5. Waiting'
    <3>1. CASE fifo' = fifo
      BY <2>2, <3>1 DEF RInv, Waiting, R, Ascending
    <3>2. CASE fifo' = << >>
      BY <3>2, EmptyDomain DEF Waiting, Ascending
    <3>3. CASE fifo' = Append(fifo, samples + 1)
      <4>1. \A j \in DOMAIN fifo' : \/ j \in DOMAIN fifo /\ fifo'[j] = fifo[j]
                                    \/ j = Len(fifo) + 1 /\ fifo'[j] = samples + 1
        BY <1>0, <3>3
      <4>2. Ascending(fifo)'
        BY <1>0, <4>1 DEF RInv, Waiting, Ascending
      <4>3. \A p \in DOMAIN files : \A i \in DOMAIN R(p) : R(p)[i] \in 1 .. samples
        BY RowsOfRows DEF RInv, R
      <4>4. ASSUME NEW p \in DOMAIN files', NEW i \in DOMAIN R(p)', NEW j \in DOMAIN fifo'
            PROVE  R(p)'[i] < fifo'[j]
        BY <1>0, <2>2, <4>1, <4>3, <4>4 DEF RInv, Waiting, R
      <4> QED
        BY <4>2, <4>4 DEF Waiting, R
    <3> QED
      BY <1>1, <3>1, <3>2, <3>3, FifoSteps
  <2> QED
    BY <2>1, <2>3, <2>4, <2>5
<1>2. CASE LogRow
  <2>1. /\ Head(fifo) = fifo[1] /\ 1 \in DOMAIN fifo
        /\ \A j \in DOMAIN Tail(fifo) : j + 1 \in DOMAIN fifo /\ j \in Nat \ {0}
                                        /\ Tail(fifo)[j] = fifo[j + 1]
    BY <1>0, <1>2, HeadTailProperties DEF LogRow, RInv, TInv, BufferRows
  <2>2. files' = files /\ fifo' = Tail(fifo)
    BY <1>2 DEF LogRow
  <2>3. CASE logFile = NoFile
    <3>1. logFile' = logFile
      BY <1>2, <2>3 DEF LogRow
    <3>2. \A p : RowsOf(p)' = RowsOf(p)
      BY <2>2, <3>1 DEF RowsOf
    <3>3. Waiting'
      BY <2>1, <2>2, <3>2 DEF RInv, Waiting, Ascending
    <3> QED
      BY <2>2, <3>1, <3>2, <3>3 DEF RInv, EmptyUntilClosed, EachOrdered, NoneShared, Ascending
  <2>4. CASE logFile # NoFile
    <3>0. PICK f \in DOMAIN files : f = logFile.path
      BY <2>4 DEF RInv, TInv, OpenRows
    <3>1. /\ f \in DOMAIN files /\ RowsOf(f) = logFile.rows
          /\ logFile \in [path : DOMAIN files, rows : Rows, openedAt : Nat]
      BY <2>4, <3>0 DEF RInv, TInv, OpenRows, RowsOf
    <3>2. logFile'.path = f /\ logFile'.rows = Append(logFile.rows, Head(fifo))
      BY <1>2, <2>4, <3>0, <3>1 DEF LogRow
    <3> DEFINE R(p) == RowsOf(p)
               Last == Len(logFile.rows) + 1
    <3>3. /\ \A p \in DOMAIN files : p # f => R(p)' = R(p)
          /\ R(f)' = << >> \/ R(f)' = Append(logFile.rows, fifo[1])
      BY <2>1, <2>2, <2>4, <3>0, <3>2 DEF RowsOf, RInv, EmptyUntilClosed
    <3>4. /\ logFile.rows \in Seq(Nat) /\ Last \in Nat
          /\ \A i \in DOMAIN R(f) : i \in Nat /\ i < Last
      BY <1>0, <3>1, SeqMonotonic DEF Rows
    <3>5. \A p \in DOMAIN files : \A i \in DOMAIN R(p)' :
             \/ i \in DOMAIN R(p) /\ R(p)'[i] = R(p)[i]
             \/ p = f /\ i = Last /\ R(p)'[i] = fifo[1]
      <4>1. R(f) = logFile.rows /\ f \in DOMAIN files
        BY <3>1
      <4>2. \A i \in DOMAIN Append(logFile.rows, fifo[1]) :
               \/ i \in DOMAIN logFile.rows /\ Append(logFile.rows, fifo[1])[i] = logFile.rows[i]
               \/ i = Last /\ Append(logFile.rows, fifo[1])[i] = fifo[1]
        BY <1>0, <2>1, <3>4
      <4> HIDE DEF R, Last
      <4> QED
        BY <3>3, <4>1, <4>2, EmptyDomain
    <3>6. \A p \in DOMAIN files : \A i \in DOMAIN R(p) : R(p)[i] < fifo[1] /\ R(p)[i] \in Nat
      BY <2>1, RowsOfRows DEF RInv, Waiting
    <3> HIDE DEF R, Last
    <3>7. EachOrdered'
      <4> SUFFICES ASSUME NEW p \in DOMAIN files, NEW i \in DOMAIN R(p)',
                          NEW j \in DOMAIN R(p)', i < j
                   PROVE  R(p)'[i] < R(p)'[j]
        BY <2>2 DEF EachOrdered, Ascending, R
      <4>1. i \in DOMAIN R(p) /\ R(p)'[i] = R(p)[i]
        BY <3>4, <3>5
      <4>2. CASE j \in DOMAIN R(p) /\ R(p)'[j] = R(p)[j]
        BY <4>1, <4>2 DEF RInv, EachOrdered, Ascending, R
      <4>3. CASE R(p)'[j] = fifo[1]
        BY <3>6, <4>1, <4>3
      <4> QED
        BY <3>5, <4>2, <4>3
    <3>8. NoneShared'
      <4> SUFFICES ASSUME NEW p \in DOMAIN files, NEW q \in DOMAIN files, p # q,
                          NEW i \in DOMAIN R(p)', NEW j \in DOMAIN R(q)'
                   PROVE  R(p)'[i] # R(q)'[j]
        BY <2>2 DEF NoneShared, R
      <4>1. fifo[1] \in Nat
        BY <1>0, <2>1
      <4>2. CASE i \in DOMAIN R(p) /\ R(p)'[i] = R(p)[i] /\ j \in DOMAIN R(q) /\ R(q)'[j] = R(q)[j]
        BY <4>2 DEF RInv, NoneShared, R
      <4> QED
        BY <3>5, <3>6, <4>1, <4>2
    <3>9. Waiting'
      <4>1. \A j \in DOMAIN fifo' : j + 1 \in DOMAIN fifo /\ j \in Nat /\ fifo'[j] = fifo[j + 1]
                                    /\ fifo[1] < fifo[j + 1]
        BY <2>1, <2>2 DEF RInv, Waiting, Ascending
      <4>2. Ascending(fifo)'
        BY <4>1 DEF RInv, Waiting, Ascending
      <4>3. ASSUME NEW p \in DOMAIN files, NEW i \in DOMAIN R(p)', NEW j \in DOMAIN fifo'
            PROVE  R(p)'[i] < fifo'[j]
        BY <3>5, <4>1, <4>3 DEF RInv, Waiting, R
      <4> QED
        BY <2>2, <4>2, <4>3 DEF Waiting, R
    <3>10. EmptyUntilClosed'
      BY <2>2, <2>4, <3>0, <3>2 DEF RInv, EmptyUntilClosed
    <3> QED
      BY <3>7, <3>8, <3>9, <3>10
  <2> QED
    BY <2>3, <2>4
<1> QED
  BY <1>1, <1>2

\* No row is written twice, in one file or in two, and those of a file are in
\* the order they were sampled: with every loss of power or of the card, for
\* every calendar and size of the buffers.
THEOREM RowsWrittenOnce == Spec => []RowsOnceInOrder
<1>1. RInv => RowsOnceInOrder
  BY DEF RInv, EachOrdered, NoneShared, Ascending, RowsOnceInOrder, Range
<1> QED
  BY InitRInv, StepRInv, <1>1, PTL DEF Spec
===============================================================================
