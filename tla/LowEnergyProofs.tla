--------------------------- MODULE LowEnergyProofs ---------------------------
(***************************************************************************)
(* What LowEnergyLogger's run checks, for every value of the constants:    *)
(* types, the names of files, the rows in them, and the deafness of        *)
(* gnssRefresh() after about a second.                                     *)
(***************************************************************************)
EXTENDS LowEnergyLogger, TLAPS

Whole(s) == s # NoSentence /\ s # Cut

\* A date is held only with the time of the same or of a later sentence, none
\* of them later than the one that waits, if one waits.
Heard(limit) ==
  gnss.date # 0 => \E n \in 1 .. limit : \E m \in n .. limit :
                     gnss.date = Date(n) /\ gnss.time = Time(m)

GnssInv ==
  /\ since \in Nat
  /\ Whole(serial) => serial.number \in 1 .. sent
  /\ Heard(IF Whole(serial) THEN serial.number ELSE sent)

\* setup() is over: there is a date.
Dated == enLog \/ pc \in {"loop", "readSensors", "handleLogFile", "logToSD"} => gnss.date # 0

Increasing(rows) == \A i, j \in 1 .. Len(rows) : i < j => rows[i] < rows[j]

\* Rows increase, and what is about to be logged is new to the open file.
RowsInv ==
  /\ \A p \in DOMAIN files : Increasing(files[p])
  /\ logFile # NoFile =>
       /\ logFile = [path |-> logFile.path, rows |-> logFile.rows]
       /\ Increasing(logFile.rows)
       /\ pc \in {"handleLogFile", "logToSD"} =>
            \A i \in 1 .. Len(logFile.rows) : logFile.rows[i] < samples

LInv == TypeOK /\ GnssInv /\ Dated /\ NamedAsSent /\ RowsInv

LEMMA InitLInv == Init => LInv
<1> SUFFICES ASSUME Init PROVE LInv
  OBVIOUS
<1> USE LowEnergyAssumption
<1>1. DOMAIN files = {}
  BY DEF Init
<1>2. TypeOK
  BY <1>1 DEF Init, TypeOK
<1>3. GnssInv /\ Dated
  BY DEF Init, GnssInv, Heard, Whole, Dated
<1>4. NamedAsSent /\ RowsInv
  BY <1>1 DEF Init, NamedAsSent, RowsInv
<1> QED BY <1>2, <1>3, <1>4 DEF LInv

\* A sentence number is positive, and its date is not 0.
LEMMA DateOfSentence == \A n \in Nat : Date(n) \in Nat /\ Date(n) # 0
BY LowEnergyAssumption DEF Date

-----------------------------------------------------------------------------
\* Steps that leave the files, the names and the number of readings alone.
LEMMA FilesUntouched ==
  ASSUME LInv, UNCHANGED <<fileVars, samples>>, sent' \in Nat, sent <= sent',
         pc' \in {"handleLogFile", "logToSD"} => pc' = pc
  PROVE  NamedAsSent' /\ RowsInv'
<1> USE DEF LInv
<1>1. sent \in Nat
  BY LowEnergyAssumption DEF TypeOK
<1>2. NamedAsSent'
  <2> SUFFICES ASSUME NEW p \in DOMAIN files
               PROVE  \E n \in 1 .. sent' : p[1] = Date(n) /\ \E m \in n .. sent' : p[2] = Time(m)
    BY DEF NamedAsSent, fileVars, Date, Time
  <2>1. PICK n \in 1 .. sent : p[1] = Date(n) /\ \E m \in n .. sent : p[2] = Time(m)
    BY DEF NamedAsSent
  <2>2. PICK m \in n .. sent : p[2] = Time(m)
    BY <2>1
  <2>3. n \in 1 .. sent' /\ m \in n .. sent'
    BY <1>1, <2>1, <2>2
  <2> QED BY <2>1, <2>2, <2>3
<1>3. RowsInv'
  BY DEF RowsInv, Increasing, fileVars
<1> QED BY <1>2, <1>3

LEMMA TimePassesKeeps == LInv /\ TimePasses => LInv'
<1> SUFFICES ASSUME LInv, TimePasses PROVE LInv'
  OBVIOUS
<1> USE DEF LInv
<1>1. sent \in Nat /\ MaxUptime \in Int
  BY LowEnergyAssumption DEF TypeOK
<1>2. UNCHANGED <<pc, sent, serial, gnss, updated, since, enLog, fileVars, samples>>
  BY DEF TimePasses, gnssVars
<1>3. NamedAsSent' /\ RowsInv'
  BY <1>1, <1>2, FilesUntouched
<1>4. TypeOK'
  BY <1>1, <1>2, LowEnergyAssumption DEF TimePasses, TypeOK, fileVars, Readings
<1>5. GnssInv' /\ Dated'
  BY <1>2 DEF GnssInv, Heard, Whole, Dated, Date, Time
<1> QED BY <1>3, <1>4, <1>5

\* Steps that change neither the receiver's values nor what waits.
LEMMA GnssUntouched ==
  ASSUME LInv, UNCHANGED <<sent, serial, gnss, enLog>>, since' \in Nat,
         pc' \in {"loop", "readSensors", "handleLogFile", "logToSD"} => gnss.date # 0
  PROVE  GnssInv' /\ Dated'
<1>1. GnssInv' /\ (enLog => gnss.date # 0)
  BY DEF LInv, GnssInv, Heard, Whole, Dated, Date, Time
<1> QED BY <1>1 DEF Dated

\* The limit of what was heard may grow.
LEMMA HeardMore ==
  ASSUME NEW a \in Nat, NEW b \in Nat, a <= b, Heard(a)
  PROVE  Heard(b)
<1> SUFFICES ASSUME gnss.date # 0
             PROVE  \E n \in 1 .. b : \E m \in n .. b : gnss.date = Date(n) /\ gnss.time = Time(m)
  BY DEF Heard
<1> PICK n \in 1 .. a : \E m \in n .. a : gnss.date = Date(n) /\ gnss.time = Time(m)
  BY DEF Heard
<1> PICK m \in n .. a : gnss.date = Date(n) /\ gnss.time = Time(m)
  OBVIOUS
<1> n \in 1 .. b /\ m \in n .. b
  OBVIOUS
<1> QED OBVIOUS

LEMMA SentenceKeeps == LInv /\ Sentence => LInv'
<1> SUFFICES ASSUME LInv, Sentence PROVE LInv'
  OBVIOUS
<1> USE DEF LInv
<1>1. /\ sent \in Nat /\ sent' \in 1 .. MaxSent /\ sent <= sent' /\ sent' \in Nat
      /\ UNCHANGED <<pc, uptime, gnss, updated, since, enLog, fileVars, samples>>
  BY LowEnergyAssumption DEF TypeOK, Sentence, gnssVars
<1>2. NamedAsSent' /\ RowsInv'
  BY <1>1, FilesUntouched
<1>3. TypeOK'
  BY <1>1, LowEnergyAssumption DEF TypeOK, fileVars, Readings
<1>4. Dated'
  BY <1>1 DEF Dated
<1>5. CASE serial' = serial
  <2>1. CASE Whole(serial)
    <3>1. serial.number \in 1 .. sent /\ Heard(serial.number)
      BY <2>1 DEF GnssInv
    <3>2. serial.number \in 1 .. sent'
      BY <3>1, <1>1
    <3>3. Heard(serial.number)'
      BY <3>1, <1>1, <1>5 DEF Heard, Date, Time
    <3>4. GnssInv'
      BY <1>1, <1>5, <2>1, <3>2, <3>3 DEF GnssInv, Whole
    <3> QED BY <3>4, <1>2, <1>3, <1>4
  <2>2. CASE ~Whole(serial)
    <3>1. Heard(sent')
      BY <1>1, <2>2, HeardMore DEF GnssInv
    <3>2. Heard(sent)'
      BY <3>1, <1>1 DEF Heard, Date, Time
    <3>3. GnssInv'
      BY <1>1, <1>5, <2>2, <3>2 DEF GnssInv, Whole
    <3> QED BY <3>3, <1>2, <1>3, <1>4
  <2> QED BY <2>1, <2>2
<1>6. CASE serial = NoSentence /\ (Whole(serial)' => serial'.number = sent')
  <2>1. Heard(sent')
    BY <1>1, <1>6, HeardMore DEF GnssInv, Whole
  <2>2. GnssInv'
    BY <1>1, <1>6, <2>1 DEF GnssInv, Heard, Whole, Date, Time
  <2> QED BY <2>2, <1>2, <1>3, <1>4
<1> QED BY <1>5, <1>6 DEF Sentence, Whole

\* gnssRefresh() without Encode, and setupGNSS().
LEMMA WaitsKeep ==
  LInv /\ (Refreshed \/ GiveUp \/ Listen \/ FirstCharacter \/ Acquire) => LInv'
<1> SUFFICES ASSUME LInv, Refreshed \/ GiveUp \/ Listen \/ FirstCharacter \/ Acquire PROVE LInv'
  OBVIOUS
<1> USE DEF LInv
<1>1. /\ UNCHANGED <<uptime, sent, serial, gnss, enLog, fileVars, samples>>
      /\ updated' \subseteq Values
      /\ pc' \in {"setupGNSS", "acquire", "refresh", "await", "loop", "readSensors", "halted"}
      /\ since' \in Nat
  BY LowEnergyAssumption DEF Refreshed, GiveUp, Listen, FirstCharacter, Acquire, Return, TypeOK,
                             GnssInv, gnssVars
<1>2. pc' \in {"loop", "readSensors", "handleLogFile", "logToSD"} => gnss.date # 0
  BY DEF Refreshed, GiveUp, Listen, FirstCharacter, Acquire, Return, NotAcquired, Dated
<1>3. sent' \in Nat /\ sent <= sent'
  BY <1>1, LowEnergyAssumption DEF TypeOK
<1>4. NamedAsSent' /\ RowsInv'
  BY <1>1, <1>3, FilesUntouched
<1>5. GnssInv' /\ Dated'
  BY <1>1, <1>2, GnssUntouched
<1>6. TypeOK'
  BY <1>1 DEF TypeOK, fileVars, Readings
<1> QED BY <1>4, <1>5, <1>6

LEMMA EncodeKeeps == LInv /\ Encode => LInv'
<1> SUFFICES ASSUME LInv, Encode PROVE LInv'
  OBVIOUS
<1> USE DEF LInv
<1> DEFINE new == UpdatedBy(serial)
<1>1. /\ UNCHANGED <<uptime, sent, since, enLog, fileVars, samples>>
      /\ serial # NoSentence /\ serial' = NoSentence /\ pc' = "refresh" /\ pc = "await"
      /\ updated' = updated \cup new
      /\ gnss' = [date |-> IF "date" \in new THEN Date(serial.number) ELSE gnss.date,
                  time |-> IF "time" \in new THEN Time(serial.number) ELSE gnss.time]
  BY DEF Encode
<1>2. new \subseteq Values /\ (serial = Cut => new = {}) /\ (serial # Cut => "time" \in new)
  BY DEF UpdatedBy, Values
<1> HIDE DEF new
<1>3. sent \in Nat
  BY LowEnergyAssumption DEF TypeOK
<1>4. NamedAsSent' /\ RowsInv'
  BY <1>1, <1>3, FilesUntouched
<1>5. TypeOK'
  BY <1>1, <1>2 DEF TypeOK, fileVars, Readings
<1>6. GnssInv' /\ Dated'
  <2>1. CASE serial = Cut
    <3>1. gnss'.date = gnss.date /\ gnss'.time = gnss.time
      BY <1>1, <1>2, <2>1
    <3>2. Heard(sent)
      BY <2>1 DEF GnssInv, Whole
    <3> QED BY <1>1, <3>1, <3>2 DEF GnssInv, Dated, Heard, Whole, Date, Time
  <2>2. CASE serial # Cut
    <3> DEFINE k == serial.number
    <3>1. k \in 1 .. sent /\ Heard(k)
      BY <1>1, <2>2 DEF GnssInv, Whole
    <3> HIDE DEF k
    <3>2. /\ gnss'.date = (IF "date" \in new THEN Date(k) ELSE gnss.date) /\ gnss'.time = Time(k)
      BY <1>1, <1>2, <2>2 DEF k
    <3>3. gnss.date # 0 => gnss'.date # 0
      BY <3>1, <3>2, <1>3, DateOfSentence
    <3>4. ASSUME gnss'.date # 0
          PROVE  \E n \in 1 .. sent : \E m \in n .. sent :
                   gnss'.date = Date(n) /\ gnss'.time = Time(m)
      <4>1. CASE "date" \in new
        <5>1. k \in 1 .. sent /\ k \in k .. sent
          BY <3>1, <1>3
        <5> QED BY <5>1, <3>2, <4>1
      <4>2. CASE "date" \notin new
        <5>1. PICK n \in 1 .. k : gnss.date = Date(n)
          BY <3>1, <3>2, <3>4, <4>2 DEF Heard
        <5>2. n \in 1 .. sent /\ k \in n .. sent
          BY <3>1, <1>3
        <5> QED BY <5>1, <5>2, <3>2, <4>2
      <4> QED BY <4>1, <4>2
    <3>5. Heard(sent)'
      BY <3>4, <1>1 DEF Heard, Date, Time
    <3>6. GnssInv'
      BY <1>1, <3>5 DEF GnssInv, Whole
    <3>7. Dated'
      BY <1>1, <3>3 DEF Dated
    <3> QED BY <3>6, <3>7
  <2> QED BY <2>1, <2>2
<1> QED BY <1>4, <1>5, <1>6

-----------------------------------------------------------------------------
LEMMA ElementOf ==
  ASSUME NEW S, NEW s \in Seq(S), NEW k \in 1 .. Len(s)
  PROVE  s[k] \in S
OBVIOUS

LEMMA WiderSeq ==
  ASSUME NEW S, NEW T, S \subseteq T, NEW s \in Seq(S)
  PROVE  s \in Seq(T)
OBVIOUS

\* The card once the open file, if there is one, is closed.
Closed == IF logFile = NoFile THEN files ELSE [files EXCEPT ![logFile.path] = logFile.rows]

LEMMA ClosedKeeps ==
  ASSUME LInv
  PROVE  /\ DOMAIN Closed = DOMAIN files
         /\ \A p \in DOMAIN files : Closed[p] \in Readings /\ Increasing(Closed[p])
<1>1. CASE logFile = NoFile
  BY <1>1 DEF Closed, LInv, TypeOK, RowsInv
<1>2. CASE logFile # NoFile
  <2>1. Closed = [files EXCEPT ![logFile.path] = logFile.rows]
    BY <1>2 DEF Closed
  <2>2. logFile.path \in DOMAIN files /\ logFile.rows \in Readings /\ Increasing(logFile.rows)
    BY <1>2 DEF LInv, TypeOK, RowsInv
  <2>3. \A p \in DOMAIN files : files[p] \in Readings /\ Increasing(files[p])
    BY DEF LInv, TypeOK, RowsInv
  <2> QED BY <2>1, <2>2, <2>3
<1> QED BY <1>1, <1>2

LEMMA ButtonKeeps == LInv /\ handleDigitalIO => LInv'
<1> SUFFICES ASSUME LInv, handleDigitalIO PROVE LInv'
  OBVIOUS
<1>1. /\ UNCHANGED <<uptime, sent, serial, gnss, updated, logDir, logFileName, samples>>
      /\ pc = "loop" /\ pc' \in {"loop", "refresh"} /\ enLog' \in BOOLEAN
      /\ \/ UNCHANGED <<logFile, files>>
         \/ logFile' = NoFile /\ files' = Closed
      /\ since' = since \/ since' = uptime
  BY DEF handleDigitalIO, Close, Closed
<1>2. Dated' /\ gnss.date # 0
  BY <1>1 DEF LInv, Dated
<1>3. GnssInv'
  <2>1. since' \in Nat
    BY <1>1, LowEnergyAssumption DEF LInv, TypeOK, GnssInv
  <2> QED BY <1>1, <2>1 DEF LInv, GnssInv, Heard, Whole, Date, Time
<1>4. CASE UNCHANGED <<logFile, files>>
  <2>1. TypeOK'
    BY <1>1, <1>4 DEF LInv, TypeOK, Readings
  <2>2. NamedAsSent' /\ RowsInv'
    BY <1>1, <1>4 DEF LInv, NamedAsSent, RowsInv, Increasing, Date, Time
  <2> QED BY <1>2, <1>3, <2>1, <2>2 DEF LInv
<1>5. CASE logFile' = NoFile /\ files' = Closed
  <2>1. /\ DOMAIN files' = DOMAIN files
        /\ \A p \in DOMAIN files : files'[p] \in Readings /\ Increasing(files'[p])
    BY <1>5, ClosedKeeps
  <2>2. TypeOK'
    BY <1>1, <1>5, <2>1 DEF LInv, TypeOK, Readings
  <2>3. NamedAsSent' /\ RowsInv'
    BY <1>1, <1>5, <2>1 DEF LInv, NamedAsSent, RowsInv, Increasing, Date, Time
  <2> QED BY <1>2, <1>3, <2>2, <2>3 DEF LInv
<1> QED BY <1>1, <1>4, <1>5

LEMMA ReadKeeps == LInv /\ readSensors => LInv'
<1> SUFFICES ASSUME LInv, readSensors PROVE LInv'
  OBVIOUS
<1>1. /\ UNCHANGED <<uptime, sent, serial, gnss, since, enLog, logFile, logDir, logFileName, files>>
      /\ pc = "readSensors" /\ pc' = "handleLogFile" /\ updated' \subseteq Values
      /\ logFile = NoFile => samples' = samples
      /\ logFile # NoFile => samples < MaxSamples /\ samples' = samples + 1
  BY DEF readSensors, ReadingGoes, fileVars, LInv, TypeOK
<1>2. samples \in Nat /\ samples' \in 0 .. MaxSamples /\ samples <= samples'
  BY <1>1, LowEnergyAssumption DEF LInv, TypeOK
<1>3. \A r \in Readings : r \in Readings'
  <2>1. 0 .. samples \subseteq 0 .. samples'
    BY <1>2
  <2> QED BY <2>1, WiderSeq DEF Readings
<1>4. TypeOK'
  BY <1>1, <1>2, <1>3 DEF LInv, TypeOK
<1>5. GnssInv' /\ Dated' /\ NamedAsSent'
  BY <1>1 DEF LInv, GnssInv, Heard, Whole, Dated, NamedAsSent, Date, Time
<1>6. RowsInv'
  <2>1. \A p \in DOMAIN files' : Increasing(files'[p])
    BY <1>1 DEF LInv, RowsInv, Increasing
  <2>2. ASSUME logFile' # NoFile
        PROVE  /\ logFile' = [path |-> logFile'.path, rows |-> logFile'.rows]
               /\ Increasing(logFile'.rows)
               /\ \A i \in 1 .. Len(logFile'.rows) : logFile'.rows[i] < samples'
    <3>1. logFile.rows \in Seq(0 .. samples) /\ samples' = samples + 1 /\ logFile' = logFile
      BY <2>2, <1>1 DEF LInv, TypeOK, Readings
    <3>2. \A i \in 1 .. Len(logFile.rows) : logFile.rows[i] \in 0 .. samples
      BY <3>1, ElementOf
    <3>3. \A i \in 1 .. Len(logFile.rows) : logFile.rows[i] < samples + 1
      BY <3>2, <1>2
    <3> QED BY <3>1, <3>3, <2>2 DEF LInv, RowsInv
  <2> QED BY <2>1, <2>2 DEF RowsInv, Increasing
<1> QED BY <1>4, <1>5, <1>6 DEF LInv

\* What new_logFile() leaves: the file it was given and the card as it was, or
\* an empty file of that name and the card with it.
LEMMA OpenGives ==
  ASSUME NEW file, NEW onCard, NEW name, Open(file, onCard, name)
  PROVE  \/ logFile' = file /\ files' = onCard
         \/ /\ logFile' = [path |-> <<logDir', name>>, rows |-> << >>]
            /\ DOMAIN files' = DOMAIN onCard \cup {<<logDir', name>>}
            /\ \A p \in DOMAIN files' :
                 files'[p] = IF p \in DOMAIN onCard THEN onCard[p] ELSE << >>
BY DEF Open

LEMMA FileKeeps == LInv /\ handleLogFile => LInv'
<1> SUFFICES ASSUME LInv, handleLogFile PROVE LInv'
  OBVIOUS
<1>1. /\ UNCHANGED <<uptime, sent, serial, gnss, since, enLog, samples>>
      /\ pc = "handleLogFile" /\ pc' = "logToSD"
  BY DEF handleLogFile
<1>2. updated' \subseteq Values
  BY DEF handleLogFile, SeeToFile, NoCard, LInv, TypeOK
<1>3. GnssInv' /\ Dated' /\ gnss.date # 0
  BY <1>1 DEF LInv, GnssInv, Heard, Whole, Dated, Date, Time
<1>4. \E n \in 1 .. sent : gnss.date = Date(n) /\ \E m \in n .. sent : gnss.time = Time(m)
  <2>1. sent \in Nat
    BY LowEnergyAssumption DEF LInv, TypeOK
  <2>2. CASE Whole(serial)
    <3>1. serial.number \in 1 .. sent /\ Heard(serial.number)
      BY <2>2 DEF LInv, GnssInv
    <3>2. Heard(sent)
      BY <2>1, <3>1, HeardMore
    <3> QED BY <3>2, <1>3 DEF Heard
  <2>3. CASE ~Whole(serial)
    BY <2>3, <1>3 DEF LInv, GnssInv, Heard
  <2> QED BY <2>2, <2>3
<1>5. CASE NoCard
  <2>1. logFile' = NoFile /\ files' = files
    BY <1>5 DEF NoCard
  <2>2. TypeOK' /\ NamedAsSent' /\ RowsInv'
    BY <1>1, <1>2, <2>1 DEF LInv, TypeOK, Readings, NamedAsSent, RowsInv, Increasing, Date, Time
  <2> QED BY <1>3, <2>2 DEF LInv
\* The segment or the day is over, or no file was open.
<1>6. CASE SeeToFile /\ (NewDay \/ SegmentOver)
  <2> DEFINE path == <<gnss.date, gnss.time>>
  <2>1. /\ logDir' = gnss.date /\ logFileName' = gnss.time
        /\ Open(NoFile, Closed, gnss.time)
    BY <1>6 DEF SeeToFile, NewDay, Closed
  <2>2. \/ logFile' = NoFile /\ files' = Closed
        \/ /\ logFile' = [path |-> path, rows |-> << >>]
           /\ DOMAIN files' = DOMAIN Closed \cup {path}
           /\ \A p \in DOMAIN files' :
                files'[p] = IF p \in DOMAIN Closed THEN Closed[p] ELSE << >>
    <3>1. <<logDir', gnss.time>> = path
      BY <2>1
    <3> HIDE DEF path
    <3>2. \/ logFile' = NoFile /\ files' = Closed
          \/ /\ logFile' = [path |-> <<logDir', gnss.time>>, rows |-> << >>]
             /\ DOMAIN files' = DOMAIN Closed \cup {<<logDir', gnss.time>>}
             /\ \A p \in DOMAIN files' :
                  files'[p] = IF p \in DOMAIN Closed THEN Closed[p] ELSE << >>
      BY <2>1, OpenGives, Zenon
    <3> QED BY <3>1, <3>2
  <2>3. /\ DOMAIN Closed = DOMAIN files
        /\ \A p \in DOMAIN files : Closed[p] \in Readings /\ Increasing(Closed[p])
    BY ClosedKeeps
  <2>4. << >> \in Readings /\ Increasing(<< >>)
    BY DEF Readings, Increasing
  <2>5. /\ \A p \in DOMAIN files' : files'[p] \in Readings /\ Increasing(files'[p])
        /\ \A p \in DOMAIN files' : p \in DOMAIN files \/ p = path
    BY <2>2, <2>3, <2>4
  <2>6. NamedAsSent'
    <3> SUFFICES ASSUME NEW p \in DOMAIN files'
                 PROVE  \E n \in 1 .. sent : p[1] = Date(n) /\ \E m \in n .. sent : p[2] = Time(m)
      BY <1>1 DEF NamedAsSent, Date, Time
    <3>1. CASE p \in DOMAIN files
      BY <3>1 DEF LInv, NamedAsSent
    <3>2. CASE p = path
      <4>1. p[1] = gnss.date /\ p[2] = gnss.time
        BY <3>2
      <4> QED BY <4>1, <1>4
    <3> QED BY <3>1, <3>2, <2>5
  <2>7. logFile' # NoFile =>
          /\ logFile'.path = <<logDir', logFileName'>> /\ logFile'.path \in DOMAIN files'
          /\ logFile'.rows = << >>
          /\ logFile' = [path |-> logFile'.path, rows |-> logFile'.rows]
    BY <2>1, <2>2
  <2>8. TypeOK'
    BY <1>1, <1>2, <2>4, <2>5, <2>7 DEF LInv, TypeOK, Readings
  <2>9. RowsInv'
    BY <1>1, <2>4, <2>5, <2>7 DEF RowsInv, Increasing
  <2> QED BY <1>3, <2>6, <2>8, <2>9 DEF LInv
\* The open file goes on: its name is on the card.
<1>7. CASE SeeToFile /\ ~(NewDay \/ SegmentOver)
  <2>1. /\ logDir' = logDir /\ logFileName' = logFileName /\ logFile # NoFile
        /\ Open(logFile, files, logFileName)
    BY <1>7 DEF SeeToFile, NewDay
  <2>2. <<logDir', logFileName>> \in DOMAIN files
    BY <2>1 DEF LInv, TypeOK
  <2>3. logFile' = logFile /\ files' = files
    BY <2>1, <2>2 DEF Open
  <2>4. TypeOK' /\ NamedAsSent' /\ RowsInv'
    BY <1>1, <1>2, <2>1, <2>3
       DEF LInv, TypeOK, Readings, NamedAsSent, RowsInv, Increasing, Date, Time
  <2> QED BY <1>3, <2>4 DEF LInv
<1> QED BY <1>5, <1>6, <1>7 DEF handleLogFile

LEMMA LogKeeps == LInv /\ logToSD => LInv'
<1> SUFFICES ASSUME LInv, logToSD PROVE LInv'
  OBVIOUS
<1>1. /\ UNCHANGED <<uptime, sent, serial, gnss, updated, since, enLog, logDir, logFileName,
                     files, samples>>
      /\ pc = "logToSD" /\ pc' = "loop"
  BY DEF logToSD, gnssVars
<1>2. GnssInv' /\ Dated' /\ NamedAsSent'
  BY <1>1 DEF LInv, GnssInv, Heard, Whole, Dated, NamedAsSent, Date, Time
<1>3. CASE logFile = NoFile
  <2>1. logFile' = NoFile
    BY <1>3 DEF logToSD
  <2>2. TypeOK' /\ RowsInv'
    BY <1>1, <2>1 DEF LInv, TypeOK, Readings, RowsInv, Increasing
  <2> QED BY <1>2, <2>2 DEF LInv
<1>4. CASE logFile # NoFile
  <2> DEFINE rows == logFile.rows
  <2>1. /\ logFile = [path |-> logFile.path, rows |-> rows] /\ Increasing(rows)
        /\ \A i \in 1 .. Len(rows) : rows[i] < samples
        /\ rows \in Seq(0 .. samples) /\ samples \in Nat
    BY <1>1, <1>4, LowEnergyAssumption DEF LInv, RowsInv, TypeOK, Readings
  <2>2. logFile' = [path |-> logFile.path, rows |-> Append(rows, samples)]
    <3>1. logFile' = [logFile EXCEPT !.rows = Append(@, samples)]
      BY <1>4 DEF logToSD
    <3> QED BY <3>1, <2>1
  <2> HIDE DEF rows
  <2>3. samples \in 0 .. samples /\ Append(rows, samples) \in Seq(0 .. samples)
    BY <2>1
  <2>4. Increasing(Append(rows, samples))
    <3> SUFFICES ASSUME NEW i \in 1 .. Len(rows) + 1, NEW j \in 1 .. Len(rows) + 1, i < j
                 PROVE  Append(rows, samples)[i] < Append(rows, samples)[j]
      BY <2>1 DEF Increasing
    <3>1. i \in 1 .. Len(rows) /\ Append(rows, samples)[i] = rows[i]
      BY <2>1
    <3>2. CASE j = Len(rows) + 1
      BY <2>1, <3>1, <3>2
    <3>3. CASE j \in 1 .. Len(rows)
      BY <2>1, <3>1, <3>3 DEF Increasing
    <3> QED BY <2>1, <3>2, <3>3
  <2>5. TypeOK'
    BY <1>1, <1>4, <2>2, <2>3 DEF LInv, TypeOK, Readings
  <2>6. RowsInv'
    BY <1>1, <2>2, <2>4 DEF LInv, RowsInv, Increasing
  <2> QED BY <1>2, <2>5, <2>6 DEF LInv
<1> QED BY <1>3, <1>4

-----------------------------------------------------------------------------
LEMMA NextLInv == LInv /\ [Next]_vars => LInv'
<1>1. ASSUME LInv, Next PROVE LInv'
  BY <1>1, TimePassesKeeps, SentenceKeeps, WaitsKeep, EncodeKeeps, ButtonKeeps, ReadKeeps,
     FileKeeps, LogKeeps DEF Next, setupGNSS, gnssRefresh, loop
<1>2. ASSUME LInv, UNCHANGED vars PROVE LInv'
  <2>1. TypeOK' /\ RowsInv' /\ NamedAsSent'
    BY <1>2 DEF LInv, vars, gnssVars, fileVars, TypeOK, Readings, RowsInv, Increasing,
                NamedAsSent, Date, Time
  <2>2. GnssInv' /\ Dated'
    BY <1>2 DEF LInv, vars, gnssVars, GnssInv, Heard, Whole, Dated, Date, Time
  <2> QED BY <2>1, <2>2 DEF LInv
<1> QED BY <1>1, <1>2

LEMMA AlwaysLInv == Spec => []LInv
BY InitLInv, NextLInv, PTL DEF Spec

\* The variables keep their types, and an open file is on the card under the
\* name that is kept for it.
THEOREM TypeCorrect == Spec => []TypeOK
<1>1. LInv => TypeOK
  BY DEF LInv
<1> QED BY <1>1, AlwaysLInv, PTL

\* Every file is named after a date and a time that the receiver sent.
THEOREM FilesNamedAsSent == Spec => []NamedAsSent
<1>1. LInv => NamedAsSent
  BY DEF LInv
<1> QED BY <1>1, AlwaysLInv, PTL

\* Within a file every row is a reading of its own, although readSensors() may
\* leave the values of an earlier pass in place.
THEOREM RowsRead == Spec => []EachRowRead
<1>1. LInv => EachRowRead
  <2> SUFFICES ASSUME LInv, NEW p \in DOMAIN files
               PROVE  \A i, j \in DOMAIN RowsOf(p) : i < j => RowsOf(p)[i] < RowsOf(p)[j]
    BY DEF EachRowRead
  <2>1. RowsOf(p) \in Readings /\ Increasing(RowsOf(p))
    BY DEF LInv, TypeOK, RowsInv, RowsOf
  <2> QED BY <2>1 DEF Readings, Increasing
<1> QED BY <1>1, AlwaysLInv, PTL

\* After the time-out and the span of a byte, no gnssRefresh() listens any more.
THEOREM Deaf == Spec => DeafAfterASecond
<1>1. LInv /\ [Next]_vars =>
        [uptime >= WATCHDOG + ByteSize => (pc' = "await" => pc = "await")]_vars
  <2> SUFFICES ASSUME LInv, Next, uptime >= WATCHDOG + ByteSize, pc' = "await"
               PROVE  pc = "await"
    BY DEF vars
  <2>1. uptime \in Nat /\ since \in Nat /\ WATCHDOG \in Nat /\ ByteSize \in Nat \ {0}
    BY LowEnergyAssumption DEF LInv, TypeOK, GnssInv
  <2>2. CASE Listen
    <3>1. since % ByteSize \in 0 .. ByteSize - 1
      BY <2>1
    <3>2. ~(uptime - (since % ByteSize) > WATCHDOG)
      BY <2>2 DEF Listen, Expired, Watchdog
    <3> QED BY <2>1, <3>1, <3>2
  <2>3. CASE pc' = pc
    BY <2>3
  <2> QED BY <2>2, <2>3 DEF Next, TimePasses, Sentence, setupGNSS, FirstCharacter, Acquire, loop,
       handleDigitalIO, gnssRefresh, Refreshed, GiveUp, Return, Encode, readSensors,
       handleLogFile, logToSD
<1> QED BY <1>1, AlwaysLInv, PTL DEF Spec, DeafAfterASecond
=============================================================================
