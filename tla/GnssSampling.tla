----------------------------- MODULE GnssSampling -----------------------------
(***************************************************************************)
(* The TinyGPSPlus object of GNSS_logger.ino between the three that use    *)
(* it: gnssRefresh(), whose timer has the higher priority and which        *)
(* preempts readSensors(), which preempts loop().                          *)
(*                                                                         *)
(* time, location and altitude each have a flag `updated' that commit()    *)
(* sets and every accessor resets; readSensors() takes a value only if the *)
(* flag is set, and loop() resets the flag of the time when it names a     *)
(* file.  The fix mode and the PDOP are not copied: the buffers hold       *)
(* pointers to the strings in the object.                                  *)
(*                                                                         *)
(* A value is the number of the receiver's fix it is of: the RMC and the   *)
(* GGA sentence of one fix bring the same UTC time.  The buffers are one   *)
(* FIFO of rows (SampleBuffers says when they are).                        *)
(***************************************************************************)
EXTENDS Integers, Sequences

CONSTANTS
  Sentences,  \* the receiver's sentences of one fix, in its order
  MAX_BUFFER_SIZE,
  MaxFixes,   \* bound: fixes the receiver sends
  MaxSamples  \* bound: readSensors() calls

ASSUME SentencesAssumption ==
  /\ Sentences \in Seq({"RMC", "GGA", "GSA"}) /\ Sentences # << >>
  /\ MAX_BUFFER_SIZE \in Nat \ {0} /\ MaxFixes \in Nat /\ MaxSamples \in Nat

VARIABLES
  sent,      \* sentences the receiver has sent
  gnss,      \* what the object holds
  newTime,   \* the time staged by the last field that was not empty
  updated,   \* the flags that are set
  at,        \* the value readSensors() is about to take, or "idle"
  pending,   \* what the accessor in progress has still to do
  sample,    \* the row readSensors() is building
  fifo,      \* rows in the buffers
  naming,    \* calls that handleLogFile()'s timeToStr() has still to make
  logged,    \* the last row logged
  samples,   \* readSensors() calls so far
  unread,    \* the time was committed since readSensors() last took it
  raced,     \* that commit came inside a call of gnss.time.value()
  taken,     \* timeToStr() has reset its flag
  due        \* of each time, the sentences that committed it, twice those that
             \* did so inside value(), less the rows that took it

vars == <<sent, gnss, newTime, updated, at, pending, sample, fifo, naming, logged, samples,
          unread, raced, taken, due>>

sampleVars == <<at, pending, sample, fifo, samples>>
refreshVars == <<sent, gnss, newTime, raced>>
loopVars == <<naming, logged>>
ghostVars == <<unread, taken, due>>

None == 0  \* nothing received, and the NO_GNSS_ values logged as NaN
Times == 0 .. MaxFixes
NoRow == [time |-> None, lng |-> None, lat |-> None, alt |-> None,
          mode |-> None, preempted |-> FALSE]

Init ==
  /\ sent = 0
  /\ gnss = [time |-> None, lng |-> None, lat |-> None, alt |-> None, mode |-> None]
  /\ newTime = None /\ due = [t \in Times |-> 0]
  /\ updated = {} /\ pending = {}
  /\ at = "idle" /\ sample = NoRow /\ fifo = << >>
  /\ naming = 0 /\ logged = NoRow
  /\ samples = 0 /\ unread = FALSE /\ raced = FALSE /\ taken = FALSE

-----------------------------------------------------------------------------
(* gnssRefresh() *)

Timed == {"RMC", "GGA"}

\* What endOfTermHandler() commits at the end of sentence n: the values and
\* their flags.  An RMC and a GGA sentence commit a location if they have a fix.
Commits(kind, hasFix) ==
  (IF kind \in Timed THEN {"time"} ELSE {}) \cup
  (IF kind \in Timed /\ hasFix THEN {"lng", "lat"} ELSE {}) \cup
  (IF kind = "GGA" /\ hasFix THEN {"alt"} ELSE {}) \cup
  (IF kind = "GGA" THEN {"mode"} ELSE {})

\* The flag that goes with a value; the location has one for both.
Shared(v) == "time"  \* mutant: one flag for the whole object
Flag(v) == IF v \in {"lng", "lat"} THEN "location" ELSE v

\* What setTime() may have staged after a sentence of that fix: nothing if the
\* field was empty, or lost with a sentence that does not pass its checksum.
Staged(kind, hasTime, ok, fix) ==
  IF kind \in Timed /\ hasTime THEN {fix} \cup (IF ok THEN {} ELSE {newTime}) ELSE {newTime}

InsideValue == at = "time" /\ pending # {}

\* A commit of the time: of the one last staged, which is an old one if a
\* receiver that has no time (started again, say) left the field empty.
CommitTime(committed) ==
  /\ unread' = (unread \/ committed)
  /\ raced' = (IF committed THEN InsideValue ELSE raced)
  /\ taken' = (taken /\ ~committed)
  /\ due' = IF committed THEN [due EXCEPT ![newTime'] = @ + (IF InsideValue THEN 2 ELSE 1)]
                         ELSE due

\* The next sentence, if its checksum is right, is committed.  A receiver that
\* has a fix knows the time.
gnssRefresh ==
  /\ sent < MaxFixes * Len(Sentences)
  /\ sent' = sent + 1
  /\ \E hasFix \in BOOLEAN, hasTime \in BOOLEAN, ok \in BOOLEAN :
       LET kind == Sentences[(sent % Len(Sentences)) + 1]
           fix == sent \div Len(Sentences) + 1
           vs == IF ok THEN Commits(kind, hasFix) ELSE {}
       IN  /\ hasFix => hasTime
           /\ newTime' \in Staged(kind, hasTime, ok, fix)
           /\ gnss' = [v \in DOMAIN gnss |-> IF v \notin vs THEN gnss[v]
                                            ELSE IF v = "time" THEN newTime' ELSE fix]
           /\ updated' = updated \cup {Flag(v) : v \in vs \ {"mode"}}
           /\ CommitTime("time" \in vs)
  /\ sample' = [sample EXCEPT !.preempted = @ \/ at = "lat" \/ (at = "lng" /\ pending # {})]
  /\ UNCHANGED <<at, pending, fifo, samples, loopVars>>

-----------------------------------------------------------------------------
(* readSensors() *)

\* mutant: time_buf.isFull() is not looked at
BeginUnchecked ==
  /\ at = "idle"
  /\ samples < MaxSamples
  /\ samples' = samples + 1
  /\ at' = "time" /\ sample' = NoRow
  /\ UNCHANGED <<updated, pending, fifo, ghostVars, refreshVars, loopVars>>

\* enLog is on, and time_buf is not full.
Begin ==
  /\ at = "idle"
  /\ samples < MaxSamples /\ Len(fifo) < MAX_BUFFER_SIZE
  /\ samples' = samples + 1
  /\ at' = "time" /\ sample' = NoRow
  /\ UNCHANGED <<updated, pending, fifo, ghostVars, refreshVars, loopVars>>

TestedEach == {"time", "lng", "lat", "alt"}  \* mutant: isUpdated() before lat() too
\* Values taken only if isUpdated(); lat() follows lng() without a test.
Tested == {"time", "lng", "alt"}

AfterValue == [time |-> "lng", lng |-> "lat", lat |-> "alt", alt |-> "push"]
\* The branch without a location skips both its values.
AfterNone == [time |-> "lng", lng |-> "alt", lat |-> "alt", alt |-> "push"]

PushNone ==
  /\ at \in Tested /\ pending = {}
  /\ Flag(at) \notin updated
  /\ at' = AfterNone[at]
  /\ UNCHANGED <<updated, pending, sample, fifo, samples, ghostVars, refreshVars, loopVars>>

AccessorKeeps == {"load"}  \* mutant: the accessor does not reset the flag
\* value(), lng(), lat(), meters(): the flag is reset and the value loaded, in
\* either order (neither is volatile).
Accessor == {"reset", "load"}

Call ==
  /\ at \in DOMAIN AfterValue /\ pending = {}
  /\ at \in Tested => Flag(at) \in updated
  /\ pending' = Accessor
  /\ UNCHANGED <<updated, at, sample, fifo, samples, ghostVars, refreshVars, loopVars>>

\* The accessor returns after its last step.
Done(step) == /\ pending' = pending \ {step}
              /\ at' = IF pending = {step} THEN AfterValue[at] ELSE at

Reset ==
  /\ "reset" \in pending
  /\ updated' = updated \ {Flag(at)}
  /\ Done("reset")
  /\ UNCHANGED <<sample, fifo, samples, ghostVars, refreshVars, loopVars>>

Load ==
  /\ "load" \in pending
  /\ sample' = [sample EXCEPT ![at] = gnss[at]]
  /\ IF at = "time" THEN unread' = FALSE /\ due' = [due EXCEPT ![gnss.time] = @ - 1]
                    ELSE UNCHANGED <<unread, due>>
  /\ Done("load")
  /\ UNCHANGED <<updated, fifo, samples, taken, refreshVars, loopVars>>

\* The texts are pushed as pointers: what they will say is not known yet.
Push ==
  /\ at = "push"
  /\ fifo' = Append(fifo, sample)
  /\ at' = "idle"
  /\ UNCHANGED <<updated, pending, sample, samples, ghostVars, refreshVars, loopVars>>

readSensors == Begin \/ PushNone \/ Call \/ Reset \/ Load \/ Push

-----------------------------------------------------------------------------
(* loop() runs while readSensors() does not *)

\* handleLogFile() names a new file: hour(), minute() and second() are called,
\* each resets the flag of the time.
StartNaming ==
  /\ at = "idle" /\ fifo # << >> /\ naming = 0
  /\ naming' = 3
  /\ UNCHANGED <<updated, logged, ghostVars, sampleVars, refreshVars>>

timeToStr ==
  /\ at = "idle" /\ naming > 0
  /\ updated' = updated \ {"time"}
  /\ taken' = (taken \/ "time" \in updated)
  /\ naming' = naming - 1
  /\ UNCHANGED <<logged, unread, due, sampleVars, refreshVars>>

\* mutant: the row is written before the pointer to its text is popped
LogRowTextLate ==
  /\ at = "idle" /\ fifo # << >> /\ naming = 0
  /\ logged' = [Head(fifo) EXCEPT !.mode = logged.mode]
  /\ fifo' = Tail(fifo)
  /\ UNCHANGED <<updated, naming, at, pending, sample, samples, ghostVars, refreshVars>>

\* The pops, and logToSD(), which follows the pointers.
LogRow ==
  /\ at = "idle" /\ fifo # << >> /\ naming = 0
  /\ logged' = [Head(fifo) EXCEPT !.mode = gnss.mode]
  /\ fifo' = Tail(fifo)
  /\ UNCHANGED <<updated, naming, at, pending, sample, samples, ghostVars, refreshVars>>

Next == gnssRefresh \/ readSensors \/ StartNaming \/ timeToStr \/ LogRow

Spec == Init /\ [][Next]_vars

-----------------------------------------------------------------------------
(* Properties *)

\* Types; and only an accessor in progress has something pending.
TypeOK ==
  /\ sent \in 0 .. MaxFixes * Len(Sentences)
  /\ \A v \in DOMAIN gnss : gnss[v] \in Times
  /\ newTime \in Times
  /\ updated \subseteq {"time", "location", "alt"}
  /\ at \in {"idle", "time", "lng", "lat", "alt", "push"}
  /\ pending \subseteq {"reset", "load"}
  /\ pending # {} => at \in {"time", "lng", "lat", "alt"}
  /\ Len(fifo) <= MAX_BUFFER_SIZE
  /\ naming \in 0 .. 3 /\ samples \in 0 .. MaxSamples
  /\ raced \in BOOLEAN /\ taken \in BOOLEAN

\* A GNSS time is in no more rows than sentences committed it, and one more for
\* each that did so inside gnss.time.value(): the flag keeps a row from taking
\* again what another took.  (GGA and RMC of one fix bring the same time, so
\* that two rows have it if the next fix is lost; a receiver started again
\* without a time has the last one committed with every sentence.)
TimesAccounted == \A t \in Times : due[t] >= 0

\* A row says NaN for the time although a sentence committed one since the last
\* row took it only if loop() has reset the flag that very sentence set, or it
\* came inside value().
NaNExplained ==
  [][PushNone /\ at = "time" /\ unread => taken \/ raced]_vars

\* The longitude and the latitude of a row are of one fix, and both or
\* neither are there, unless gnssRefresh() came between lng() and lat().
OneLocationUnlessPreempted ==
  \A i \in DOMAIN fifo : ~fifo[i].preempted => fifo[i].lng = fifo[i].lat

\* The fix mode logged with a row, read through a pointer after the sample was
\* taken, may be newer than the row's altitude but never older.
TextNotOlderThanAltitude == logged.mode >= logged.alt
=============================================================================
