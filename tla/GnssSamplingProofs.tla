-------------------------- MODULE GnssSamplingProofs --------------------------
(***************************************************************************)
(* Rows whose values belong together, for any receiver, any bounds and     *)
(* wherever gnssRefresh() preempts readSensors().  The invariants relate   *)
(* the row under construction, at each place readSensors() can be at, to   *)
(* the values and the flags of the TinyGPSPlus object.                     *)
(***************************************************************************)
EXTENDS GnssSampling, TLAPS

Values == {"time", "lng", "lat", "alt", "mode"}
Row == [time : Nat, lng : Nat, lat : Nat, alt : Nat, mode : Nat, preempted : BOOLEAN]

RowTypes ==
  /\ gnss \in [Values -> Nat]
  /\ sample \in Row /\ logged \in Row /\ fifo \in Seq(Row)
  /\ unread \in BOOLEAN /\ due \in [Times -> Int]

\* readSensors() found room for the row it is building.
Room == at # "idle" => Len(fifo) < MAX_BUFFER_SIZE

\* RMC and GGA commit a location as a whole; readSensors() has of it what it
\* had when lng() was called, until gnssRefresh() preempts it.
OneLocation ==
  /\ gnss.lng = gnss.lat
  /\ ~sample.preempted =>
       /\ at = "time" \/ (at = "lng" /\ pending # {"reset"}) => sample.lng = sample.lat
       /\ at = "lat" \/ (at = "lng" /\ pending = {"reset"}) => sample.lng = gnss.lat
       /\ at = "lat" /\ pending = {"reset"} => sample.lat = gnss.lat
       /\ at \in {"alt", "push"} => sample.lng = sample.lat

\* The fix of the next sentence.
NextFix == sent \div Len(Sentences) + 1

\* No altitude on its way to the file is newer than the text of the fix mode,
\* nor that text than the next sentence.
AltitudeBeforeText ==
  /\ gnss.mode <= NextFix
  /\ gnss.alt <= gnss.mode /\ sample.alt <= gnss.mode
  /\ \A i \in 1 .. Len(fifo) : fifo[i].alt <= gnss.mode

\* The rows that will still have time t if no sentence comes: one if value() has
\* it to load, and one if the flag will be set for the next call.
AboutToLoad(t) == IF gnss.time = t /\ at = "time" /\ "load" \in pending THEN 1 ELSE 0
Flagged(t) == IF gnss.time = t /\ "time" \in updated /\ ~(at = "time" /\ "reset" \in pending)
            THEN 1 ELSE 0

EnoughDue == \A t \in Times : due[t] >= AboutToLoad(t) + Flagged(t)

\* The time committed last, if nobody took it, has its flag, or value() is about
\* to load it.
NewHasFlag ==
  ~raced =>
    /\ at = "time" /\ pending = {"reset"} => ~unread
    /\ unread /\ ~taken => "time" \in updated \/ (at = "time" /\ pending = {"load"})

SInv == TypeOK /\ RowTypes /\ Room
LInv == OneLocation /\ OneLocationUnlessPreempted
AInv == AltitudeBeforeText /\ TextNotOlderThanAltitude
FInv == EnoughDue /\ NewHasFlag

GInv == SInv /\ LInv /\ AInv /\ FInv
-----------------------------------------------------------------------------
(* Operators *)

LEMMA SentencesPositive == MaxFixes * Len(Sentences) \in Nat
<1>1. MaxFixes \in Nat /\ Len(Sentences) \in Nat
  BY SentencesAssumption
<1>2. \A m, n \in Nat : m * n \in Nat
  OBVIOUS
<1>. QED  BY <1>1, <1>2

\* A sentence has a location as a whole, and an altitude only with the text.
LEMMA CommitsTogether ==
  ASSUME NEW kind, NEW hasFix \in BOOLEAN
  PROVE  LET vs == Commits(kind, hasFix)
         IN  /\ vs \subseteq Values
             /\ "lng" \in vs <=> "lat" \in vs
             /\ "alt" \in vs => "mode" \in vs
  BY DEF Commits, Values

LEMMA CommittedValues ==
  ASSUME NEW g \in [Values -> Nat], NEW vs \in SUBSET Values, NEW n \in Nat, NEW t \in Nat
  PROVE  LET h == [v \in DOMAIN g |-> IF v \notin vs THEN g[v] ELSE IF v = "time" THEN t ELSE n]
         IN  /\ h \in [Values -> Nat]
             /\ \A v \in Values : h[v] = IF v \notin vs THEN g[v] ELSE IF v = "time" THEN t ELSE n
  BY DEF Values

LEMMA LoadedRow ==
  ASSUME NEW r \in Row, NEW n \in Nat, NEW v \in Values
  PROVE  LET q == [r EXCEPT ![v] = n]
         IN  /\ q \in Row /\ q.preempted = r.preempted
             /\ q.time = IF v = "time" THEN n ELSE r.time
             /\ q.lng = IF v = "lng" THEN n ELSE r.lng
             /\ q.lat = IF v = "lat" THEN n ELSE r.lat
             /\ q.alt = IF v = "alt" THEN n ELSE r.alt
  BY DEF Row, Values

\* Where readSensors() goes on after a value, and after none.
LEMMA NextPlace ==
  /\ DOMAIN AfterValue = {"time", "lng", "lat", "alt"}
  /\ AfterValue["time"] = "lng" /\ AfterValue["lng"] = "lat"
  /\ AfterValue["lat"] = "alt" /\ AfterValue["alt"] = "push"
  /\ AfterNone["time"] = "lng" /\ AfterNone["lng"] = "alt" /\ AfterNone["alt"] = "push"
  BY DEF AfterValue, AfterNone

\* The first step of an accessor leaves the other, the second returns.
LEMMA DoneCases ==
  ASSUME NEW step \in {"reset", "load"}, TypeOK, step \in pending, Done(step)
  PROVE  /\ pending' \subseteq pending /\ step \notin pending'
         /\ at \in {"time", "lng", "lat", "alt"}
         /\ \/ pending = {step} /\ pending' = {} /\ at' = AfterValue[at]
            \/ pending = {"reset", "load"} /\ pending' = {"reset", "load"} \ {step} /\ at' = at
  BY DEF TypeOK, Done

\* The next sentence is of a fix within the bound, and no later than the one
\* after it.
LEMMA NextFixInBounds ==
  ASSUME sent \in Nat
  PROVE  /\ NextFix \in Nat \ {0}
         /\ sent < MaxFixes * Len(Sentences) => NextFix \in Times
         /\ NextFix <= (sent + 1) \div Len(Sentences) + 1
<1>. DEFINE d == Len(Sentences)
            m == MaxFixes
<1>1. d \in Nat \ {0} /\ m \in Nat
  BY SentencesAssumption
<1>. HIDE DEF d, m
<1>2. \A n \in Nat : n \div d \in Nat /\ n % d \in 0 .. d - 1 /\ n = d * (n \div d) + (n % d)
  BY <1>1
<1>. DEFINE q == sent \div d
            p == (sent + 1) \div d
            r == sent % d
            z == (sent + 1) % d
<1>3. /\ q \in Nat /\ r \in 0 .. d - 1 /\ sent = d * q + r
      /\ p \in Nat /\ z \in 0 .. d - 1 /\ sent + 1 = d * p + z
  <2>1. sent + 1 \in Nat
    OBVIOUS
  <2>. QED  BY <1>2, <2>1
<1>. HIDE DEF q, p, r, z
<1>4. sent < m * d => q < m
  <2>. SUFFICES ASSUME sent < m * d, m <= q PROVE FALSE
    BY <1>1, <1>3
  <2>1. m * d <= d * q
    BY <1>1, <1>3
  <2>2. d * q \in Nat /\ m * d \in Nat
    BY <1>1, <1>3
  <2>. QED  BY <1>1, <1>3, <2>1, <2>2
<1>5. q <= p
  <2>. SUFFICES ASSUME p < q PROVE FALSE
    BY <1>3
  <2>1. d * (p + 1) <= d * q /\ d * (p + 1) = d * p + d
    BY <1>1, <1>3
  <2>2. d * q \in Nat /\ d * p \in Nat
    BY <1>1, <1>3
  <2>. QED  BY <1>1, <1>3, <2>1, <2>2
<1>6. NextFix = q + 1 /\ (sent + 1) \div Len(Sentences) = p
  BY DEF NextFix, q, p, d
<1>7. sent < MaxFixes * Len(Sentences) => q < MaxFixes
  BY <1>4 DEF m, d
<1>. QED  BY <1>1, <1>3, <1>5, <1>6, <1>7 DEF Times, m

\* What gnssRefresh() does to the values and the flags, whatever the sentence.
LEMMA RefreshStep ==
  ASSUME SInv, gnssRefresh
  PROVE  /\ NextFix \in Times /\ newTime' \in Times
         /\ \E vs \in SUBSET Values :
           /\ "lng" \in vs <=> "lat" \in vs
           /\ "alt" \in vs => "mode" \in vs
           /\ gnss' \in [Values -> Nat]
           /\ \A v \in Values : gnss'[v] = IF v \notin vs THEN gnss[v]
                                           ELSE IF v = "time" THEN newTime' ELSE NextFix
           /\ updated' = updated \cup {Flag(v) : v \in vs \ {"mode"}}
           /\ CommitTime("time" \in vs)
<1>1. PICK hasFix \in BOOLEAN, hasTime \in BOOLEAN, ok \in BOOLEAN :
        LET kind == Sentences[(sent % Len(Sentences)) + 1]
            vs == IF ok THEN Commits(kind, hasFix) ELSE {}
        IN  /\ newTime' \in Staged(kind, hasTime, ok, NextFix)
            /\ gnss' = [v \in DOMAIN gnss |-> IF v \notin vs THEN gnss[v]
                                             ELSE IF v = "time" THEN newTime' ELSE NextFix]
            /\ updated' = updated \cup {Flag(v) : v \in vs \ {"mode"}}
            /\ CommitTime("time" \in vs)
  BY DEF gnssRefresh, NextFix
<1>. DEFINE vs == IF ok THEN Commits(Sentences[(sent % Len(Sentences)) + 1], hasFix) ELSE {}
<1>2. /\ vs \in SUBSET Values
      /\ "lng" \in vs <=> "lat" \in vs
      /\ "alt" \in vs => "mode" \in vs
  BY CommitsTogether
<1>3. sent \in Nat /\ sent < MaxFixes * Len(Sentences) /\ gnss \in [Values -> Nat]
      /\ newTime \in Times
  BY SentencesPositive DEF SInv, TypeOK, RowTypes, gnssRefresh
<1>4. NextFix \in Times
  BY <1>3, NextFixInBounds
<1>5. newTime' \in {newTime, NextFix}
  BY <1>1 DEF Staged
<1>6. newTime' \in Times /\ newTime' \in Nat /\ NextFix \in Nat
  BY <1>3, <1>4, <1>5, SentencesAssumption DEF Times
<1>7. /\ gnss' = [v \in DOMAIN gnss |-> IF v \notin vs THEN gnss[v]
                                        ELSE IF v = "time" THEN newTime' ELSE NextFix]
      /\ updated' = updated \cup {Flag(v) : v \in vs \ {"mode"}}
      /\ CommitTime("time" \in vs)
  BY <1>1
<1>. HIDE DEF vs
<1>8. /\ gnss' \in [Values -> Nat]
      /\ \A v \in Values : gnss'[v] = IF v \notin vs THEN gnss[v]
                                      ELSE IF v = "time" THEN newTime' ELSE NextFix
  BY <1>2, <1>3, <1>6, <1>7, CommittedValues
<1>. QED  BY <1>2, <1>4, <1>6, <1>7, <1>8
-----------------------------------------------------------------------------
(* Types *)

LEMMA SampleOnly ==
  ASSUME readSensors
  PROVE  UNCHANGED <<refreshVars, loopVars, taken>>
BY DEF readSensors, Begin, PushNone, Call, Reset, Load, Push, ghostVars

LEMMA InitGInv == Init => GInv
<1>. SUFFICES ASSUME Init PROVE GInv
  OBVIOUS
<1>1. gnss \in [Values -> Nat] /\ DOMAIN gnss = Values /\ \A v \in Values : gnss[v] = 0
  BY DEF Init, Values, None
<1>2. /\ NoRow \in Row /\ ~NoRow.preempted /\ NoRow.lng = 0 /\ NoRow.lat = 0
      /\ NoRow.alt = 0 /\ NoRow.mode = 0
  BY DEF NoRow, Row, None
<1>3. SInv
  <2>1. 0 \in 0 .. MaxFixes * Len(Sentences) /\ 0 \in 0 .. MaxSamples
    BY SentencesPositive, SentencesAssumption
  <2>2. 0 \in Times /\ newTime \in Times /\ \A v \in DOMAIN gnss : gnss[v] \in Times
    BY <1>1, SentencesAssumption DEF Init, Values, Times, None
  <2>3. fifo = << >> /\ fifo \in Seq(Row) /\ Len(fifo) <= MAX_BUFFER_SIZE
    BY SentencesAssumption DEF Init
  <2>4. TypeOK
    <3>1. /\ sent = 0 /\ updated = {} /\ pending = {} /\ at = "idle" /\ naming = 0
          /\ samples = 0 /\ raced = FALSE /\ taken = FALSE
      BY DEF Init, None
    <3>2. sent \in 0 .. MaxFixes * Len(Sentences) /\ naming \in 0 .. 3 /\ samples \in 0 .. MaxSamples
      BY <2>1, <3>1
    <3>. QED  BY <2>2, <2>3, <3>1, <3>2 DEF TypeOK
  <2>5. RowTypes
    <3>1. due \in [Times -> Int]
      <4>1. 0 \in Int /\ due = [t \in Times |-> 0]
        BY DEF Init
      <4>. HIDE DEF Times
      <4>. QED  BY <4>1
    <3>3. unread = FALSE
      BY DEF Init
    <3>2. sample \in Row /\ logged \in Row
      BY <1>2 DEF Init
    <3>. QED  BY <1>1, <2>3, <3>1, <3>2, <3>3 DEF RowTypes
  <2>. QED  BY <2>4, <2>5 DEF Init, SInv, Room
<1>4. LInv /\ AInv
  <2>1. 0 <= NextFix
    BY NextFixInBounds DEF Init
  <2>. QED  BY <1>1, <1>2, <2>1 DEF Init, LInv, AInv, OneLocation, OneLocationUnlessPreempted,
     AltitudeBeforeText, TextNotOlderThanAltitude, Values
<1>5. FInv
  BY DEF Init, FInv, EnoughDue, AboutToLoad, Flagged, NewHasFlag
<1>. QED  BY <1>3, <1>4, <1>5 DEF GInv

LEMMA RefreshTypes ==
  ASSUME SInv, gnssRefresh
  PROVE  SInv'
<1>1. PICK vs \in SUBSET Values :
        /\ gnss' \in [Values -> Nat]
        /\ \A v \in Values : gnss'[v] = IF v \notin vs THEN gnss[v]
                                        ELSE IF v = "time" THEN newTime' ELSE NextFix
        /\ updated' = updated \cup {Flag(v) : v \in vs \ {"mode"}}
        /\ CommitTime("time" \in vs)
  BY RefreshStep
<1>2. sent' \in 0 .. MaxFixes * Len(Sentences)
  BY SentencesPositive DEF gnssRefresh, SInv, TypeOK
<1>3. gnss \in [Values -> Nat] /\ (\A v \in Values : gnss[v] \in Times) /\ newTime' \in Times
      /\ NextFix \in Times
  BY RefreshStep DEF SInv, TypeOK, RowTypes
<1>4. \A v \in Values : gnss'[v] \in Times
  BY <1>1, <1>3
<1>5. DOMAIN gnss' = Values
  BY <1>1
<1>6. updated' \subseteq {"time", "location", "alt"}
  BY <1>1 DEF SInv, TypeOK, Flag, Values
<1>7. sample' \in Row
  BY DEF SInv, RowTypes, gnssRefresh, Row
<1>8. due' \in [Times -> Int]
  BY <1>1, <1>3 DEF CommitTime, SInv, RowTypes
<1>9. unread' \in BOOLEAN /\ raced' \in BOOLEAN /\ taken' \in BOOLEAN
  <2>1. InsideValue \in BOOLEAN
    BY DEF InsideValue
  <2>. QED  BY <1>1, <2>1, Zenon DEF CommitTime, SInv, TypeOK, RowTypes
<1>10. UNCHANGED <<at, pending, fifo, samples, naming, logged>>
  BY DEF gnssRefresh, loopVars
<1>. QED  BY <1>1, <1>2, <1>3, <1>4, <1>5, <1>6, <1>7, <1>8, <1>9, <1>10
     DEF SInv, TypeOK, RowTypes, Room

LEMMA SampleTypes ==
  ASSUME SInv, readSensors
  PROVE  SInv'
<1>1. UNCHANGED <<sent, gnss, newTime, raced, naming, logged, taken>>
  BY SampleOnly DEF refreshVars, loopVars
<1>2. CASE Begin
  <2>1. NoRow \in Row
    BY DEF NoRow, Row, None
  <2>. QED  BY <1>1, <1>2, <2>1, SentencesAssumption DEF Begin, ghostVars, SInv, TypeOK, RowTypes, Room
<1>3. CASE PushNone
  BY <1>1, <1>3, NextPlace DEF PushNone, ghostVars, Tested, SInv, TypeOK, RowTypes, Room
<1>4. CASE Call
  BY <1>1, <1>4, NextPlace DEF Call, ghostVars, Accessor, SInv, TypeOK, RowTypes, Room
<1>5. CASE Reset
  <2>1. /\ "reset" \in pending /\ updated' \subseteq updated /\ Done("reset")
        /\ UNCHANGED <<sample, fifo, samples, due, unread>>
    BY <1>5 DEF Reset, ghostVars
  <2>2. /\ pending' \subseteq {"reset", "load"} /\ at' \in {"time", "lng", "lat", "alt", "push"}
        /\ at # "idle" /\ (pending' # {} => at' \in {"time", "lng", "lat", "alt"})
    BY <2>1, DoneCases, NextPlace DEF SInv, TypeOK
  <2>. QED  BY <1>1, <2>1, <2>2 DEF SInv, TypeOK, RowTypes, Room
<1>6. CASE Load
  <2>1. /\ "load" \in pending /\ Done("load") /\ sample' = [sample EXCEPT ![at] = gnss[at]]
        /\ unread' \in {FALSE, unread}
        /\ due' = due \/ due' = [due EXCEPT ![gnss.time] = @ - 1]
        /\ UNCHANGED <<updated, fifo, samples>>
    BY <1>6 DEF Load
  <2>2. /\ pending' \subseteq {"reset", "load"} /\ at' \in {"time", "lng", "lat", "alt", "push"}
        /\ at # "idle" /\ (pending' # {} => at' \in {"time", "lng", "lat", "alt"})
        /\ at \in Values
    BY <2>1, DoneCases, NextPlace DEF SInv, TypeOK, Values
  <2>3. sample' \in Row
    BY <2>1, <2>2, LoadedRow DEF SInv, RowTypes
  <2>4. unread' \in BOOLEAN
    BY <2>1 DEF SInv, RowTypes
  <2>5. due' \in [Times -> Int]
    <3>1. due \in [Times -> Int]
      BY DEF SInv, RowTypes
    <3>2. \/ due' = due
          \/ due' = [due EXCEPT ![gnss.time] = @ - 1]
      BY <2>1
    <3>3. CASE due' = [due EXCEPT ![gnss.time] = @ - 1]
      <4>1. gnss.time \in Times
        BY DEF SInv, TypeOK, RowTypes, Values
      <4>. DEFINE t == gnss.time
      <4>. HIDE DEF Times, t
      <4>2. t \in Times /\ due[t] - 1 \in Int /\ due' = [due EXCEPT ![t] = due[t] - 1]
        BY <3>1, <3>3, <4>1 DEF t
      <4>. QED  BY <3>1, <4>2
    <3>. QED  BY <3>1, <3>2, <3>3
  <2>. QED  BY <1>1, <2>1, <2>2, <2>3, <2>4, <2>5 DEF SInv, TypeOK, RowTypes, Room
<1>7. CASE Push
  <2>1. fifo' \in Seq(Row) /\ Len(fifo') <= MAX_BUFFER_SIZE
    BY <1>7, SentencesAssumption DEF Push, SInv, RowTypes, Room
  <2>. QED  BY <1>1, <1>7, <2>1 DEF Push, ghostVars, SInv, TypeOK, RowTypes, Room
<1>. QED  BY <1>2, <1>3, <1>4, <1>5, <1>6, <1>7 DEF readSensors

LEMMA LoopTypes ==
  ASSUME SInv, StartNaming \/ timeToStr \/ LogRow
  PROVE  SInv'
<1>1. UNCHANGED <<sent, gnss, newTime, raced, at, pending, sample, samples, due, unread>>
      /\ at = "idle"
  BY DEF StartNaming, timeToStr, LogRow, sampleVars, refreshVars, ghostVars
<1>2. CASE StartNaming
  BY <1>1, <1>2 DEF StartNaming, sampleVars, ghostVars, SInv, TypeOK, RowTypes, Room
<1>3. CASE timeToStr
  BY <1>1, <1>3 DEF timeToStr, sampleVars, SInv, TypeOK, RowTypes, Room
<1>4. CASE LogRow
  <2>1. fifo \in Seq(Row) /\ fifo # << >>
    BY <1>4 DEF LogRow, SInv, RowTypes
  <2>2. Head(fifo) \in Row /\ fifo' \in Seq(Row) /\ Len(fifo') <= MAX_BUFFER_SIZE
    BY <1>4, <2>1, SentencesAssumption DEF LogRow, SInv, TypeOK
  <2>3. gnss.mode \in Nat
    BY DEF SInv, RowTypes, Values
  <2>4. logged' \in Row
    BY <1>4, <2>2, <2>3 DEF LogRow, Row
  <2>. QED  BY <1>1, <1>4, <2>2, <2>4 DEF LogRow, ghostVars, SInv, TypeOK, RowTypes, Room
<1>. QED  BY <1>2, <1>3, <1>4

\* The values of the object, of a row and of the buffers have their types, and
\* an accessor in progress is one of the four calls: whichever call
\* gnssRefresh() preempts, and however the sentences come.
THEOREM TypeCorrect == Spec => []TypeOK
<1>1. Init => SInv
  BY InitGInv DEF GInv
<1>2. SInv /\ [Next]_vars => SInv'
  <2>. SUFFICES ASSUME SInv, [Next]_vars PROVE SInv'
    OBVIOUS
  <2>1. CASE UNCHANGED vars
    BY <2>1 DEF vars, SInv, TypeOK, RowTypes, Room
  <2>. QED  BY <2>1, RefreshTypes, SampleTypes, LoopTypes DEF Next
<1>3. SInv => TypeOK
  BY DEF SInv
<1>. QED  BY <1>1, <1>2, <1>3, PTL DEF Spec
-----------------------------------------------------------------------------
(* The location and the altitude of a row *)

\* The fields LoadedRow speaks of, for the row in the making.
LEMMA LoadStep ==
  ASSUME SInv, Load
  PROVE  /\ "load" \in pending /\ Done("load") /\ gnss \in [Values -> Nat]
         /\ sample'.preempted = sample.preempted
         /\ sample'.lng = IF at = "lng" THEN gnss.lng ELSE sample.lng
         /\ sample'.lat = IF at = "lat" THEN gnss.lat ELSE sample.lat
         /\ sample'.alt = IF at = "alt" THEN gnss.alt ELSE sample.alt
         /\ UNCHANGED <<gnss, updated, fifo, raced, taken, logged>>
<1>1. /\ "load" \in pending /\ Done("load") /\ sample' = [sample EXCEPT ![at] = gnss[at]]
      /\ UNCHANGED <<gnss, updated, fifo, raced, taken, logged>>
  BY DEF Load, refreshVars, loopVars
<1>2. at \in Values /\ sample \in Row /\ gnss \in [Values -> Nat] /\ gnss[at] \in Nat
  BY <1>1, DoneCases DEF SInv, TypeOK, RowTypes, Values
<1>. QED  BY <1>1, <1>2, LoadedRow

LEMMA RefreshLocation ==
  ASSUME SInv, LInv, gnssRefresh
  PROVE  LInv'
<1>1. PICK vs \in SUBSET Values :
        /\ "lng" \in vs <=> "lat" \in vs
        /\ gnss' \in [Values -> Nat]
        /\ \A v \in Values : gnss'[v] = IF v \notin vs THEN gnss[v]
                                        ELSE IF v = "time" THEN newTime' ELSE NextFix
  BY RefreshStep
<1>2. gnss'.lng = gnss'.lat
  BY <1>1 DEF Values, LInv, OneLocation
<1>3. /\ UNCHANGED <<at, pending, fifo>>
      /\ sample' = [sample EXCEPT !.preempted = @ \/ at = "lat" \/ (at = "lng" /\ pending # {})]
      /\ sample \in Row
  BY DEF gnssRefresh, SInv, RowTypes
<1>4. /\ sample'.lng = sample.lng /\ sample'.lat = sample.lat
      /\ ~sample'.preempted => ~sample.preempted /\ at # "lat" /\ ~(at = "lng" /\ pending # {})
  BY <1>3 DEF Row
<1>5. OneLocation'
  BY <1>2, <1>3, <1>4 DEF LInv, OneLocation
<1>6. OneLocationUnlessPreempted'
  BY <1>3 DEF LInv, OneLocationUnlessPreempted
<1>. QED  BY <1>5, <1>6 DEF LInv

LEMMA SampleLocation ==
  ASSUME SInv, LInv, readSensors
  PROVE  LInv'
<1>1. gnss' = gnss /\ gnss \in [Values -> Nat] /\ pending \subseteq {"reset", "load"}
  BY SampleOnly DEF refreshVars, SInv, TypeOK, RowTypes
<1>2. CASE Begin
  <2>1. NoRow.lng = 0 /\ NoRow.lat = 0
    BY DEF NoRow, None
  <2>. QED  BY <1>1, <1>2, <2>1 DEF Begin, LInv, OneLocation, OneLocationUnlessPreempted
<1>3. CASE PushNone
  <2>1. /\ pending = {} /\ at \in Tested /\ at' = AfterNone[at]
        /\ UNCHANGED <<pending, sample, fifo>>
    BY <1>3 DEF PushNone
  <2>2. \/ at = "time" /\ at' = "lng"
        \/ at = "lng" /\ at' = "alt"
        \/ at = "alt" /\ at' = "push"
    BY <2>1, NextPlace DEF Tested
  <2>. QED  BY <1>1, <2>1, <2>2 DEF LInv, OneLocation, OneLocationUnlessPreempted
<1>4. CASE Call
  BY <1>1, <1>4 DEF Call, Accessor, LInv, OneLocation, OneLocationUnlessPreempted
<1>5. CASE Reset
  <2>1. "reset" \in pending /\ Done("reset") /\ UNCHANGED <<sample, fifo>>
    BY <1>5 DEF Reset
  <2>2. \/ pending = {"reset"} /\ pending' = {} /\ at' = AfterValue[at]
        \/ pending = {"reset", "load"} /\ pending' = {"load"} /\ at' = at
    BY <2>1, DoneCases DEF SInv
  <2>3. at \in {"time", "lng", "lat", "alt"}
    BY <2>1, DoneCases DEF SInv
  <2>. QED  BY <1>1, <2>1, <2>2, <2>3, NextPlace DEF LInv, OneLocation, OneLocationUnlessPreempted
<1>6. CASE Load
  <2>1. \/ pending = {"load"} /\ pending' = {} /\ at' = AfterValue[at]
        \/ pending = {"reset", "load"} /\ pending' = {"reset"} /\ at' = at
    BY <1>6, LoadStep, DoneCases DEF SInv
  <2>2. at \in {"time", "lng", "lat", "alt"}
    BY <1>6, LoadStep, DoneCases DEF SInv
  <2>3. OneLocation'
    BY <1>1, <1>6, <2>1, <2>2, LoadStep, NextPlace DEF LInv, OneLocation
  <2>. QED  BY <1>6, <2>3, LoadStep DEF LInv, OneLocationUnlessPreempted
<1>7. CASE Push
  <2>1. at = "push" /\ at' = "idle" /\ fifo' = Append(fifo, sample) /\ UNCHANGED <<sample, pending>>
    BY <1>7 DEF Push
  <2>2. fifo \in Seq(Row) /\ sample \in Row
    BY DEF SInv, RowTypes
  <2>3. \A i \in DOMAIN fifo' : fifo'[i] = sample \/ (i \in DOMAIN fifo /\ fifo'[i] = fifo[i])
    BY <2>1, <2>2
  <2>4. ~sample.preempted => sample.lng = sample.lat
    BY <2>1 DEF LInv, OneLocation
  <2>. QED  BY <1>1, <2>1, <2>3, <2>4 DEF LInv, OneLocation, OneLocationUnlessPreempted
<1>. QED  BY <1>2, <1>3, <1>4, <1>5, <1>6, <1>7 DEF readSensors

\* A pop leaves the rows behind the one it takes.
LEMMA TailRows ==
  ASSUME NEW q \in Seq(Row), q # << >>
  PROVE  /\ Head(q) = q[1] /\ 1 \in DOMAIN q
         /\ \A i \in DOMAIN Tail(q) : i + 1 \in DOMAIN q /\ Tail(q)[i] = q[i + 1]
OBVIOUS

LEMMA LoopLocation ==
  ASSUME SInv, LInv, StartNaming \/ timeToStr \/ LogRow
  PROVE  LInv'
<1>1. UNCHANGED <<gnss, at, pending, sample>> /\ fifo' \in {fifo, Tail(fifo)} /\ (fifo' # fifo => fifo # << >>)
  BY DEF StartNaming, timeToStr, LogRow, sampleVars, refreshVars
<1>2. \A i \in DOMAIN fifo' : \E j \in DOMAIN fifo : fifo'[i] = fifo[j]
  BY <1>1, TailRows DEF SInv, RowTypes
<1>. QED  BY <1>1, <1>2 DEF LInv, OneLocation, OneLocationUnlessPreempted

\* The longitude and the latitude of every buffered row are of one sentence,
\* or both missing, unless gnssRefresh() came between lng() and lat().
THEOREM OneLocationPerRow == Spec => []OneLocationUnlessPreempted
<1>1. Init => SInv /\ LInv
  BY InitGInv DEF GInv
<1>2. (SInv /\ LInv) /\ [Next]_vars => (SInv /\ LInv)'
  <2>. SUFFICES ASSUME SInv, LInv, [Next]_vars PROVE SInv' /\ LInv'
    OBVIOUS
  <2>1. CASE UNCHANGED vars
    BY <2>1 DEF vars, SInv, TypeOK, RowTypes, Room, LInv, OneLocation, OneLocationUnlessPreempted
  <2>2. CASE gnssRefresh
    BY <2>2, RefreshTypes, RefreshLocation
  <2>3. CASE readSensors
    BY <2>3, SampleTypes, SampleLocation
  <2>4. CASE StartNaming \/ timeToStr \/ LogRow
    BY <2>4, LoopTypes, LoopLocation
  <2>. QED  BY <2>1, <2>2, <2>3, <2>4 DEF Next
<1>3. SInv /\ LInv => OneLocationUnlessPreempted
  BY DEF LInv
<1>. QED  BY <1>1, <1>2, <1>3, PTL DEF Spec

-----------------------------------------------------------------------------
(* The text and the altitude *)

LEMMA RefreshAltitude ==
  ASSUME SInv, AInv, gnssRefresh
  PROVE  AInv'
<1>1. PICK vs \in SUBSET Values :
        /\ "alt" \in vs => "mode" \in vs
        /\ gnss' \in [Values -> Nat]
        /\ \A v \in Values : gnss'[v] = IF v \notin vs THEN gnss[v]
                                        ELSE IF v = "time" THEN newTime' ELSE NextFix
  BY RefreshStep
<1>2. /\ gnss \in [Values -> Nat] /\ gnss.mode \in Nat /\ NextFix \in Nat
      /\ gnss.mode <= NextFix /\ NextFix' \in Nat /\ NextFix <= NextFix'
  <2>1. sent \in Nat /\ sent' = sent + 1 /\ gnss \in [Values -> Nat]
    BY SentencesPositive DEF SInv, TypeOK, RowTypes, gnssRefresh
  <2>2. NextFix \in Nat /\ NextFix <= (sent + 1) \div Len(Sentences) + 1
    BY <2>1, NextFixInBounds
  <2>3. NextFix' = (sent + 1) \div Len(Sentences) + 1
    BY <2>1 DEF NextFix
  <2>4. (sent + 1) \div Len(Sentences) \in Int
    BY <2>1, SentencesAssumption
  <2>. QED  BY <2>1, <2>2, <2>3, <2>4 DEF Values, AInv, AltitudeBeforeText
<1>3. /\ gnss'.mode \in Nat /\ gnss.mode <= gnss'.mode /\ gnss'.alt <= gnss'.mode
      /\ gnss'.mode <= NextFix'
  BY <1>1, <1>2 DEF Values, AInv, AltitudeBeforeText
<1>4. UNCHANGED <<fifo, logged>> /\ sample'.alt = sample.alt
  BY DEF gnssRefresh, loopVars, SInv, RowTypes, Row
<1>5. sample.alt \in Nat /\ \A i \in 1 .. Len(fifo) : fifo[i].alt \in Nat
  <2>1. fifo \in Seq(Row) /\ sample \in Row
    BY DEF SInv, RowTypes
  <2>2. \A i \in 1 .. Len(fifo) : fifo[i] \in Row
    BY <2>1
  <2>. QED  BY <2>1, <2>2 DEF Row
<1>6. gnss.mode \in Nat /\ sample.alt <= gnss.mode
      /\ \A i \in 1 .. Len(fifo) : fifo[i].alt <= gnss.mode
  BY <1>2 DEF AInv, AltitudeBeforeText
<1>7. sample'.alt <= gnss'.mode
  BY <1>3, <1>4, <1>5, <1>6
<1>8. \A i \in 1 .. Len(fifo') : fifo'[i].alt <= gnss'.mode
  BY <1>3, <1>4, <1>5, <1>6
<1>9. TextNotOlderThanAltitude'
  BY <1>4 DEF AInv, TextNotOlderThanAltitude
<1>. QED  BY <1>3, <1>7, <1>8, <1>9, Zenon DEF AInv, AltitudeBeforeText

LEMMA SampleAltitude ==
  ASSUME SInv, AInv, readSensors
  PROVE  AInv'
<1>1. gnss' = gnss /\ logged' = logged /\ gnss.mode \in Nat /\ NextFix' = NextFix
  BY SampleOnly DEF refreshVars, loopVars, SInv, RowTypes, Values, NextFix
<1>2. CASE Begin
  <2>1. NoRow.alt = 0
    BY DEF NoRow, None
  <2>. QED  BY <1>1, <1>2, <2>1 DEF Begin, AInv, AltitudeBeforeText, TextNotOlderThanAltitude
<1>3. CASE PushNone \/ Call \/ Reset
  BY <1>1, <1>3 DEF PushNone, Call, Reset, AInv, AltitudeBeforeText, TextNotOlderThanAltitude
<1>4. CASE Load
  BY <1>1, <1>4, LoadStep DEF AInv, AltitudeBeforeText, TextNotOlderThanAltitude
<1>5. CASE Push
  <2>1. fifo' = Append(fifo, sample) /\ sample' = sample
    BY <1>5 DEF Push
  <2>2. fifo \in Seq(Row) /\ sample \in Row
    BY DEF SInv, RowTypes
  <2>3. \A i \in 1 .. Len(fifo') : fifo'[i] = sample \/ (i \in 1 .. Len(fifo) /\ fifo'[i] = fifo[i])
    BY <2>1, <2>2
  <2>. QED  BY <1>1, <2>1, <2>3 DEF AInv, AltitudeBeforeText, TextNotOlderThanAltitude
<1>. QED  BY <1>2, <1>3, <1>4, <1>5 DEF readSensors

LEMMA LoopAltitude ==
  ASSUME SInv, AInv, StartNaming \/ timeToStr \/ LogRow
  PROVE  AInv'
<1>1. UNCHANGED <<gnss, sample>> /\ NextFix' = NextFix
  BY DEF StartNaming, timeToStr, LogRow, sampleVars, refreshVars, NextFix
<1>2. CASE StartNaming \/ timeToStr
  BY <1>1, <1>2 DEF StartNaming, timeToStr, sampleVars, AInv, AltitudeBeforeText, TextNotOlderThanAltitude
<1>3. CASE LogRow
  <2>1. /\ fifo # << >> /\ fifo' = Tail(fifo) /\ logged' = [Head(fifo) EXCEPT !.mode = gnss.mode]
        /\ fifo \in Seq(Row)
    BY <1>3 DEF LogRow, SInv, RowTypes
  <2>2. \A i \in 1 .. Len(fifo') : i + 1 \in 1 .. Len(fifo) /\ fifo'[i] = fifo[i + 1]
    BY <2>1, TailRows
  <2>3. Head(fifo) \in Row /\ Head(fifo).alt <= gnss.mode
    BY <2>1, TailRows DEF AInv, AltitudeBeforeText
  <2>4. logged'.mode = gnss.mode /\ logged'.alt = Head(fifo).alt
    BY <2>1, <2>3 DEF Row
  <2>. QED  BY <1>1, <2>2, <2>3, <2>4 DEF AInv, AltitudeBeforeText, TextNotOlderThanAltitude
<1>. QED  BY <1>2, <1>3

\* The text of the fix mode, followed when the row is written, is no older
\* than the altitude of the row, which was copied when the sample was taken.
THEOREM TextAtLeastAsNew == Spec => []TextNotOlderThanAltitude
<1>1. Init => SInv /\ AInv
  BY InitGInv DEF GInv
<1>2. (SInv /\ AInv) /\ [Next]_vars => (SInv /\ AInv)'
  <2>. SUFFICES ASSUME SInv, AInv, [Next]_vars PROVE SInv' /\ AInv'
    OBVIOUS
  <2>1. CASE UNCHANGED vars
    BY <2>1 DEF vars, SInv, TypeOK, RowTypes, Room, AInv, AltitudeBeforeText, NextFix,
       TextNotOlderThanAltitude
  <2>2. CASE gnssRefresh
    BY <2>2, RefreshTypes, RefreshAltitude
  <2>3. CASE readSensors
    BY <2>3, SampleTypes, SampleAltitude
  <2>4. CASE StartNaming \/ timeToStr \/ LogRow
    BY <2>4, LoopTypes, LoopAltitude
  <2>. QED  BY <2>1, <2>2, <2>3, <2>4 DEF Next
<1>3. SInv /\ AInv => TextNotOlderThanAltitude
  BY DEF AInv
<1>. QED  BY <1>1, <1>2, <1>3, PTL DEF Spec
-----------------------------------------------------------------------------
(* The flag of the time *)

\* Only the time has the flag of the time.
LEMMA FlagOfTime ==
  \A v \in Values : Flag(v) = "time" <=> v = "time"
  BY DEF Flag, Values

\* One more row for a time that is committed, two if value() has lost the reset
\* of its flag.
LEMMA RefreshDue ==
  ASSUME SInv, EnoughDue, gnssRefresh
  PROVE  EnoughDue'
<1>1. PICK vs \in SUBSET Values :
        /\ gnss' \in [Values -> Nat]
        /\ \A v \in Values : gnss'[v] = IF v \notin vs THEN gnss[v]
                                        ELSE IF v = "time" THEN newTime' ELSE NextFix
        /\ updated' = updated \cup {Flag(v) : v \in vs \ {"mode"}}
        /\ CommitTime("time" \in vs)
  BY RefreshStep
<1>2. /\ UNCHANGED <<at, pending>> /\ newTime' \in Times /\ due \in [Times -> Int]
      /\ pending \subseteq {"reset", "load"}
  BY RefreshStep DEF gnssRefresh, SInv, TypeOK, RowTypes
<1>3. CASE "time" \notin vs
  <2>1. gnss'.time = gnss.time /\ due' = due /\ ("time" \in updated' <=> "time" \in updated)
    BY <1>1, <1>3, FlagOfTime DEF CommitTime, Values
  <2>. QED  BY <1>2, <2>1 DEF EnoughDue, AboutToLoad, Flagged
<1>4. CASE "time" \in vs
  <2>1. gnss'.time = newTime'
        /\ due' = [due EXCEPT ![newTime'] = @ + (IF InsideValue THEN 2 ELSE 1)]
    BY <1>1, <1>4 DEF CommitTime, Values
  <2>. SUFFICES ASSUME NEW t \in Times
                PROVE  due'[t] >= AboutToLoad(t)' + Flagged(t)'
    BY DEF EnoughDue
  <2>2. due[t] \in Int /\ due[t] >= AboutToLoad(t) + Flagged(t)
    BY <1>2 DEF EnoughDue
  <2>3. AboutToLoad(t) \in {0, 1} /\ Flagged(t) \in {0, 1}
        /\ AboutToLoad(t)' \in {0, 1} /\ Flagged(t)' \in {0, 1}
    BY DEF AboutToLoad, Flagged
  <2>4. CASE t # newTime'
    <3>1. due'[t] = due[t] /\ AboutToLoad(t)' = 0 /\ Flagged(t)' = 0
      BY <1>2, <2>1, <2>4 DEF AboutToLoad, Flagged
    <3>. QED  BY <2>2, <2>3, <3>1
  <2>5. CASE t = newTime'
    <3>1. InsideValue => due'[t] = due[t] + 2
      BY <1>2, <2>1, <2>5
    <3>2. ~InsideValue => due'[t] = due[t] + 1 /\ AboutToLoad(t)' = 0
      BY <1>2, <2>1, <2>5 DEF InsideValue, AboutToLoad
    <3>. QED  BY <2>2, <2>3, <3>1, <3>2
  <2>. QED  BY <2>4, <2>5
<1>. QED  BY <1>3, <1>4

LEMMA RefreshFlag ==
  ASSUME SInv, FInv, gnssRefresh
  PROVE  FInv'
<1>1. PICK vs \in SUBSET Values :
        /\ updated' = updated \cup {Flag(v) : v \in vs \ {"mode"}}
        /\ CommitTime("time" \in vs)
  BY RefreshStep
<1>2. UNCHANGED <<at, pending>>
  BY DEF gnssRefresh
<1>3. CASE "time" \in vs
  <2>1. "time" \in updated' /\ (raced' <=> InsideValue)
    BY <1>1, <1>3, FlagOfTime DEF CommitTime, Values
  <2>. QED  BY <1>2, <2>1, RefreshDue DEF FInv, NewHasFlag, InsideValue
<1>4. CASE "time" \notin vs
  <2>1. /\ (unread' <=> unread) /\ (raced' <=> raced) /\ (taken' <=> taken)
        /\ ("time" \in updated' <=> "time" \in updated)
    BY <1>1, <1>4, FlagOfTime DEF CommitTime
  <2>. QED  BY <1>2, <2>1, RefreshDue DEF FInv, NewHasFlag
<1>. QED  BY <1>3, <1>4

LEMMA SampleFlag ==
  ASSUME SInv, FInv, readSensors
  PROVE  FInv'
<1>1. /\ UNCHANGED <<gnss, raced, taken>> /\ pending \subseteq {"reset", "load"}
      /\ pending # {} => at \in {"time", "lng", "lat", "alt"}
  BY SampleOnly DEF refreshVars, loopVars, SInv, TypeOK
<1>2. CASE Begin \/ PushNone \/ Push
  <2>1. UNCHANGED <<updated, pending, due, unread>> /\ pending = {}
    BY <1>1, <1>2 DEF Begin, PushNone, Push, refreshVars, ghostVars
  <2>. QED  BY <1>1, <2>1 DEF FInv, EnoughDue, AboutToLoad, Flagged, NewHasFlag
<1>3. CASE Call
  <2>1. /\ pending = {} /\ pending' = {"reset", "load"} /\ at = at'
        /\ (at = "time" => "time" \in updated) /\ UNCHANGED <<updated, due, unread>>
    BY <1>3 DEF Call, Accessor, Tested, Flag, ghostVars
  <2>2. EnoughDue'
    BY <1>1, <2>1 DEF FInv, EnoughDue, AboutToLoad, Flagged
  <2>. QED  BY <1>1, <2>1, <2>2 DEF FInv, NewHasFlag
<1>4. CASE Reset
  <2>1. /\ "reset" \in pending /\ Done("reset") /\ updated' = updated \ {Flag(at)}
        /\ UNCHANGED <<due, unread>>
    BY <1>4 DEF Reset, ghostVars
  <2>2. \/ pending = {"reset"} /\ pending' = {} /\ at' = AfterValue[at]
        \/ pending = {"reset", "load"} /\ pending' = {"load"} /\ at' = at
    BY <2>1, DoneCases DEF SInv
  <2>3. at \in {"time", "lng", "lat", "alt"}
    BY <2>1, DoneCases DEF SInv
  <2>4. CASE at = "time"
    <3>1. "time" \notin updated'
      BY <2>1, <2>4 DEF Flag
    <3>2. \A t : AboutToLoad(t)' = AboutToLoad(t) /\ Flagged(t)' = 0 /\ Flagged(t) = 0
      BY <1>1, <2>1, <2>2, <2>4, <3>1, NextPlace DEF AboutToLoad, Flagged
    <3>3. EnoughDue'
      BY <2>1, <3>2 DEF FInv, EnoughDue
    <3>. QED  BY <1>1, <2>1, <2>2, <2>4, <3>1, <3>3, NextPlace DEF FInv, NewHasFlag
  <2>5. CASE at # "time"
    <3>1. "time" \in updated' <=> "time" \in updated
      BY <2>1, <2>3, <2>5 DEF Flag
    <3>2. at' # "time"
      BY <2>2, <2>3, <2>5, NextPlace
    <3>. QED  BY <1>1, <2>1, <2>5, <3>1, <3>2 DEF FInv, EnoughDue, AboutToLoad, Flagged, NewHasFlag
  <2>. QED  BY <2>4, <2>5
<1>5. CASE Load
  <2>1. /\ "load" \in pending /\ Done("load") /\ updated' = updated
    BY <1>5 DEF Load
  <2>2. \/ pending = {"load"} /\ pending' = {} /\ at' = AfterValue[at]
        \/ pending = {"reset", "load"} /\ pending' = {"reset"} /\ at' = at
    BY <2>1, DoneCases DEF SInv
  <2>3. at \in {"time", "lng", "lat", "alt"}
    BY <2>1, DoneCases DEF SInv
  <2>4. CASE at = "time"
    <3>1. ~unread' /\ due' = [due EXCEPT ![gnss.time] = @ - 1]
      BY <1>5, <2>4 DEF Load
    <3>2. EnoughDue'
      <4>. SUFFICES ASSUME NEW t \in Times
                    PROVE  due'[t] >= AboutToLoad(t)' + Flagged(t)'
        BY DEF EnoughDue
      <4>1. /\ due[t] \in Int /\ due[t] >= AboutToLoad(t) + Flagged(t)
            /\ due'[t] = IF t = gnss.time THEN due[t] - 1 ELSE due[t]
        BY <3>1 DEF FInv, EnoughDue, SInv, RowTypes
      <4>2. AboutToLoad(t)' = 0 /\ AboutToLoad(t) = IF t = gnss.time THEN 1 ELSE 0
        BY <2>1, <2>2, <2>4, NextPlace DEF AboutToLoad
      <4>3. Flagged(t)' = Flagged(t) /\ Flagged(t) \in {0, 1}
        BY <1>1, <2>1, <2>2, <2>4, NextPlace DEF Flagged
      <4>. QED  BY <4>1, <4>2, <4>3
    <3>. QED  BY <1>1, <3>1, <3>2 DEF FInv, NewHasFlag
  <2>5. CASE at # "time"
    <3>1. at' # "time" /\ due' = due /\ (unread' <=> unread)
      BY <1>5, <2>2, <2>3, <2>5, NextPlace DEF Load
    <3>. QED  BY <1>1, <2>1, <2>5, <3>1 DEF FInv, EnoughDue, AboutToLoad, Flagged, NewHasFlag
  <2>. QED  BY <2>4, <2>5
<1>. QED  BY <1>2, <1>3, <1>4, <1>5 DEF readSensors

LEMMA LoopFlag ==
  ASSUME SInv, FInv, StartNaming \/ timeToStr \/ LogRow
  PROVE  FInv'
<1>1. UNCHANGED <<gnss, raced, at, pending, due, unread>> /\ at = "idle"
  BY DEF StartNaming, timeToStr, LogRow, sampleVars, refreshVars, ghostVars
<1>2. CASE StartNaming \/ LogRow
  <2>1. UNCHANGED <<updated, taken>>
    BY <1>2 DEF StartNaming, LogRow, ghostVars
  <2>. QED  BY <1>1, <2>1 DEF FInv, EnoughDue, AboutToLoad, Flagged, NewHasFlag
<1>3. CASE timeToStr
  <2>1. "time" \notin updated' /\ (taken' <=> taken \/ "time" \in updated)
    BY <1>3 DEF timeToStr
  <2>2. EnoughDue'
    <3>. SUFFICES ASSUME NEW t \in Times
                  PROVE  due[t] >= AboutToLoad(t)' + Flagged(t)'
      BY <1>1 DEF EnoughDue
    <3>1. AboutToLoad(t)' = AboutToLoad(t) /\ Flagged(t)' = 0 /\ Flagged(t) \in {0, 1}
          /\ AboutToLoad(t) \in {0, 1}
      BY <1>1, <2>1 DEF AboutToLoad, Flagged
    <3>2. due[t] \in Int /\ due[t] >= AboutToLoad(t) + Flagged(t)
      BY DEF FInv, EnoughDue, SInv, RowTypes
    <3>. QED  BY <3>1, <3>2
  <2>. QED  BY <1>1, <2>1, <2>2 DEF FInv, NewHasFlag
<1>. QED  BY <1>2, <1>3

LEMMA FlagsThroughout == Spec => [](SInv /\ FInv)
<1>1. Init => SInv /\ FInv
  BY InitGInv DEF GInv
<1>2. (SInv /\ FInv) /\ [Next]_vars => (SInv /\ FInv)'
  <2>. SUFFICES ASSUME SInv, FInv, [Next]_vars PROVE SInv' /\ FInv'
    OBVIOUS
  <2>1. CASE UNCHANGED vars
    BY <2>1 DEF vars, SInv, TypeOK, RowTypes, Room, FInv, EnoughDue, AboutToLoad, Flagged, NewHasFlag
  <2>2. CASE gnssRefresh
    BY <2>2, RefreshTypes, RefreshFlag
  <2>3. CASE readSensors
    BY <2>3, SampleTypes, SampleFlag
  <2>4. CASE StartNaming \/ timeToStr \/ LogRow
    BY <2>4, LoopTypes, LoopFlag
  <2>. QED  BY <2>1, <2>2, <2>3, <2>4 DEF Next
<1>. QED  BY <1>1, <1>2, PTL DEF Spec

\* A GNSS time is in no more rows than sentences committed it, and one more for
\* each that did so inside gnss.time.value(): whatever the receiver repeats.
THEOREM TimesFromSentences == Spec => []TimesAccounted
<1>1. SInv /\ FInv => TimesAccounted
  <2>. SUFFICES ASSUME SInv, FInv, NEW t \in Times PROVE due[t] >= 0
    BY DEF TimesAccounted
  <2>1. due[t] \in Int /\ due[t] >= AboutToLoad(t) + Flagged(t)
    BY DEF SInv, RowTypes, FInv, EnoughDue
  <2>2. AboutToLoad(t) \in {0, 1} /\ Flagged(t) \in {0, 1}
    BY DEF AboutToLoad, Flagged
  <2>. QED  BY <2>1, <2>2
<1>. QED  BY <1>1, FlagsThroughout, PTL

\* A row has NaN for a time committed since the last row took one only if
\* timeToStr() reset the flag of the last commit, or it came inside value().
THEOREM NaNHasCause == Spec => NaNExplained
<1>1. SInv /\ FInv /\ [Next]_vars => [PushNone /\ at = "time" /\ unread => taken \/ raced]_vars
  BY DEF PushNone, Flag, FInv, NewHasFlag
<1>. QED  BY <1>1, FlagsThroughout, PTL DEF Spec, NaNExplained
=============================================================================
