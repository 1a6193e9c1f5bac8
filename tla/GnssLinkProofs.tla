---------------------------- MODULE GnssLinkProofs ----------------------------
(***************************************************************************)
(* The detection of a silent module, for every interval, delay and width   *)
(* of the clock that GnssLink allows: the wrap of millis() included.       *)
(***************************************************************************)
EXTENDS GnssLink, Integers, TLAPS

Words == 0 .. (Word - 1)

\* Reduction of a sum that exceeds the word at most once.
LEMMA Wrap ==
  ASSUME NEW x \in 0 .. (2 * Word - 1)
  PROVE  x % Word = IF x < Word THEN x ELSE x - Word
  BY LinkAssumption

LEMMA InWords ==
  ASSUME NEW x \in Nat
  PROVE  x % Word \in Words
  BY LinkAssumption DEF Words

LEMMA Difference ==
  ASSUME NEW a \in Words, NEW b \in Words
  PROVE  /\ Minus(a, b) = IF a >= b THEN a - b ELSE a + Word - b
         /\ Minus(a, b) \in Words
<1> DEFINE x == a + Word - b
<1>0. Word \in Nat
  BY LinkAssumption
<1>1. x \in 0 .. (2 * Word - 1) /\ (x < Word <=> a < b)
  BY <1>0 DEF Words
<1>2. x % Word = IF x < Word THEN x ELSE x - Word
  BY <1>1, Wrap
<1> QED
  BY <1>0, <1>1, <1>2 DEF Minus, Words

\* The clock may wrap within an interval: a millisecond adds one all the same.
LEMMA TickDifference ==
  ASSUME NEW a \in Words, NEW b \in Words, Minus(a, b) + 1 < Word
  PROVE  Minus((a + 1) % Word, b) = Minus(a, b) + 1
<1>0. Word \in Nat \ {0}
  BY LinkAssumption
<1>1. (a + 1) % Word = IF a + 1 < Word THEN a + 1 ELSE 0
  BY <1>0, Wrap DEF Words
<1> DEFINE n == (a + 1) % Word
<1>2. n \in Words
  BY <1>0, <1>1 DEF Words
<1> HIDE DEF n
<1>3. Minus(n, b) = IF n >= b THEN n - b ELSE n + Word - b
  BY <1>2, Difference
<1>4. Minus(a, b) = IF a >= b THEN a - b ELSE a + Word - b
  BY Difference
<1> QED
  BY <1>0, <1>1, <1>3, <1>4 DEF Words, n

-----------------------------------------------------------------------------
(* Types *)

\* Characters wait for as long as gnssRefresh() is late, at most.
Buffered == available \in 0 .. (CharsPerTick * late)

\* The state by what it is about; the clock and the counter are words.
GTypes ==
  /\ millis \in Words /\ intervalStart \in Words
  /\ charsProcessed \in Words /\ nbCharsProcessed \in Words
  /\ phase \in 0 .. (Period - 1) /\ late \in 0 .. (MaxDelay + 1)
  /\ talking \in BOOLEAN /\ connected \in BOOLEAN /\ setUp \in BOOLEAN
  /\ unchangedFor \in 0 .. Notice
  /\ Buffered

LEMMA InitGTypes == Init => GTypes
<1> SUFFICES ASSUME Init PROVE GTypes
  OBVIOUS
<1>1. Notice \in Nat /\ 0 \in Words /\ MaxDelay \in Nat
  BY LinkAssumption DEF Notice, Words
<1>2. Buffered
  <2>1. CharsPerTick * 0 = 0
    BY LinkAssumption
  <2> QED
    BY <2>1 DEF Init, Buffered
<1>3. millis \in Words /\ intervalStart \in Words
  BY DEF Init, Words
<1>4. talking \in BOOLEAN /\ connected \in BOOLEAN /\ setUp \in BOOLEAN
  BY DEF Init
<1> QED
  BY <1>1, <1>2, <1>3, <1>4 DEF Init, GTypes

LEMMA Filling ==
  ASSUME NEW k \in 0 .. MaxDelay, NEW n \in 0 .. (CharsPerTick * k)
  PROVE  /\ n \in 0 .. (CharsPerTick * (k + 1))
         /\ n + CharsPerTick \in 0 .. (CharsPerTick * (k + 1))
<1>1. CharsPerTick \in Nat /\ k \in Nat /\ CharsPerTick * k \in Nat
  BY LinkAssumption
<1>2. CharsPerTick * (k + 1) = CharsPerTick * k + CharsPerTick
  BY <1>1
<1> QED
  BY <1>1, <1>2

LEMMA StepGTypes == GTypes /\ [Next]_vars => GTypes'
<1> SUFFICES ASSUME GTypes, [Next]_vars PROVE GTypes'
  OBVIOUS
<1>0. /\ Word \in Nat \ {0} /\ Period \in Nat \ {0} /\ MaxDelay \in Nat /\ Notice \in Nat
      /\ CharsPerTick \in Nat
  BY LinkAssumption DEF Notice
<1>1. CASE Tick
  <2>1. millis' \in Words /\ phase' \in 0 .. (Period - 1)
    BY <1>0, <1>1, InWords DEF Tick, GTypes, Words
  <2>2. late' = late + 1 /\ late \in 0 .. MaxDelay
    BY <1>0, <1>1 DEF Tick, GTypes
  <2>3. Buffered'
    <3>1. available' = available \/ available' = available + CharsPerTick
      BY <1>0, <1>1 DEF Tick, GTypes, Buffered
    <3> QED
      BY <2>2, <3>1, Filling DEF GTypes, Buffered
  <2>4. unchangedFor' \in 0 .. Notice
    BY <1>0, <1>1 DEF Tick, GTypes
  <2> QED
    BY <1>0, <1>1, <2>1, <2>2, <2>3, <2>4 DEF Tick, GTypes
<1>2. CASE Plug
  <2>1. talking' \in BOOLEAN
    BY <1>2, Zenon DEF Plug
  <2> QED
    BY <1>0, <1>2, <2>1 DEF Plug, GTypes, Buffered
<1>3. CASE gnssRefresh \/ setupGNSS
  <2>1. available \in Nat
    BY <1>0 DEF GTypes, Buffered
  <2>2. charsProcessed' \in Words
    <3>1. charsProcessed + available \in Nat
      BY <2>1 DEF GTypes, Words
    <3> QED
      BY <1>3, <3>1, InWords DEF gnssRefresh, setupGNSS
  <2>3. connected' \in BOOLEAN /\ setUp' \in BOOLEAN
    <3>1. Enough \in BOOLEAN
      <4>1. ASSUME NEW a, NEW b PROVE (a >= b) \in BOOLEAN
        BY SMT
      <4> QED
        BY <4>1, Zenon DEF Enough
    <3>2. CASE gnssRefresh
      BY <3>1, <3>2, Zenon DEF gnssRefresh, GTypes
    <3>3. CASE setupGNSS
      BY <3>3 DEF setupGNSS
    <3> QED
      BY <1>3, <3>2, <3>3
  <2>4. late' = 0 /\ available' = 0 /\ UNCHANGED <<millis, phase, talking, unchangedFor>>
    BY <1>3 DEF gnssRefresh, setupGNSS
  <2>5. intervalStart' \in Words /\ nbCharsProcessed' \in Words
    BY <1>3 DEF gnssRefresh, setupGNSS, GTypes
  <2> QED
    BY <1>0, <2>2, <2>3, <2>4, <2>5 DEF GTypes, Buffered
<1>4. CASE UNCHANGED vars
  BY <1>4 DEF vars, GTypes, Buffered
<1> QED
  BY <1>1, <1>2, <1>3, <1>4 DEF Next
\* The types: the serial port's buffer holds what arrives in the longest wait
\* for gnssRefresh() and no more.
THEOREM TypeCorrect == Spec => []TypeOK
<1>1. GTypes => TypeOK
  <2> SUFFICES ASSUME GTypes PROVE available \in 0 .. (CharsPerTick * (MaxDelay + 1))
    BY DEF GTypes, TypeOK, Words
  <2> DEFINE rest == MaxDelay + 1 - late
  <2>1. late \in Nat /\ rest \in Nat /\ CharsPerTick \in Nat /\ late + rest = MaxDelay + 1
    BY LinkAssumption DEF GTypes
  <2>2. CharsPerTick * late \in Nat /\ CharsPerTick * rest \in Nat
    BY <2>1
  <2>3. CharsPerTick * (late + rest) = CharsPerTick * late + CharsPerTick * rest
    BY <2>1
  <2> QED
    BY <2>1, <2>2, <2>3 DEF GTypes, Buffered
<1> QED
  BY InitGTypes, StepGTypes, <1>1, PTL DEF Spec

-----------------------------------------------------------------------------
(* A silent module is reported *)

\* The time since the interval began, and the characters counted in it.
Elapsed == Minus(millis, intervalStart)
Count == Minus(charsProcessed, nbCharsProcessed)

\* An interval is ended by the first call after it is over.
Timed == Elapsed \in Nat /\ Elapsed <= GNSS_NMEA_INTERVAL + late

\* Once the module is silent: what it said before is read by the next call; an
\* interval begun after that call counts nothing; and an interval that counted
\* nothing has ended.
Drained == ~talking => available = 0 \/ late > unchangedFor
Quiet == ~talking /\ unchangedFor >= Elapsed + MaxDelay + 1 => Count = 0
Told == ~talking /\ setUp /\ unchangedFor >= Elapsed + GNSS_NMEA_INTERVAL + 2 * MaxDelay + 2
          => ~connected

SInv == GTypes /\ Timed /\ Drained /\ Quiet /\ Told

LEMMA InitSInv == Init => SInv
<1> SUFFICES ASSUME Init PROVE SInv
  OBVIOUS
<1>1. Minus(millis, intervalStart) = 0
  BY Difference, LinkAssumption DEF Init, Words
<1> QED
  BY InitGTypes, <1>1, LinkAssumption DEF Init, SInv, Timed, Elapsed, Drained, Quiet, Told

LEMMA StepSInv == SInv /\ [Next]_vars => SInv'
<1> SUFFICES ASSUME SInv, [Next]_vars PROVE Timed' /\ Drained' /\ Quiet' /\ Told'
  BY StepGTypes DEF SInv
<1>0. /\ GNSS_NMEA_INTERVAL \in Nat \ {0} /\ MaxDelay \in Nat /\ MinChars \in Nat \ {0}
      /\ late \in 0 .. (MaxDelay + 1) /\ unchangedFor \in 0 .. Notice
      /\ Notice = 2 * GNSS_NMEA_INTERVAL + 3 * MaxDelay + 3
      /\ Elapsed \in Nat /\ Elapsed <= GNSS_NMEA_INTERVAL + late
  BY LinkAssumption DEF SInv, Timed, GTypes, Notice
<1>1. CASE Tick
  <2>1. Elapsed + 1 < Word /\ late <= MaxDelay
    BY <1>0, <1>1, LinkAssumption DEF Tick
  <2>2. Elapsed' = Elapsed + 1
    BY <1>1, <2>1, TickDifference DEF Tick, Elapsed, SInv, GTypes
  <2>3. /\ unchangedFor' = IF unchangedFor < Notice THEN unchangedFor + 1 ELSE Notice
        /\ late' = late + 1 /\ UNCHANGED <<talking, setUp, connected>> /\ Count' = Count
        /\ ~talking => available' = available
    BY <1>1 DEF Tick, Count, SInv, GTypes, Buffered
  <2>4. Timed'
    BY <1>0, <2>2, <2>3 DEF Timed
  <2>5. Drained'
    BY <1>0, <2>3 DEF Drained, SInv
  <2>6. Quiet' /\ Told'
    BY <1>0, <2>2, <2>3 DEF Quiet, Told, SInv
  <2> QED
    BY <2>4, <2>5, <2>6
<1>2. CASE Plug
  <2>1. Elapsed' = Elapsed /\ unchangedFor' = 0 /\ UNCHANGED <<available, late>>
    BY <1>2 DEF Plug, Elapsed
  <2>2. late = 0 => available = 0
    <3>1. CharsPerTick * 0 = 0
      BY LinkAssumption
    <3> QED
      BY <3>1 DEF SInv, GTypes, Buffered
  <2> QED
    BY <1>0, <2>1, <2>2 DEF Timed, Drained, Quiet, Told
<1>3. CASE gnssRefresh \/ setupGNSS
  <2>1. /\ late' = 0 /\ available' = 0 /\ UNCHANGED <<talking, unchangedFor, millis>>
        /\ charsProcessed' = (charsProcessed + available) % Word
    BY <1>3 DEF gnssRefresh, setupGNSS
  <2>2. \/ IntervalOver /\ intervalStart' = millis /\ nbCharsProcessed' = charsProcessed
        \/ ~IntervalOver /\ intervalStart' = intervalStart /\ nbCharsProcessed' = nbCharsProcessed
    BY <1>3 DEF gnssRefresh, setupGNSS
  \* While the module is silent for long, the call reads nothing.
  <2>3. ~talking /\ unchangedFor >= MaxDelay + 1 =>
          available = 0 /\ charsProcessed' = charsProcessed
    <3>1. charsProcessed \in Words /\ (charsProcessed + 0) % Word = charsProcessed
      <4>1. charsProcessed \in 0 .. (2 * Word - 1) /\ charsProcessed < Word
        BY LinkAssumption DEF SInv, GTypes, Words
      <4>2. charsProcessed + 0 = charsProcessed
        BY <4>1
      <4> QED
        BY <4>1, <4>2, Wrap DEF SInv, GTypes
    <3> QED
      BY <1>0, <2>1, <3>1 DEF SInv, Drained
  <2>4. CASE IntervalOver
    <3>1. Elapsed' = 0
      BY <2>1, <2>2, <2>4, Difference, LinkAssumption DEF Elapsed, SInv, GTypes, Words
    <3>2. Quiet'
      <4>1. Minus(charsProcessed, charsProcessed) = 0
        BY Difference, LinkAssumption DEF SInv, GTypes, Words
      <4> QED
        BY <1>0, <2>1, <2>2, <2>3, <2>4, <3>1, <4>1 DEF Quiet, Count
    <3>3. Told'
      <4> SUFFICES ASSUME ~talking, setUp', unchangedFor >= GNSS_NMEA_INTERVAL + 2 * MaxDelay + 2
                   PROVE  ~connected'
        BY <1>0, <2>1, <3>1 DEF Told
      <4>1. Count = 0
        BY <1>0 DEF SInv, Quiet
      <4>2. ~Enough
        BY <1>0, <4>1 DEF Enough, Count
      <4>3. ~setupGNSS
        BY <1>0, <2>3 DEF setupGNSS
      <4> QED
        BY <1>3, <2>4, <4>2, <4>3 DEF gnssRefresh
    <3>4. Timed' /\ Drained'
      BY <1>0, <2>1, <3>1 DEF Timed, Drained
    <3> QED
      BY <3>2, <3>3, <3>4
  <2>5. CASE ~IntervalOver
    <3>1. Elapsed' = Elapsed /\ Elapsed <= GNSS_NMEA_INTERVAL
      BY <1>0, <2>1, <2>2, <2>5 DEF Elapsed, IntervalOver
    <3>2. Quiet'
      BY <1>0, <2>1, <2>2, <2>3, <2>5, <3>1 DEF SInv, Quiet, Count
    <3>3. Told'
      <4> SUFFICES ASSUME ~talking, setUp',
                          unchangedFor >= Elapsed + GNSS_NMEA_INTERVAL + 2 * MaxDelay + 2
                   PROVE  ~connected'
        BY <2>1, <3>1 DEF Told
      <4>1. ~setupGNSS
        BY <1>0, <2>3 DEF setupGNSS
      <4>2. connected' = connected /\ setUp' = setUp
        BY <1>3, <2>5, <4>1 DEF gnssRefresh
      <4> QED
        BY <4>2 DEF SInv, Told
    <3>4. Timed' /\ Drained'
      BY <1>0, <2>1, <3>1 DEF Timed, Drained
    <3> QED
      BY <3>2, <3>3, <3>4
  <2> QED
    BY <2>4, <2>5
<1>4. CASE UNCHANGED vars
  BY <1>4 DEF vars, SInv, Timed, Elapsed, Drained, Quiet, Count, Told
<1> QED
  BY <1>1, <1>2, <1>3, <1>4 DEF Next

\* An unplugged module is reported within two intervals and the delays of the
\* calls that end them, for every length of these and wherever millis() wraps.
THEOREM SilenceIsNoticed == Spec => []SilenceNoticed
<1>1. SInv => SilenceNoticed
  <2> SUFFICES ASSUME SInv, ~talking, setUp, unchangedFor = Notice PROVE ~connected
    BY DEF SilenceNoticed
  <2>1. Notice >= Elapsed + GNSS_NMEA_INTERVAL + 2 * MaxDelay + 2
    BY LinkAssumption DEF SInv, GTypes, Timed, Notice
  <2> QED
    BY <2>1 DEF SInv, Told
<1> QED
  BY InitSInv, StepSInv, <1>1, PTL DEF Spec
-----------------------------------------------------------------------------
(* A talking module is reported *)

\* Characters that arrive in n ms of a burst.
Chars(n) == CharsPerTick * n

LEMMA CharsSum ==
  ASSUME NEW m \in Nat, NEW n \in Nat
  PROVE  /\ Chars(m) \in Nat /\ Chars(m + n) = Chars(m) + Chars(n)
         /\ Chars(0) = 0 /\ Chars(1) = CharsPerTick
  BY LinkAssumption DEF Chars

LEMMA CharsMonotonic ==
  ASSUME NEW m \in Nat, NEW n \in Nat, m <= n
  PROVE  Chars(m) <= Chars(n)
<1> DEFINE k == n - m
<1>1. k \in Nat /\ n = m + k
  OBVIOUS
<1> HIDE DEF k
<1>2. Chars(m + k) = Chars(m) + Chars(k) /\ Chars(m) \in Nat /\ Chars(k) \in Nat
  BY <1>1, CharsSum
<1> QED
  BY <1>1, <1>2

\* Characters since the interval began, read or not.
Heard == Count + available

\* The count of an interval does not wrap: it begins with what had waited.
NoWrap == Count <= Chars(Elapsed - late + MaxDelay + 1)

\* A module that has talked for the whole interval was heard: its current
\* burst, if that began in the interval, and the one before.
Talked == talking /\ unchangedFor >= Elapsed
CurrentBurst ==
  Talked /\ Elapsed >= phase =>
    Heard >= Chars(IF phase < BurstLength THEN phase ELSE BurstLength)
LastBurst == Talked /\ Elapsed >= Period + phase => Heard >= Chars(BurstLength)

\* And a whole burst was read when enough of the interval passed before the
\* last call; an interval that ends after a talk as long reports it.
BurstRead == Talked /\ Elapsed - late >= Period + BurstLength => Count >= Chars(BurstLength)
Reported ==
  talking /\ unchangedFor >= Elapsed + GNSS_NMEA_INTERVAL + MaxDelay + 1 => connected

TalkInv == NoWrap /\ CurrentBurst /\ LastBurst /\ BurstRead /\ Reported

\* An interval begins with its clock at 0.
LEMMA Beginning ==
  GTypes /\ Elapsed = 0 /\ late = 0 /\ Count \in Nat /\ Count <= Chars(MaxDelay + 1)
    => NoWrap /\ CurrentBurst /\ LastBurst /\ BurstRead
<1> SUFFICES ASSUME GTypes, Elapsed = 0, late = 0, Count \in Nat,
                    Count <= Chars(MaxDelay + 1)
             PROVE  NoWrap /\ CurrentBurst /\ LastBurst /\ BurstRead
  OBVIOUS
<1>0. available \in Nat
  BY LinkAssumption DEF GTypes, Buffered
<1>1. /\ Period \in Nat \ {0} /\ BurstLength \in Nat \ {0} /\ MaxDelay \in Nat
      /\ phase \in Nat /\ Heard \in Nat
  BY <1>0, LinkAssumption DEF GTypes, Heard
<1>2. NoWrap
  BY <1>1 DEF NoWrap
<1>3. CurrentBurst
  BY <1>1, CharsSum DEF CurrentBurst
<1> QED
  BY <1>1, <1>2, <1>3 DEF LastBurst, BurstRead

LEMMA InitTalkInv == Init => TalkInv
<1> SUFFICES ASSUME Init PROVE TalkInv
  OBVIOUS
<1>1. Elapsed = 0 /\ Count = 0 /\ GTypes /\ available = 0 /\ late = 0 /\ unchangedFor = 0
  BY Difference, InitGTypes, LinkAssumption DEF Init, Elapsed, Count, Words
<1>2. Chars(MaxDelay + 1) \in Nat
  BY CharsSum, LinkAssumption
<1> QED
  BY <1>1, <1>2, Beginning, LinkAssumption DEF TalkInv, Reported
LEMMA PhaseSteps ==
  ASSUME NEW p \in 0 .. (Period - 1)
  PROVE  (p + 1) % Period = IF p + 1 < Period THEN p + 1 ELSE 0
<1>1. Period \in Nat \ {0}
  BY LinkAssumption
<1>2. CASE p + 1 < Period
  BY <1>1, <1>2
<1>3. CASE p + 1 = Period
  BY <1>1, <1>3
<1> QED
  BY <1>1, <1>2, <1>3

LEMMA TickTalkInv == SInv /\ TalkInv /\ Tick => TalkInv'
<1> SUFFICES ASSUME SInv, TalkInv, Tick PROVE TalkInv'
  OBVIOUS
<1>0. /\ GNSS_NMEA_INTERVAL \in Nat \ {0} /\ MaxDelay \in Nat /\ Period \in Nat \ {0}
      /\ BurstLength \in Nat \ {0} /\ BurstLength <= Period
      /\ late \in 0 .. MaxDelay /\ unchangedFor \in 0 .. Notice
      /\ Notice = 2 * GNSS_NMEA_INTERVAL + 3 * MaxDelay + 3
      /\ Elapsed \in Nat /\ Elapsed <= GNSS_NMEA_INTERVAL + late
      /\ phase \in 0 .. (Period - 1) /\ available \in Nat /\ CharsPerTick \in Nat
  BY LinkAssumption DEF Tick, SInv, Timed, GTypes, Notice, Buffered
<1>1. Elapsed' = Elapsed + 1
  BY <1>0, TickDifference, LinkAssumption DEF Tick, Elapsed, SInv, GTypes
<1>2. /\ unchangedFor' = IF unchangedFor < Notice THEN unchangedFor + 1 ELSE Notice
      /\ late' = late + 1 /\ Count' = Count /\ UNCHANGED <<talking, connected>>
  BY DEF Tick, Count
<1>3. phase' = IF phase + 1 < Period THEN phase + 1 ELSE 0
  BY <1>0, PhaseSteps DEF Tick
<1>4. Count \in Nat
  BY Difference DEF SInv, GTypes, Count, Words
<1>5. /\ Heard \in Nat /\ Heard' \in Nat
      /\ talking => Heard' = Heard + (IF phase < BurstLength THEN CharsPerTick ELSE 0)
  BY <1>0, <1>2, <1>4 DEF Tick, Heard
<1>6. Heard' >= Heard
  BY <1>0, <1>2, <1>4 DEF Tick, Heard
<1>7. Talked' => Talked /\ talking
  BY <1>0, <1>1, <1>2 DEF Talked
<1>8. NoWrap'
  BY <1>0, <1>1, <1>2 DEF TalkInv, NoWrap
<1>9. Chars(phase + 1) = Chars(phase) + CharsPerTick /\ Chars(phase) \in Nat
  BY <1>0, CharsSum
<1>10. CurrentBurst'
  <2> SUFFICES ASSUME Talked', Elapsed' >= phase'
               PROVE  Heard' >= Chars(IF phase' < BurstLength THEN phase' ELSE BurstLength)
    BY DEF CurrentBurst, Chars
  <2>1. CASE phase' = 0
    BY <1>0, <1>5, <2>1, CharsSum
  <2>2. CASE phase' = phase + 1
    <3>1. Heard >= Chars(IF phase < BurstLength THEN phase ELSE BurstLength)
      BY <1>0, <1>1, <1>7, <2>2 DEF TalkInv, CurrentBurst
    <3>2. CASE phase < BurstLength
      <4>1. Heard' >= Chars(phase + 1)
        BY <1>0, <1>5, <1>7, <1>9, <3>1, <3>2
      <4> QED
        BY <1>0, <2>2, <3>2, <4>1
    <3>3. CASE ~(phase < BurstLength)
      BY <1>0, <1>5, <1>7, <2>2, <3>1, <3>3
    <3> QED
      BY <3>2, <3>3
  <2> QED
    BY <1>0, <1>3, <2>1, <2>2
<1>11. LastBurst'
  <2> SUFFICES ASSUME Talked', Elapsed' >= Period + phase'
               PROVE  Heard' >= Chars(BurstLength)
    BY DEF LastBurst, Chars
  <2>0. Chars(BurstLength) \in Nat
    BY <1>0, CharsSum
  <2>1. CASE phase' = phase + 1
    <3>1. Heard >= Chars(BurstLength)
      BY <1>0, <1>1, <1>7, <2>1 DEF TalkInv, LastBurst
    <3> QED
      BY <1>5, <1>6, <2>0, <3>1
  <2>2. CASE phase' = 0 /\ phase + 1 = Period
    <3>1. Heard >= Chars(IF phase < BurstLength THEN phase ELSE BurstLength)
      BY <1>0, <1>1, <1>7, <2>2 DEF TalkInv, CurrentBurst
    <3>2. CASE phase < BurstLength
      <4>1. BurstLength = phase + 1
        BY <1>0, <2>2, <3>2
      <4> QED
        BY <1>0, <1>5, <1>7, <1>9, <3>1, <3>2, <4>1
    <3>3. CASE ~(phase < BurstLength)
      BY <1>5, <1>6, <2>0, <3>1, <3>3
    <3> QED
      BY <3>2, <3>3
  <2> QED
    BY <1>0, <1>3, <2>1, <2>2
<1>12. BurstRead'
  <2>1. Elapsed' - late' = Elapsed - late
    BY <1>0, <1>1, <1>2
  <2> QED
    BY <1>2, <1>7, <2>1 DEF TalkInv, BurstRead, Chars
<1>13. Reported'
  BY <1>0, <1>1, <1>2 DEF TalkInv, Reported
<1> QED
  BY <1>8, <1>10, <1>11, <1>12, <1>13 DEF TalkInv
LEMMA RefreshTalkInv == SInv /\ TalkInv /\ (gnssRefresh \/ setupGNSS) => TalkInv'
<1> SUFFICES ASSUME SInv, TalkInv, gnssRefresh \/ setupGNSS PROVE TalkInv'
  OBVIOUS
<1>0. /\ GNSS_NMEA_INTERVAL \in Nat \ {0} /\ MaxDelay \in Nat /\ Period \in Nat \ {0}
      /\ BurstLength \in Nat \ {0} /\ GNSS_NMEA_INTERVAL >= Period + BurstLength + MaxDelay
      /\ Word \in Nat \ {0} /\ MinChars \in Nat \ {0}
      /\ late \in 0 .. (MaxDelay + 1) /\ unchangedFor \in 0 .. Notice
      /\ Elapsed \in Nat /\ Elapsed <= GNSS_NMEA_INTERVAL + late
      /\ phase \in 0 .. (Period - 1) /\ available \in Nat
  BY LinkAssumption DEF SInv, Timed, GTypes, Buffered
<1>1. /\ late' = 0 /\ available' = 0
      /\ UNCHANGED <<talking, unchangedFor, millis, phase>>
      /\ charsProcessed' = (charsProcessed + available) % Word
  BY DEF gnssRefresh, setupGNSS
<1>2. Count \in Nat
  BY Difference DEF SInv, GTypes, Count, Words
<1>3. available <= Chars(late)
  BY DEF SInv, GTypes, Buffered, Chars
<1>4. Chars(MaxDelay + 1) \in Nat /\ Chars(late) <= Chars(MaxDelay + 1) /\ Chars(late) \in Nat
  <2> DEFINE longest == MaxDelay + 1
  <2>1. late \in Nat /\ longest \in Nat /\ late <= longest
    BY <1>0
  <2> HIDE DEF longest
  <2>2. Chars(late) <= Chars(longest) /\ Chars(longest) \in Nat /\ Chars(late) \in Nat
    BY <2>1, CharsMonotonic, CharsSum
  <2> QED
    BY <2>2 DEF longest
<1>5. Chars(MaxDelay + 1) < Word /\ Chars(GNSS_NMEA_INTERVAL + MaxDelay + 1) < Word
  <2>1. Chars(GNSS_NMEA_INTERVAL + 2 + MaxDelay) < Word
    BY LinkAssumption DEF Chars
  <2> DEFINE m == GNSS_NMEA_INTERVAL + 2 + MaxDelay
             k == MaxDelay + 1
             l == GNSS_NMEA_INTERVAL + MaxDelay + 1
  <2>2. m \in Nat /\ k \in Nat /\ l \in Nat /\ k <= m /\ l <= m
    BY <1>0
  <2> HIDE DEF m, k, l
  <2>3. Chars(k) <= Chars(m) /\ Chars(l) <= Chars(m)
    BY <2>2, CharsMonotonic
  <2>4. Chars(k) \in Nat /\ Chars(l) \in Nat /\ Chars(m) \in Nat
    BY <2>2, CharsSum
  <2>5. Chars(k) < Word /\ Chars(l) < Word
    BY <1>0, <2>1, <2>3, <2>4 DEF m
  <2> QED
    BY <2>5 DEF k, l
\* The counter advances by what was read.
<1>6. ASSUME NEW n \in Words, Minus(charsProcessed, n) + available < Word
      PROVE  Minus(charsProcessed', n) = Minus(charsProcessed, n) + available
  <2>1. /\ charsProcessed \in Words
        /\ Minus(charsProcessed, n) = (IF charsProcessed >= n THEN charsProcessed - n
                                       ELSE charsProcessed + Word - n)
    BY Difference DEF SInv, GTypes
  <2> DEFINE x == charsProcessed + available
             y == x % Word
  <2>2. x \in 0 .. (2 * Word - 1)
    BY <1>0, <1>6, <2>1 DEF Words
  <2> HIDE DEF x
  <2>3. y = IF x < Word THEN x ELSE x - Word
    BY <2>2, Wrap
  <2> HIDE DEF y
  <2>4. y \in Words
    BY <1>0, <2>2, <2>3 DEF Words
  <2>5. Minus(y, n) = IF y >= n THEN y - n ELSE y + Word - n
    BY <2>4, Difference
  <2>6. Minus(y, n) = Minus(charsProcessed, n) + available
    BY <1>0, <1>6, <2>1, <2>3, <2>5 DEF Words, x
  <2>7. charsProcessed' = y
    BY <1>1 DEF x, y
  <2> QED
    BY <2>6, <2>7
<1>7. GTypes'
  BY StepGTypes DEF SInv, Next
<1>8. CASE IntervalOver
  <2>1. intervalStart' = millis /\ nbCharsProcessed' = charsProcessed
    BY <1>8 DEF gnssRefresh, setupGNSS
  <2>2. Elapsed' = 0
    BY <1>1, <2>1, Difference DEF Elapsed, SInv, GTypes, Words
  <2>3. Count' = available
    <3>1. charsProcessed \in Words /\ Minus(charsProcessed, charsProcessed) = 0
      BY <1>0, Difference DEF SInv, GTypes, Words
    <3>2. 0 + available < Word
      BY <1>0, <1>3, <1>4, <1>5
    <3> QED
      BY <1>0, <1>6, <2>1, <3>1, <3>2 DEF Count
  <2>4. (NoWrap /\ CurrentBurst /\ LastBurst /\ BurstRead)'
    <3>1. Count' \in Nat /\ Count' <= Chars(MaxDelay + 1)
      BY <1>0, <1>3, <1>4, <2>3
    <3>2. (GTypes /\ Elapsed = 0 /\ late = 0 /\ Count \in Nat /\ Count <= Chars(MaxDelay + 1)
             => NoWrap /\ CurrentBurst /\ LastBurst /\ BurstRead)'
      BY Beginning, PTL
    <3> QED
      BY <1>1, <1>7, <2>2, <3>1, <3>2 DEF Chars
  <2>5. Reported'
    <3>1. CASE setupGNSS
      BY <3>1 DEF setupGNSS, Reported
    <3>2. CASE gnssRefresh
      <4> SUFFICES ASSUME talking, unchangedFor >= GNSS_NMEA_INTERVAL + MaxDelay + 1
                   PROVE  Enough
        BY <1>0, <1>1, <1>8, <2>2, <3>2 DEF Reported, gnssRefresh
      <4>1. Elapsed - late >= Period + BurstLength /\ Talked
        BY <1>0, <1>8 DEF IntervalOver, Elapsed, Talked
      <4>2. Count >= Chars(BurstLength)
        BY <4>1 DEF TalkInv, BurstRead
      <4>3. Chars(BurstLength) >= MinChars /\ Chars(BurstLength) \in Nat
        <5>1. BurstLength * CharsPerTick = CharsPerTick * BurstLength
          BY LinkAssumption
        <5> QED
          BY <1>0, <5>1, CharsSum, LinkAssumption DEF Chars
      <4> QED
        BY <1>0, <1>2, <4>2, <4>3 DEF Enough, Count
    <3> QED
      BY <3>1, <3>2
  <2> QED
    BY <2>4, <2>5 DEF TalkInv
<1>9. CASE ~IntervalOver
  <2>1. intervalStart' = intervalStart /\ nbCharsProcessed' = nbCharsProcessed
    BY <1>9 DEF gnssRefresh, setupGNSS
  <2>2. Elapsed' = Elapsed /\ Elapsed <= GNSS_NMEA_INTERVAL
    BY <1>0, <1>1, <1>9, <2>1 DEF Elapsed, IntervalOver
  <2>3. Count + available <= Chars(Elapsed + MaxDelay + 1) /\ Count + available < Word
    <3> DEFINE m == Elapsed - late + MaxDelay + 1
               n == Elapsed + MaxDelay + 1
               l == GNSS_NMEA_INTERVAL + MaxDelay + 1
    <3>1. m \in Nat /\ late \in Nat /\ n = m + late /\ n \in Nat /\ l \in Nat /\ n <= l
      BY <1>0, <2>2
    <3>2. Count <= Chars(m) /\ Chars(l) < Word
      BY <1>5 DEF TalkInv, NoWrap
    <3> HIDE DEF m, n, l
    <3>3. /\ Chars(n) = Chars(m) + Chars(late) /\ Chars(m) \in Nat
          /\ Chars(late) \in Nat /\ Chars(l) \in Nat /\ Chars(n) \in Nat
      BY <3>1, CharsSum
    <3>4. Chars(n) <= Chars(l)
      BY <3>1, CharsMonotonic
    <3>5. Count + available <= Chars(n) /\ Count + available < Word
      BY <1>0, <1>2, <1>3, <3>2, <3>3, <3>4
    <3> QED
      BY <3>5 DEF n
  <2>4. Count' = Count + available /\ Heard' = Heard
    <3>1. Count' = Count + available
      BY <1>6, <2>1, <2>3 DEF Count, SInv, GTypes
    <3> QED
      BY <1>0, <1>1, <1>2, <3>1 DEF Heard
  <2>5. Talked' <=> Talked
    BY <1>1, <2>2 DEF Talked
  <2>6. NoWrap'
    <3>1. Elapsed' - late' + MaxDelay + 1 = Elapsed + MaxDelay + 1
      BY <1>0, <1>1, <2>2
    <3> QED
      BY <2>3, <2>4, <3>1 DEF NoWrap, Chars
  <2>7. CurrentBurst' /\ LastBurst'
    BY <1>1, <2>2, <2>4, <2>5 DEF TalkInv, CurrentBurst, LastBurst, Chars
  <2>8. BurstRead'
    <3> SUFFICES ASSUME Talked, Elapsed >= Period + BurstLength
                 PROVE  Heard >= Chars(BurstLength)
      BY <1>0, <1>1, <2>2, <2>4, <2>5 DEF BurstRead, Chars, Heard
    <3>1. CASE phase < BurstLength
      BY <1>0, <3>1 DEF TalkInv, LastBurst
    <3>2. CASE ~(phase < BurstLength)
      BY <1>0, <3>2 DEF TalkInv, CurrentBurst
    <3> QED
      BY <3>1, <3>2
  <2>9. Reported'
    BY <1>1, <1>9, <2>2 DEF TalkInv, Reported, gnssRefresh, setupGNSS
  <2> QED
    BY <2>6, <2>7, <2>8, <2>9 DEF TalkInv
<1> QED
  BY <1>8, <1>9

LEMMA StepTalkInv == SInv /\ TalkInv /\ [Next]_vars => TalkInv'
<1> SUFFICES ASSUME SInv, TalkInv, [Next]_vars PROVE TalkInv'
  OBVIOUS
<1>1. CASE Plug
  <2>1. /\ talking' = ~talking /\ unchangedFor' = 0 /\ phase' = (IF talking THEN phase ELSE 0)
        /\ late' = late /\ Elapsed' = Elapsed /\ Heard' = Heard /\ Count' = Count
    BY <1>1 DEF Plug, Elapsed, Heard, Count
  <2>2. /\ Elapsed \in Nat /\ late \in Nat /\ Period \in Nat \ {0} /\ BurstLength \in Nat \ {0}
        /\ MaxDelay \in Nat /\ GNSS_NMEA_INTERVAL \in Nat \ {0}
    BY LinkAssumption DEF SInv, Timed, GTypes
  <2>3. Heard >= Chars(0)
    <3>1. Count \in Nat
      BY Difference DEF SInv, GTypes, Count, Words
    <3>2. available \in Nat
      BY LinkAssumption DEF SInv, GTypes, Buffered
    <3> QED
      BY <3>1, <3>2, CharsSum DEF Heard
  <2>4. Talked' => Elapsed = 0 /\ phase' = 0
    <3>1. Talked' => talking' /\ Elapsed = 0
      BY <2>1, <2>2 DEF Talked
    <3>2. talking' => ~talking
      BY <1>1, Zenon DEF Plug
    <3> QED
      BY <2>1, <3>1, <3>2
  <2>5. NoWrap'
    BY <2>1 DEF TalkInv, NoWrap, Chars
  <2>6. CurrentBurst'
    BY <2>1, <2>2, <2>3, <2>4 DEF CurrentBurst, Chars
  <2>7. LastBurst' /\ BurstRead'
    BY <2>1, <2>2, <2>4 DEF LastBurst, BurstRead
  <2>8. Reported'
    BY <2>1, <2>2 DEF Reported
  <2> QED
    BY <2>5, <2>6, <2>7, <2>8 DEF TalkInv
<1>2. CASE UNCHANGED vars
  BY <1>2 DEF vars, TalkInv, NoWrap, CurrentBurst, LastBurst, BurstRead, Reported,
     Talked, Heard, Count, Elapsed, Chars
<1> QED
  BY <1>1, <1>2, TickTalkInv, RefreshTalkInv DEF Next

\* A module that talks is reported within two intervals, and stays reported: no
\* interval, however it falls on the bursts and on the wrap of the two
\* counters, holds less than a whole burst.
THEOREM TalkIsNoticed == Spec => []TalkNoticed
<1>1. SInv /\ TalkInv => TalkNoticed
  <2> SUFFICES ASSUME SInv, TalkInv, talking, unchangedFor = Notice PROVE connected
    BY DEF TalkNoticed
  <2>1. Notice >= Elapsed + GNSS_NMEA_INTERVAL + MaxDelay + 1
    BY LinkAssumption DEF SInv, GTypes, Timed, Notice
  <2> QED
    BY <2>1 DEF TalkInv, Reported
<1>2. SInv /\ TalkInv /\ [Next]_vars => (SInv /\ TalkInv)'
  BY StepSInv, StepTalkInv
<1> QED
  BY InitSInv, InitTalkInv, <1>1, <1>2, PTL DEF Spec
===============================================================================
