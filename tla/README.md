# Verification of the MultiProbeCase loggers

MultiProbeCase is a family of Arduino/Teensy sketches that sample probes (ultrasonic
distance, temperature, water quality, CO2), stamp the samples with GNSS time and position,
log them to an SD card and send them over Bluetooth to a gateway. This directory holds TLA+
models of the logger's core, the TLC configurations that check them and TLAPS proofs about
them. Everything is translated from the code under `src/`; paths below are relative to it.

## 1. Inventory

### The main sketch: `cyclopee_sat/GNSS_logger/GNSS_logger.ino`

Four activities share global variables on one core, without an operating system:

| activity | runs | preempts | state it writes |
|---|---|---|---|
| `handleDigitalIO()` | timer, 50 ms, priority 180 | all below | `enLog`, LEDs |
| `gnssRefresh()` | timer, 1 ms, priority 190 | the two below | the TinyGPSPlus object `gnss`, `connectedDevices[GNSS_MODULE]` |
| `readSensors()` | timer, 1 s, priority 200 | `loop()` | the eight `RingBuf` columns, sensor flags |
| `loop()` | for ever | nothing | `logFile`, `logDir`, `logFileName`, the card, the variables of the row |

`setup()` runs first and sets up Bluetooth, the card, the sensors and the GNSS module, each of
which may end in `waitForReboot()`, an endless loop.

A sample travels: receiver -> `gnssRefresh()` -> `gnss` -> `readSensors()` -> one ring buffer
per column -> `loop()` pops the columns -> `logToSD()` and `sendDataToBluetooth()`.

### Components

| component | state | operations | what makes it correct |
|---|---|---|---|
| RingBuf (`libraries/RingBuffer`) | array, read index, size | push, pop, `[]`, clear, locked variants | is a bounded FIFO; indices stay in the array |
| Sample hand-over | eight buffers, row variables | `readSensors`, pops of `loop` | a row is one sample; accepted samples are logged once, in order; drained when disabled |
| Log files | open file, names, segment timer, card | `handleLogFile`, `newLogDir`, `newLogFile`, `logToSD`, `SD.mediaPresent` | closed files are safe; each row in one file, in order; segments bounded; rows in the directory of their day; no row dropped with a card present |
| GNSS sampling | committed values and `updated` flags | commit, accessors, `timeToStr` | a row has one fix's position, fresh values, NaN only without a receiver |
| GNSS connection | counters of the interval, flag | `gnssRefresh`, `setupGNSS` | loss and return of the receiver reported in bounded time, no false alarm |
| NMEA parser (`TinyGPS++.cpp`) | term, parity, staged values | `encode`, `endOfTermHandler` | only correct sentences change committed values; a whole sentence is always taken |
| Bluetooth | AT mode, satellite id | `sendATCommand`, `json_logStr` | a command's answer is its own |
| Button and LEDs | `enLog`, LED timers | `handleDigitalIO` | a disconnected device is shown |
| Sensor modules (`libraries/sensor_modules`, `libraries/ModbusMaster`) | connection flags, Modbus frame, response buffer | `setup*Sensor`, `readDistance`, `readTemperature`, `ModbusMasterTransaction` | a distance is the answer to its own request; a reading ends in bounded time; disconnection gives NaN |
| clock_logger | as GNSS_logger, times from `millis()` | the same | timestamps increase |
| le_logger | GNSS object, values of the row, open file | `gnssRefresh`, `setupGNSS`, `readSensors`, `handleLogFile`, `logToSD` | rows of a file are different readings; files are named as the receiver says; polling the receiver ends |
| GNSS_RAWX_logger | `loop_step`, parse state, two buffers, RTC alarm, file | init, start, open, write, new, close, restart | every byte reaches the card once, in order; files end between messages; an alarm is not missed |
| air_sat | `start_log`, `logInterval` | command manager, measurement | orders are obeyed one by one |
| simple_mpc_sat sketches | as the cyclopee_sat ones | the same | the same |
| gateway | none of its own | pairing script, Node-RED flows | pure I/O |

### What is hard here

* Interrupts: `pop()` is called with interrupts enabled while `readSensors()` pushes; values
  of `gnss` are read one accessor at a time while `gnssRefresh()` commits others; flags are
  reset by readers in two activities.
* Failures: power may go at any point, the card may be pulled and put back at any point, the
  receiver may fall silent; sensors may answer late, in part or not at all; characters are lost
  or altered on serial lines.
* Ordering: at midnight the time changes before the date (GGA before RMC).
* Time: `millis()` and the character count wrap, interrupts are late, segments and files are
  named by a clock that may stop; le_logger keeps a time in one byte.
* Framing: three byte streams (NMEA, UBX, Modbus) must be followed through errors, with nothing
  but delimiters, lengths and checksums to find the next message.

`PROJECT.json` lists each such hazard with its line and the properties about it.

## 2. Modules and the code they model

### BoundedFifo, RingBuf, RingBufObject

`BoundedFifo` is the abstract promise: a queue of at most `Capacity` elements. `RingBuf` holds
operators, one per method of `RingBuf.h`, on a record of the object's three fields, with
`mReadIndex` and `mSize` in the type `IT` and sums in the type `BT` the template selects
(`Byte` is the number of values of a `uint8_t`, so that TLC can use a small one).
`RingBufObject` is one object and its methods as atomic actions: what `lockedPush` and
`lockedPop` guarantee. `operator[]` out of range returns element 0, as the code does.

### SampleBuffers

`NCols` buffers of sample numbers. `readSensors()` is one action: `loop()` cannot preempt it,
and the interrupts that can do not touch the buffers. A `pop()` of `loop()` is three: the load
of the element and of `mSize` (`PopLoad`), and the stores of `mReadIndex` and `mSize` in either
order, the decrement using the loaded or the current `mSize`: nothing is `volatile`, and the
compiler may do each of these. An interrupt between `mReadIndex++` and its reset to 0 sees
`mReadIndex = S`, which `writeIndex()` folds back to slot 0; it is not a step of its own.
`races` counts samples that came inside a pop, or found `time_buf` with room and another column
without; the properties "unless raced" say what holds before the first one, `SkewBounded` how
far the columns may be apart after it.

### LogFiles

`loop()`'s part about files, split where an interrupt, a tick or a fault changes the outcome:
the look at the card (`CheckMedia`), every field of the date (`ReadDate`), the decision
(`Rotate`), every field of the time (`ReadTime`), the opening (`NewLogFile`) and the row
(`LogRow`). C++ leaves the order of the field reads to the compiler, and so does the model.
A date and a time are tuples of fields; the model is independent of how many.

The card (external) is a function from paths to rows, `inserted`, and `mounted`: whether SdFat's
file system answers. Rows of an open file are kept in `logFile.rows` and reach the card with
`close()`: the sketch never flushes, and SdFat writes the length of a file on close. A power
loss drops them and may drop the directory entry. The segment timer is Metro (external): its
`check()` adds the interval, `reset()` takes the current time.

The columns are one FIFO of rows here; `SampleBuffers` says when that is right.

### GnssSampling

The TinyGPSPlus object between its three users. A value is the number of the receiver's fix: RMC
and GGA of one fix bring the same UTC time, and each sets the flag. A sentence with an empty time
field commits what `newTime` was staged with before, by a sentence that failed its checksum
perhaps. `due` counts, for each time, the sentences that committed it and the rows that took it;
`unread`, `raced` and `taken` speak of the last commit only. An accessor (`value()`, `lng()`, `lat()`, `meters()`) is two steps, the reset of the flag
and the load, in either order. `readSensors()` tests `isUpdated()` before the time, the
longitude and the altitude, and takes the latitude after the longitude without a test. The text
columns are pointers: `LogRow` logs what the object holds at that moment. `timeToStr()` of
`loop()` resets the flag of the time once for each of hour, minute and second.

### GnssLink

`gnssRefresh()`'s count of characters per `GNSS_NMEA_INTERVAL`, with the two `uint32_t` clocks
modulo `Word`, a receiver (external) that sends a burst per period, is unplugged and plugged in
at any time, and calls up to `MaxDelay` ms late. `LinkAssumption` states when the interval is
long enough: 250 ms for a 5 Hz receiver (200 ms) whose bursts last about 20 ms.

### NmeaParser

TinyGPSPlus::encode() at the level of tokens: a delimiter, the name of a sentence, a field, the
two digits of the checksum. The parity is the set of the tokens that were XORed an odd number of
times: equal tokens cancel as in the code, but two sets never collide in 8 bits. The line is at a
term of the last sentence sent (`place`), before or after its text (`said`). `hits` counts the
faults in that sentence. Two altered tokens of one sentence can cancel (two equal wrong
delimiters, say), which is why `CommittedAsSent` speaks of at most one. It also asks that the `$`
came (`headless`): a sentence without it goes on in the parity of the one before. With a field
lost from one sentence and the `$` of the next turned into `*`, the two names cancel, and the
checksum of the second is right for the first one's name and the second one's fields: TLC shows it
with three sentences, and two do not suffice. `COMBINE` is kept with its overlap: term 33 of a GGA
sentence would read as term 1 of RMC. Of the sketch's three custom values (GGA terms 6 and 11, GSA
term 15) the last one, `pdop`, is modelled, and GSA is cut short to it; the other two are staged
and committed by the same lines of the parser.

### ModbusMaster

`ModbusMasterTransaction()` as `URM14_distance.h` calls it. A byte knows the request it answers
and its place; no two frames have one CRC by accident. `owed` records that an earlier answer was
outstanding when the request was sent: after a time-out nothing in the protocol tells the late
answer from the right one. The two conditional writes of `readDistance()` never happen with the
constants of the header and are left out.

### LowEnergyLogger

le_logger.ino. One step of `loop()` per call it makes; `gnssRefresh()` is split at its two tests
and at the wait for a character. Time passes at any step. A sentence is longer than the serial
buffer, so that one that is not being polled is cut or lost. The card answers or does not, every
time it is asked. `Watchdog` keeps `uint8_t`'s width, with `ByteSize` values.

### RawxLogger

The sketch of `GNSS_RAWX_logger`: `loop_step`, and for `write_file` one action per byte. A byte
is its place in its message, so that a checksum is right exactly if what was summed is what the
receiver summed (`ChecksumRight`); an altered byte (`Noise`) belongs to no message. `Off`, `Drain` and `EndOfDwell` are the parts of `close_file` and `restart_file`
between which bytes arrive. `stored` is the history of all bytes taken from the serial port.

There are two clocks: `now` is the RTC, and the GNSS time is `lag` ahead of it, since the RTC is
set from a reading up to `MaxLag` seconds old (`SetTime`, in every pass of `init` with enough
fixes). `SetAlarm` reads the GNSS minute again: it may be one the RTC has yet to reach, or, if the
RTC ticks between that reading and the setting of its alarm, one it has left. Later alarms are set
from the RTC alone.

## 3. Runs

| run | module, cfg | properties | bounds |
|---|---|---|---|
| `ring` | RingBufObject | RingTypeOK, ImplementsFifo | 3 slots, the largest size of a type of 4 values; sums need 16 values and have them, but do not fit in 4 |
| `buffers` | MCSampleBuffers, SampleBuffers.cfg | TypeOK, RowsAlignedUnlessRaced, NothingLostUnlessRaced, SkewBounded, RowsInOrderUnlessRaced, DrainsWhenDisabled | 3 columns of 2 slots, 5 samples: a full round of a buffer, then a full buffer, then a race |
| `log_files` | MCLogFiles, LogFiles.cfg | TypeOK, RowsOnceInOrder, ClosedFilesKept, SegmentsBounded, RowsInTheirDay, NoHandleAcrossRemount, ClosesWhenDisabled | 3 ticks with a change of month, segments of 2 ticks, 2 buffered rows, 3 samples, one fault |
| `log_frozen` | LogFiles_frozen.cfg | RowsReachCard (violated) | no fault, button kept on, segments of 1 tick |
| `gnss_sampling` | MCGnssSampling, GnssSampling.cfg | TypeOK, OneLocationUnlessPreempted, TextNotOlderThanAltitude, TimesAccounted, NaNExplained | 2 fixes of GGA and RMC, each sentence with or without a fix or a time, each lost or not; 3 samples |
| `gnss_link` | GnssLink | TypeOK, SilenceNoticed, TalkNoticed | interval 6, period 4, one call late by 1, clocks of 20 values, so both wrap within two intervals |
| `nmea` | MCNmeaParser, NmeaParser.cfg | TypeOK, CommittedAsSent, WholeSentenceCommitted | 3 sentences out of 4 (RMC, GGA, GSA), 2 faults, terms of 2 texts |
| `modbus` | MCModbusMaster, ModbusMaster.cfg | TypeOK, OwnAnswerUnlessOwed, NoDistanceAgain, TransactionEnds | the configuration and 2 readings, 2 faults, bytes of 256 values |
| `low_energy` | MCLowEnergyLogger, LowEnergyLogger.cfg | TypeOK, NamedAsSent, EachRowRead, DeafAfterASecond, RefreshReturns | a byte of 2 ticks and a time-out of 3, so that the watchdog has wrapped after 5 of 6 ticks; 3 sentences over a change of day, 2 readings, segments of 2 ticks |
| `le_watchdog` | LowEnergyLogger_watchdog.cfg | GivesUpAfterAWhile (violated) | the same |
| `rawx` | MCRawxLogger, RawxLogger.cfg | TypeOK, EveryByteOnce, AlarmWithinInterval, AlarmCutsBetweenMessages, AlarmWaitsForOneMessage | a UBX and an NMEA message, packets and buffer of 2 bytes, one fault, one low battery, an hour of 2 minutes of 2 seconds, a lag of up to 1 second |
| `rawx_frozen` | RawxLogger_frozen.cfg | KeepsLogging (violated) | the same, no fault, battery good |

Three samples are what the deepest scenario of `log_files` needs: a row before, during and after
the card is away, or one that opens a segment, one that must not renew its timer, and one that
must find it over. `modbus` needs two readings for a late answer of the first to meet the second,
and the configuration before them for an answer of another function. `nmea` needs three sentences:
one whose values are staged, one with a fault and one that may take what the others left, and two
faults for one in each of the last two. In `rawx` a packet of 2 bytes is
filled several times per message and left partial at every possible place; the hour of two
minutes makes the alarm's minute roll over at the first change of file, and a lag of half a minute
lets the two clocks show different minutes, in either order. In the other direction
every bound only cuts behaviours that repeat: rows, files, fixes, columns, messages and requests
are interchangeable in the actions. Deadlock is not checked: the bounds on samples and time, and
`waitForReboot()`, really stop the model. `gnss_sampling` and the last runs of the table take
between half a minute and two and a half minutes, the others seconds.

### What the violated runs show

* `log_frozen`: the segment is over and the GNSS clock shows the second in which the file was
  named. The file is closed, the name is in use, nothing is opened, rows are dropped until the
  clock moves (`issues.txt`, "Loosing several measurements at each log file segmentation"). It
  runs under `KeepsLogging` (the button is not released), which removes a shorter counterexample
  that needs a quick hand.
* `rawx_frozen`: `HARDWARE.md` says that the logger keeps logging. If the alarm goes off between
  the step that sets it and the first `open_file`, the first pass of `write_file` changes files,
  both files have the name of the same second, and `O_EXCL` ends in `while(1)`. A message that is
  damaged within a second of a change of file ends in the same way if `restart_file` is quick
  enough; its dwell of 250 ms is.
* `le_watchdog`: `uint8_t watchdog = millis()` keeps 8 bits, and `millis() - watchdog > 700` is
  true for good once the program is up for between 0.77 and 0.96 s (`DeafAfterASecond`, in the
  run `low_energy`, is the positive statement). `setupGNSS()` then waits for ever unless date and
  time came in the first second; if they did, they stay what they were. A file is then named
  after that second, and when it is closed, by the end of the segment or by the button, its name
  is in use and nothing is logged any more.

### Other disagreements with comments

Each of these the models exhibit; the properties checked say how far the code goes.

* `GNSS_logger.ino:314`: `pop()` with interrupts enabled, where RingBuffer's README prescribes
  `lockedPop()`. A push between the loads and stores of a pop is undone or leaves a hole in one
  column, and rows mix samples from then on.
* `GNSS_logger.ino:393`, "If buffer not full": only `time_buf` is asked, and it is popped first.
* `GNSS_logger.ino:711`: year, month and day are read one by one, so that at the end of a month a
  directory may have the old month and the new day.
* `GNSS_logger.ino:395`, "Interrupt safe GNSS data push": a sentence between `lng()` and `lat()`
  mixes two fixes; `lockedPush` locks only the push.
* `GNSS_logger.ino:396`: a row takes the time if its flag is set, but GGA and RMC of one fix set it
  for the same time. A sample between them, and the next one with no sentence since (the receiver
  unplugged, say), log one GNSS time in two rows (`TimesAccounted`: in no more rows than sentences
  committed it, and one more for each that came inside `value()`).
* `logger_gnss_i2c.ino:25`, "Changes to a new log file every INTERVAL minutes": the first file may
  be longer. The RTC is set from one reading of the GNSS time and the alarm from another
  (`AlarmWithinInterval`: by the seconds between the clocks, or up to an hour if the minute turned
  over in the RTC between the reading of that minute and the setting of the alarm).
* `GNSS_logger.ino:272`, "Buffers to store values to log": `fixMode_buf` and `pdop_buf` hold the
  same two pointers over and over, and a row has the text of a later sentence
  (`TextNotOlderThanAltitude`: never of an earlier one).
* `GNSS_logger.ino:85`, "Time value if GNSS module disconnected": naming a file resets the flag
  that `readSensors()` asks, and the next row has no time with the receiver connected
  (`NaNExplained`: for this reason or a race only).

### Fairness

* `WF_vars(Loop)` in SampleBuffers and LogFiles: the Arduino core calls `loop()` for ever and
  interrupts end, so a step of `loop()` that stays possible is taken. `readSensors()` outlasting
  its interval would break this: a Modbus time-out is 2 s, the interval 1 s (`issues.txt`, URM14).
* `FairSpec` of ModbusMaster: the steps of the transaction and the passing of time; nothing of
  the sensor or the bus.
* `FairSpec` of LowEnergyLogger: `setupGNSS()`, `loop()` and the passing of time. `RefreshReturns`
  assumes that the receiver keeps sending: `while(!GNSS_SERIAL.available());` has no time-out.

No fairness is assumed of interrupts, the receiver, the button or the card. After the button
stays off no samples come, which is all `DrainsWhenDisabled` and `ClosesWhenDisabled` need; the
latter supposes that the power stays on.

## 4. Proofs

Every theorem is for all values of the constants that satisfy the module's assumption.

* `SampleBuffersProofs`:
  - `RingTypeCorrect` and `RingRefinement` (`RingSpec => ImplementsFifo`), about one object.
    Offsets stay on slots, no sum overflows `BT`, a push appends to `Contents`, a pop removes its
    head; by these lemmas every method is the FIFO's operation under `q <- Contents(rb)`. The
    assumption on `S` is the two `static_assert`s.
  - `TypeCorrect`. `TypeOK` is not inductive: a store of `mSize - 1` must not go below 0. The
    strengthening `BInv` relates `loaded`, `pending` and the buffer being popped: an interrupt
    can only raise `mSize` since the test, up to `S`.
  - `AlignedRows` and `NothingLost`. `AInv` says: while `races = 0`, the columns before `col`
    have been popped once more than those after it, every pair of columns agrees on the slots
    both hold, and the row's columns already popped agree. This is what a push preserves when it
    finds all columns in step and no pop under way, and what a race destroys.
  - `RowsInOrder`. A column with the stores of a pop in progress made (`Settled`) holds ascending
    samples, later than those already popped from it, and the row is later than the last one.
  - `Skew`. A sample makes every column at most one longer, and all of them unless it is a race. A
    pop that a sample interrupts may store the size it had loaded before, so what counts for the
    column being popped is the least size its pop may yet store (`LeastSize`); counting the columns
    still to be popped as popped, two columns differ by at most `races` at every step (`Close`).
* `LogFilesProofs`: from one invariant `LInv`: an open file implies that `loop()` runs, that the
  card was present when last asked, that the file's path is the one the globals spell, and that
  it was opened when the segment timer was last reset; and between the comparison of dates and
  the row the directory is the date read. From it `HandleClosed`, `ClosedFilesSafe`,
  `SegmentsShort` and `RowsFiledByDay`, for any calendar, any number of date fields, any
  interval and any number of faults. `TypeCorrect` adds `TInv`, the types by the state they are
  about, with names that are used only once complete. `RowsWrittenOnce` rests on `RInv`: the rows
  that wait are newer than all that are written (`Waiting`), and the file that is open is empty
  on the card until it is closed (`EmptyUntilClosed`), so that a lost handle only takes rows
  away. Only `LogRow` gives a file a row (`NoNewRows`), and that is the oldest one waiting.
* `GnssLinkProofs`: `TypeCorrect`, `SilenceIsNoticed` and `TalkIsNoticed`, for every interval,
  period, burst, delay and word that `LinkAssumption` allows. The differences of the two wrapping
  counters are exact (`TickDifference`, `NoWrap`) because `gnssRefresh()` is called often enough.
  Silence (`SInv`): what was said before is read by the next call, so an interval begun after that
  call counts nothing, and the one in force has been replaced by then. Talk (`TalkInv`): an
  interval has heard the current burst from its start if it began before it, and the whole of the
  last one if it began a period earlier; hence a burst was read by the call before the one that
  ends it.
* `RawxLoggerProofs`:
  - `BytesKept`. `EveryByteOnce` is inductive only together with `BufferInv`: `start_rawx` clears
    `bufferPointer`, and loses nothing because every way to it has written the rest. The three
    ways a byte moves (`StoreChar`, `TakeByte`, `WriteRest`) have a lemma each; the parse state,
    the alarm and the battery do not matter. `TypeCorrect` adds the types of all else.
  - `AlarmComes`. The arithmetic of minutes modulo the hour: the minute the alarm is set for is
    among the `INTERVAL` ones after the minute it was set from (`AlarmSet`) and begins in their
    seconds (`ShownBegins`). `SetAlarmComes` moves this from the second of the GNSS reading to that
    of the RTC: later by at most `lag`, in the same minute, or, if the RTC has left that minute,
    somewhere in the hour (`AnyMinuteComes`). Every tick that is not the alarm's leaves one second
    less.
  - `FilesEndBetweenMessages`, assuming `NothingReadsAsLF`: `AlarmCutsBetweenMessages` is about
    bytes, and a byte the line turns into a line feed would end a message for the sketch only. The
    framing reaches its first state by a right UBX checksum or by LF, which are the last bytes of
    messages (`BoundaryAtLastByte`).
  - `AlarmServed`, assuming `MessagesFit`: a UBX payload of at least one byte and an NMEA message
    within `max_nmea_len`. Without faults the bytes in `SerialBuffer` are consecutive in the
    receiver's stream (`InOrder`), and in `write_file` the parse state is that between messages or
    the one that the part of the message already taken leads to (`InStep`).
* `ModbusMasterProofs`: `TypeCorrect` and `OwnAnswer`, from `MInv`. If nothing was owed when the
  request was sent, every byte between the sensor and the frame is damaged or of this request
  (`NothingElse`), and a frame whose CRC is right is of one request, thus of this one. That the
  register is not read before five bytes are there needs `FiveBytesFirst`: 8 minus what has come
  is still wanted. `TypeCorrect` shows that a count of up to 255 believed before its CRC was
  looked at does no harm to the counter. `DistancesInOrder` (`NoDistanceAgain`) follows the answers
  on their way: requests the sensor still owes, bytes on the line and bytes in the frame are in
  the order of their requests, all later than the distances already returned; a frame with a right
  CRC is one answer, which is gone from the line when it is used.
* `LowEnergyProofs`: `TypeCorrect`, `FilesNamedAsSent`, `RowsRead`, `Deaf`, from `LInv`: a date is
  held only with a time of the same or a later sentence that has been sent, `setup()` ends only
  with a date, and what is about to be logged is newer than all rows of the open file. `Deaf` is
  the arithmetic of `t - t % ByteSize`.
* `GnssSamplingProofs`: `TypeCorrect`, `OneLocationPerRow`, `TextAtLeastAsNew`,
  `TimesFromSentences` and `NaNHasCause`, for any number of fixes, samples and rows. Each invariant says, for every place
  `readSensors()` can be at, what the row in the making has to do with the values of `gnss`, the
  flags and the stores still pending: between `lng()` and `lat()`, say, the longitude taken is
  that of `gnss` unless the row is marked as preempted. `TimesAccounted`
  holds because of each time there are always as many commits that no row has taken as may still be
  taken (`EnoughDue`): one if its flag is set (`Flagged`), and one if a row is about to load it
  (`AboutToLoad`). `NaNHasCause` rests on `NewHasFlag`: the last time committed has its flag until
  somebody takes it.
* `NmeaParserProofs`: `TypeCorrect`, `CommitsOwnFields` and `CommitsWholeSentence`, for any
  sentences, any number of faults and any size of a term. The invariant (`NInv`) compares the
  parser with the sentence on the line. Without a fault they are in step (`InStep`): the parity is
  the XOR of what has passed, the count of terms is right and the fields that have passed are
  staged. After one fault (`Harmed`) the parity is wrong in a token that will not come again
  (`Off`), or the parser does not take the checksum for one, or the checksum has come already and
  all was staged before (`Ready`). `Off` stays because no text is in a sentence twice
  (`TextsDiffer`) and a comma changes the parity of both sides. A checksum in `term` is that of the
  sentence on the line and has just come (`OwnSum`), so nothing is committed earlier.

Every safety and action property of a passing run is the statement of one of these theorems. Only
model-checked are the liveness properties (fairness is out of the prover's reach):
`DrainsWhenDisabled`, `ClosesWhenDisabled`, `TransactionEnds` and `RefreshReturns`. That the
assumptions on the constants can be met is checked by TLC, which evaluates them with the values of
each run; the constants of `rawx` also satisfy the hypotheses `NothingReadsAsLF` and `MessagesFit`,
under which two theorems about RawxLogger are stated.

## 5. Not modelled, and why

* Text formatting (CSV, JSON, log messages), conversion of numbers, LED patterns, `FILE_DUMP`
  (compiled out).
* Most of the repository's lines are libraries that the sketches do not use or use through a
  call or two (ArduinoModbus with libmodbus, DallasTemperature, OneWire, SdFat, Metro, TimeLib,
  U-blox) and copies of the sketches and libraries under `simple_mpc_sat`. Metro, SdFat and
  the card appear as the external actions and operators named above. A full card and a card
  that answers but refuses to open a file are left out, and so is damage to the file system by a
  power loss.
* `connectedDevices[BLUETOOTH]` writes past a 4-element array: what it overwrites is a matter of
  memory layout.
* Bluetooth: AT commands with fixed delays at start-up and one-way output of text.
* A01NYUB, JSN_SR04T and DS18B20: what can go wrong is in single expressions on bytes (A01NYUB
  reads two bytes in an order C++ leaves open) or in third-party code.
* clock_logger and the sketches of simple_mpc_sat: the same buffers, interrupts and files as
  GNSS_logger, to which the modules here apply; only the timestamp differs (`millis()` in a
  `long`).
* air_sat: orders are cut out of a stream by `readStringUntil()`, whose time-outs are in a class
  outside the repository.
* gateway: a pairing script and Node-RED/Grafana exports.
* In RawxLogger: different bytes with one checksum, failed writes, survey-in mode, and a payload
  that holds 0xB5 or `$`. The last matters where a file begins in the middle of a message (after a
  pause for the battery): the sketch may take such a byte for the start of a message, and an alarm
  then waits longer than `AlarmWaitsForOneMessage` says.

## 6. How the project is laid out

A component's module comes first, its `MC` module gives values to the constants, its `.cfg` the
bounds, and its `Proofs` module the theorems. Definitions marked "mutant" are single changes of
the definition after them, which the property they are paired with in `PROJECT.json` rejects.

What could follow: the composition of SampleBuffers with LogFiles, whose FIFO of rows SampleBuffers
implements as long as `races` is 0 (`AlignedRows`, `NothingLost` and `RowsInOrder` together), and of
NmeaParser with GnssSampling, where a commit of a sentence is one step.
