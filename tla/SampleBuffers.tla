---------------------------- MODULE SampleBuffers ----------------------------
(***************************************************************************)
(* The hand-over of measurements from the readSensors() interrupt to       *)
(* loop() in GNSS_logger.ino (clock_logger.ino has the same structure).    *)
(* One ring buffer per measured column: readSensors() pushes a reading     *)
(* into each of them, loop() pops each of them in turn, without locking,   *)
(* and logs the row.                                                       *)
(*                                                                         *)
(* A reading is the number of the readSensors() call that took it, so a    *)
(* row is right exactly when its columns carry the same number.            *)
(*                                                                         *)
(* readSensors() preempts loop() and is never preempted by it, and the     *)
(* interrupts that preempt readSensors() do not touch the buffers: it is   *)
(* one action.  pop() is not: its fields are not volatile and its stores   *)
(* may be emitted in either order, and `mSize--' may use the value loaded  *)
(* by isEmpty() or load it again.  The element is loaded with the test:    *)
(* an interrupt cannot write the slot at mReadIndex of a buffer that is    *)
(* not empty, so when it is loaded is not visible.                         *)
(***************************************************************************)
EXTENDS RingBuf

CONSTANTS NCols,      \* number of columns; column 1 is time_buf, popped first
          MaxSamples  \* bound on the readSensors() calls

ASSUME ColumnsAssumption ==
  /\ NCols \in Nat \ {0}
  /\ MaxSamples \in Nat
  /\ ET = 0 .. MaxSamples
  /\ Zero = 0

Columns == 1 .. NCols

VARIABLES
  enLog,     \* logging enabled by the button
  buf,       \* the buffers, by column
  row,       \* time_ms, extTemp_C, ..., dist_mm: the variables pops fill
  col,       \* loop(): 0 at time_buf.isEmpty(), i in Columns at the pop of
             \* column i, NCols + 1 at logToSD
  pending,   \* stores the pop in progress has still to make
  loaded,    \* mSize as loaded by the isEmpty() of that pop
  sampled,   \* readSensors() calls with logging enabled
  accepted,  \* those that found time_buf not full
  logged,    \* rows given to logToSD
  last,      \* the last of them
  races      \* samples that came inside a pop, or when time_buf had room
             \* and another column had none

vars == <<enLog, buf, row, col, pending, loaded, sampled, accepted, logged, last, races>>

loopVars == <<row, col, pending, loaded, logged, last>>

Init ==
  /\ enLog = FALSE
  /\ buf = [i \in Columns |-> NewRingBuf]
  /\ row = [i \in Columns |-> Zero]
  /\ col = 0
  /\ pending = {}
  /\ loaded = 0
  /\ sampled = 0 /\ accepted = 0 /\ logged = 0
  /\ last = [i \in Columns |-> Zero]
  /\ races = 0

-----------------------------------------------------------------------------
(* Interrupts *)

\* handleDigitalIO() copies the button into enLog.
handleDigitalIO ==
  /\ enLog' = ~enLog
  /\ UNCHANGED <<buf, sampled, accepted, races, loopVars>>

\* Some column refuses a push although time_buf accepts one.
OtherColumnFull == \E i \in Columns : IsFull(buf[i])

\* mutant: the column of a disconnected sensor is not pushed
readSensorsConnected ==
  /\ enLog
  /\ sampled < MaxSamples
  /\ ~IsFull(buf[1])
  /\ sampled' = sampled + 1
  /\ accepted' = accepted + 1
  /\ \E k \in Columns :
       buf' = [i \in Columns |-> IF i = k THEN buf[i] ELSE Pushed(buf[i], sampled + 1)]
  /\ races' = IF pending # {} \/ OtherColumnFull THEN races + 1 ELSE races
  /\ UNCHANGED <<enLog, loopVars>>

\* Lower interrupt priority than the other timers, higher than loop().
readSensors ==
  /\ enLog
  /\ sampled < MaxSamples
  /\ sampled' = sampled + 1
  /\ IF IsFull(buf[1])
       THEN UNCHANGED <<buf, accepted, races>>
       ELSE /\ buf' = [i \in Columns |-> Pushed(buf[i], sampled + 1)]
            /\ accepted' = accepted + 1
            /\ races' = IF pending # {} \/ OtherColumnFull THEN races + 1 ELSE races
  /\ UNCHANGED <<enLog, loopVars>>

-----------------------------------------------------------------------------
(* loop() *)

\* mutant: nothing is handled once logging is disabled
StartRowWhenEnabled ==
  /\ enLog
  /\ col = 0
  /\ ~IsEmpty(buf[1])
  /\ col' = 1
  /\ UNCHANGED <<enLog, buf, row, pending, loaded, sampled, accepted, logged, last, races>>

\* if (time_buf.isEmpty()) ... else: the start of a row.
StartRow ==
  /\ col = 0
  /\ ~IsEmpty(buf[1])
  /\ col' = 1
  /\ UNCHANGED <<enLog, buf, row, pending, loaded, sampled, accepted, logged, last, races>>

\* pop() of an empty column returns false and leaves the variable as it was.
PopEmpty ==
  /\ col \in Columns /\ pending = {}
  /\ IsEmpty(buf[col])
  /\ col' = col + 1
  /\ UNCHANGED <<enLog, buf, row, pending, loaded, sampled, accepted, logged, last, races>>

\* The two fields pop() updates.
PopStoresInPlace == {"size"}   \* mutant: mReadIndex is not advanced
PopStoresKeepSize == {"index"} \* mutant: mSize is not decremented
PopStores == {"index", "size"}

PopLoad ==
  /\ col \in Columns /\ pending = {}
  /\ ~IsEmpty(buf[col])
  /\ row' = [row EXCEPT ![col] = buf[col].mBuffer[buf[col].mReadIndex]]
  /\ loaded' = buf[col].mSize
  /\ pending' = PopStores
  /\ UNCHANGED <<enLog, buf, col, sampled, accepted, logged, last, races>>

\* The last store of a pop returns to loop(), which pops the next column.
Stored(store) ==
  /\ pending' = pending \ {store}
  /\ col' = IF pending = {store} THEN col + 1 ELSE col

StoreIndex ==
  /\ "index" \in pending
  /\ buf' = [buf EXCEPT ![col] = [@ EXCEPT !.mReadIndex = NextReadIndex(buf[col])]]
  /\ Stored("index")
  /\ UNCHANGED <<enLog, row, loaded, sampled, accepted, logged, last, races>>

StoreSize ==
  /\ "size" \in pending
  /\ \E n \in {loaded, buf[col].mSize} :
       buf' = [buf EXCEPT ![col] = [@ EXCEPT !.mSize = ToIT(n - 1)]]
  /\ Stored("size")
  /\ UNCHANGED <<enLog, row, loaded, sampled, accepted, logged, last, races>>

\* logToSD and sendDataToBluetooth get the row.
LogRow ==
  /\ col = NCols + 1
  /\ last' = row
  /\ logged' = logged + 1
  /\ col' = 0
  /\ UNCHANGED <<enLog, buf, row, pending, loaded, sampled, accepted, races>>

Loop == StartRow \/ PopEmpty \/ PopLoad \/ StoreIndex \/ StoreSize \/ LogRow

Next == handleDigitalIO \/ readSensors \/ Loop

\* loop() is called for ever, and interrupts end.
Spec == Init /\ [][Next]_vars /\ WF_vars(Loop)

-----------------------------------------------------------------------------
(* Properties *)

\* Whatever the interrupt timing, indices stay on slots and sizes within S: a
\* race can lose or repeat readings but never reaches outside mBuffer, and no
\* mSize-- ever goes below zero.
TypeOK ==
  /\ enLog \in BOOLEAN
  /\ buf \in [Columns -> [mBuffer : [Slots -> ET], mReadIndex : Slots, mSize : 0 .. S]]
  /\ row \in [Columns -> ET] /\ last \in [Columns -> ET]
  /\ col \in 0 .. (NCols + 1)
  /\ pending \in SUBSET {"index", "size"}
  /\ pending # {} => col \in Columns
  /\ loaded \in 0 .. S
  /\ sampled \in 0 .. MaxSamples
  /\ accepted \in 0 .. sampled
  /\ logged \in Nat
  /\ races \in 0 .. accepted

Aligned(r) == \A i \in Columns : r[i] = r[1]

\* As long as no sample has come inside a pop, or found a column fuller than
\* time_buf, every row is made of readings of one readSensors() call.
RowsAlignedUnlessRaced == races = 0 => Aligned(last)

\* As long as there was no race, every accepted sample is in the buffers, in
\* the row being popped, or in a logged row: none disappears.
NothingLostUnlessRaced ==
  races = 0 /\ col = 0 => accepted = logged + buf[1].mSize

\* As long as there was no race, rows are logged in the order of their samples
\* and no sample is logged twice.
RowsInOrderUnlessRaced ==
  [][LogRow /\ races = 0 => \A i \in Columns : last'[i] > last[i]]_vars

\* Between rows, the buffers' sizes differ by at most the number of races.
SkewBounded ==
  col = 0 => \A i, j \in Columns : buf[i].mSize - buf[j].mSize <= races

\* "Else: Empty buffers into log file": once the button stays off, loop()
\* drains time_buf and comes to rest, races or not.
DrainsWhenDisabled == <>[](~enLog) => <>[](col = 0 /\ IsEmpty(buf[1]))
=============================================================================
