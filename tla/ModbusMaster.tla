----------------------------- MODULE ModbusMaster -----------------------------
(***************************************************************************)
(* ModbusMasterTransaction() as the URM14 distance sensor uses it: one     *)
(* write of the configuration in setupDistSensor(), then a read in every   *)
(* readDistance().  Requests and answers carry no number: whatever comes   *)
(* after the receive buffer was flushed is taken for the answer.           *)
(*                                                                         *)
(* A byte knows the request it answers and its place in the answer; one    *)
(* that was altered on the bus answers request 0.  The CRC is right        *)
(* exactly for one whole answer (collisions are left out).                 *)
(***************************************************************************)
EXTENDS Integers, Sequences

CONSTANTS
  ByteSize,      \* values of a byte (256); its high bit marks an exception
  SlaveID,
  ReadQty,       \* bytes in the answer to a read: 2 for one register
  Altered,       \* values that a damaged byte may take
  MaxRequests,   \* bound: transactions
  MaxFaults      \* bound: requests lost, bytes lost or altered

ASSUME ModbusAssumption ==
  /\ ByteSize \in Nat /\ ByteSize >= 16
  /\ SlaveID \in 0 .. ByteSize - 1 /\ ReadQty \in 1 .. ByteSize - 1
  /\ Altered \subseteq 0 .. ByteSize - 1 /\ MaxRequests \in Nat /\ MaxFaults \in Nat

ku8MBReadHoldingRegisters == 3
ku8MBWriteSingleRegister == 6
ExceptionBit == ByteSize \div 2

VARIABLES
  asked,         \* requests the sensor has still to answer (it may be slow)
  bus,           \* bytes on the bus to the master
  rx,            \* the serial port's receive buffer
  faults,
  pc,            \* "idle", "send", "wait", or "halted" in waitForReboot()
  req,           \* number of the transaction
  function,      \* u8MBFunction
  adu,           \* u8ModbusADU, of which u8ModbusADUSize bytes
  bytesLeft, status,
  overdue,       \* more than ku16MBResponseTimeout since the request
  responseBuffer,     \* _u16ResponseBuffer: the request whose answer it holds
  distances,     \* what readDistance() returned: the request answered, or none
  deviceConnected,
  owed           \* an earlier answer was outstanding when the request was sent

vars == <<asked, bus, rx, faults, pc, req, function, adu, bytesLeft, status, overdue,
          responseBuffer, distances, deviceConnected, owed>>
sensorVars == <<responseBuffer, distances, deviceConnected>>

DIST_NO_VALUE == -1

-----------------------------------------------------------------------------
(* The sensor and the bus (external) *)

\* The answer to request r: id, function, then count and data, or address and
\* value, and the CRC; or id, function with the high bit, code, and the CRC.
Frame(r, exception) ==
  LET values == IF exception THEN <<SlaveID, r.function + ExceptionBit, 2, 0, 0>>
                ELSE IF r.function = ku8MBReadHoldingRegisters
                THEN <<SlaveID, r.function, ReadQty>> \o [k \in 1 .. ReadQty + 2 |-> 0]
                ELSE <<SlaveID, r.function, 0, 0, 0, 0, 0, 0>>
  IN  [k \in DOMAIN values |->
         [of |-> r.number, place |-> k, val |-> values[k], last |-> k = Len(values)]]

\* It answers in its own time.
Answer ==
  /\ asked # << >> /\ bus = << >>
  /\ \E exception \in BOOLEAN : bus' = Frame(Head(asked), exception)
  /\ asked' = Tail(asked)
  /\ UNCHANGED <<rx, faults, pc, req, function, adu, bytesLeft, status, overdue,
                 sensorVars, owed>>

\* A byte arrives; while DE is high (preTransCbk()) nothing is received.
Deliver ==
  /\ bus # << >>
  /\ bus' = Tail(bus)
  /\ \/ rx' = (IF pc = "send" THEN rx ELSE Append(rx, Head(bus))) /\ UNCHANGED faults
     \/ /\ faults < MaxFaults /\ faults' = faults + 1
        /\ \/ UNCHANGED rx
           \/ \E v \in Altered \ {Head(bus).val} :
                rx' = Append(rx, [of |-> 0, place |-> 0, val |-> v, last |-> FALSE])
  /\ UNCHANGED <<asked, pc, req, function, adu, bytesLeft, status, overdue, sensorVars, owed>>

-----------------------------------------------------------------------------
(* The transaction *)

\* setupDistSensor() writes the configuration, readDistance() reads: the
\* receive buffer is flushed and the bus taken.
Begin ==
  /\ pc = "idle" /\ req < MaxRequests
  /\ req' = req + 1
  /\ function' = IF req = 0 THEN ku8MBWriteSingleRegister ELSE ku8MBReadHoldingRegisters
  /\ rx' = << >>
  /\ owed' = (asked # << >> \/ bus # << >>)
  /\ pc' = "send"
  /\ UNCHANGED <<asked, bus, faults, adu, bytesLeft, status, overdue, sensorVars>>

\* The request is out, and understood or lost; DE is low again.
Transmit ==
  /\ pc = "send"
  /\ \/ asked' = Append(asked, [number |-> req, function |-> function]) /\ UNCHANGED faults
     \/ faults < MaxFaults /\ faults' = faults + 1 /\ UNCHANGED asked
  /\ adu' = << >> /\ bytesLeft' = 8 /\ status' = "Success" /\ overdue' = FALSE
  /\ pc' = "wait"
  /\ UNCHANGED <<bus, rx, req, function, sensorVars, owed>>

\* millis() - u32StartTime exceeds the time-out.
TimePasses ==
  /\ pc = "wait" /\ ~overdue
  /\ overdue' = TRUE
  /\ UNCHANGED <<asked, bus, rx, faults, pc, req, function, adu, bytesLeft, status,
                 sensorVars, owed>>

\* The condition of the receiving loop.
Looping == pc = "wait" /\ bytesLeft > 0 /\ status = "Success"

\* What the first five bytes say, if that is all there is; each error leaves the
\* loop before the time is looked at.
Inspect(a) ==
  IF Len(a) # 5 THEN "more"
  ELSE IF a[1].val # SlaveID THEN "InvalidSlaveID"
  ELSE IF a[2].val % ExceptionBit # function THEN "InvalidFunction"
  ELSE IF a[2].val < ExceptionBit THEN "more"
  ELSE IF a[3].val = 0 THEN "Success" ELSE "Exception"

LessReceived(a, left) ==  \* mutant: the two data bytes received are taken off the count
  IF Len(a) # 5 THEN left
  ELSE IF function = ku8MBReadHoldingRegisters THEN a[3].val - 2 ELSE 3
\* Bytes still to come after a: the count of an answer to a read is believed.
StillToCome(a, left) ==
  IF Len(a) # 5 THEN left
  ELSE IF function = ku8MBReadHoldingRegisters THEN a[3].val ELSE 3

NeverOverdue(verdict) == verdict \in {"more", "Success"}  \* mutant: the time is not looked at
\* The status after a pass.
InTime(verdict) == ~overdue

\* One pass: a byte if there is one, the inspection, the time.
Pass ==
  /\ Looping
  /\ LET a == IF rx = << >> THEN adu ELSE Append(adu, Head(rx))
         left == IF rx = << >> THEN bytesLeft ELSE bytesLeft - 1
         verdict == Inspect(a)
     IN  /\ adu' = a
         /\ rx' = IF rx = << >> THEN rx ELSE Tail(rx)
         /\ IF verdict = "more"
            THEN /\ bytesLeft' = StillToCome(a, left)
                 /\ status' = IF InTime(verdict) THEN "Success" ELSE "ResponseTimedOut"
            ELSE bytesLeft' = 0 /\ status' = verdict  \* break
  /\ UNCHANGED <<asked, bus, faults, pc, req, function, overdue, sensorVars, owed>>

NoCRC(a) == TRUE  \* mutant: the CRC is not looked at
\* The CRC over a without its last two bytes is in those.
CRCRight(a) ==
  /\ \A k \in DOMAIN a : a[k].of = a[1].of /\ a[k].place = k
  /\ a[1].of # 0 /\ a[Len(a)].last

IgnoringError(result, register) == register  \* mutant: the result of the read is not looked at
\* What readDistance() returns.
Distance(result, register) == IF result = "Success" THEN register ELSE DIST_NO_VALUE

\* The end of the transaction: the CRC, the register of an answer to a read, and
\* the caller: setupDistSensor() waits for a reboot on any error.
Finish ==
  /\ pc = "wait" /\ ~Looping
  /\ LET result == IF status = "Success" /\ Len(adu) >= 5 /\ ~CRCRight(adu)
                   THEN "InvalidCRC" ELSE status
         isRead == function = ku8MBReadHoldingRegisters
     IN  /\ status' = result
         /\ responseBuffer' = IF result = "Success" /\ isRead THEN adu[4].of ELSE responseBuffer
         /\ distances' = IF isRead THEN Append(distances, Distance(result, responseBuffer'))
                                   ELSE distances
         /\ pc' = IF ~isRead /\ result # "Success" THEN "halted" ELSE "idle"
         /\ deviceConnected' = (result = "Success")
  /\ UNCHANGED <<asked, bus, rx, faults, req, function, adu, bytesLeft, overdue, owed>>

ModbusMasterTransaction == Begin \/ Transmit \/ Pass \/ Finish

Next == Answer \/ Deliver \/ TimePasses \/ ModbusMasterTransaction

Init ==
  /\ asked = << >> /\ bus = << >> /\ rx = << >> /\ faults = 0
  /\ pc = "idle" /\ req = 0 /\ function = ku8MBWriteSingleRegister
  /\ adu = << >> /\ bytesLeft = 0 /\ status = "Success" /\ overdue = FALSE
  /\ responseBuffer = 0 /\ distances = << >> /\ deviceConnected = FALSE
  /\ owed = FALSE

Spec == Init /\ [][Next]_vars

\* The processor runs and time passes; the sensor and the bus need not do anything.
FairSpec == /\ Spec
            /\ WF_vars(Transmit) /\ WF_vars(Pass) /\ WF_vars(Finish) /\ WF_vars(TimePasses)

-----------------------------------------------------------------------------
(* Properties *)

Statuses == {"Success", "InvalidSlaveID", "InvalidFunction", "Exception",
             "ResponseTimedOut", "InvalidCRC"}

\* Types: the number of bytes to come stays that of an unsigned byte.
TypeOK ==
  /\ faults \in 0 .. MaxFaults /\ req \in 0 .. MaxRequests
  /\ pc \in {"idle", "send", "wait", "halted"} /\ status \in Statuses
  /\ bytesLeft \in 0 .. ByteSize - 1
  /\ responseBuffer \in 0 .. req
  /\ distances \in Seq(DIST_NO_VALUE .. req) /\ Len(distances) <= req
  /\ {overdue, deviceConnected, owed} \subseteq BOOLEAN

\* A distance that readDistance() returns is the answer to the request it has
\* just made, unless the sensor still owed an earlier one when it made it;
\* bytes of other answers, or damaged ones, are never taken for a distance.
OwnAnswerUnlessOwed ==
  pc = "idle" /\ distances # << >> =>
    distances[Len(distances)] \in {req, DIST_NO_VALUE} \/ owed

\* No answer is returned as a distance twice, nor after a later one was: a sensor
\* that goes silent is not taken for a surface that stands still.
NoDistanceAgain ==
  \A i, j \in DOMAIN distances :
    i < j /\ distances[i] # DIST_NO_VALUE /\ distances[j] # DIST_NO_VALUE
      => distances[i] < distances[j]

\* Every transaction ends, whatever the sensor and the bus do: readDistance()
\* runs in a timer interrupt and must return.
TransactionEnds == pc \in {"send", "wait"} ~> pc \in {"idle", "halted"}
=============================================================================
