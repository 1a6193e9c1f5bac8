-------------------------- MODULE ModbusMasterProofs --------------------------
(***************************************************************************)
(* readDistance() returns the answer to its own request unless an earlier  *)
(* one was owed, for every number of requests and of faults.  The          *)
(* inductive invariant: if nothing was owed when the request was sent,     *)
(* every byte between the sensor and u8ModbusADU is damaged or of this     *)
(* request; and the array holds five bytes before the loop can end well.   *)
(* Distances are returned in the order of their requests, each once: the   *)
(* answers under way are in that order, behind those already returned.     *)
(***************************************************************************)
EXTENDS ModbusMaster, TLAPS

Bytes == [of : 0 .. req, place : Nat, val : 0 .. ByteSize - 1, last : BOOLEAN]
Requests == [number : 1 .. req,
             function : {ku8MBReadHoldingRegisters, ku8MBWriteSingleRegister}]

ChannelTypes ==
  /\ asked \in Seq(Requests)
  /\ bus \in Seq(Bytes) /\ rx \in Seq(Bytes) /\ adu \in Seq(Bytes)
  /\ function \in {ku8MBReadHoldingRegisters, ku8MBWriteSingleRegister}

\* The bytes still wanted make up for those missing until the fifth came.
FiveBytesFirst == pc = "wait" /\ Len(adu) < 5 => bytesLeft = 8 - Len(adu)

\* Everything in s is damaged or of the present request.
OfThis(s) == \A k \in 1 .. Len(s) : s[k].of \in {0, req}

NothingElse ==
  pc \in {"send", "wait"} /\ ~owed =>
    /\ \A k \in 1 .. Len(asked) : asked[k].number = req
    /\ OfThis(bus) /\ OfThis(rx)
    /\ pc = "wait" => OfThis(adu)

\* A request under way has a number and no result yet; only the first one writes.
Underway ==
  pc \in {"send", "wait"} =>
    req >= 1 /\ Len(distances) <= req - 1 /\ (function = ku8MBWriteSingleRegister => req = 1)

MInv == TypeOK /\ Underway /\ ChannelTypes /\ FiveBytesFirst /\ NothingElse /\ OwnAnswerUnlessOwed

\* What is at a place of a sequence is in the set it is a sequence of.
LEMMA ElementOf ==
  ASSUME NEW S, NEW s \in Seq(S), NEW k \in 1 .. Len(s)
  PROVE  s[k] \in S /\ k \in Nat
OBVIOUS

\* An answer is made of bytes, each of that request.
LEMMA FrameBytes ==
  ASSUME ChannelTypes, req \in Nat, NEW r \in Requests, NEW exception \in BOOLEAN
  PROVE  /\ Frame(r, exception) \in Seq(Bytes)
         /\ \A k \in 1 .. Len(Frame(r, exception)) : Frame(r, exception)[k].of = r.number
<1> DEFINE values == IF exception THEN <<SlaveID, r.function + ExceptionBit, 2, 0, 0>>
                     ELSE IF r.function = ku8MBReadHoldingRegisters
                     THEN <<SlaveID, r.function, ReadQty>> \o [k \in 1 .. ReadQty + 2 |-> 0]
                     ELSE <<SlaveID, r.function, 0, 0, 0, 0, 0, 0>>
           byte(k) == [of |-> r.number, place |-> k, val |-> values[k], last |-> k = Len(values)]
<1>1. values \in Seq(0 .. ByteSize - 1)
  <2>1. /\ SlaveID \in 0 .. ByteSize - 1 /\ ReadQty \in 1 .. ByteSize - 1
        /\ r.function \in 0 .. ByteSize - 1 /\ r.function + ExceptionBit \in 0 .. ByteSize - 1
        /\ {0, 2} \subseteq 0 .. ByteSize - 1
    BY ModbusAssumption DEF Requests, ExceptionBit, ku8MBReadHoldingRegisters,
                            ku8MBWriteSingleRegister
  <2>2. <<SlaveID, r.function + ExceptionBit, 2, 0, 0>> \in Seq(0 .. ByteSize - 1)
    BY <2>1
  <2>3. <<SlaveID, r.function, 0, 0, 0, 0, 0, 0>> \in Seq(0 .. ByteSize - 1)
    BY <2>1
  <2>4. <<SlaveID, r.function, ReadQty>> \in Seq(0 .. ByteSize - 1)
    BY <2>1
  <2>5. [k \in 1 .. ReadQty + 2 |-> 0] \in Seq(0 .. ByteSize - 1)
    BY <2>1
  <2>6. <<SlaveID, r.function, ReadQty>> \o [k \in 1 .. ReadQty + 2 |-> 0]
          \in Seq(0 .. ByteSize - 1)
    BY <2>4, <2>5
  <2> QED BY <2>2, <2>3, <2>6, Zenon
<1>2. Frame(r, exception) = [k \in DOMAIN values |-> byte(k)]
  BY Zenon DEF Frame
<1> HIDE DEF values
<1>3. ASSUME NEW k \in 1 .. Len(values) PROVE byte(k) \in Bytes
  <2>1. values[k] \in 0 .. ByteSize - 1 /\ k \in Nat
    BY <1>1, ElementOf
  <2>2. r.number \in 0 .. req
    BY DEF Requests
  <2>3. (k = Len(values)) \in BOOLEAN
    OBVIOUS
  <2> QED BY <2>1, <2>2, <2>3, Zenon DEF Bytes
<1> QED BY <1>1, <1>2, <1>3

\* Taking the first element, and adding one at the end.
LEMMA HeadAndTail ==
  ASSUME NEW S, NEW s \in Seq(S), s # << >>
  PROVE  /\ Head(s) \in S /\ Head(s) = s[1] /\ Tail(s) \in Seq(S)
         /\ 1 \in 1 .. Len(s) /\ Len(Tail(s)) = Len(s) - 1
         /\ \A k \in 1 .. Len(Tail(s)) : k + 1 \in 1 .. Len(s) /\ Tail(s)[k] = s[k + 1]
OBVIOUS

LEMMA Appended ==
  ASSUME NEW S, NEW s \in Seq(S), NEW e \in S
  PROVE  /\ Append(s, e) \in Seq(S) /\ Len(Append(s, e)) = Len(s) + 1
         /\ Append(s, e)[Len(s) + 1] = e
         /\ \A k \in 1 .. Len(s) : Append(s, e)[k] = s[k]
OBVIOUS

LEMMA WiderSeq ==
  ASSUME NEW S, NEW T, S \subseteq T, NEW s \in Seq(S)
  PROVE  s \in Seq(T)
OBVIOUS

\* The same for bytes: what comes off or goes onto a queue of this request's
\* bytes leaves one.
LEMMA OfThisMoves ==
  ASSUME NEW s \in Seq(Bytes), OfThis(s)
  PROVE  /\ s # << >> => Head(s).of \in {0, req} /\ OfThis(Tail(s))
         /\ \A b \in Bytes : b.of \in {0, req} => OfThis(Append(s, b))
<1>1. s # << >> => Head(s).of \in {0, req} /\ OfThis(Tail(s))
  BY HeadAndTail DEF OfThis
<1>2. ASSUME NEW b \in Bytes, b.of \in {0, req} PROVE OfThis(Append(s, b))
  BY <1>2, Appended DEF OfThis
<1> QED BY <1>1, <1>2

LEMMA InitMInv == Init => MInv
<1> SUFFICES ASSUME Init PROVE MInv
  OBVIOUS
<1>1. << >> \in Seq(DIST_NO_VALUE .. req) /\ Len(distances) = 0
  BY DEF Init
<1>2. TypeOK
  <2>1. {overdue, deviceConnected, owed} \subseteq BOOLEAN
    BY Zenon DEF Init
  <2>2. 0 \in 0 .. MaxFaults /\ 0 \in 0 .. MaxRequests /\ 0 \in 0 .. ByteSize - 1
    BY ModbusAssumption
  <2> QED BY <1>1, <2>1, <2>2 DEF Init, TypeOK, Statuses
<1>3. Underway /\ ChannelTypes /\ FiveBytesFirst /\ NothingElse /\ OwnAnswerUnlessOwed
  BY DEF Init, Underway, ChannelTypes, FiveBytesFirst, NothingElse, OwnAnswerUnlessOwed
<1> QED BY <1>2, <1>3 DEF MInv

-----------------------------------------------------------------------------
LEMMA AnswerKeeps == MInv /\ Answer => MInv'
<1> SUFFICES ASSUME MInv, Answer PROVE MInv'
  OBVIOUS
<1> USE DEF MInv
<1> PICK exception \in BOOLEAN : bus' = Frame(Head(asked), exception)
  BY DEF Answer
<1> DEFINE r == Head(asked)
<1>1. r \in Requests /\ r = asked[1] /\ 1 \in 1 .. Len(asked) /\ asked' \in Seq(Requests)
  BY HeadAndTail DEF Answer, ChannelTypes
<1>2. req \in Nat
  BY ModbusAssumption DEF TypeOK
<1> HIDE DEF r
<1>3. /\ Frame(r, exception) \in Seq(Bytes)
      /\ \A k \in 1 .. Len(Frame(r, exception)) : Frame(r, exception)[k].of = r.number
  BY <1>1, <1>2, FrameBytes
<1>4. bus' = Frame(r, exception) /\ UNCHANGED <<rx, adu, req, function, pc, owed>>
  BY DEF Answer, r
<1>5. ChannelTypes'
  BY <1>1, <1>3, <1>4 DEF ChannelTypes, Bytes, Requests
<1>6. NothingElse'
  <2> SUFFICES ASSUME pc \in {"send", "wait"}, ~owed
               PROVE  /\ \A k \in 1 .. Len(asked') : asked'[k].number = req
                      /\ \A k \in 1 .. Len(bus') : bus'[k].of \in {0, req}
                      /\ OfThis(rx)
                      /\ pc = "wait" => OfThis(adu)
    BY <1>4 DEF NothingElse, OfThis
  <2>1. \A k \in 1 .. Len(asked') : asked'[k].number = req
    BY HeadAndTail DEF Answer, NothingElse, ChannelTypes
  <2>2. \A k \in 1 .. Len(bus') : bus'[k].of \in {0, req}
    BY <1>1, <1>3, <1>4 DEF NothingElse
  <2> QED BY <2>1, <2>2 DEF NothingElse
<1>7. TypeOK' /\ Underway' /\ FiveBytesFirst' /\ OwnAnswerUnlessOwed'
  BY DEF Underway, Answer, sensorVars, TypeOK, FiveBytesFirst, OwnAnswerUnlessOwed
<1> QED BY <1>5, <1>6, <1>7

LEMMA DeliverKeeps == MInv /\ Deliver => MInv'
<1> SUFFICES ASSUME MInv, Deliver PROVE MInv'
  OBVIOUS
<1> USE DEF MInv
<1>1. req \in Nat /\ faults' \in 0 .. MaxFaults
  BY ModbusAssumption DEF Deliver, TypeOK
<1>2. Head(bus) \in Bytes /\ bus' \in Seq(Bytes) /\ bus # << >> /\ rx \in Seq(Bytes)
      /\ bus' = Tail(bus) /\ UNCHANGED <<asked, pc, req, function, adu, owed>>
  BY HeadAndTail DEF Deliver, ChannelTypes
<1>3. \/ rx' = rx
      \/ \E b \in Bytes : rx' = Append(rx, b) /\ (b = Head(bus) \/ b.of = 0)
  <2>1. CASE rx' = Append(rx, Head(bus))
    BY <2>1, <1>2
  <2>2. CASE \E v \in Altered : rx' = Append(rx, [of |-> 0, place |-> 0, val |-> v, last |-> FALSE])
    <3> PICK v \in Altered : rx' = Append(rx, [of |-> 0, place |-> 0, val |-> v, last |-> FALSE])
      BY <2>2
    <3>1. v \in 0 .. ByteSize - 1 /\ 0 \in 0 .. req /\ 0 \in Nat
      BY <1>1, ModbusAssumption
    <3>2. [of |-> 0, place |-> 0, val |-> v, last |-> FALSE] \in Bytes
      BY <3>1, Zenon DEF Bytes
    <3> QED BY <3>2
  <2> QED BY <2>1, <2>2 DEF Deliver
<1>4. rx' \in Seq(Bytes)
  <2>1. CASE rx' = rx
    BY <1>2, <2>1
  <2>2. CASE \E b \in Bytes : rx' = Append(rx, b)
    <3> PICK b \in Bytes : rx' = Append(rx, b)
      BY <2>2
    <3>1. rx \in Seq(Bytes)
      BY <1>2
    <3> HIDE DEF MInv
    <3> QED BY <3>1, Appended
  <2> QED BY <1>3, <2>1, <2>2
<1>5. ChannelTypes'
  BY <1>2, <1>4 DEF ChannelTypes, Bytes, Requests
<1>6. NothingElse'
  <2> SUFFICES ASSUME pc \in {"send", "wait"}, ~owed PROVE OfThis(bus)' /\ OfThis(rx)'
    BY <1>2 DEF NothingElse, OfThis
  <2>1. OfThis(bus) /\ OfThis(rx)
    BY DEF NothingElse
  <2>2. Head(bus).of \in {0, req} /\ OfThis(Tail(bus))
    BY <1>2, <2>1, OfThisMoves DEF ChannelTypes
  <2>3. OfThis(rx')
    BY <1>2, <1>3, <2>1, <2>2, OfThisMoves
  <2> QED BY <1>2, <2>2, <2>3 DEF OfThis
<1>7. TypeOK' /\ Underway' /\ FiveBytesFirst' /\ OwnAnswerUnlessOwed'
  BY <1>1 DEF Underway, Deliver, sensorVars, TypeOK, FiveBytesFirst, OwnAnswerUnlessOwed
<1> QED BY <1>5, <1>6, <1>7

LEMMA BeginKeeps == MInv /\ Begin => MInv'
<1> SUFFICES ASSUME MInv, Begin PROVE MInv'
  OBVIOUS
<1> USE DEF MInv
<1>1. req \in Nat /\ req' = req + 1 /\ req' \in 0 .. MaxRequests
  BY ModbusAssumption DEF Begin, TypeOK
<1>2. Bytes \subseteq Bytes' /\ Requests \subseteq Requests'
  <2>1. 0 .. req \subseteq 0 .. req' /\ 1 .. req \subseteq 1 .. req'
    BY <1>1
  <2> QED BY <2>1, Zenon DEF Bytes, Requests
<1>3. ChannelTypes'
  <2>1. asked' \in Seq(Requests') /\ bus' \in Seq(Bytes') /\ adu' \in Seq(Bytes')
    BY <1>2, WiderSeq DEF Begin, ChannelTypes
  <2>2. rx' = << >> /\ function' \in {ku8MBReadHoldingRegisters, ku8MBWriteSingleRegister}
    BY DEF Begin
  <2> QED BY <2>1, <2>2 DEF ChannelTypes
<1>4. NothingElse'
  <2> SUFFICES ASSUME ~owed' PROVE asked' = << >> /\ bus' = << >> /\ rx' = << >> /\ pc' = "send"
    BY DEF NothingElse, OfThis
  <2>1. (asked # << >> \/ bus # << >>) = FALSE
    BY DEF Begin
  <2> QED BY <2>1 DEF Begin
<1>5. TypeOK'
  <2>1. distances' \in Seq(DIST_NO_VALUE .. req') /\ Len(distances') <= req'
    <3>1. DIST_NO_VALUE .. req \subseteq DIST_NO_VALUE .. req'
      BY <1>1 DEF DIST_NO_VALUE
    <3>2. distances \in Seq(DIST_NO_VALUE .. req) /\ Len(distances) <= req /\ distances' = distances
      BY DEF Begin, sensorVars, TypeOK
    <3>3. distances \in Seq(DIST_NO_VALUE .. req')
      BY <3>1, <3>2, WiderSeq
    <3> QED BY <1>1, <3>2, <3>3
  <2>2. owed' \in BOOLEAN
    BY DEF Begin
  <2> QED BY <1>1, <2>1, <2>2 DEF Begin, sensorVars, TypeOK
<1>6. Underway'
  <2>1. distances' = distances /\ Len(distances) <= req
    BY DEF Begin, sensorVars, TypeOK
  <2>2. function' = ku8MBWriteSingleRegister => req = 0
    BY DEF Begin, ku8MBWriteSingleRegister, ku8MBReadHoldingRegisters
  <2>3. Len(distances) \in Nat
    BY DEF TypeOK
  <2> QED BY <1>1, <2>1, <2>2, <2>3 DEF Underway
<1>7. FiveBytesFirst' /\ OwnAnswerUnlessOwed'
  BY DEF Begin, FiveBytesFirst, OwnAnswerUnlessOwed
<1> QED BY <1>3, <1>4, <1>5, <1>6, <1>7

LEMMA TransmitKeeps == MInv /\ Transmit => MInv'
<1> SUFFICES ASSUME MInv, Transmit PROVE MInv'
  OBVIOUS
<1> USE DEF MInv
<1>1. /\ UNCHANGED <<bus, rx, req, function, owed, distances, responseBuffer, deviceConnected>>
      /\ pc = "send" /\ pc' = "wait" /\ adu' = << >> /\ bytesLeft' = 8 /\ status' = "Success"
      /\ overdue' = FALSE
  BY DEF Transmit, sensorVars
<1>2. faults' \in 0 .. MaxFaults
  BY ModbusAssumption DEF Transmit, TypeOK
<1>3. \/ asked' = asked
      \/ asked' = Append(asked, [number |-> req, function |-> function])
  BY DEF Transmit
<1>6. TypeOK' /\ Underway' /\ FiveBytesFirst' /\ OwnAnswerUnlessOwed'
  <2>1. 8 \in 0 .. ByteSize - 1 /\ Len(adu') = 0 /\ "Success" \in Statuses
    BY <1>1, ModbusAssumption DEF Statuses
  <2>2. TypeOK'
    BY <1>1, <1>2, <2>1 DEF TypeOK
  <2>3. Underway' /\ FiveBytesFirst' /\ OwnAnswerUnlessOwed'
    BY <1>1, <2>1 DEF Underway, FiveBytesFirst, OwnAnswerUnlessOwed
  <2> QED BY <2>2, <2>3
<1>4. CASE asked' = asked
  <2>1. ChannelTypes' /\ NothingElse'
    BY <1>1, <1>4 DEF ChannelTypes, NothingElse, OfThis, Bytes, Requests
  <2> QED BY <2>1, <1>6
<1>5. CASE asked' = Append(asked, [number |-> req, function |-> function]) /\ req >= 1
  <2>1. [number |-> req, function |-> function] \in Requests
    BY <1>5, ModbusAssumption DEF TypeOK, ChannelTypes, Requests
  <2>2. asked' \in Seq(Requests)
    BY <2>1, <1>5, Appended DEF ChannelTypes
  <2>3. ChannelTypes'
    BY <1>1, <2>2 DEF ChannelTypes, Bytes, Requests
  <2>4. NothingElse'
    <3> SUFFICES ASSUME ~owed
                 PROVE  OfThis(bus) /\ OfThis(rx) /\ \A k \in 1 .. Len(asked') : asked'[k].number = req
      BY <1>1 DEF NothingElse, OfThis
    <3> QED BY <1>1, <1>5, <2>1, Appended DEF NothingElse, ChannelTypes
  <2> QED BY <2>3, <2>4, <1>6
<1>7. req >= 1
  BY <1>1 DEF Underway, TypeOK
<1> QED BY <1>3, <1>4, <1>5, <1>7

LEMMA TimePassesKeeps == MInv /\ TimePasses => MInv'
<1> SUFFICES ASSUME MInv, TimePasses PROVE MInv'
  OBVIOUS
<1>1. TypeOK'
  BY DEF MInv, TimePasses, sensorVars, TypeOK
<1>2. ChannelTypes' /\ NothingElse'
  BY DEF MInv, TimePasses, ChannelTypes, NothingElse, OfThis, Bytes, Requests
<1>3. Underway' /\ FiveBytesFirst' /\ OwnAnswerUnlessOwed'
  BY DEF MInv, TimePasses, sensorVars, Underway, FiveBytesFirst, OwnAnswerUnlessOwed
<1> QED BY <1>1, <1>2, <1>3 DEF MInv

\* Only the first five bytes decide.
LEMMA InspectFive ==
  ASSUME NEW x
  PROVE  /\ Inspect(x) \in {"more", "InvalidSlaveID", "InvalidFunction", "Success", "Exception"}
         /\ Inspect(x) # "more" => Len(x) = 5
BY Zenon DEF Inspect

\* A pass through the loop.
LEMMA PassKeeps == MInv /\ Pass => MInv'
<1> SUFFICES ASSUME MInv, Pass PROVE MInv'
  OBVIOUS
<1> USE DEF MInv
<1> DEFINE a == IF rx = << >> THEN adu ELSE Append(adu, Head(rx))
           left == IF rx = << >> THEN bytesLeft ELSE bytesLeft - 1
           verdict == Inspect(a)
<1>1. /\ UNCHANGED <<asked, bus, faults, pc, req, function, overdue, owed,
                     distances, responseBuffer, deviceConnected>>
      /\ pc = "wait" /\ bytesLeft > 0 /\ adu' = a
      /\ rx' = IF rx = << >> THEN rx ELSE Tail(rx)
  BY DEF Pass, Looping, sensorVars
<1>2. \/ verdict = "more" /\ bytesLeft' = StillToCome(a, left)
         /\ status' \in {"Success", "ResponseTimedOut"}
      \/ Len(a) = 5 /\ bytesLeft' = 0
         /\ status' \in {"InvalidSlaveID", "InvalidFunction", "Success", "Exception"}
  <2>1. /\ verdict \in {"more", "InvalidSlaveID", "InvalidFunction", "Success", "Exception"}
        /\ verdict # "more" => Len(a) = 5
    <3> HIDE DEF a
    <3> QED BY InspectFive
  <2> HIDE DEF verdict
  <2>2. IF verdict = "more"
        THEN /\ bytesLeft' = StillToCome(a, left)
             /\ status' = IF InTime(verdict) THEN "Success" ELSE "ResponseTimedOut"
        ELSE bytesLeft' = 0 /\ status' = verdict
    BY DEF Pass, verdict
  <2> QED BY <2>1, <2>2
<1>3. /\ a \in Seq(Bytes) /\ rx' \in Seq(Bytes)
      /\ \/ Len(a) = Len(adu) /\ left = bytesLeft
         \/ Len(a) = Len(adu) + 1 /\ left = bytesLeft - 1
  BY <1>1, HeadAndTail, Appended DEF ChannelTypes
<1>4. bytesLeft \in 0 .. ByteSize - 1 /\ left \in 0 .. ByteSize - 1 /\ 3 \in 0 .. ByteSize - 1
      /\ 0 \in 0 .. ByteSize - 1
  BY <1>1, ModbusAssumption DEF TypeOK
<1>5. NothingElse'
  <2> SUFFICES ASSUME ~owed PROVE OfThis(a) /\ OfThis(rx')
    BY <1>1 DEF NothingElse, OfThis
  <2>1. OfThis(adu) /\ OfThis(rx) /\ rx \in Seq(Bytes) /\ adu \in Seq(Bytes)
    BY <1>1 DEF NothingElse, ChannelTypes
  <2>2. CASE rx = << >>
    BY <2>1, <2>2, <1>1
  <2>3. CASE rx # << >>
    <3>1. Head(rx) \in Bytes /\ Head(rx).of \in {0, req} /\ OfThis(Tail(rx))
      BY <2>1, <2>3, OfThisMoves, HeadAndTail
    <3>2. OfThis(Append(adu, Head(rx)))
      BY <2>1, <3>1, OfThisMoves
    <3> QED BY <2>3, <3>1, <3>2, <1>1
  <2> QED BY <2>2, <2>3
<1> HIDE DEF a, left, verdict
<1>6. ChannelTypes'
  BY <1>1, <1>3 DEF ChannelTypes, Bytes, Requests
<1>7. bytesLeft' \in 0 .. ByteSize - 1
  <2>1. Len(a) = 5 => a[3].val \in 0 .. ByteSize - 1
    <3> SUFFICES ASSUME Len(a) = 5 PROVE a[3].val \in 0 .. ByteSize - 1
      OBVIOUS
    <3> 3 \in 1 .. Len(a)
      OBVIOUS
    <3>1. a[3] \in Bytes
      BY <1>3, ElementOf
    <3> QED BY <3>1 DEF Bytes
  <2> QED BY <2>1, <1>2, <1>4 DEF StillToCome
<1>8. TypeOK'
  BY <1>1, <1>2, <1>7 DEF TypeOK, Statuses
<1>9. FiveBytesFirst'
  <2> SUFFICES ASSUME Len(a) < 5 PROVE bytesLeft' = 8 - Len(a)
    BY <1>1 DEF FiveBytesFirst
  <2>1. Len(adu) \in Nat /\ Len(a) \in Nat /\ Len(adu) < 5
    BY <1>3 DEF ChannelTypes
  <2>2. bytesLeft = 8 - Len(adu)
    BY <2>1, <1>1 DEF FiveBytesFirst
  <2>3. bytesLeft' = left
    <3>1. Len(a) # 5
      <4>1. \A n \in Nat : n < 5 => n # 5
        OBVIOUS
      <4> QED BY <2>1, <4>1, Zenon
    <3>2. StillToCome(a, left) = left
      BY <3>1, Zenon DEF StillToCome
    <3> QED BY <3>1, <3>2, <1>2
  <2> QED BY <2>1, <2>2, <2>3, <1>3
<1>10. Underway' /\ OwnAnswerUnlessOwed'
  BY <1>1 DEF Underway, OwnAnswerUnlessOwed
<1> QED BY <1>5, <1>6, <1>8, <1>9, <1>10

\* The end of a transaction: an answer whose CRC is right is one request's, and
\* not damaged, so it is this one's.
LEMMA FinishKeeps == MInv /\ Finish => MInv'
<1> SUFFICES ASSUME MInv, Finish PROVE MInv'
  OBVIOUS
<1> USE DEF MInv
<1> DEFINE result == IF status = "Success" /\ Len(adu) >= 5 /\ ~CRCRight(adu)
                     THEN "InvalidCRC" ELSE status
           isRead == function = ku8MBReadHoldingRegisters
<1>1. /\ UNCHANGED <<asked, bus, rx, faults, req, function, adu, bytesLeft, overdue, owed>>
      /\ pc = "wait" /\ ~Looping /\ status' = result /\ pc' \in {"idle", "halted"}
      /\ pc' = "idle" => isRead \/ result = "Success"
      /\ responseBuffer' = IF result = "Success" /\ isRead THEN adu[4].of ELSE responseBuffer
      /\ distances' = IF isRead THEN Append(distances, Distance(result, responseBuffer'))
                                ELSE distances
      /\ deviceConnected' = (result = "Success")
  BY DEF Finish
<1>2. req \in Nat /\ req >= 1 /\ Len(distances) <= req - 1 /\ bytesLeft \in Nat /\ Len(adu) \in Nat
  BY <1>1, ModbusAssumption DEF TypeOK, Underway, ChannelTypes
<1>3. result = "Success" => Len(adu) >= 5 /\ CRCRight(adu)
  <2>1. status = "Success" => bytesLeft = 0
    BY <1>1, <1>2 DEF Looping
  <2>2. status = "Success" => Len(adu) >= 5
    <3>1. Len(adu) < 5 => bytesLeft = 8 - Len(adu)
      BY <1>1 DEF FiveBytesFirst
    <3>2. Len(adu) \in Nat
      BY DEF ChannelTypes
    <3> HIDE DEF MInv
    <3> QED BY <2>1, <3>1, <3>2
  <2> QED BY <2>2
<1>4. result = "Success" => adu[4].of \in 0 .. req /\ (~owed => adu[4].of = req)
  <2> SUFFICES ASSUME result = "Success"
               PROVE  adu[4].of \in 0 .. req /\ (~owed => adu[4].of = req)
    OBVIOUS
  <2>1. 4 \in 1 .. Len(adu) /\ DOMAIN adu = 1 .. Len(adu) /\ adu[4] \in Bytes
    BY <1>2, <1>3, ElementOf DEF ChannelTypes
  <2>2. adu[4].of # 0
    BY <2>1, <1>3 DEF CRCRight
  <2>3. ~owed => adu[4].of \in {0, req}
    BY <2>1, <1>1 DEF NothingElse, OfThis
  <2>4. adu[4].of \in 0 .. req
    BY <2>1 DEF Bytes
  <2> QED BY <2>2, <2>3, <2>4
<1> HIDE DEF result
<1>5. responseBuffer' \in 0 .. req
  BY <1>1, <1>4 DEF TypeOK
<1>6. Distance(result, responseBuffer') \in DIST_NO_VALUE .. req
  BY <1>2, <1>5 DEF Distance, DIST_NO_VALUE
<1>7. /\ distances' \in Seq(DIST_NO_VALUE .. req) /\ Len(distances') <= req
      /\ isRead => distances' # << >> /\ distances'[Len(distances')] = Distance(result, responseBuffer')
  <2>1. distances \in Seq(DIST_NO_VALUE .. req) /\ Len(distances) \in Nat
    BY DEF TypeOK
  <2>2. CASE isRead
    <3>1. distances' = Append(distances, Distance(result, responseBuffer'))
      BY <1>1, <2>2
    <3>2. /\ distances' \in Seq(DIST_NO_VALUE .. req) /\ Len(distances') = Len(distances) + 1
          /\ distances'[Len(distances) + 1] = Distance(result, responseBuffer')
      BY <3>1, <2>1, <1>6, Appended
    <3> QED BY <3>2, <2>1, <1>2
  <2>3. CASE ~isRead
    BY <2>1, <2>3, <1>1, <1>2
  <2> QED BY <2>2, <2>3
<1>8. TypeOK'
  <2>1. result \in Statuses /\ (result = "Success") \in BOOLEAN
    BY DEF result, TypeOK, Statuses
  <2> QED BY <2>1, <1>1, <1>5, <1>7 DEF TypeOK
<1>9. OwnAnswerUnlessOwed'
  <2> SUFFICES ASSUME pc' = "idle", distances' # << >>, ~owed
               PROVE  distances'[Len(distances')] \in {req, DIST_NO_VALUE}
    BY <1>1 DEF OwnAnswerUnlessOwed
  <2>1. CASE isRead
    BY <2>1, <1>1, <1>4, <1>7 DEF Distance
  <2>2. CASE ~isRead
    <3>1. req = 1 /\ distances' = distances
      BY <2>2, <1>1 DEF Underway, ChannelTypes
    <3>2. distances = << >>
      BY <3>1, <1>2 DEF TypeOK
    <3> QED BY <3>1, <3>2
  <2> QED BY <2>1, <2>2
<1>10. ChannelTypes'
  BY <1>1 DEF ChannelTypes, Bytes, Requests
<1>11. Underway' /\ FiveBytesFirst' /\ NothingElse'
  BY <1>1 DEF Underway, FiveBytesFirst, NothingElse
<1> QED BY <1>8, <1>9, <1>10, <1>11

-----------------------------------------------------------------------------
LEMMA NextMInv == MInv /\ [Next]_vars => MInv'
<1> SUFFICES ASSUME MInv, [Next]_vars PROVE MInv'
  OBVIOUS
<1>1. CASE Next
  BY <1>1, AnswerKeeps, DeliverKeeps, TimePassesKeeps, BeginKeeps, TransmitKeeps, PassKeeps,
     FinishKeeps DEF Next, ModbusMasterTransaction
<1>2. CASE UNCHANGED vars
  <2>1. TypeOK' /\ OwnAnswerUnlessOwed' /\ Underway' /\ FiveBytesFirst'
    BY <1>2 DEF MInv, vars, sensorVars, TypeOK, OwnAnswerUnlessOwed, Underway, FiveBytesFirst
  <2>2. ChannelTypes' /\ NothingElse'
    BY <1>2 DEF MInv, vars, ChannelTypes, Bytes, Requests, NothingElse, OfThis
  <2> QED BY <2>1, <2>2 DEF MInv
<1> QED BY <1>1, <1>2

\* The variables keep their types: the count of bytes to come stays a byte's
\* whatever count an answer, damaged or not, announces.
THEOREM TypeCorrect == Spec => []TypeOK
<1>1. MInv => TypeOK
  BY DEF MInv
<1> QED BY <1>1, InitMInv, NextMInv, PTL DEF Spec

\* What readDistance() returns is the answer to its own request, or no value,
\* unless the sensor still owed an answer when the request was sent: for every
\* number of requests, of lost and damaged bytes, and every value of those.
THEOREM OwnAnswer == Spec => []OwnAnswerUnlessOwed
<1>1. MInv => OwnAnswerUnlessOwed
  BY DEF MInv
<1> QED BY <1>1, InitMInv, NextMInv, PTL DEF Spec
-----------------------------------------------------------------------------
(* No distance twice: answers come in the order of the requests, and an       *)
(* answer whose CRC is right has been received to its last byte.              *)

Elements(s) == {s[k] : k \in 1 .. Len(s)}

\* Byte c may come after byte b.
After(b, c) == b.of # 0 /\ c.of # 0 => b.of < c.of \/ (b.of = c.of /\ ~b.last)

Ordered(s) == \A j, k \in 1 .. Len(s) : j < k => After(s[j], s[k])
Before(s, t) == \A b \in Elements(s), c \in Elements(t) : After(b, c)
\* The requests in q are later than what the bytes in s answer.
Ahead(s, q) == \A b \in Elements(s), r \in Elements(q) : b.of < r.number

Increasing(q) == \A j, k \in 1 .. Len(q) : j < k => q[j].number < q[k].number

InOrder ==
  /\ Ordered(rx) /\ Ordered(bus) /\ Before(rx, bus) /\ Ahead(rx, asked) /\ Ahead(bus, asked)
  /\ pc = "wait" => Before(adu, rx) /\ Before(adu, bus) /\ Ahead(adu, asked)
  /\ Increasing(asked)

\* A request not yet sent is later than everything on its way.
NotYetSent ==
  pc = "send" => /\ \A b \in Elements(rx) \cup Elements(bus) : b.of < req
                 /\ \A r \in Elements(asked) : r.number < req

\* What is on its way does not answer what d answered.
Passed(d) ==
  /\ \A b \in Elements(rx) \cup Elements(bus) : b.of # 0 => d < b.of
  /\ pc = "wait" => \A b \in Elements(adu) : b.of # 0 => d < b.of
  /\ \A r \in Elements(asked) : d < r.number
  /\ pc = "send" => d < req

OrderInv == InOrder /\ NotYetSent
DistanceInv == NoDistanceAgain /\ \A d \in Elements(distances) : Passed(d)

LEMMA Taking ==
  ASSUME NEW S, NEW s \in Seq(S), s # << >>
  PROVE  /\ Head(s) \in Elements(s) /\ Elements(Tail(s)) \subseteq Elements(s)
         /\ Ordered(s) => /\ Ordered(Tail(s))
                          /\ \A c \in Elements(Tail(s)) : After(Head(s), c)
<1>1. Head(s) \in Elements(s) /\ Elements(Tail(s)) \subseteq Elements(s)
  BY HeadAndTail DEF Elements
<1>2. ASSUME Ordered(s) PROVE Ordered(Tail(s))
  <2>. SUFFICES ASSUME NEW j \in 1 .. Len(Tail(s)), NEW k \in 1 .. Len(Tail(s)), j < k
                PROVE  After(Tail(s)[j], Tail(s)[k])
    BY DEF Ordered
  <2>1. /\ j + 1 \in 1 .. Len(s) /\ k + 1 \in 1 .. Len(s) /\ j + 1 < k + 1
        /\ Tail(s)[j] = s[j + 1] /\ Tail(s)[k] = s[k + 1]
    BY HeadAndTail
  <2>. QED  BY <1>2, <2>1 DEF Ordered
<1>3. ASSUME Ordered(s), NEW k \in 1 .. Len(Tail(s)) PROVE After(Head(s), Tail(s)[k])
  <2>1. /\ 1 \in 1 .. Len(s) /\ k + 1 \in 1 .. Len(s) /\ 1 < k + 1
        /\ Head(s) = s[1] /\ Tail(s)[k] = s[k + 1]
    BY HeadAndTail
  <2>. QED  BY <1>3, <2>1 DEF Ordered
<1>. QED  BY <1>1, <1>2, <1>3 DEF Elements

LEMMA Adding ==
  ASSUME NEW S, NEW s \in Seq(S), NEW e \in S
  PROVE  /\ Elements(Append(s, e)) = Elements(s) \cup {e}
         /\ Ordered(s) /\ (\A b \in Elements(s) : After(b, e)) => Ordered(Append(s, e))
<1>1. /\ Len(s) \in Nat /\ Len(Append(s, e)) = Len(s) + 1 /\ Append(s, e)[Len(s) + 1] = e
      /\ \A k \in 1 .. Len(s) : Append(s, e)[k] = s[k]
  BY Appended
<1>2. \A k \in 1 .. Len(s) + 1 : k = Len(s) + 1 \/ k \in 1 .. Len(s)
  BY <1>1
<1>3. Elements(Append(s, e)) = Elements(s) \cup {e}
  <2>1. Len(s) + 1 \in 1 .. Len(s) + 1 /\ 1 .. Len(s) \subseteq 1 .. Len(s) + 1
    BY <1>1
  <2>. QED  BY <1>1, <1>2, <2>1 DEF Elements
<1>4. ASSUME Ordered(s), \A b \in Elements(s) : After(b, e)
      PROVE  Ordered(Append(s, e))
  <2>. SUFFICES ASSUME NEW j \in 1 .. Len(s) + 1, NEW k \in 1 .. Len(s) + 1, j < k
                PROVE  After(Append(s, e)[j], Append(s, e)[k])
    BY <1>1 DEF Ordered
  <2>1. j \in 1 .. Len(s) /\ Append(s, e)[j] = s[j]
    BY <1>1
  <2>. QED  BY <1>1, <1>2, <1>4, <2>1 DEF Ordered, Elements
<1>. QED  BY <1>3, <1>4

LEMMA ChannelSeqs ==
  ASSUME MInv
  PROVE  /\ rx \in Seq(Bytes) /\ bus \in Seq(Bytes) /\ adu \in Seq(Bytes)
         /\ asked \in Seq(Requests)
         /\ \A b \in Elements(rx) \cup Elements(bus) \cup Elements(adu) : b.of \in 0 .. req
         /\ \A r \in Elements(asked) : r.number \in 1 .. req
         /\ \A d \in Elements(distances) : d \in -1 .. req
         /\ req \in Nat
<1>1. /\ rx \in Seq(Bytes) /\ bus \in Seq(Bytes) /\ adu \in Seq(Bytes) /\ asked \in Seq(Requests)
      /\ distances \in Seq(-1 .. req) /\ req \in Nat
  BY ModbusAssumption DEF MInv, TypeOK, ChannelTypes, DIST_NO_VALUE
<1>2. ASSUME NEW S, NEW s \in Seq(S) PROVE Elements(s) \subseteq S
  BY ElementOf DEF Elements
<1>3. /\ Elements(rx) \subseteq Bytes /\ Elements(bus) \subseteq Bytes
      /\ Elements(adu) \subseteq Bytes /\ Elements(asked) \subseteq Requests
      /\ Elements(distances) \subseteq -1 .. req
  BY <1>1, <1>2
<1>4. (\A b \in Bytes : b.of \in 0 .. req) /\ (\A r \in Requests : r.number \in 1 .. req)
  BY DEF Bytes, Requests
<1>. QED  BY <1>1, <1>3, <1>4

LEMMA AskedMoves ==
  ASSUME NEW q \in Seq(Requests), Increasing(q)
  PROVE  /\ q # << >> => /\ Increasing(Tail(q))
                         /\ \A r \in Elements(Tail(q)) : Head(q).number < r.number
         /\ \A e \in Requests : (\A r \in Elements(q) : r.number < e.number)
                                  => Increasing(Append(q, e))
<1>1. ASSUME q # << >> PROVE Increasing(Tail(q))
  <2>. SUFFICES ASSUME NEW j \in 1 .. Len(Tail(q)), NEW k \in 1 .. Len(Tail(q)), j < k
                PROVE  Tail(q)[j].number < Tail(q)[k].number
    BY DEF Increasing
  <2>1. /\ j + 1 \in 1 .. Len(q) /\ k + 1 \in 1 .. Len(q) /\ j + 1 < k + 1
        /\ Tail(q)[j] = q[j + 1] /\ Tail(q)[k] = q[k + 1]
    BY <1>1, HeadAndTail
  <2>. QED  BY <2>1 DEF Increasing
<1>2. ASSUME q # << >>, NEW k \in 1 .. Len(Tail(q)) PROVE Head(q).number < Tail(q)[k].number
  <2>1. /\ 1 \in 1 .. Len(q) /\ k + 1 \in 1 .. Len(q) /\ 1 < k + 1
        /\ Head(q) = q[1] /\ Tail(q)[k] = q[k + 1]
    BY <1>2, HeadAndTail
  <2>. QED  BY <2>1 DEF Increasing
<1>3. ASSUME NEW e \in Requests, \A r \in Elements(q) : r.number < e.number
      PROVE  Increasing(Append(q, e))
  <2>1. /\ Len(q) \in Nat /\ Len(Append(q, e)) = Len(q) + 1 /\ Append(q, e)[Len(q) + 1] = e
        /\ \A k \in 1 .. Len(q) : Append(q, e)[k] = q[k]
    BY Appended
  <2>. SUFFICES ASSUME NEW j \in 1 .. Len(q) + 1, NEW k \in 1 .. Len(q) + 1, j < k
                PROVE  Append(q, e)[j].number < Append(q, e)[k].number
    BY <2>1 DEF Increasing
  <2>2. j \in 1 .. Len(q) /\ (k = Len(q) + 1 \/ k \in 1 .. Len(q))
    BY <2>1
  <2>. QED  BY <1>3, <2>1, <2>2 DEF Increasing, Elements
<1>. QED  BY <1>1, <1>2, <1>3 DEF Elements

\* An answer is in order: only its last byte is marked so.
LEMMA FrameOrdered ==
  ASSUME MInv, NEW r \in Requests, NEW exception \in BOOLEAN
  PROVE  /\ Ordered(Frame(r, exception))
         /\ \A b \in Elements(Frame(r, exception)) : b.of = r.number
<1>. DEFINE F == Frame(r, exception)
<1>1. F \in Seq(Bytes) /\ \A k \in 1 .. Len(F) : F[k].of = r.number
  BY FrameBytes, ModbusAssumption DEF MInv, TypeOK
<1>2. \A k \in 1 .. Len(F) : F[k].last = (k = Len(F))
  <2>1. \E values : /\ F = [k \in DOMAIN values |-> [of |-> r.number, place |-> k, val |-> values[k],
                                               last |-> k = Len(values)]]
                    /\ values \in Seq(Int)
    <3>. DEFINE text == [k \in 1 .. ReadQty + 2 |-> 0]
    <3>1. /\ SlaveID \in Int /\ ReadQty \in Nat /\ r.function \in Int
          /\ r.function + ExceptionBit \in Int
      BY ModbusAssumption DEF Requests, ExceptionBit, ku8MBReadHoldingRegisters,
                              ku8MBWriteSingleRegister
    <3>2. text \in Seq(Int)
      BY <3>1
    <3>3. /\ <<SlaveID, r.function + ExceptionBit, 2, 0, 0>> \in Seq(Int)
          /\ <<SlaveID, r.function, 0, 0, 0, 0, 0, 0>> \in Seq(Int)
          /\ <<SlaveID, r.function, ReadQty>> \in Seq(Int)
      BY <3>1
    <3>. HIDE DEF text
    <3>4. <<SlaveID, r.function, ReadQty>> \o text \in Seq(Int)
      BY <3>2, <3>3
    <3>. QED  BY <3>3, <3>4, Zenon DEF Frame, text
  <2>2. PICK values \in Seq(Int) :
          F = [k \in DOMAIN values |-> [of |-> r.number, place |-> k, val |-> values[k],
                                        last |-> k = Len(values)]]
    BY <2>1
  <2>. HIDE DEF F
  <2>3. DOMAIN F = 1 .. Len(values) /\ Len(values) \in Nat
    BY <2>2
  <2>4. Len(F) = Len(values)
    BY <1>1, <2>3
  <2>. QED  BY <2>2, <2>3, <2>4
<1>. HIDE DEF F
<1>3. Ordered(F)
  <2>. SUFFICES ASSUME NEW j \in 1 .. Len(F), NEW k \in 1 .. Len(F), j < k
                PROVE  After(F[j], F[k])
    BY DEF Ordered
  <2>1. j # Len(F)
    BY <1>1
  <2>. QED  BY <1>1, <1>2, <2>1 DEF After
<1>. QED  BY <1>1, <1>3 DEF F, Elements

-----------------------------------------------------------------------------
LEMMA AnswerInOrder ==
  ASSUME MInv, OrderInv, DistanceInv, Answer
  PROVE  OrderInv' /\ DistanceInv'
<1>. DEFINE r == Head(asked)
<1>1. PICK exception \in BOOLEAN : bus' = Frame(r, exception)
  BY DEF Answer
<1>2. /\ r \in Requests /\ r \in Elements(asked) /\ asked' = Tail(asked)
      /\ Elements(asked') \subseteq Elements(asked)
      /\ Increasing(asked') /\ \A q \in Elements(asked') : r.number < q.number
  BY ChannelSeqs, HeadAndTail, Taking, AskedMoves DEF Answer, OrderInv, InOrder
<1>. HIDE DEF r
<1>3. Ordered(bus') /\ \A b \in Elements(bus') : b.of = r.number
  BY <1>1, <1>2, FrameOrdered
<1>4. UNCHANGED <<rx, adu, pc, req, distances>>
  BY DEF Answer, sensorVars
<1>5. InOrder'
  <2>1. Ordered(rx) /\ Ahead(rx, asked) /\ (pc = "wait" => Before(adu, rx) /\ Ahead(adu, asked))
        /\ Before(rx, bus)
    BY DEF OrderInv, InOrder
  <2>2. Before(rx, bus') /\ (pc = "wait" => Before(adu, bus'))
    BY <1>2, <1>3, <2>1 DEF Before, After, Ahead
  <2>3. Ahead(rx, asked') /\ Ahead(bus', asked') /\ (pc = "wait" => Ahead(adu, asked'))
    BY <1>2, <1>3, <2>1 DEF Ahead
  <2>. QED  BY <1>2, <1>3, <1>4, <2>1, <2>2, <2>3 DEF InOrder
<1>6. NotYetSent'
  BY <1>2, <1>3, <1>4 DEF OrderInv, NotYetSent
<1>7. DistanceInv'
  BY <1>2, <1>3, <1>4 DEF DistanceInv, NoDistanceAgain, Passed
<1>. QED  BY <1>5, <1>6, <1>7 DEF OrderInv

LEMMA DeliverInOrder ==
  ASSUME MInv, OrderInv, DistanceInv, Deliver
  PROVE  OrderInv' /\ DistanceInv'
<1>1. /\ bus # << >> /\ bus' = Tail(bus) /\ UNCHANGED <<asked, adu, pc, req, distances>>
      /\ rx \in Seq(Bytes) /\ bus \in Seq(Bytes) /\ Head(bus) \in Bytes
  BY ChannelSeqs, HeadAndTail DEF Deliver, sensorVars
<1>2. /\ Head(bus) \in Elements(bus) /\ Elements(bus') \subseteq Elements(bus) /\ Ordered(bus')
      /\ \A c \in Elements(bus') : After(Head(bus), c)
  BY <1>1, Taking DEF OrderInv, InOrder
<1>3. \/ rx' = rx
      \/ \E b \in Bytes : rx' = Append(rx, b) /\ (b = Head(bus) \/ b.of = 0)
  <2>1. CASE \E v \in Altered : rx' = Append(rx, [of |-> 0, place |-> 0, val |-> v, last |-> FALSE])
    <3>1. PICK v \in Altered : rx' = Append(rx, [of |-> 0, place |-> 0, val |-> v, last |-> FALSE])
      BY <2>1
    <3>2. v \in 0 .. ByteSize - 1 /\ 0 \in 0 .. req /\ 0 \in Nat
      BY ChannelSeqs, ModbusAssumption
    <3>3. [of |-> 0, place |-> 0, val |-> v, last |-> FALSE] \in Bytes
      BY <3>2, Zenon DEF Bytes
    <3>. QED  BY <3>1, <3>3
  <2>. QED  BY <1>1, <2>1 DEF Deliver
<1>4. CASE rx' = rx
  BY <1>1, <1>2, <1>4 DEF OrderInv, InOrder, Before, Ahead, NotYetSent, DistanceInv,
                          NoDistanceAgain, Passed
<1>5. ASSUME NEW b \in Bytes, rx' = Append(rx, b), b = Head(bus) \/ b.of = 0
      PROVE  OrderInv' /\ DistanceInv'
  <2>1. \A c \in Elements(rx) : After(c, b)
    BY <1>2, <1>5 DEF OrderInv, InOrder, Before, After
  <2>2. Elements(rx') = Elements(rx) \cup {b} /\ Ordered(rx')
    BY <1>1, <1>5, <2>1, Adding DEF OrderInv, InOrder
  <2>3. \A c \in Elements(bus') : After(b, c)
    BY <1>2, <1>5 DEF After
  <2>4. Before(rx', bus')
    BY <1>2, <2>2, <2>3 DEF Before, OrderInv, InOrder
  <2>5. \A q \in Elements(asked) : b.of < q.number
    BY <1>2, <1>5, ChannelSeqs DEF OrderInv, InOrder, Ahead
  <2>6. Ahead(rx', asked') /\ Ahead(bus', asked')
    BY <1>1, <1>2, <2>2, <2>5 DEF OrderInv, InOrder, Ahead
  <2>7. pc = "wait" => /\ \A c \in Elements(adu) : After(c, b)
                       /\ Before(adu, rx') /\ Before(adu, bus') /\ Ahead(adu, asked')
    BY <1>1, <1>2, <1>5, <2>2 DEF OrderInv, InOrder, Ahead, Before, After
  <2>8. InOrder'
    BY <1>1, <1>2, <2>2, <2>4, <2>6, <2>7 DEF InOrder, OrderInv
  <2>9. NotYetSent'
    BY <1>1, <1>2, <1>5, <2>2, ChannelSeqs DEF OrderInv, NotYetSent, Underway, MInv
  <2>10. DistanceInv'
    BY <1>1, <1>2, <1>5, <2>2 DEF DistanceInv, NoDistanceAgain, Passed
  <2>. QED  BY <2>8, <2>9, <2>10 DEF OrderInv
<1>. QED  BY <1>3, <1>4, <1>5

\* What was received goes, and the new request is later than all others.
LEMMA BeginInOrder ==
  ASSUME MInv, OrderInv, DistanceInv, Begin
  PROVE  OrderInv' /\ DistanceInv'
<1>1. /\ pc = "idle" /\ pc' = "send" /\ rx' = << >> /\ req' = req + 1
      /\ UNCHANGED <<asked, bus, distances>>
  BY DEF Begin, sensorVars
<1>2. Elements(rx') = {} /\ Ordered(rx')
  BY <1>1 DEF Elements, Ordered
<1>3. InOrder'
  BY <1>1, <1>2 DEF OrderInv, InOrder, Before, Ahead
<1>4. NotYetSent'
  <2>1. /\ \A b \in Elements(bus) : b.of \in 0 .. req
        /\ \A r \in Elements(asked) : r.number \in 1 .. req
        /\ req \in Nat
    BY ChannelSeqs
  <2>. QED  BY <1>1, <1>2, <2>1 DEF NotYetSent
<1>5. DistanceInv'
  <2>1. req \in Nat /\ \A d \in Elements(distances) : d \in -1 .. req
    BY ChannelSeqs
  <2>2. ASSUME NEW d \in Elements(distances) PROVE Passed(d)'
    <3>1. Passed(d) /\ d < req'
      BY <1>1, <2>1 DEF DistanceInv
    <3>. QED  BY <1>1, <1>2, <3>1 DEF Passed
  <2>. QED  BY <1>1, <2>2 DEF DistanceInv, NoDistanceAgain
<1>. QED  BY <1>3, <1>4, <1>5 DEF OrderInv

LEMMA TransmitInOrder ==
  ASSUME MInv, OrderInv, DistanceInv, Transmit
  PROVE  OrderInv' /\ DistanceInv'
<1>. DEFINE e == [number |-> req, function |-> function]
<1>1. /\ pc = "send" /\ pc' = "wait" /\ adu' = << >> /\ UNCHANGED <<rx, bus, req, distances>>
      /\ asked' = asked \/ asked' = Append(asked, e)
  BY DEF Transmit, sensorVars
<1>2. e \in Requests /\ e.number = req
  BY <1>1, ChannelSeqs DEF MInv, Underway, ChannelTypes, Requests
<1>. HIDE DEF e
<1>3. Elements(adu') = {}
  BY <1>1 DEF Elements
<1>4. Increasing(asked') /\ Elements(asked') \subseteq Elements(asked) \cup {e}
  <2>1. asked \in Seq(Requests) /\ Increasing(asked) /\ \A r \in Elements(asked) : r.number < req
    BY <1>1, ChannelSeqs DEF OrderInv, InOrder, NotYetSent
  <2>2. Increasing(Append(asked, e)) /\ Elements(Append(asked, e)) = Elements(asked) \cup {e}
    BY <1>2, <2>1, AskedMoves, Adding
  <2>. QED  BY <1>1, <2>1, <2>2
<1>5. Ahead(rx, asked') /\ Ahead(bus, asked')
  BY <1>1, <1>2, <1>4 DEF OrderInv, InOrder, NotYetSent, Ahead
<1>6. InOrder'
  BY <1>1, <1>3, <1>4, <1>5 DEF OrderInv, InOrder, Before, Ahead
<1>7. NotYetSent'
  BY <1>1 DEF NotYetSent
<1>8. DistanceInv'
  BY <1>1, <1>2, <1>3, <1>4 DEF DistanceInv, NoDistanceAgain, Passed
<1>. QED  BY <1>6, <1>7, <1>8 DEF OrderInv

LEMMA TimePassesInOrder ==
  ASSUME MInv, OrderInv, DistanceInv, TimePasses
  PROVE  OrderInv' /\ DistanceInv'
BY DEF TimePasses, sensorVars, OrderInv, InOrder, NotYetSent, DistanceInv, NoDistanceAgain, Passed

\* A byte goes from the receive buffer into u8ModbusADU.
LEMMA PassInOrder ==
  ASSUME MInv, OrderInv, DistanceInv, Pass
  PROVE  OrderInv' /\ DistanceInv'
<1>1. /\ pc = "wait" /\ UNCHANGED <<asked, bus, pc, req, distances>>
      /\ IF rx = << >> THEN UNCHANGED <<rx, adu>>
                       ELSE rx' = Tail(rx) /\ adu' = Append(adu, Head(rx))
      /\ rx \in Seq(Bytes) /\ adu \in Seq(Bytes)
  BY ChannelSeqs DEF Pass, Looping, sensorVars
<1>2. CASE rx = << >>
  BY <1>1, <1>2 DEF OrderInv, InOrder, NotYetSent, DistanceInv, NoDistanceAgain, Passed
<1>3. CASE rx # << >>
  <2>1. /\ Head(rx) \in Elements(rx) /\ Elements(rx') \subseteq Elements(rx) /\ Ordered(rx')
        /\ \A c \in Elements(rx') : After(Head(rx), c)
    BY <1>1, <1>3, Taking DEF OrderInv, InOrder
  <2>2. Elements(adu') = Elements(adu) \cup {Head(rx)}
    <3>1. Head(rx) \in Bytes
      BY <1>1, <1>3, HeadAndTail
    <3>2. adu \in Seq(Bytes) /\ adu' = Append(adu, Head(rx))
      BY <1>1, <1>3
    <3>. QED  BY <3>1, <3>2, Adding
  <2>3. /\ Before(adu, rx) /\ Before(adu, bus) /\ Ahead(adu, asked)
        /\ Before(rx, bus) /\ Ahead(rx, asked)
    BY <1>1 DEF OrderInv, InOrder
  <2>4. /\ Before(adu', rx') /\ Before(adu', bus) /\ Ahead(adu', asked)
        /\ Before(rx', bus) /\ Ahead(rx', asked)
    BY <2>1, <2>2, <2>3 DEF Before, Ahead
  <2>5. InOrder'
    BY <1>1, <2>1, <2>4 DEF OrderInv, InOrder
  <2>6. NotYetSent'
    BY <1>1 DEF NotYetSent
  <2>7. DistanceInv'
    BY <1>1, <2>1, <2>2 DEF DistanceInv, NoDistanceAgain, Passed
  <2>. QED  BY <2>5, <2>6, <2>7 DEF OrderInv
<1>. QED  BY <1>2, <1>3

\* A new distance is later than all before, and what is on its way is later yet:
\* the answer it was read from has no byte to come.
LEMMA FinishInOrder ==
  ASSUME MInv, OrderInv, DistanceInv, Finish
  PROVE  OrderInv' /\ DistanceInv'
<1>. DEFINE result == IF status = "Success" /\ Len(adu) >= 5 /\ ~CRCRight(adu)
                      THEN "InvalidCRC" ELSE status
            isRead == function = ku8MBReadHoldingRegisters
<1>0. PICK d : d = Distance(result, responseBuffer')
  OBVIOUS
<1>1. /\ UNCHANGED <<asked, bus, rx, req, adu>> /\ pc = "wait" /\ pc' \in {"idle", "halted"}
      /\ ~Looping
      /\ responseBuffer' = IF result = "Success" /\ isRead THEN adu[4].of ELSE responseBuffer
      /\ distances' = IF isRead THEN Append(distances, d) ELSE distances
  BY <1>0 DEF Finish
<1>2. OrderInv'
  BY <1>1 DEF OrderInv, InOrder, NotYetSent
<1>3. result = "Success" => Len(adu) >= 5 /\ CRCRight(adu)
  <2>1. Len(adu) \in Nat /\ bytesLeft \in Nat
    BY ModbusAssumption DEF MInv, TypeOK, ChannelTypes
  <2>2. status = "Success" => bytesLeft = 0
    BY <1>1, <2>1 DEF Looping
  <2>3. Len(adu) < 5 => bytesLeft = 8 - Len(adu)
    BY <1>1 DEF MInv, FiveBytesFirst
  <2>. QED  BY <2>1, <2>2, <2>3
<1>4. ASSUME result = "Success", isRead
      PROVE  /\ \E b \in Elements(adu) : b.of = d /\ b.of # 0 /\ b.last
             /\ d \in 0 .. req
  <2>1. adu \in Seq(Bytes) /\ Len(adu) \in Nat /\ Len(adu) >= 5 /\ CRCRight(adu)
    BY <1>3, <1>4 DEF MInv, ChannelTypes
  <2>2. Len(adu) \in 1 .. Len(adu) /\ 4 \in 1 .. Len(adu) /\ DOMAIN adu = 1 .. Len(adu)
    BY <2>1
  <2>3. d = adu[4].of
    BY <1>0, <1>1, <1>4 DEF Distance
  <2>4. adu[Len(adu)].of = d /\ adu[Len(adu)].of # 0 /\ adu[Len(adu)].last
    BY <2>1, <2>2, <2>3 DEF CRCRight
  <2>5. adu[Len(adu)] \in Elements(adu)
    BY <2>2 DEF Elements
  <2>. QED  BY <2>4, <2>5, ChannelSeqs
<1>5. ~(result = "Success") => d = -1
  BY <1>0 DEF Distance, DIST_NO_VALUE
<1>. HIDE DEF result
<1>6. d \in -1 .. req /\ req \in Nat /\ distances \in Seq(-1 .. req)
  <2>1. req \in Nat /\ distances \in Seq(-1 .. req) /\ responseBuffer \in 0 .. req
    BY ChannelSeqs DEF DIST_NO_VALUE, MInv, TypeOK
  <2>2. CASE result = "Success" /\ isRead
    BY <1>4, <2>1, <2>2
  <2>3. CASE ~(result = "Success" /\ isRead)
    BY <1>0, <1>1, <2>1, <2>3 DEF Distance, DIST_NO_VALUE
  <2>. QED  BY <2>1, <2>2, <2>3
<1>. HIDE DEF isRead
<1>7. ASSUME NEW e \in Elements(distances) PROVE Passed(e)'
  BY <1>1 DEF DistanceInv, Passed
<1>8. CASE ~isRead
  BY <1>1, <1>2, <1>7, <1>8 DEF DistanceInv, NoDistanceAgain
<1>9. CASE isRead
  <2>1. d # -1 => \E b \in Elements(adu) : b.of = d /\ b.of # 0 /\ b.last
    BY <1>4, <1>5, <1>9
  <2>2. Passed(d)'
    <3>1. CASE d = -1
      BY <1>1, <3>1, ChannelSeqs DEF Passed
    <3>2. CASE d # -1
      <4>1. PICK b \in Elements(adu) : b.of = d /\ b.of # 0 /\ b.last
        BY <2>1, <3>2
      <4>2. Before(adu, rx) /\ Before(adu, bus) /\ Ahead(adu, asked)
        BY <1>1 DEF OrderInv, InOrder
      <4>3. /\ \A c \in Elements(rx) \cup Elements(bus) : c.of # 0 => d < c.of
            /\ \A r \in Elements(asked) : d < r.number
        BY <4>1, <4>2 DEF Before, Ahead, After
      <4>. QED  BY <1>1, <4>3 DEF Passed
    <3>. QED  BY <3>1, <3>2
  <2>3. /\ Len(distances) \in Nat /\ Len(distances') = Len(distances) + 1
        /\ distances'[Len(distances) + 1] = d
        /\ \A k \in 1 .. Len(distances) : distances'[k] = distances[k]
        /\ Elements(distances') = Elements(distances) \cup {d}
    BY <1>1, <1>6, <1>9, Appended, Adding
  <2>4. ASSUME NEW i \in 1 .. Len(distances), d # -1 PROVE distances[i] < d
    <3>1. PICK b \in Elements(adu) : b.of = d /\ b.of # 0 /\ b.last
      BY <2>1, <2>4
    <3>2. Passed(distances[i])
      BY DEF DistanceInv, Elements
    <3>. QED  BY <1>1, <3>1, <3>2 DEF Passed
  <2>5. NoDistanceAgain'
    <3>. SUFFICES ASSUME NEW i \in 1 .. Len(distances) + 1, NEW j \in 1 .. Len(distances) + 1,
                         i < j, distances'[i] # -1, distances'[j] # -1
                  PROVE  distances'[i] < distances'[j]
      <4>1. DOMAIN distances' = 1 .. Len(distances) + 1
        BY <1>1, <1>6, <1>9, <2>3
      <4>. QED  BY <4>1 DEF NoDistanceAgain, DIST_NO_VALUE
    <3>1. i \in 1 .. Len(distances) /\ (j = Len(distances) + 1 \/ j \in 1 .. Len(distances))
      BY <2>3
    <3>2. CASE j = Len(distances) + 1
      BY <2>3, <2>4, <3>1, <3>2
    <3>3. CASE j \in 1 .. Len(distances)
      <4>1. i \in DOMAIN distances /\ j \in DOMAIN distances
        BY <1>6, <3>1, <3>3
      <4>. QED  BY <2>3, <3>1, <3>3, <4>1 DEF DistanceInv, NoDistanceAgain, DIST_NO_VALUE
    <3>. QED  BY <3>1, <3>2, <3>3
  <2>. QED  BY <1>2, <1>7, <2>2, <2>3, <2>5 DEF DistanceInv
<1>. QED  BY <1>8, <1>9

LEMMA InitInOrder == Init => OrderInv /\ DistanceInv
BY DEF Init, OrderInv, InOrder, NotYetSent, DistanceInv, NoDistanceAgain, Elements, Ordered,
       Before, Ahead, Increasing

LEMMA NextInOrder ==
  MInv /\ OrderInv /\ DistanceInv /\ [Next]_vars => OrderInv' /\ DistanceInv'
<1>. SUFFICES ASSUME MInv, OrderInv, DistanceInv, [Next]_vars PROVE OrderInv' /\ DistanceInv'
  OBVIOUS
<1>1. CASE Next
  BY <1>1, AnswerInOrder, DeliverInOrder, TimePassesInOrder, BeginInOrder, TransmitInOrder,
     PassInOrder, FinishInOrder DEF Next, ModbusMasterTransaction
<1>2. CASE UNCHANGED vars
  BY <1>2 DEF vars, sensorVars, OrderInv, InOrder, NotYetSent, DistanceInv, NoDistanceAgain,
              Passed
<1>. QED  BY <1>1, <1>2

\* No answer is returned as a distance twice, nor after a later one, however many
\* answers are late and whatever is lost or damaged.
THEOREM DistancesInOrder == Spec => []NoDistanceAgain
<1>1. DistanceInv => NoDistanceAgain
  BY DEF DistanceInv
<1>. QED  BY <1>1, InitMInv, NextMInv, InitInOrder, NextInOrder, PTL DEF Spec
=============================================================================
