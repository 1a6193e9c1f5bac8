--------------------------- MODULE RawxLoggerProofs ---------------------------
(***************************************************************************)
(* RawxLogger for every stream of messages and every size of the buffers:  *)
(* no byte that SerialBuffer took is lost, doubled or put out of order;    *)
(* the alarm comes within the interval and the lag of the RTC, whatever    *)
(* the hour; a file it ends ends between two messages, and without faults  *)
(* with the message under way.                                             *)
(***************************************************************************)
EXTENDS RawxLogger, SequenceTheorems, TLAPS

\* What the receiver sends, and what may come out of the line.
Sent == UNION {{Byte(n, i) : i \in 1 .. Size(n)} : n \in 1 .. Len(Messages)}
Bytes == Noise \cup Sent

\* The histories and the buffers hold bytes, and start_rawx, which clears
\* bufferPointer, finds it clear: every way there has written the rest.
BufferInv ==
  /\ msg \in 0 .. Len(Messages) /\ pos \in 0 .. Size(msg)
  /\ SerialBuffer \in Seq(Bytes) /\ serBuffer \in Seq(Bytes)
  /\ card \in Seq(Bytes) /\ stored \in Seq(Bytes)
  /\ Len(serBuffer) < SDpacket /\ Len(SerialBuffer) <= BufferSize
  /\ loop_step \in {"init", "set_alarm", "start_rawx", "open_file", "battery"} => serBuffer = << >>

BInv == BufferInv /\ EveryByteOnce

-----------------------------------------------------------------------------
(* Messages *)

\* What is where in two parts.
LEMMA Joined ==
  ASSUME NEW S, NEW x \in Seq(S), NEW y \in Seq(S)
  PROVE  /\ x \o y \in Seq(S) /\ Len(x \o y) = Len(x) + Len(y)
         /\ \A i \in 1 .. Len(x) : (x \o y)[i] = x[i]
         /\ \A i \in Len(x) + 1 .. Len(x) + Len(y) : (x \o y)[i] = y[i - Len(x)]
<1>1. /\ x \o y \in Seq(S) /\ Len(x \o y) = Len(x) + Len(y)
      /\ \A i \in 1 .. Len(x) + Len(y) :
           (x \o y)[i] = IF i <= Len(x) THEN x[i] ELSE y[i - Len(x)]
  BY ConcatProperties, Zenon
<1>2. Len(x) \in Nat /\ Len(y) \in Nat
  OBVIOUS
<1>3. ASSUME NEW i \in 1 .. Len(x) PROVE (x \o y)[i] = x[i]
  BY <1>1, <1>2
<1>4. ASSUME NEW i \in Len(x) + 1 .. Len(x) + Len(y) PROVE (x \o y)[i] = y[i - Len(x)]
  <2>1. i \in 1 .. Len(x) + Len(y) /\ ~(i <= Len(x))
    BY <1>2
  <2>. QED  BY <1>1, <2>1
<1>. QED  BY <1>1, <1>3, <1>4

\* The bytes of a UBX message, and of an NMEA message.
LEMMA UbxKinds ==
  ASSUME NEW n \in 1 .. Len(Messages), Messages[n].type = "UBX"
  PROVE  /\ Messages[n].len \in Nat /\ Size(n) = Messages[n].len + 8
         /\ Kinds(Messages[n])[1] = "B5" /\ Kinds(Messages[n])[2] = "62"
         /\ \A i \in 3 .. Size(n) : Kinds(Messages[n])[i] = "data"
<1>. DEFINE m == Messages[n]
            text == [i \in 1 .. m.len |-> "data"] \o <<"data", "data">>
            front == <<"B5", "62", "data", "data", "data", "data">>
            all == {"B5", "62", "data"}
<1>1. m \in [type : {"UBX", "NMEA"}, len : Nat]
  BY RawxAssumption, ElementOfSeq
<1>2. m.len \in Nat
  BY <1>1
<1>3. Kinds(m) = (front \o [i \in 1 .. m.len |-> "data"]) \o <<"data", "data">>
  BY DEF Kinds
<1>. HIDE DEF m
<1>. DEFINE mid == [i \in 1 .. m.len |-> "data"]
            end == <<"data", "data">>
<1>4. /\ mid \in Seq(all) /\ Len(mid) = m.len /\ \A i \in 1 .. m.len : mid[i] = "data"
      /\ end \in Seq(all) /\ Len(end) = 2 /\ \A i \in 1 .. 2 : end[i] = "data"
  BY <1>2
<1>5. /\ front \in Seq(all) /\ Len(front) = 6 /\ front[1] = "B5" /\ front[2] = "62"
      /\ \A i \in 3 .. 6 : front[i] = "data"
  OBVIOUS
<1>6. text = mid \o end /\ Kinds(m) = (front \o mid) \o end
  BY <1>3
<1>. HIDE DEF front, text, mid, end, all
<1>7. Kinds(m) = front \o text
  <2>1. (front \o mid) \o end = front \o (mid \o end)
    <3>1. front \in Seq(all) /\ mid \in Seq(all) /\ end \in Seq(all)
      BY <1>4, <1>5
    <3>. QED  BY <3>1, ConcatAssociative, SMTT(60)
  <2>. QED  BY <1>6, <2>1
<1>8. /\ text \in Seq(all) /\ Len(text) = m.len + 2
      /\ \A i \in 1 .. m.len : text[i] = mid[i]
      /\ \A i \in m.len + 1 .. m.len + 2 : text[i] = end[i - m.len]
  <2>1. 2 \in Nat
    OBVIOUS
  <2>2. /\ mid \o end \in Seq(all) /\ Len(mid \o end) = m.len + 2
        /\ \A i \in 1 .. m.len : (mid \o end)[i] = mid[i]
        /\ \A i \in m.len + 1 .. m.len + 2 : (mid \o end)[i] = end[i - m.len]
    <3>1. /\ mid \in Seq(all) /\ end \in Seq(all) /\ Len(mid) = m.len /\ Len(end) = 2
          /\ m.len \in Nat
      BY <1>2, <1>4
    <3>2. /\ mid \o end \in Seq(all) /\ Len(mid \o end) = Len(mid) + Len(end)
          /\ \A i \in 1 .. Len(mid) : (mid \o end)[i] = mid[i]
          /\ \A i \in Len(mid) + 1 .. Len(mid) + Len(end) : (mid \o end)[i] = end[i - Len(mid)]
      BY <3>1, Joined
    <3>. QED  BY <2>1, <3>1, <3>2
  <2>. QED  BY <1>6, <2>2
<1>9. ASSUME NEW i \in 1 .. m.len + 2 PROVE text[i] = "data"
  <2>1. CASE i <= m.len
    BY <1>2, <1>4, <1>8, <2>1
  <2>2. CASE ~(i <= m.len)
    <3>1. i \in m.len + 1 .. m.len + 2 /\ i - m.len \in 1 .. 2
      BY <1>2, <2>2
    <3>. QED  BY <1>4, <1>8, <3>1
  <2>. QED  BY <2>1, <2>2
<1>. DEFINE b == m.len + 2
<1>10. /\ Len(Kinds(m)) = 6 + b /\ b \in Nat
       /\ \A i \in 1 .. 6 : Kinds(m)[i] = front[i]
       /\ \A i \in 6 + 1 .. 6 + b : Kinds(m)[i] = text[i - 6]
  <2>1. 6 \in Nat /\ b \in Nat /\ Len(text) = b
    BY <1>2, <1>8
  <2>. HIDE DEF b
  <2>2. /\ Len(front \o text) = 6 + b
        /\ \A i \in 1 .. 6 : (front \o text)[i] = front[i]
        /\ \A i \in 6 + 1 .. 6 + b : (front \o text)[i] = text[i - 6]
    <3>1. front \in Seq(all) /\ text \in Seq(all) /\ Len(front) = 6
      BY <1>5, <1>8
    <3>2. /\ front \o text \in Seq(all) /\ Len(front \o text) = Len(front) + Len(text)
          /\ \A i \in 1 .. Len(front) : (front \o text)[i] = front[i]
          /\ \A i \in Len(front) + 1 .. Len(front) + Len(text) : (front \o text)[i] = text[i - Len(front)]
      BY <3>1, Joined
    <3>. QED  BY <2>1, <3>1, <3>2
  <2>. QED  BY <1>7, <2>1, <2>2
<1>12. Size(n) = m.len + 8
  BY <1>2, <1>10, SMTT(30) DEF Size, m
<1>13. Kinds(m)[1] = "B5" /\ Kinds(m)[2] = "62"
  BY <1>5, <1>10
<1>14. ASSUME NEW i \in 3 .. m.len + 8 PROVE Kinds(m)[i] = "data"
  <2>1. CASE i <= 6
    <3>1. i \in 1 .. 6 /\ i \in 3 .. 6
      BY <1>2, <2>1
    <3>. QED  BY <1>5, <1>10, <3>1
  <2>2. CASE ~(i <= 6)
    <3>1. i - 6 \in 1 .. m.len + 2 /\ i \in 6 + 1 .. 6 + b
      BY <1>2, <2>2
    <3>2. Kinds(m)[i] = text[i - 6]
      BY <1>10, <3>1
    <3>. QED  BY <1>9, <3>1, <3>2
  <2>. QED  BY <2>1, <2>2
<1>. QED  BY <1>2, <1>12, <1>13, <1>14 DEF m

LEMMA NmeaKinds ==
  ASSUME NEW n \in 1 .. Len(Messages), Messages[n].type = "NMEA"
  PROVE  /\ Messages[n].len \in Nat /\ Size(n) = Messages[n].len + 6
         /\ Kinds(Messages[n])[1] = "$"
         /\ \A i \in 2 .. Messages[n].len + 1 : Kinds(Messages[n])[i] = "data"
         /\ Kinds(Messages[n])[Messages[n].len + 2] = "*"
         /\ Kinds(Messages[n])[Messages[n].len + 3] = "data"
         /\ Kinds(Messages[n])[Messages[n].len + 4] = "data"
         /\ Kinds(Messages[n])[Messages[n].len + 5] = "CR"
         /\ Kinds(Messages[n])[Messages[n].len + 6] = "LF"
<1>. DEFINE m == Messages[n]
            text == [i \in 1 .. m.len |-> "data"]
            front == <<"$">> \o text
            back == <<"*", "data", "data", "CR", "LF">>
            all == {"$", "*", "data", "CR", "LF"}
            L == 1 + m.len
<1>1. m \in [type : {"UBX", "NMEA"}, len : Nat]
  BY RawxAssumption, ElementOfSeq
<1>2. m.len \in Nat /\ L \in Nat
  BY <1>1
<1>3. Kinds(m) = front \o back
  BY DEF Kinds
<1>. HIDE DEF m
<1>4. text \in Seq(all) /\ Len(text) = m.len /\ \A i \in 1 .. m.len : text[i] = "data"
  BY <1>2
<1>5. <<"$">> \in Seq(all) /\ Len(<<"$">>) = 1 /\ <<"$">>[1] = "$"
  OBVIOUS
<1>. HIDE DEF text
<1>6. front \in Seq(all) /\ Len(front) = L
  BY <1>4, <1>5
<1>7. front[1] = "$" /\ \A i \in 2 .. L : front[i] = "data"
  BY <1>2, <1>4, <1>5
<1>8. /\ back \in Seq(all) /\ Len(back) = 5
      /\ back[1] = "*" /\ back[2] = "data" /\ back[3] = "data" /\ back[4] = "CR" /\ back[5] = "LF"
  OBVIOUS
<1>. HIDE DEF front, back, all
<1>. HIDE DEF L
<1>9. 5 \in Nat
  OBVIOUS
<1>10. /\ Len(Kinds(m)) = L + 5
       /\ \A i \in 1 .. L : Kinds(m)[i] = front[i]
       /\ \A i \in L + 1 .. L + 5 : Kinds(m)[i] = back[i - L]
  <2>1. /\ Len(front \o back) = L + 5
        /\ \A i \in 1 .. L : (front \o back)[i] = front[i]
        /\ \A i \in L + 1 .. L + 5 : (front \o back)[i] = back[i - L]
    <3>1. front \in Seq(all) /\ back \in Seq(all) /\ Len(front) = L /\ Len(back) = 5
      BY <1>6, <1>8
    <3>2. /\ front \o back \in Seq(all) /\ Len(front \o back) = Len(front) + Len(back)
          /\ \A i \in 1 .. Len(front) : (front \o back)[i] = front[i]
          /\ \A i \in Len(front) + 1 .. Len(front) + Len(back) : (front \o back)[i] = back[i - Len(front)]
      BY <3>1, Joined
    <3>. QED  BY <1>2, <1>9, <3>1, <3>2
  <2>. QED  BY <1>3, <2>1
<1>11. L = 1 + m.len
  BY DEF L
<1>12. Size(n) = m.len + 6
  BY <1>2, <1>10, <1>11 DEF Size, m
<1>13. Kinds(m)[1] = "$" /\ \A i \in 2 .. m.len + 1 : Kinds(m)[i] = "data"
  <2>1. 1 \in 1 .. L
    BY <1>2, <1>11
  <2>2. ASSUME NEW i \in 2 .. m.len + 1 PROVE Kinds(m)[i] = "data"
    <3>1. i \in 1 .. L /\ i \in 2 .. L
      BY <1>2, <1>11
    <3>. QED  BY <1>7, <1>10, <3>1
  <2>. QED  BY <1>7, <1>10, <2>1, <2>2
<1>14. ASSUME NEW j \in 1 .. 5 PROVE Kinds(m)[m.len + 1 + j] = back[j]
  <2>. DEFINE i == m.len + 1 + j
  <2>1. i \in L + 1 .. L + 5 /\ i - L = j
    BY <1>2, <1>11
  <2>. HIDE DEF i
  <2>2. Kinds(m)[i] = back[i - L]
    BY <1>10, <2>1
  <2>. QED  BY <2>1, <2>2 DEF i
<1>15. /\ Kinds(m)[m.len + 2] = back[1] /\ Kinds(m)[m.len + 3] = back[2]
       /\ Kinds(m)[m.len + 4] = back[3] /\ Kinds(m)[m.len + 5] = back[4]
       /\ Kinds(m)[m.len + 6] = back[5]
  <2>1. /\ m.len + 1 + 1 = m.len + 2 /\ m.len + 1 + 2 = m.len + 3 /\ m.len + 1 + 3 = m.len + 4
        /\ m.len + 1 + 4 = m.len + 5 /\ m.len + 1 + 5 = m.len + 6
    <3>1. \A k \in Nat : /\ k + 1 + 1 = k + 2 /\ k + 1 + 2 = k + 3 /\ k + 1 + 3 = k + 4
                        /\ k + 1 + 4 = k + 5 /\ k + 1 + 5 = k + 6
      OBVIOUS
    <3>. QED  BY <1>2, <3>1, Zenon
  <2>2. /\ Kinds(m)[m.len + 1 + 1] = back[1] /\ Kinds(m)[m.len + 1 + 2] = back[2]
        /\ Kinds(m)[m.len + 1 + 3] = back[3] /\ Kinds(m)[m.len + 1 + 4] = back[4]
        /\ Kinds(m)[m.len + 1 + 5] = back[5]
    BY <1>14
  <2>. QED  BY <2>1, <2>2
<1>. QED  BY <1>2, <1>8, <1>12, <1>13, <1>15 DEF m

\* A message has at least the bytes around its payload or text; its last byte is
\* the only LF there is, and its first the only one that begins a message.
LEMMA KindsShape ==
  ASSUME NEW n \in 1 .. Len(Messages)
  PROVE  /\ Messages[n].type \in {"UBX", "NMEA"} /\ Messages[n].len \in Nat
         /\ Size(n) = Messages[n].len + (IF Messages[n].type = "UBX" THEN 8 ELSE 6)
         /\ \A i \in 1 .. Size(n) :
              /\ Kinds(Messages[n])[i] = "LF" => i = Size(n)
              /\ Kinds(Messages[n])[i] = "B5" => i = 1 /\ Messages[n].type = "UBX"
              /\ Kinds(Messages[n])[i] = "$" => i = 1 /\ Messages[n].type = "NMEA"
<1>1. Messages[n] \in [type : {"UBX", "NMEA"}, len : Nat]
  BY RawxAssumption, ElementOfSeq
<1>2. CASE Messages[n].type = "UBX"
  BY <1>2, UbxKinds
<1>3. CASE Messages[n].type = "NMEA"
  <2>. DEFINE len == Messages[n].len
              kind(i) == Kinds(Messages[n])[i]
  <2>1. /\ len \in Nat /\ Size(n) = len + 6 /\ kind(1) = "$"
        /\ \A i \in 2 .. len + 1 : kind(i) = "data"
        /\ kind(len + 2) = "*" /\ kind(len + 3) = "data" /\ kind(len + 4) = "data"
        /\ kind(len + 5) = "CR" /\ kind(len + 6) = "LF"
    BY <1>3, NmeaKinds
  <2>. HIDE DEF len, kind
  <2>2. ASSUME NEW i \in 1 .. len + 6
        PROVE  /\ kind(i) = "LF" => i = len + 6
               /\ kind(i) # "B5"
               /\ kind(i) = "$" => i = 1
    <3>1. \/ i = 1 \/ i \in 2 .. len + 1 \/ i = len + 2 \/ i = len + 3 \/ i = len + 4
          \/ i = len + 5 \/ i = len + 6
      BY <2>1
    <3>. QED  BY <2>1, <3>1
  <2>3. Size(n) = Messages[n].len + (IF Messages[n].type = "UBX" THEN 8 ELSE 6)
    BY <1>3, <2>1 DEF len
  <2>. QED  BY <1>3, <2>1, <2>2, <2>3 DEF len, kind
<1>. QED  BY <1>1, <1>2, <1>3

LEMMA SizeFacts ==
  ASSUME NEW n \in 1 .. Len(Messages)
  PROVE  Size(n) \in Nat /\ Size(n) >= 6
BY KindsShape

-----------------------------------------------------------------------------
(* Sequences *)

\* A byte appended to the last part is appended to the whole.
LEMMA AppendLast ==
  ASSUME NEW S, NEW p \in Seq(S), NEW r \in Seq(S), NEW c \in S
  PROVE  /\ Append(p, c) \in Seq(S) /\ Append(r, c) \in Seq(S)
         /\ p \o Append(r, c) = Append(p \o r, c)
<1>1. p \o r \in Seq(S) /\ <<c>> \in Seq(S)
  BY ConcatProperties
<1>2. Append(p \o r, c) = (p \o r) \o <<c>> /\ Append(r, c) = r \o <<c>>
  BY <1>1, AppendIsConcat
<1>. QED  BY <1>1, <1>2, ConcatAssociative, AppendProperties

\* The head of a last part may be moved to the end of the part before it.
LEMMA MoveHead ==
  ASSUME NEW S, NEW x \in Seq(S), NEW r \in Seq(S), r # << >>
  PROVE  /\ Head(r) \in S /\ Tail(r) \in Seq(S) /\ Len(Tail(r)) = Len(r) - 1
         /\ x \o r = Append(x, Head(r)) \o Tail(r)
<1>1. Head(r) \in S /\ Tail(r) \in Seq(S) /\ Len(Tail(r)) = Len(r) - 1 /\ <<Head(r)>> \in Seq(S)
  OBVIOUS
<1>2. r = <<Head(r)>> \o Tail(r)
  OBVIOUS
<1>3. x \o (<<Head(r)>> \o Tail(r)) = (x \o <<Head(r)>>) \o Tail(r)
  BY <1>1, ConcatAssociative
<1>4. x \o <<Head(r)>> = Append(x, Head(r))
  BY <1>1, AppendIsConcat
<1>. QED  BY <1>1, <1>2, <1>3, <1>4

\* The middle part may be joined to the first.
LEMMA JoinMiddle ==
  ASSUME NEW S, NEW p \in Seq(S), NEW q \in Seq(S)
  PROVE  /\ p \o q \in Seq(S)
         /\ (p \o q) \o << >> = p \o q
  BY ConcatProperties, ConcatEmptySeq

-----------------------------------------------------------------------------
(* The steps that move bytes *)

\* The environment: the byte that arrives is one of Bytes.
LEMMA StoreCharKeeps ==
  ASSUME BInv, NEW c \in Bytes, StoreChar(c), UNCHANGED <<card, serBuffer>>
  PROVE  /\ SerialBuffer' \in Seq(Bytes) /\ Len(SerialBuffer') <= BufferSize
         /\ stored' \in Seq(Bytes)
         /\ EveryByteOnce'
<1>1. card \o serBuffer \in Seq(Bytes)
  BY ConcatProperties DEF BInv, BufferInv
<1>2. CASE Len(SerialBuffer) < BufferSize
  <2>1. Len(SerialBuffer') = Len(SerialBuffer) + 1 /\ Len(SerialBuffer) \in Nat
    BY <1>2, AppendProperties DEF StoreChar, BInv, BufferInv
  <2>2. /\ SerialBuffer' = Append(SerialBuffer, c) /\ stored' = Append(stored, c)
        /\ SerialBuffer \in Seq(Bytes) /\ stored \in Seq(Bytes)
        /\ stored = (card \o serBuffer) \o SerialBuffer
    BY <1>2 DEF StoreChar, BInv, BufferInv, EveryByteOnce
  <2>. DEFINE x == card \o serBuffer
  <2>3. x \in Seq(Bytes) /\ stored = x \o SerialBuffer
    BY <1>1, <2>2
  <2>. HIDE DEF x
  <2>4. /\ Append(stored, c) \in Seq(Bytes) /\ Append(SerialBuffer, c) \in Seq(Bytes)
        /\ x \o Append(SerialBuffer, c) = Append(x \o SerialBuffer, c)
    BY <2>2, <2>3, AppendLast
  <2>. QED  BY <1>2, <2>1, <2>2, <2>3, <2>4, RawxAssumption DEF EveryByteOnce, x
<1>3. CASE ~(Len(SerialBuffer) < BufferSize)
  BY <1>3 DEF StoreChar, BInv, BufferInv, EveryByteOnce
<1>. QED  BY <1>2, <1>3

\* loop(): a byte goes from SerialBuffer into serBuffer or onto the card.
LEMMA TakeByteKeeps ==
  ASSUME BInv, SerialBuffer # << >>, TakeByte, UNCHANGED stored
  PROVE  /\ SerialBuffer' \in Seq(Bytes) /\ Len(SerialBuffer') <= BufferSize
         /\ serBuffer' \in Seq(Bytes) /\ Len(serBuffer') < SDpacket
         /\ card' \in Seq(Bytes)
         /\ EveryByteOnce'
<1>. DEFINE buffer == Append(serBuffer, Head(SerialBuffer))
<1>1. /\ SerialBuffer' \in Seq(Bytes) /\ buffer \in Seq(Bytes)
      /\ Len(SerialBuffer') = Len(SerialBuffer) - 1 /\ Len(buffer) = Len(serBuffer) + 1
      /\ stored = card \o buffer \o SerialBuffer'
  <2>1. /\ card \in Seq(Bytes) /\ serBuffer \in Seq(Bytes) /\ SerialBuffer \in Seq(Bytes)
        /\ SerialBuffer' = Tail(SerialBuffer)
        /\ stored = card \o serBuffer \o SerialBuffer
    BY DEF TakeByte, BInv, BufferInv, EveryByteOnce
  <2>. DEFINE x == card \o serBuffer
  <2>2. x \in Seq(Bytes)
    BY <2>1, ConcatProperties
  <2>3. /\ Head(SerialBuffer) \in Bytes /\ Tail(SerialBuffer) \in Seq(Bytes)
        /\ Len(Tail(SerialBuffer)) = Len(SerialBuffer) - 1
        /\ x \o SerialBuffer = Append(x, Head(SerialBuffer)) \o Tail(SerialBuffer)
    <3>. HIDE DEF x
    <3>. QED  BY <2>1, <2>2, MoveHead
  <2>4. buffer \in Seq(Bytes) /\ card \o buffer = Append(x, Head(SerialBuffer))
    BY <2>1, <2>3, AppendLast, SMTT(60)
  <2>5. Len(buffer) = Len(serBuffer) + 1
    BY <2>1, <2>3, AppendProperties, Zenon
  <2>. QED  BY <2>1, <2>3, <2>4, <2>5
<1>2. Len(SerialBuffer') <= BufferSize
  BY <1>1, RawxAssumption DEF BInv, BufferInv
<1>3. CASE Len(buffer) = SDpacket
  <2>1. serBuffer' = << >> /\ card' = card \o buffer
    BY <1>3 DEF TakeByte
  <2>. QED  BY <1>1, <1>2, <2>1, JoinMiddle, RawxAssumption DEF BInv, BufferInv, EveryByteOnce
<1>4. CASE Len(buffer) # SDpacket
  <2>1. serBuffer' = buffer /\ card' = card
    BY <1>4 DEF TakeByte
  <2>2. Len(buffer) < SDpacket
    BY <1>1, <1>4, RawxAssumption DEF BInv, BufferInv
  <2>. QED  BY <1>1, <1>2, <2>1, <2>2 DEF BInv, BufferInv, EveryByteOnce
<1>. QED  BY <1>3, <1>4

\* At the end of a file what is left in serBuffer joins the card.
LEMMA WriteRestKeeps ==
  ASSUME BInv, WriteRest, UNCHANGED <<SerialBuffer, stored>>
  PROVE  /\ serBuffer' = << >> /\ serBuffer' \in Seq(Bytes) /\ Len(serBuffer') < SDpacket
         /\ card' \in Seq(Bytes)
         /\ EveryByteOnce'
  BY JoinMiddle, RawxAssumption DEF WriteRest, BInv, BufferInv, EveryByteOnce

-----------------------------------------------------------------------------
LEMMA InitBInv == Init => BInv
<1>. SUFFICES ASSUME Init PROVE BInv
  OBVIOUS
<1>1. << >> \in Seq(Bytes) /\ << >> \o << >> = << >> /\ Len(<< >>) = 0
  OBVIOUS
<1>. QED  BY <1>1, RawxAssumption DEF Init, BInv, BufferInv, EveryByteOnce, Size

LEMMA NextBInv == BInv /\ [Next]_vars => BInv'
<1>. SUFFICES ASSUME BInv, [Next]_vars PROVE BInv'
  OBVIOUS
<1>. USE DEF BInv, BufferInv, receiverVars, fileVars
<1>1. CASE Tick
  BY <1>1 DEF Tick, EveryByteOnce
<1>2. CASE Arrive
  <2>1. msg' \in 1 .. Len(Messages) /\ pos' \in 1 .. Size(msg')
    <3>0. Len(Messages) \in Nat
      BY RawxAssumption
    <3>1. CASE pos < Size(msg) /\ msg' = msg /\ pos' = pos + 1
      <4>1. msg # 0
        BY <3>1 DEF Size
      <4>2. Size(msg) \in Nat
        BY <3>0, <4>1, SizeFacts
      <4>. QED  BY <3>0, <3>1, <4>1, <4>2
    <3>2. CASE msg < Len(Messages) /\ msg' = msg + 1 /\ pos' = 1
      <4>1. msg' \in 1 .. Len(Messages)
        BY <3>0, <3>2
      <4>2. Size(msg') \in Nat /\ Size(msg') >= 6
        BY <4>1, SizeFacts
      <4>. QED  BY <3>2, <4>1, <4>2
    <3>. QED  BY <1>2, <3>1, <3>2 DEF Arrive
  <2>2. Byte(msg', pos') \in Bytes
    BY <2>1 DEF Bytes, Sent
  <2>3. UNCHANGED <<card, serBuffer, loop_step>>
    BY <1>2 DEF Arrive
  <2>4. \/ UNCHANGED <<SerialBuffer, stored>>
        \/ \E c \in Bytes : StoreChar(c)
    BY <1>2, <2>2 DEF Arrive, Bytes
  <2>5. CASE UNCHANGED <<SerialBuffer, stored>>
    BY <2>1, <2>3, <2>5 DEF EveryByteOnce
  <2>6. CASE \E c \in Bytes : StoreChar(c)
    <3>1. PICK c \in Bytes : StoreChar(c)
      BY <2>6
    <3>2. /\ SerialBuffer' \in Seq(Bytes) /\ Len(SerialBuffer') <= BufferSize
          /\ stored' \in Seq(Bytes) /\ EveryByteOnce'
      BY <2>3, <3>1, StoreCharKeeps
    <3>. QED  BY <2>1, <2>3, <3>2
  <2>. QED  BY <2>4, <2>5, <2>6
<1>3. CASE init \/ SetAlarm
  BY <1>3 DEF init, SetAlarm, EveryByteOnce
<1>4. CASE start_rawx
  BY <1>4 DEF start_rawx, EveryByteOnce
<1>5. CASE open_file
  BY <1>5 DEF open_file, EveryByteOnce
<1>6. CASE write_file
  <2>1. /\ loop_step' \notin {"init", "set_alarm", "start_rawx", "open_file", "battery"}
        /\ UNCHANGED <<msg, pos, stored>>
    BY <1>6 DEF write_file
  <2>2. CASE SerialBuffer # << >>
    <3>1. TakeByte
      BY <1>6, <2>2 DEF write_file
    <3>. QED  BY <2>1, <2>2, <3>1, TakeByteKeeps
  <2>3. CASE SerialBuffer = << >>
    <3>1. UNCHANGED <<SerialBuffer, serBuffer, card>>
      BY <1>6, <2>3 DEF write_file
    <3>. QED  BY <2>1, <3>1 DEF EveryByteOnce
  <2>. QED  BY <2>2, <2>3
<1>7. CASE new_file
  <2>1. WriteRest /\ UNCHANGED <<SerialBuffer, stored, msg, pos>>
    BY <1>7 DEF new_file
  <2>. QED  BY <2>1, WriteRestKeeps
<1>8. CASE close_file \/ restart_file
  BY <1>8 DEF close_file, restart_file, Off, EveryByteOnce
<1>9. CASE Drain
  <2>1. /\ TakeByte /\ SerialBuffer # << >> /\ UNCHANGED <<stored, msg, pos, loop_step>>
        /\ loop_step \in {"closing", "restarting"}
    BY <1>9 DEF Drain
  <2>. QED  BY <2>1, TakeByteKeeps
<1>10. CASE EndOfDwell
  <2>1. WriteRest /\ UNCHANGED <<SerialBuffer, stored, msg, pos>>
    BY <1>10 DEF EndOfDwell
  <2>. QED  BY <2>1, WriteRestKeeps
<1>11. CASE BatteryRecovers
  BY <1>11 DEF BatteryRecovers, EveryByteOnce
<1>12. CASE UNCHANGED vars
  BY <1>12 DEF vars, EveryByteOnce
<1>. QED  BY <1>1, <1>2, <1>3, <1>4, <1>5, <1>6, <1>7, <1>8, <1>9, <1>10, <1>11, <1>12
         DEF Next, loop

\* Every byte that the timer interrupt put into SerialBuffer is on the card once
\* and in its place, or still in a buffer.
THEOREM BytesKept == Spec => []EveryByteOnce
<1>1. BInv => EveryByteOnce
  BY DEF BInv
<1>. QED  BY InitBInv, NextBInv, <1>1, PTL DEF Spec

-----------------------------------------------------------------------------
(* The clock and the alarm *)

\* Quotient and remainder are what the code's / and % take them for.
LEMMA DivMod ==
  ASSUME NEW a \in Nat, NEW d \in Nat \ {0}
  PROVE  /\ a \div d \in Nat /\ a % d \in 0 .. d - 1
         /\ a = d * (a \div d) + (a % d)
OBVIOUS

\* and the only ones.
LEMMA DivUnique ==
  ASSUME NEW d \in Nat \ {0}, NEW q \in Nat, NEW r \in 0 .. d - 1,
         NEW p \in Nat, NEW s \in 0 .. d - 1, d * q + r = d * p + s
  PROVE  q = p /\ r = s
<1>1. ASSUME NEW x \in Nat, NEW y \in Nat, x < y PROVE d * y >= d * x + d
  <2>. DEFINE z == y - x - 1
  <2>1. z \in Nat /\ y = x + 1 + z
    BY <1>1
  <2>. HIDE DEF z
  <2>2. d * y = d * x + d + d * z
    BY <2>1
  <2>3. d * z \in Nat /\ d * x \in Nat
    BY <2>1
  <2>. QED  BY <2>2, <2>3
<1>2. d * q \in Nat /\ d * p \in Nat
  OBVIOUS
<1>3. ~(q < p) /\ ~(p < q)
  BY <1>1, <1>2
<1>. QED  BY <1>2, <1>3

LEMMA DivIs ==
  ASSUME NEW d \in Nat \ {0}, NEW q \in Nat, NEW r \in 0 .. d - 1, NEW a \in Nat, a = d * q + r
  PROVE  a \div d = q /\ a % d = r
BY DivMod, DivUnique

\* A whole number of minutes later it is that many minutes later.
LEMMA DivAdd ==
  ASSUME NEW a \in Nat, NEW k \in Nat, NEW d \in Nat \ {0}
  PROVE  /\ a + k * d \in Nat /\ (a + k * d) \div d = a \div d + k
         /\ (a + k * d) % d = a % d
<1>. DEFINE q == a \div d
            r == a % d
<1>1. q \in Nat /\ r \in 0 .. d - 1 /\ a = d * q + r
  BY DivMod
<1>. HIDE DEF q, r
<1>2. a + k * d = d * (q + k) + r /\ q + k \in Nat /\ a + k * d \in Nat
  BY <1>1
<1>3. (a + k * d) \div d = q + k /\ (a + k * d) % d = r
  BY <1>1, <1>2, DivIs
<1>. QED  BY <1>1, <1>2, <1>3 DEF q, r

\* A second later it is the next minute if a minute begins, or the same one.
LEMMA NextSecond ==
  ASSUME NEW a \in Nat, NEW d \in Nat \ {0}
  PROVE  (a + 1) \div d = IF (a + 1) % d = 0 THEN a \div d + 1 ELSE a \div d
<1>. DEFINE q == a \div d
            r == a % d
<1>1. q \in Nat /\ r \in 0 .. d - 1 /\ a = d * q + r
  BY DivMod
<1>. HIDE DEF q, r
<1>2. CASE r + 1 = d
  <2>1. a + 1 = d * (q + 1) + 0 /\ 0 \in 0 .. d - 1
    BY <1>1, <1>2
  <2>2. (a + 1) \div d = q + 1 /\ (a + 1) % d = 0
    BY <1>1, <2>1, DivIs
  <2>. QED  BY <2>2 DEF q
<1>3. CASE r + 1 # d
  <2>1. a + 1 = d * q + (r + 1) /\ r + 1 \in 0 .. d - 1
    BY <1>1, <1>3
  <2>2. (a + 1) \div d = q /\ (a + 1) % d = r + 1
    BY <1>1, <2>1, DivIs
  <2>. QED  BY <1>1, <2>2 DEF q
<1>. QED  BY <1>2, <1>3

LEMMA MinuteShown ==
  ASSUME NEW t \in Nat
  PROVE  Minute(t) \in 0 .. Minutes - 1 /\ Minute(t) \in Nat
<1>. DEFINE w == t \div Seconds
<1>1. w \in Nat
  BY RawxAssumption, DivMod
<1>. HIDE DEF w
<1>2. w % Minutes \in 0 .. Minutes - 1
  BY <1>1, RawxAssumption, DivMod
<1>. QED  BY <1>2, RawxAssumption DEF Minute, w

\* Adding minutes to the minute shown, and correcting for the hour, gives the
\* minute that will be shown.
LEMMA MinuteLater ==
  ASSUME NEW t \in Nat, NEW k \in Nat
  PROVE  Minute(t + k * Seconds) = HourRollover(Minute(t) + k)
<1>. DEFINE w == t \div Seconds
            h == w \div Minutes
            m == w % Minutes
            g == (m + k) \div Minutes
            n == (m + k) % Minutes
<1>1. Seconds \in Nat \ {0} /\ Minutes \in Nat \ {0}
  BY RawxAssumption
<1>2. w \in Nat /\ (t + k * Seconds) \div Seconds = w + k
  BY <1>1, DivMod, DivAdd
<1>3. h \in Nat /\ m \in 0 .. Minutes - 1 /\ w = Minutes * h + m
  <2>. HIDE DEF w
  <2>. QED  BY <1>1, <1>2, DivMod
<1>. HIDE DEF m, h
<1>4. g \in Nat /\ n \in 0 .. Minutes - 1 /\ m + k = Minutes * g + n
  <2>. DEFINE s == m + k
  <2>1. s \in Nat
    BY <1>1, <1>3
  <2>. HIDE DEF s
  <2>2. s \div Minutes \in Nat /\ s % Minutes \in 0 .. Minutes - 1
        /\ s = Minutes * (s \div Minutes) + (s % Minutes)
    BY <1>1, <2>1, DivMod
  <2>. QED  BY <2>2 DEF s
<1>. HIDE DEF g, n, w
<1>5. w + k = Minutes * (h + g) + n /\ h + g \in Nat /\ w + k \in Nat
  BY <1>1, <1>2, <1>3, <1>4
<1>6. (w + k) % Minutes = n
  BY <1>1, <1>4, <1>5, DivIs
<1>. QED  BY <1>2, <1>3, <1>6 DEF Minute, HourRollover, w, m, n

\* An alarm set from the minute of second t is for one that comes within INTERVAL.
LEMMA AlarmSet ==
  ASSUME NEW t \in Nat
  PROVE  /\ HourRollover(Minute(t) + INTERVAL) \in 0 .. Minutes - 1
         /\ FirstAlarm(t) \in 0 .. Minutes - 1
         /\ \E k \in 1 .. INTERVAL :
              Minute(t + k * Seconds) = HourRollover(Minute(t) + INTERVAL)
         /\ \E k \in 1 .. INTERVAL : Minute(t + k * Seconds) = FirstAlarm(t)
<1>. DEFINE x == Minute(t)
            e == x + INTERVAL
            q == e \div INTERVAL
            r == e % INTERVAL
<1>1. x \in Nat /\ INTERVAL \in Nat \ {0} /\ e \in Nat
  <2>1. x \in Nat
    BY MinuteShown
  <2>. HIDE DEF x
  <2>. QED  BY <2>1, RawxAssumption
<1>. HIDE DEF x
<1>2. q \in Nat /\ r \in 0 .. INTERVAL - 1 /\ e = INTERVAL * q + r /\ e = x + INTERVAL
  <2>. HIDE DEF e
  <2>1. q \in Nat /\ r \in 0 .. INTERVAL - 1 /\ e = INTERVAL * q + r
    BY <1>1, DivMod
  <2>. QED  BY <2>1 DEF e
<1>. HIDE DEF e, q, r
<1>3. q * INTERVAL \in Nat /\ q * INTERVAL = INTERVAL * q
  BY <1>1, <1>2
<1>. DEFINE k == q * INTERVAL - x
<1>4. k \in 1 .. INTERVAL /\ k \in Nat /\ x + k = q * INTERVAL
  BY <1>1, <1>2, <1>3
<1>. HIDE DEF k
<1>5. FirstAlarm(t) = HourRollover(x + k)
  BY <1>4 DEF FirstAlarm, x, e, q
<1>6. Minute(t + k * Seconds) = FirstAlarm(t)
  BY <1>4, <1>5, MinuteLater DEF x
<1>7. INTERVAL \in 1 .. INTERVAL /\ Minute(t + INTERVAL * Seconds) = HourRollover(x + INTERVAL)
  BY <1>1, MinuteLater DEF x
<1>8. \A j \in Nat : Minute(t + j * Seconds) \in 0 .. Minutes - 1
  <2>. SUFFICES ASSUME NEW j \in Nat PROVE Minute(t + j * Seconds) \in 0 .. Minutes - 1
    OBVIOUS
  <2>1. t + j * Seconds \in Nat
    BY RawxAssumption, DivAdd
  <2>. QED  BY <2>1, MinuteShown
<1>. QED  BY <1>1, <1>4, <1>6, <1>7, <1>8 DEF x

\* Every minute is shown within the hour.
LEMMA AnyMinuteComes ==
  ASSUME NEW t \in Nat, NEW m \in 0 .. Minutes - 1
  PROVE  \E k \in 1 .. Minutes : Minute(t + k * Seconds) = m
<1>. DEFINE x == Minute(t)
<1>1. x \in 0 .. Minutes - 1 /\ Minutes \in Nat \ {0} /\ m \in Nat
  <2>1. x \in 0 .. Minutes - 1
    BY MinuteShown
  <2>. HIDE DEF x
  <2>. QED  BY <2>1, RawxAssumption
<1>2. \A k \in Nat : Minute(t + k * Seconds) = (x + k) % Minutes
  BY MinuteLater DEF HourRollover
<1>. HIDE DEF x
<1>3. CASE x < m
  <2>1. m - x \in 1 .. Minutes /\ m - x \in Nat /\ x + (m - x) = m
    BY <1>1, <1>3
  <2>2. m % Minutes = m
    <3>1. m = Minutes * 0 + m
      BY <1>1
    <3>. QED  BY <1>1, <3>1, DivIs
  <2>3. Minute(t + (m - x) * Seconds) = m
    BY <1>2, <2>1, <2>2
  <2>. QED  BY <2>1, <2>3
<1>4. CASE m <= x
  <2>. DEFINE k == m - x + Minutes
  <2>1. k \in 1 .. Minutes /\ k \in Nat /\ x + k = Minutes * 1 + m /\ x + k \in Nat
    BY <1>1, <1>4
  <2>. HIDE DEF k
  <2>2. (x + k) % Minutes = m
    BY <1>1, <2>1, DivIs
  <2>. QED  BY <1>2, <2>1, <2>2
<1>. QED  BY <1>1, <1>3, <1>4

\* The minute m begins in the w seconds after t.
Begins(m, t, w) == \E k \in 1 .. w : (t + k) % Seconds = 0 /\ Minute(t + k) = m

\* The minute shown k minutes later begins in the k minutes.
LEMMA MinuteBegins ==
  ASSUME NEW t \in Nat, NEW k \in Nat \ {0}
  PROVE  Begins(Minute(t + k * Seconds), t, k * Seconds)
<1>. DEFINE q == t \div Seconds
            r == t % Seconds
            w == k * Seconds
            s == w - r
<1>1. Seconds \in Nat \ {0} /\ q \in Nat /\ r \in 0 .. Seconds - 1 /\ t = Seconds * q + r
  BY RawxAssumption, DivMod
<1>2. w \div Seconds = k /\ w \in Nat /\ (t + w) \div Seconds = q + k /\ w = Seconds * k
  <2>1. Seconds * k + 0 = w /\ w \in Nat /\ 0 \in 0 .. Seconds - 1
    BY <1>1
  <2>2. (t + w) \div Seconds = q + k
    BY <1>1, DivAdd
  <2>. HIDE DEF q, w
  <2>3. w \div Seconds = k
    BY <1>1, <2>1, DivIs
  <2>. QED  BY <1>1, <2>1, <2>2, <2>3
<1>. HIDE DEF q, r, w
<1>3. w >= Seconds
  <2>1. k = (k - 1) + 1 /\ k - 1 \in Nat
    OBVIOUS
  <2>2. Seconds * k = Seconds * (k - 1) + Seconds /\ Seconds * (k - 1) \in Nat
    BY <1>1, <2>1
  <2>. QED  BY <1>1, <1>2, <2>2
<1>4. s \in 1 .. w /\ t + s = Seconds * (q + k) + 0 /\ t + s \in Nat /\ q + k \in Nat
  BY <1>1, <1>2, <1>3
<1>. HIDE DEF s
<1>5. (t + s) \div Seconds = q + k /\ (t + s) % Seconds = 0
  <2>. DEFINE a == t + s
              b == q + k
  <2>1. 0 \in 0 .. Seconds - 1 /\ a \in Nat /\ b \in Nat /\ a = Seconds * b + 0
    BY <1>1, <1>4
  <2>. HIDE DEF a, b
  <2>2. a \div Seconds = b /\ a % Seconds = 0
    BY <1>1, <2>1, DivIs
  <2>. QED  BY <2>2 DEF a, b
<1>6. Minute(t + s) = Minute(t + w)
  BY <1>2, <1>5 DEF Minute
<1>. QED  BY <1>4, <1>5, <1>6 DEF Begins, w

\* It begins in a longer time too, and in the time from u on that ends no sooner.
LEMMA BeginsFrom ==
  ASSUME NEW m, NEW t \in Nat, NEW u \in Nat, NEW v \in Nat, NEW w \in Nat,
         u <= t, t + v <= u + w, Begins(m, t, v)
  PROVE  Begins(m, u, w)
<1>1. PICK k \in 1 .. v : (t + k) % Seconds = 0 /\ Minute(t + k) = m
  BY DEF Begins
<1>2. (t - u) + k \in 1 .. w /\ u + ((t - u) + k) = t + k
  OBVIOUS
<1>. QED  BY <1>1, <1>2 DEF Begins

\* A minute shown at one of the next n minutes begins in that time.
LEMMA ShownBegins ==
  ASSUME NEW t \in Nat, NEW m, NEW n \in Nat, \E k \in 1 .. n : Minute(t + k * Seconds) = m
  PROVE  Begins(m, t, n * Seconds)
<1>0. Seconds \in Nat \ {0}
  BY RawxAssumption
<1>1. PICK k \in 1 .. n : Minute(t + k * Seconds) = m
  OBVIOUS
<1>2. k \in Nat \ {0} /\ k * Seconds \in Nat /\ n * Seconds \in Nat
  BY <1>0
<1>3. k * Seconds <= n * Seconds
  <2>1. n = k + (n - k) /\ n - k \in Nat
    OBVIOUS
  <2>2. n * Seconds = k * Seconds + (n - k) * Seconds /\ (n - k) * Seconds \in Nat
    BY <1>0, <1>2, <2>1
  <2>. QED  BY <1>2, <2>2
<1>4. Begins(m, t, k * Seconds)
  BY <1>1, <1>2, MinuteBegins
<1>. DEFINE v == k * Seconds
            w == n * Seconds
<1>. HIDE DEF v, w
<1>5. v \in Nat /\ w \in Nat /\ v <= w /\ Begins(m, t, v)
  BY <1>2, <1>3, <1>4 DEF v, w
<1>6. Begins(m, t, w)
  BY <1>5, BeginsFrom
<1>. QED  BY <1>6 DEF w

\* The two settings of the alarm, in seconds.
LEMMA AlarmBegins ==
  ASSUME NEW t \in Nat
  PROVE  /\ Begins(FirstAlarm(t), t, INTERVAL * Seconds)
         /\ Begins(HourRollover(Minute(t) + INTERVAL), t, INTERVAL * Seconds)
<1>1. INTERVAL \in Nat
  BY RawxAssumption
<1>2. Begins(FirstAlarm(t), t, INTERVAL * Seconds)
      /\ Begins(HourRollover(Minute(t) + INTERVAL), t, INTERVAL * Seconds)
  BY <1>1, AlarmSet, ShownBegins
<1>. QED  BY <1>2

\* Only Tick and init, which goes to set_alarm, move the clock; only SetAlarm and
\* new_file set the alarm.
LEMMA ClockSteps ==
  ASSUME [Next]_vars
  PROVE  \/ Tick
         \/ /\ init /\ loop_step' = "set_alarm" /\ SetTime
            /\ alarmMinutes' = alarmMinutes /\ alarmFlag' = FALSE
         \/ SetAlarm
         \/ new_file
         \/ /\ UNCHANGED clockVars
            /\ loop_step = "set_alarm" => loop_step' = "set_alarm"
BY DEF Next, loop, Arrive, init, SetAlarm, start_rawx, open_file, write_file, close_file,
       restart_file, Off, Drain, EndOfDwell, BatteryRecovers, vars, clockVars

ClockTypes == now \in 0 .. MaxTime /\ lag \in 0 .. MaxLag /\ alarmMinutes \in -1 .. 255

AlarmInv == ClockTypes /\ AlarmWithinInterval

Bound(late) == (IF late THEN Minutes ELSE INTERVAL) * Seconds + MaxLag

\* SetAlarm leaves an alarm that the RTC comes to.
LEMMA SetAlarmComes ==
  ASSUME now \in Nat, lag \in 0 .. MaxLag, SetAlarm
  PROVE  alarmMinutes' \in 0 .. Minutes - 1 /\ Begins(alarmMinutes', now, Bound(setLate'))
<1>1. /\ Seconds \in Nat \ {0} /\ MaxLag \in Nat
      /\ INTERVAL * Seconds \in Nat /\ Minutes * Seconds \in Nat /\ Minutes \in Nat
  BY RawxAssumption
<1>2. PICK t \in now - MaxLag .. now + lag :
        /\ t >= 0 /\ alarmMinutes' = FirstAlarm(t)
        /\ setLate' = (t \div Seconds < now \div Seconds)
  BY DEF SetAlarm
<1>3. t \in Nat /\ lag \in Nat /\ t <= now + lag
  BY <1>1, <1>2
<1>4. FirstAlarm(t) \in 0 .. Minutes - 1
  BY <1>3, AlarmSet
<1>. DEFINE v == INTERVAL * Seconds
            h == Minutes * Seconds
<1>5. Begins(FirstAlarm(t), t, v) /\ Begins(FirstAlarm(now), now, v)
  BY <1>3, AlarmBegins
<1>6. v \in Nat /\ h \in Nat
  BY <1>1
<1>7. CASE setLate'
  <2>1. Bound(setLate') = h + MaxLag
    BY <1>7 DEF Bound
  <2>2. \E k \in 1 .. Minutes : Minute(now + k * Seconds) = FirstAlarm(t)
    BY <1>4, AnyMinuteComes
  <2>3. Begins(FirstAlarm(t), now, h)
    BY <1>1, <2>2, ShownBegins
  <2>. HIDE DEF h
  <2>4. Begins(FirstAlarm(t), now, h + MaxLag)
    BY <1>1, <1>6, <2>3, BeginsFrom
  <2>. QED  BY <1>2, <1>4, <2>1, <2>4
<1>8. CASE ~setLate'
  <2>1. Bound(setLate') = v + MaxLag
    BY <1>8 DEF Bound
  <2>. HIDE DEF v
  <2>2. CASE now <= t
    <3>1. now <= t /\ t + v <= now + (v + MaxLag) /\ v + MaxLag \in Nat
      BY <1>1, <1>3, <1>6, <2>2
    <3>2. Begins(FirstAlarm(t), now, v + MaxLag)
      BY <1>3, <1>5, <1>6, <3>1, BeginsFrom
    <3>. QED  BY <1>2, <1>4, <2>1, <3>2
  <2>3. CASE t < now
    <3>1. t \div Seconds = now \div Seconds
      <4>. DEFINE a == t \div Seconds
                  b == now \div Seconds
      <4>1. /\ a \in Nat /\ t % Seconds \in 0 .. Seconds - 1 /\ t = Seconds * a + (t % Seconds)
            /\ b \in Nat /\ now % Seconds \in 0 .. Seconds - 1
            /\ now = Seconds * b + (now % Seconds)
        BY <1>1, <1>3, DivMod
      <4>2. ~(a < b)
        BY <1>2, <1>8
      <4>. DEFINE c == t % Seconds
                  d == now % Seconds
      <4>. HIDE DEF a, b, c, d
      <4>3. t = Seconds * a + c /\ now = Seconds * b + d /\ a \in Nat /\ b \in Nat
            /\ c \in 0 .. Seconds - 1 /\ d \in 0 .. Seconds - 1
        BY <4>1 DEF a, b, c, d
      <4>4. ~(b < a)
        <5>. SUFFICES ASSUME b < a PROVE FALSE
          OBVIOUS
        <5>. DEFINE z == a - b - 1
        <5>1. z \in Nat /\ a = b + 1 + z
          BY <4>3
        <5>. HIDE DEF z
        <5>2. Seconds * a = Seconds * b + Seconds + Seconds * z
          BY <1>1, <4>3, <5>1
        <5>3. Seconds * z \in Nat /\ Seconds * b \in Nat
          BY <1>1, <4>3, <5>1
        <5>. QED  BY <1>1, <2>3, <4>3, <5>2, <5>3
      <4>5. a = b
        BY <4>2, <4>3, <4>4
      <4>. QED  BY <4>5 DEF a, b
    <3>2. FirstAlarm(t) = FirstAlarm(now)
      BY <3>1 DEF FirstAlarm, Minute
    <3>3. Begins(FirstAlarm(now), now, v + MaxLag)
      BY <1>1, <1>5, <1>6, BeginsFrom
    <3>. QED  BY <1>2, <1>4, <2>1, <3>2, <3>3
  <2>. QED  BY <1>3, <2>2, <2>3
<1>. QED  BY <1>7, <1>8

LEMMA NextAlarmInv == AlarmInv /\ [Next]_vars => AlarmInv'
<1>. SUFFICES ASSUME AlarmInv, [Next]_vars PROVE AlarmInv'
  OBVIOUS
<1>. DEFINE Comes == alarmMinutes # -1 /\ ~alarmFlag /\ loop_step # "set_alarm" =>
                       Begins(alarmMinutes, now, Bound(setLate))
<1>1. now \in Nat /\ MaxTime \in Nat /\ lag \in 0 .. MaxLag /\ MaxLag \in Nat
      /\ (\A late : Bound(late) \in Nat)
  BY RawxAssumption DEF AlarmInv, ClockTypes, Bound
<1>2. AlarmWithinInterval = Comes
  BY DEF AlarmWithinInterval, Begins, Bound, AlarmAt
<1>3. AlarmWithinInterval' = Comes'
  BY DEF AlarmWithinInterval, Begins, Bound, AlarmAt
<1>4. CASE Tick
  <2>1. /\ now' = now + 1 /\ now < MaxTime /\ alarmMinutes' = alarmMinutes
        /\ lag' = lag /\ setLate' = setLate /\ loop_step' = loop_step
        /\ alarmFlag' = (alarmFlag \/ ((now + 1) % Seconds = 0 /\ Minute(now + 1) = alarmMinutes))
    BY <1>4 DEF Tick, AlarmAt
  <2>2. ClockTypes'
    BY <1>1, <2>1 DEF AlarmInv, ClockTypes
  <2>3. ASSUME alarmMinutes # -1, ~alarmFlag', loop_step # "set_alarm"
        PROVE  Begins(alarmMinutes, now + 1, Bound(setLate))
    <3>1. ~alarmFlag /\ ~((now + 1) % Seconds = 0 /\ Minute(now + 1) = alarmMinutes)
      BY <2>1, <2>3
    <3>2. Begins(alarmMinutes, now, Bound(setLate))
      BY <1>2, <2>3, <3>1 DEF AlarmInv
    <3>. DEFINE w == Bound(setLate)
    <3>3. w \in Nat
      BY <1>1
    <3>. HIDE DEF w
    <3>4. PICK k \in 1 .. w : (now + k) % Seconds = 0 /\ Minute(now + k) = alarmMinutes
      BY <3>2 DEF Begins, w
    <3>5. k # 1
      BY <3>1, <3>4
    <3>6. k - 1 \in 1 .. w /\ now + 1 + (k - 1) = now + k
      BY <1>1, <3>3, <3>5
    <3>. QED  BY <3>4, <3>6 DEF Begins, w
  <2>4. Comes'
    BY <2>1, <2>3 DEF Begins, Bound, Minute
  <2>. QED  BY <1>3, <2>2, <2>4 DEF AlarmInv
<1>5. CASE /\ loop_step' = "set_alarm" /\ SetTime
           /\ alarmMinutes' = alarmMinutes /\ alarmFlag' = FALSE
  <2>1. ClockTypes'
    BY <1>5 DEF SetTime, AlarmInv, ClockTypes
  <2>2. Comes'
    BY <1>5
  <2>. QED  BY <1>3, <2>1, <2>2 DEF AlarmInv
<1>6. CASE SetAlarm
  <2>1. now' = now /\ lag' \in {lag, 0}
    BY <1>6 DEF SetAlarm
  <2>2. alarmMinutes' \in 0 .. Minutes - 1 /\ Begins(alarmMinutes', now, Bound(setLate'))
    BY <1>1, <1>6, SetAlarmComes
  <2>3. ClockTypes'
    <3>1. alarmMinutes' \in -1 .. 255
      BY <2>2, RawxAssumption
    <3>2. now' \in 0 .. MaxTime /\ lag' \in 0 .. MaxLag
      BY <1>1, <2>1 DEF AlarmInv, ClockTypes
    <3>. QED  BY <3>1, <3>2 DEF ClockTypes
  <2>4. Comes'
    BY <2>1, <2>2 DEF Begins, Bound, Minute
  <2>. QED  BY <1>3, <2>3, <2>4 DEF AlarmInv
<1>7. CASE new_file
  <2>1. now' = now /\ lag' = lag /\ alarmMinutes' = HourRollover(Minute(now) + INTERVAL)
        /\ setLate' = FALSE
    BY <1>7 DEF new_file
  <2>2. alarmMinutes' \in 0 .. Minutes - 1
    BY <1>1, <2>1, AlarmSet
  <2>3. ClockTypes'
    <3>1. alarmMinutes' \in -1 .. 255
      BY <2>2, RawxAssumption
    <3>2. now' \in 0 .. MaxTime /\ lag' \in 0 .. MaxLag
      BY <1>1, <2>1 DEF AlarmInv, ClockTypes
    <3>. QED  BY <3>1, <3>2 DEF ClockTypes
  <2>4. Begins(alarmMinutes', now, Bound(FALSE))
    <3>. DEFINE v == INTERVAL * Seconds
    <3>1. Begins(alarmMinutes', now, v) /\ v \in Nat /\ Bound(FALSE) = v + MaxLag
      BY <1>1, <2>1, AlarmBegins, RawxAssumption DEF Bound
    <3>. HIDE DEF v
    <3>2. v + MaxLag \in Nat /\ now <= now /\ now + v <= now + (v + MaxLag)
      BY <1>1, <3>1
    <3>3. Begins(alarmMinutes', now, v + MaxLag)
      BY <1>1, <3>1, <3>2, BeginsFrom
    <3>. QED  BY <3>1, <3>3
  <2>5. Comes'
    BY <2>1, <2>4 DEF Begins, Bound, Minute
  <2>. QED  BY <1>3, <2>3, <2>5 DEF AlarmInv
<1>8. CASE /\ UNCHANGED clockVars
           /\ loop_step = "set_alarm" => loop_step' = "set_alarm"
  <2>1. ClockTypes'
    BY <1>8 DEF AlarmInv, ClockTypes, clockVars
  <2>2. Comes'
    BY <1>2, <1>8 DEF AlarmInv, clockVars, Begins, Bound, Minute
  <2>. QED  BY <1>3, <2>1, <2>2 DEF AlarmInv
<1>. QED  BY <1>4, <1>5, <1>6, <1>7, <1>8, ClockSteps

\* The logger changes files: unless the alarm has gone off, it goes off within
\* INTERVAL minutes and the seconds the RTC may be behind the GNSS time, across
\* the hour, wherever in a minute it was set; within an hour where it was set from
\* a minute the RTC had left.
THEOREM AlarmComes == Spec => []AlarmWithinInterval
<1>1. Init => AlarmInv
  BY RawxAssumption DEF Init, AlarmInv, ClockTypes, AlarmWithinInterval
<1>2. AlarmInv => AlarmWithinInterval
  BY DEF AlarmInv
<1>. QED  BY <1>1, <1>2, NextAlarmInv, PTL DEF Spec

-----------------------------------------------------------------------------
(* Types *)

MoreTypes ==
  /\ msg \in 0 .. Len(Messages) /\ faults \in 0 .. MaxFaults
  /\ lows \in 0 .. MaxLow /\ valfix \in 0 .. maxvalfix
  /\ name \in -1 .. now
  /\ loop_step \in {"init", "set_alarm"} => name = -1

Flags ==
  /\ setLate \in BOOLEAN /\ alarmFlag \in BOOLEAN /\ rawxOn \in BOOLEAN /\ stop_pressed \in BOOLEAN
  /\ lowBattery \in BOOLEAN /\ emptyFile \in BOOLEAN

TInv == BInv /\ AlarmInv /\ MoreTypes /\ Flags /\ loop_step \in Steps

LEMMA NextMoreTypes == TInv /\ [Next]_vars => MoreTypes'
<1>. SUFFICES ASSUME TInv, [Next]_vars PROVE MoreTypes'
  OBVIOUS
<1>. USE DEF TInv, MoreTypes
<1>1. /\ now \in Nat /\ MaxLow \in Nat /\ maxvalfix \in Nat /\ MaxFaults \in Nat
      /\ Len(Messages) \in Nat
  BY RawxAssumption DEF AlarmInv, ClockTypes
<1>2. msg' \in 0 .. Len(Messages) /\ faults' \in 0 .. MaxFaults
  <2>1. \/ UNCHANGED <<msg, faults>>
        \/ /\ msg' = msg \/ (msg < Len(Messages) /\ msg' = msg + 1)
           /\ faults' = faults \/ (faults < MaxFaults /\ faults' = faults + 1)
    BY DEF Next, loop, Tick, Arrive, init, SetAlarm, start_rawx, open_file, write_file, new_file,
           close_file, restart_file, Off, Drain, EndOfDwell, BatteryRecovers, vars, receiverVars
  <2>. QED  BY <1>1, <2>1
<1>3. lows' \in 0 .. MaxLow
  <2>1. lows' = lows \/ (lows < MaxLow /\ lows' = lows + 1)
    <3>1. ReadBattery => lows' = lows \/ (lows < MaxLow /\ lows' = lows + 1)
      BY DEF ReadBattery
    <3>. QED  BY <3>1 DEF Next, loop, Tick, Arrive, init, SetAlarm, start_rawx, open_file, write_file, new_file,
           close_file, restart_file, Off, Drain, EndOfDwell, BatteryRecovers, vars, batteryVars
  <2>. QED  BY <1>1, <2>1
<1>4. valfix' \in 0 .. maxvalfix
  <2>1. \/ valfix' = valfix
        \/ \E fix \in {0, 1} : valfix' = IF valfix + fix > maxvalfix THEN maxvalfix ELSE valfix + fix
    BY DEF Next, loop, Tick, Arrive, init, SetAlarm, start_rawx, open_file, write_file, new_file,
           close_file, restart_file, Off, Drain, EndOfDwell, BatteryRecovers, vars
  <2>. QED  BY <1>1, <2>1
<1>5. loop_step' \in {"init", "set_alarm"} => name' = -1
  BY DEF Next, loop, Tick, Arrive, init, SetAlarm, start_rawx, open_file, write_file, new_file,
         close_file, restart_file, Off, Drain, EndOfDwell, BatteryRecovers, vars, fileVars
<1>6. name' \in -1 .. now'
  <2>1. CASE init
    <3>1. name' = -1 /\ (now' = now \/ SetTime)
      BY <2>1 DEF init, fileVars
    <3>2. now' \in Nat
      BY <1>1, <3>1, RawxAssumption DEF SetTime
    <3>. QED  BY <3>1, <3>2
  <2>2. CASE ~init
    <3>1. name' = name \/ (name' = now /\ now' = now)
      BY <2>2 DEF Next, loop, Tick, Arrive, SetAlarm, start_rawx, open_file, write_file, new_file,
             close_file, restart_file, Off, Drain, EndOfDwell, BatteryRecovers, vars, fileVars,
             clockVars
    <3>2. now' = now \/ now' = now + 1
      BY <2>2, ClockSteps DEF Tick, SetAlarm, new_file, clockVars
    <3>. QED  BY <1>1, <3>1, <3>2
  <2>. QED  BY <2>1, <2>2
<1>. QED  BY <1>2, <1>3, <1>4, <1>5, <1>6

LEMMA NextFlags == TInv /\ [Next]_vars => Flags'
<1>. SUFFICES ASSUME TInv, [Next]_vars PROVE Flags'
  OBVIOUS
<1>. USE DEF TInv, Flags
<1>1. alarmFlag' \in BOOLEAN
  <2>1. Tick => alarmFlag' \in BOOLEAN
    <3>1. Tick => alarmFlag' = (alarmFlag \/ AlarmAt(now'))
      BY DEF Tick
    <3>. QED  BY <3>1, Zenon
  <2>. QED  BY <2>1, ClockSteps DEF SetAlarm, new_file, clockVars
<1>2. stop_pressed' \in BOOLEAN
  <2>1. write_file => stop_pressed' \in BOOLEAN
    <3>. SUFFICES ASSUME write_file PROVE stop_pressed' \in BOOLEAN
      OBVIOUS
    <3>1. PICK pressed \in BOOLEAN : stop_pressed' = (stop_pressed \/ pressed)
      BY DEF write_file
    <3>. QED  BY <3>1, Zenon
  <2>. QED  BY <2>1 DEF Next, loop, Tick, Arrive, init, SetAlarm, start_rawx, open_file, new_file,
           close_file, restart_file, Off, Drain, EndOfDwell, BatteryRecovers, vars
<1>3. lowBattery' \in BOOLEAN
  <2>1. ReadBattery => lowBattery' \in BOOLEAN
    <3>1. (lows < MaxLow) \in BOOLEAN
      OBVIOUS
    <3>. QED  BY <3>1, Zenon DEF ReadBattery
  <2>. QED  BY <2>1 DEF Next, loop, Tick, Arrive, init, SetAlarm, start_rawx, open_file, write_file, new_file,
           close_file, restart_file, Off, Drain, EndOfDwell, BatteryRecovers, vars, batteryVars
<1>4. rawxOn' \in BOOLEAN
  BY DEF Next, loop, Tick, Arrive, init, SetAlarm, start_rawx, open_file, write_file, new_file,
         close_file, restart_file, Off, Drain, EndOfDwell, BatteryRecovers, vars, receiverVars
<1>5. emptyFile' \in BOOLEAN
  BY DEF Next, loop, Tick, Arrive, init, SetAlarm, start_rawx, open_file, write_file, new_file,
         close_file, restart_file, Off, Drain, EndOfDwell, BatteryRecovers, vars, fileVars
<1>6. setLate' \in BOOLEAN
  <2>1. SetAlarm => setLate' \in BOOLEAN
    <3>. SUFFICES ASSUME SetAlarm PROVE setLate' \in BOOLEAN
      OBVIOUS
    <3>1. PICK t \in now - MaxLag .. now + lag : setLate' = (t \div Seconds < now \div Seconds)
      BY DEF SetAlarm
    <3>2. (t \div Seconds < now \div Seconds) \in BOOLEAN
      OBVIOUS
    <3>. QED  BY <3>1, <3>2, Zenon
  <2>. QED  BY <2>1, ClockSteps DEF Tick, init, new_file, clockVars
<1>. QED  BY <1>1, <1>2, <1>3, <1>4, <1>5, <1>6

LEMMA NextStep == TInv /\ [Next]_vars => loop_step' \in Steps
BY DEF TInv, Steps, Next, loop, Tick, Arrive, init, SetAlarm, start_rawx, open_file, write_file, new_file,
       close_file, restart_file, Off, Drain, EndOfDwell, BatteryRecovers, vars

LEMMA InitTInv == Init => TInv
<1>1. Init => AlarmInv
  BY RawxAssumption DEF Init, AlarmInv, ClockTypes, AlarmWithinInterval
<1>2. Init => MoreTypes
  BY RawxAssumption DEF Init, MoreTypes
<1>3. Init => Flags /\ loop_step \in Steps
  BY DEF Init, Flags, Steps
<1>. QED  BY <1>1, <1>2, <1>3, InitBInv DEF TInv

LEMMA NextTInv == TInv /\ [Next]_vars => TInv'
BY NextBInv, NextAlarmInv, NextMoreTypes, NextFlags, NextStep DEF TInv

\* The variables keep their types: neither buffer overflows, and the alarm is a
\* minute of the clock.
THEOREM TypeCorrect == Spec => []TypeOK
<1>1. TInv => TypeOK
  BY DEF TInv, BInv, BufferInv, AlarmInv, ClockTypes, MoreTypes, Flags, TypeOK
<1>. QED  BY <1>1, InitTInv, NextTInv, PTL DEF Spec

-----------------------------------------------------------------------------
(* Files end between messages *)

NothingReadsAsLF == \A c \in Noise : c.kind # "LF"

\* All that loop() has taken.
Logged == card \o serBuffer

\* When the framing is between messages, what was taken ends with a message.
EndsWithMessage ==
  loop_step = "write_file" /\ ubx_nmea_state = "looking_for_B5_dollar" /\ ~emptyFile =>
    LastByte(Logged[Len(Logged)])

\* The byte taken is the last of what was taken.
LEMMA TakeByteLogs ==
  ASSUME BInv, SerialBuffer # << >>, TakeByte
  PROVE  Head(SerialBuffer) \in Bytes /\ Logged'[Len(Logged')] = Head(SerialBuffer)
<1>. DEFINE c == Head(SerialBuffer)
            buffer == Append(serBuffer, c)
<1>1. c \in Bytes /\ card \in Seq(Bytes) /\ serBuffer \in Seq(Bytes)
  BY MoveHead DEF BInv, BufferInv
<1>2. \/ serBuffer' = << >> /\ card' = card \o buffer
      \/ serBuffer' = buffer /\ card' = card
  BY DEF TakeByte
<1>. HIDE DEF c
<1>3. buffer \in Seq(Bytes) /\ card \o buffer = Append(card \o serBuffer, c)
  BY <1>1, AppendLast
<1>4. Logged' = Append(card \o serBuffer, c)
  <2>1. CASE serBuffer' = << >> /\ card' = card \o buffer
    <3>1. (card \o buffer) \o << >> = card \o buffer
      BY <1>1, <1>3, JoinMiddle
    <3>. QED  BY <1>3, <2>1, <3>1 DEF Logged
  <2>2. CASE serBuffer' = buffer /\ card' = card
    BY <1>3, <2>2 DEF Logged
  <2>. QED  BY <1>2, <2>1, <2>2
<1>5. card \o serBuffer \in Seq(Bytes)
  BY <1>1, ConcatProperties
<1>6. Logged'[Len(Logged')] = c
  BY <1>1, <1>4, <1>5, AppendProperties
<1>. QED  BY <1>1, <1>6 DEF c

\* The framing comes back between messages with the last byte of one only: the
\* second byte of a UBX checksum, or LF.
LEMMA BoundaryAtLastByte ==
  ASSUME NothingReadsAsLF, NEW c \in Bytes, NextState(c) = "looking_for_B5_dollar"
  PROVE  LastByte(c)
<1>1. \/ ChecksumRight("UBX", csum1, c)
      \/ c.kind = "LF"
  BY DEF NextState, Expect
<1>2. c.msg # 0 => \E n \in 1 .. Len(Messages) : \E i \in 1 .. Size(n) : c = Byte(n, i)
  BY RawxAssumption DEF Bytes, Sent
<1>3. CASE ChecksumRight("UBX", csum1, c)
  <2>1. c.msg # 0 /\ c.pos = Size(c.msg) - 0
    BY <1>3 DEF ChecksumRight
  <2>2. c.msg \in 1 .. Len(Messages)
    BY <1>2, <2>1 DEF Byte
  <2>3. Size(c.msg) \in Nat
    BY <2>2, KindsShape
  <2>. QED  BY <2>1, <2>3 DEF LastByte
<1>4. CASE c.kind = "LF"
  <2>1. PICK n \in 1 .. Len(Messages) : \E i \in 1 .. Size(n) : c = Byte(n, i)
    BY <1>4 DEF NothingReadsAsLF, Bytes, Sent
  <2>2. PICK i \in 1 .. Size(n) : c = Byte(n, i)
    BY <2>1
  <2>3. c.kind = Kinds(Messages[n])[i] /\ c.msg = n /\ c.pos = i
    BY <2>2 DEF Byte
  <2>4. i = Size(n) /\ n # 0
    BY <1>4, <2>3, KindsShape
  <2>. QED  BY <2>3, <2>4 DEF LastByte
<1>. QED  BY <1>1, <1>3, <1>4

\* A pass of write_file leaves the framing between messages, and a byte in the
\* file, only after the last byte of a message.
LEMMA WriteFileEnds ==
  ASSUME NothingReadsAsLF, BInv, EndsWithMessage, write_file,
         ubx_nmea_state' = "looking_for_B5_dollar", ~emptyFile'
  PROVE  LastByte(Logged'[Len(Logged')])
<1>1. CASE SerialBuffer # << >>
  <2>1. TakeByte /\ ubx_nmea_state' = NextState(Head(SerialBuffer))
    BY <1>1 DEF write_file, Parse
  <2>. DEFINE c == Head(SerialBuffer)
  <2>2. c \in Bytes /\ Logged'[Len(Logged')] = c
    BY <1>1, <2>1, TakeByteLogs
  <2>3. NextState(c) = "looking_for_B5_dollar"
    BY <2>1
  <2>. HIDE DEF c
  <2>4. LastByte(c)
    BY <2>2, <2>3, BoundaryAtLastByte
  <2>. QED  BY <2>2, <2>4
<1>2. CASE SerialBuffer = << >>
  <2>1. UNCHANGED <<serBuffer, card, emptyFile, ubx_nmea_state>> /\ loop_step = "write_file"
    BY <1>2 DEF write_file, parserVars
  <2>2. Logged' = Logged
    BY <2>1 DEF Logged
  <2>. QED  BY <2>1, <2>2 DEF EndsWithMessage
<1>. QED  BY <1>1, <1>2

LEMMA NextEndsWithMessage ==
  ASSUME NothingReadsAsLF
  PROVE  BInv /\ EndsWithMessage /\ [Next]_vars => EndsWithMessage'
<1>. SUFFICES ASSUME BInv, EndsWithMessage, [Next]_vars, loop_step' = "write_file",
                     ubx_nmea_state' = "looking_for_B5_dollar", ~emptyFile'
              PROVE  LastByte(Logged'[Len(Logged')])
  BY DEF EndsWithMessage
<1>1. CASE write_file
  BY <1>1, WriteFileEnds
<1>2. CASE ~write_file
  <2>1. loop_step = "write_file" /\ UNCHANGED <<card, serBuffer, emptyFile, ubx_nmea_state>>
    BY <1>2 DEF Next, loop, Tick, Arrive, init, SetAlarm, start_rawx, open_file, new_file, close_file,
         restart_file, Off, Drain, EndOfDwell, BatteryRecovers, vars, fileVars, parserVars
  <2>2. Logged' = Logged
    BY <2>1 DEF Logged
  <2>. QED  BY <2>1, <2>2 DEF EndsWithMessage
<1>. QED  BY <1>1, <1>2

\* As long as no byte is altered to a line feed, a file that the alarm ends has
\* whole messages at its end, whatever else is lost, altered or dropped.
THEOREM FilesEndBetweenMessages ==
  ASSUME NothingReadsAsLF
  PROVE  Spec => AlarmCutsBetweenMessages
<1>1. Init => EndsWithMessage
  BY DEF Init, EndsWithMessage
<1>2. BInv /\ EndsWithMessage /\ [Next]_vars => EndsWithMessage'
  BY NextEndsWithMessage
<1>3. BInv /\ EndsWithMessage /\ [Next]_vars =>
        [loop_step = "write_file" /\ loop_step' = "new_file" =>
           LET logged == card' \o serBuffer'
           IN  emptyFile' \/ LastByte(logged[Len(logged)])]_vars
  <2>. SUFFICES ASSUME BInv, EndsWithMessage, [Next]_vars,
                       loop_step = "write_file", loop_step' = "new_file", ~emptyFile'
                PROVE  LastByte(Logged'[Len(Logged')])
    BY DEF Logged
  <2>1. write_file /\ ubx_nmea_state' = "looking_for_B5_dollar"
    BY DEF Next, loop, Tick, Arrive, init, SetAlarm, start_rawx, open_file, write_file, new_file,
         close_file, restart_file, Off, Drain, EndOfDwell, BatteryRecovers, vars, AtBoundary
  <2>. QED  BY <2>1, WriteFileEnds
<1>. QED  BY InitBInv, NextBInv, <1>1, <1>2, <1>3, PTL DEF Spec, AlarmCutsBetweenMessages

-----------------------------------------------------------------------------
(* The framing keeps step with a stream that has no faults *)

\* What the framing expects of the receiver: UBX messages have a payload, NMEA
\* messages fit.
MessagesFit ==
  \A n \in 1 .. Len(Messages) :
    IF Messages[n].type = "UBX" THEN Messages[n].len >= 1
                                ELSE Messages[n].len + 1 <= max_nmea_len

\* k bytes of message n, after the first from ones.
Part(n, from, k) == [j \in 1 .. k |-> Byte(n, j + from)]

\* The parse state after byte i of a UBX message n, and of an NMEA message.
InUbx(n, i) ==
  \/ ubx_nmea_state = "looking_for_62" /\ i = 1
  \/ /\ summed = Part(n, 2, i - 2)
     /\ \/ ubx_nmea_state = "looking_for_class" /\ i = 2
        \/ ubx_nmea_state = "looking_for_ID" /\ i = 3
        \/ ubx_nmea_state = "looking_for_length_LSB" /\ i = 4
        \/ /\ ubx_nmea_state = "looking_for_length_MSB" /\ i = 5
           /\ ubx_length = Messages[n].len % Base
        \/ /\ ubx_nmea_state = "processing_payload" /\ i \in 6 .. 5 + Messages[n].len
           /\ ubx_length = Messages[n].len + 6 - i
        \/ ubx_nmea_state = "looking_for_checksum_A" /\ i = 6 + Messages[n].len
  \/ /\ ubx_nmea_state = "looking_for_checksum_B" /\ i = 7 + Messages[n].len
     /\ summed = Summed(n)

InNmea(n, i) ==
  \/ /\ ubx_nmea_state = "looking_for_asterix" /\ i \in 1 .. Messages[n].len + 1
     /\ ubx_length = i - 1 /\ summed = Part(n, 1, i - 1)
  \/ /\ summed = Summed(n)
     /\ \/ ubx_nmea_state = "looking_for_csum1" /\ i = Messages[n].len + 2
        \/ ubx_nmea_state = "looking_for_csum2" /\ i = Messages[n].len + 3
  \/ ubx_nmea_state = "looking_for_term1" /\ i = Messages[n].len + 4
  \/ ubx_nmea_state = "looking_for_term2" /\ i = Messages[n].len + 5

Within(n, i) ==
  IF Messages[n].type = "UBX" THEN InUbx(n, i) ELSE InNmea(n, i)

\* The sum grows by the next byte.
LEMMA PartGrows ==
  ASSUME NEW n, NEW from \in Nat, NEW k \in Nat
  PROVE  /\ Part(n, from, 0) = << >>
         /\ Append(Part(n, from, k), Byte(n, k + 1 + from)) = Part(n, from, k + 1)
<1>. DEFINE S == {Byte(n, j) : j \in Nat}
            p == Part(n, from, k)
            b == Byte(n, k + 1 + from)
            q == Part(n, from, k + 1)
<1>1. p \in Seq(S) /\ Len(p) = k /\ b \in S /\ q \in Seq(S) /\ Len(q) = k + 1
  <2>1. \A j \in 1 .. k + 1 : Byte(n, j + from) \in S
    OBVIOUS
  <2>2. b \in S
    OBVIOUS
  <2>. HIDE DEF S
  <2>3. p \in [1 .. k -> S] /\ q \in [1 .. k + 1 -> S]
    BY <2>1 DEF Part
  <2>4. k + 1 \in Nat
    OBVIOUS
  <2>. HIDE DEF p, q, b
  <2>. QED  BY <2>2, <2>3, <2>4
<1>2. /\ \A j \in 1 .. k : p[j] = Byte(n, j + from)
      /\ \A j \in 1 .. k + 1 : q[j] = Byte(n, j + from)
  BY DEF Part
<1>3. q[k + 1] = b
  <2>1. k + 1 \in 1 .. k + 1
    OBVIOUS
  <2>. QED  BY <1>2, <2>1
<1>4. Part(n, from, 0) = << >>
  BY DEF Part
<1>. HIDE DEF S, p, q, b
<1>5. /\ Append(p, b) \in Seq(S) /\ Len(Append(p, b)) = k + 1 /\ Append(p, b)[k + 1] = b
      /\ \A j \in 1 .. k : Append(p, b)[j] = p[j]
  BY <1>1, AppendProperties
<1>6. \A j \in 1 .. k + 1 : Append(p, b)[j] = q[j]
  <2>. SUFFICES ASSUME NEW j \in 1 .. k + 1 PROVE Append(p, b)[j] = q[j]
    OBVIOUS
  <2>1. CASE j = k + 1
    BY <1>3, <1>5, <2>1
  <2>2. CASE j # k + 1
    <3>1. j \in 1 .. k
      BY <2>2
    <3>. QED  BY <1>2, <1>5, <3>1
  <2>. QED  BY <2>1, <2>2
<1>7. Append(p, b) = q
  BY <1>1, <1>5, <1>6, SeqEqual
<1>. QED  BY <1>4, <1>7 DEF p, q, b

\* One byte of a UBX message, in its place.
LEMMA UbxStep ==
  ASSUME MessagesFit, NEW n \in 1 .. Len(Messages), Messages[n].type = "UBX",
         NEW i \in 1 .. Size(n) - 1, InUbx(n, i), csum1 = Byte(n, i), Parse(Byte(n, i + 1))
  PROVE  IF i + 1 = Size(n) THEN ubx_nmea_state' = "looking_for_B5_dollar"
                            ELSE InUbx(n, i + 1)'
<1>. DEFINE len == Messages[n].len
            c == Byte(n, i + 1)
<1>1. len \in Nat /\ len >= 1 /\ Size(n) = len + 8 /\ n \in Nat /\ n # 0 /\ i \in Nat
  BY UbxKinds DEF MessagesFit
<1>2. /\ c.msg = n /\ c.pos = i + 1
      /\ i = 1 => c.kind = "62"
      /\ i = 4 => c.val = len % Base
      /\ i = 5 => c.val = len \div Base
  BY <1>1, UbxKinds DEF Byte
<1>3. /\ ubx_nmea_state' = NextState(c) /\ ubx_length' = NextLength(c)
      /\ summed' = CASE ubx_nmea_state \in {"looking_for_B5_dollar", "looking_for_62"} -> << >>
                     [] ubx_nmea_state \in InSum /\ NextState(c) # "looking_for_csum1" ->
                          Append(summed, c)
                     [] OTHER -> summed
  BY DEF Parse
<1>4. ASSUME summed = Part(n, 2, i - 2), i >= 2
      PROVE  Append(summed, c) = Part(n, 2, (i + 1) - 2)
  <2>. DEFINE k == i - 2
  <2>1. k \in Nat /\ i + 1 = k + 1 + 2 /\ (i + 1) - 2 = k + 1 /\ 2 \in Nat
    BY <1>1, <1>4
  <2>. HIDE DEF k
  <2>2. Append(Part(n, 2, k), Byte(n, k + 1 + 2)) = Part(n, 2, k + 1)
    BY <2>1, PartGrows
  <2>. QED  BY <1>4, <2>1, <2>2 DEF k
<1>5. Summed(n) = Part(n, 2, len + 4)
  BY DEF Summed, Part
<1>. HIDE DEF c, len
<1>6. CASE ubx_nmea_state = "looking_for_62" /\ i = 1
  <2>1. NextState(c) = "looking_for_class" /\ summed' = << >>
    BY <1>2, <1>3, <1>6 DEF NextState, Expect, InSum
  <2>2. (i + 1) - 2 = 0 /\ i + 1 = 2 /\ i + 1 # Size(n) /\ 2 \in Nat /\ 0 \in Nat
    BY <1>1, <1>6
  <2>3. summed' = Part(n, 2, (i + 1) - 2)
    BY <2>1, <2>2, PartGrows
  <2>. QED  BY <1>3, <2>1, <2>2, <2>3 DEF InUbx, len
<1>7. CASE summed = Part(n, 2, i - 2)
  <2>1. CASE ubx_nmea_state = "looking_for_class" /\ i = 2
    <3>1. NextState(c) = "looking_for_ID" /\ summed' = Append(summed, c)
      BY <1>3, <2>1 DEF NextState, InSum
    <3>. QED  BY <1>1, <1>3, <1>4, <1>7, <2>1, <3>1 DEF InUbx, len
  <2>2. CASE ubx_nmea_state = "looking_for_ID" /\ i = 3
    <3>1. NextState(c) = "looking_for_length_LSB" /\ summed' = Append(summed, c)
      BY <1>3, <2>2 DEF NextState, InSum
    <3>. QED  BY <1>1, <1>3, <1>4, <1>7, <2>2, <3>1 DEF InUbx, len
  <2>3. CASE ubx_nmea_state = "looking_for_length_LSB" /\ i = 4
    <3>1. /\ NextState(c) = "looking_for_length_MSB" /\ NextLength(c) = c.val
          /\ summed' = Append(summed, c)
      BY <1>3, <2>3 DEF NextState, NextLength, InSum
    <3>. QED  BY <1>1, <1>2, <1>3, <1>4, <1>7, <2>3, <3>1 DEF InUbx, len
  <2>4. CASE /\ ubx_nmea_state = "looking_for_length_MSB" /\ i = 5
             /\ ubx_length = len % Base
    <3>1. /\ NextState(c) = "processing_payload" /\ NextLength(c) = ubx_length + c.val * Base
          /\ summed' = Append(summed, c)
      BY <1>3, <2>4 DEF NextState, NextLength, InSum
    <3>2. ubx_length' = len
      <4>1. len = Base * (len \div Base) + (len % Base) /\ len \div Base \in Nat /\ len % Base \in Nat
            /\ Base \in Nat
        <5>1. Base \in Nat \ {0}
          BY RawxAssumption
        <5>2. /\ len \div Base \in Nat /\ len % Base \in 0 .. Base - 1
              /\ len = Base * (len \div Base) + (len % Base)
          BY <1>1, <5>1, DivMod
        <5>. QED  BY <5>1, <5>2
      <4>2. ubx_length' = (len % Base) + (len \div Base) * Base
        BY <1>2, <1>3, <2>4, <3>1
      <4>. QED  BY <1>1, <4>1, <4>2
    <3>3. ubx_length' = len + 6 - (i + 1) /\ i + 1 \in 6 .. 5 + len /\ i + 1 # Size(n) /\ i >= 2
      BY <1>1, <2>4, <3>2
    <3>4. summed' = Part(n, 2, (i + 1) - 2)
      BY <1>4, <1>7, <3>1, <3>3
    <3>. QED  BY <1>3, <3>1, <3>3, <3>4 DEF InUbx, len
  <2>5. CASE /\ ubx_nmea_state = "processing_payload" /\ i \in 6 .. 5 + len
             /\ ubx_length = len + 6 - i
    <3>1. /\ NextState(c) = IF PayloadEnds(ubx_length) THEN "looking_for_checksum_A"
                                                       ELSE "processing_payload"
          /\ NextLength(c) = ubx_length - 1
      BY <2>5 DEF NextState, NextLength
    <3>2. summed' = Append(summed, c)
      BY <1>3, <2>5, <3>1 DEF InSum
    <3>3. i >= 2 /\ i + 1 # Size(n) /\ i + 1 \in Nat /\ ubx_length = len + 6 - i
      BY <1>1, <2>5
    <3>6. summed' = Part(n, 2, (i + 1) - 2)
      BY <1>4, <1>7, <3>2, <3>3
    <3>4. CASE i = 5 + len
      <4>1. PayloadEnds(ubx_length)
        BY <1>1, <3>3, <3>4 DEF PayloadEnds
      <4>2. ubx_nmea_state' = "looking_for_checksum_A" /\ i + 1 = 6 + len
        BY <1>1, <1>3, <3>1, <3>4, <4>1
      <4>. QED  BY <3>3, <3>6, <4>2 DEF InUbx, len
    <3>5. CASE i # 5 + len
      <4>1. ~PayloadEnds(ubx_length)
        BY <1>1, <3>3, <3>5 DEF PayloadEnds
      <4>2. ubx_length' = len + 6 - (i + 1) /\ i + 1 \in 6 .. 5 + len
        <5>1. ubx_length' = (len + 6 - i) - 1 /\ i \in Nat /\ i >= 6 /\ i <= 5 + len
          BY <1>1, <1>3, <2>5, <3>1
        <5>. QED  BY <1>1, <3>5, <5>1
      <4>. QED  BY <1>3, <3>1, <3>3, <3>6, <4>1, <4>2 DEF InUbx, len
    <3>. QED  BY <3>4, <3>5
  <2>6. CASE ubx_nmea_state = "looking_for_checksum_A" /\ i = 6 + len
    <3>1. NextState(c) = "looking_for_checksum_B" /\ summed' = summed
      BY <1>3, <2>6 DEF NextState, InSum
    <3>2. summed' = Summed(n) /\ i + 1 = 7 + len /\ i + 1 # Size(n)
      BY <1>1, <1>5, <1>7, <2>6, <3>1
    <3>. QED  BY <1>3, <3>1, <3>2 DEF InUbx, len
  <2>7. \/ ubx_nmea_state = "looking_for_62" /\ i = 1
        \/ ubx_nmea_state = "looking_for_class" /\ i = 2
        \/ ubx_nmea_state = "looking_for_ID" /\ i = 3
        \/ ubx_nmea_state = "looking_for_length_LSB" /\ i = 4
        \/ /\ ubx_nmea_state = "looking_for_length_MSB" /\ i = 5
           /\ ubx_length = len % Base
        \/ /\ ubx_nmea_state = "processing_payload" /\ i \in 6 .. 5 + len
           /\ ubx_length = len + 6 - i
        \/ ubx_nmea_state = "looking_for_checksum_A" /\ i = 6 + len
        \/ /\ ubx_nmea_state = "looking_for_checksum_B" /\ i = 7 + len /\ summed = Summed(n)
    BY DEF InUbx, len
  <2>8. CASE ubx_nmea_state = "looking_for_checksum_B" /\ i = 7 + len /\ summed = Summed(n)
    <3>1. ChecksumRight("UBX", csum1, c)
      BY <1>1, <1>2, <2>8 DEF ChecksumRight, Byte
    <3>2. NextState(c) = "looking_for_B5_dollar"
      BY <2>8, <3>1 DEF NextState, Expect
    <3>. QED  BY <1>1, <1>3, <2>8, <3>2
  <2>. QED  BY <1>6, <2>1, <2>2, <2>3, <2>4, <2>5, <2>6, <2>7, <2>8
<1>8. CASE ubx_nmea_state = "looking_for_checksum_B" /\ i = 7 + len /\ summed = Summed(n)
  <2>1. ChecksumRight("UBX", csum1, c)
    BY <1>1, <1>2, <1>8 DEF ChecksumRight, Byte
  <2>2. NextState(c) = "looking_for_B5_dollar"
    BY <1>8, <2>1 DEF NextState, Expect
  <2>. QED  BY <1>1, <1>3, <1>8, <2>2
<1>. QED  BY <1>6, <1>7, <1>8 DEF InUbx, len

\* One byte of an NMEA message, in its place.
LEMMA NmeaStep ==
  ASSUME MessagesFit, NEW n \in 1 .. Len(Messages), Messages[n].type = "NMEA",
         NEW i \in 1 .. Size(n) - 1, InNmea(n, i), csum1 = Byte(n, i), Parse(Byte(n, i + 1))
  PROVE  IF i + 1 = Size(n) THEN ubx_nmea_state' = "looking_for_B5_dollar"
                            ELSE InNmea(n, i + 1)'
<1>. DEFINE len == Messages[n].len
            c == Byte(n, i + 1)
            kind(j) == Kinds(Messages[n])[j]
<1>1. /\ len \in Nat /\ len + 1 <= max_nmea_len /\ Size(n) = len + 6 /\ n \in Nat /\ n # 0
      /\ i \in Nat /\ max_nmea_len \in Nat
  <2>1. len \in Nat /\ Size(n) = len + 6
    BY NmeaKinds
  <2>2. len + 1 <= max_nmea_len
    BY DEF MessagesFit
  <2>3. n \in Nat /\ n # 0 /\ i \in Nat /\ max_nmea_len \in Nat
    BY <2>1, RawxAssumption
  <2>. QED  BY <2>1, <2>2, <2>3
<1>2. c.msg = n /\ c.pos = i + 1 /\ c.kind = kind(i + 1)
  BY DEF Byte
<1>3. /\ \A j \in 2 .. len + 1 : kind(j) = "data"
      /\ kind(len + 2) = "*" /\ kind(len + 5) = "CR" /\ kind(len + 6) = "LF"
  BY NmeaKinds
<1>4. /\ ubx_nmea_state' = NextState(c) /\ ubx_length' = NextLength(c)
      /\ summed' = CASE ubx_nmea_state \in {"looking_for_B5_dollar", "looking_for_62"} -> << >>
                     [] ubx_nmea_state \in InSum /\ NextState(c) # "looking_for_csum1" ->
                          Append(summed, c)
                     [] OTHER -> summed
  BY DEF Parse
<1>5. Summed(n) = Part(n, 1, len)
  BY DEF Summed, Part
<1>6. ChecksumRight("NMEA", csum1, c) <=> i + 1 = Size(n) - 2 /\ summed = Summed(n)
  BY <1>1, <1>2 DEF ChecksumRight, Byte
<1>7. summed = Part(n, 1, i - 1) => Append(summed, c) = Part(n, 1, (i + 1) - 1)
  <2>. DEFINE k == i - 1
  <2>1. k \in Nat /\ i + 1 = k + 1 + 1 /\ (i + 1) - 1 = k + 1 /\ 1 \in Nat
    BY <1>1
  <2>. HIDE DEF k
  <2>2. Append(Part(n, 1, k), Byte(n, k + 1 + 1)) = Part(n, 1, k + 1)
    BY <2>1, PartGrows
  <2>. QED  BY <2>1, <2>2 DEF k
<1>. HIDE DEF c, len, kind
<1>8. CASE /\ ubx_nmea_state = "looking_for_asterix" /\ i \in 1 .. len + 1
           /\ ubx_length = i - 1 /\ summed = Part(n, 1, i - 1)
  <2>1. /\ NextState(c) = IF c.kind = "*" /\ ubx_length + 1 <= max_nmea_len THEN "looking_for_csum1"
                          ELSE Expect(ubx_length + 1 <= max_nmea_len, "looking_for_asterix")
        /\ NextLength(c) = ubx_length + 1
    BY <1>8 DEF NextState, NextLength
  <2>2. ubx_length + 1 = i /\ i <= max_nmea_len /\ i + 1 # Size(n) /\ i + 1 \in Nat
    BY <1>1, <1>8
  <2>3. CASE i = len + 1
    <3>1. c.kind = "*" /\ i + 1 = len + 2
      BY <1>1, <1>2, <1>3, <2>3
    <3>2. NextState(c) = "looking_for_csum1"
      BY <2>1, <2>2, <3>1
    <3>3. summed' = summed /\ i - 1 = len
      BY <1>1, <1>4, <1>8, <2>3, <3>2 DEF InSum
    <3>4. summed' = Summed(n)
      BY <1>5, <1>8, <3>3
    <3>. QED  BY <1>4, <2>2, <3>1, <3>2, <3>4 DEF InNmea, len
  <2>4. CASE i # len + 1
    <3>1. i + 1 \in 2 .. len + 1 /\ i + 1 \in 1 .. len + 1
      BY <1>1, <1>8, <2>4
    <3>2. c.kind = "data"
      BY <1>2, <1>3, <3>1
    <3>3. NextState(c) = "looking_for_asterix"
      BY <2>1, <2>2, <3>2 DEF Expect
    <3>4. summed' = Part(n, 1, (i + 1) - 1)
      BY <1>4, <1>7, <1>8, <3>3 DEF InSum
    <3>5. ubx_length' = (i + 1) - 1
      BY <1>1, <1>4, <2>1, <2>2
    <3>. QED  BY <1>4, <2>2, <3>1, <3>3, <3>4, <3>5 DEF InNmea, len
  <2>. QED  BY <2>3, <2>4
<1>9. CASE summed = Summed(n) /\ ubx_nmea_state = "looking_for_csum1" /\ i = len + 2
  <2>1. NextState(c) = "looking_for_csum2"
    BY <1>9 DEF NextState
  <2>2. summed' = Summed(n) /\ i + 1 = len + 3 /\ i + 1 # Size(n)
    BY <1>1, <1>4, <1>9, <2>1 DEF InSum
  <2>. QED  BY <1>4, <2>1, <2>2 DEF InNmea, len
<1>10. CASE summed = Summed(n) /\ ubx_nmea_state = "looking_for_csum2" /\ i = len + 3
  <2>1. i + 1 = len + 4 /\ i + 1 # Size(n) /\ i + 1 = Size(n) - 2
    BY <1>1, <1>10
  <2>2. NextState(c) = "looking_for_term1"
    BY <1>6, <1>10, <2>1 DEF NextState, Expect
  <2>. QED  BY <1>4, <2>1, <2>2 DEF InNmea, len
<1>11. CASE ubx_nmea_state = "looking_for_term1" /\ i = len + 4
  <2>1. i + 1 = len + 5 /\ i + 1 # Size(n)
    BY <1>1, <1>11
  <2>2. NextState(c) = "looking_for_term2"
    BY <1>2, <1>3, <1>11, <2>1 DEF NextState, Expect
  <2>. QED  BY <1>4, <2>1, <2>2 DEF InNmea, len
<1>12. CASE ubx_nmea_state = "looking_for_term2" /\ i = len + 5
  <2>1. i + 1 = len + 6
    BY <1>1, <1>12
  <2>2. NextState(c) = "looking_for_B5_dollar"
    BY <1>2, <1>3, <1>12, <2>1 DEF NextState, Expect
  <2>. QED  BY <1>1, <1>4, <2>1, <2>2
<1>. QED  BY <1>8, <1>9, <1>10, <1>11, <1>12 DEF InNmea, len

\* Between messages a byte begins one, or the framing gives up.
LEMMA FirstByte ==
  ASSUME NEW n \in 1 .. Len(Messages), NEW i \in 1 .. Size(n),
         ubx_nmea_state = "looking_for_B5_dollar", Parse(Byte(n, i))
  PROVE  \/ ubx_nmea_state' = "sync_lost"
         \/ i = 1 /\ Within(n, 1)'
<1>. DEFINE c == Byte(n, i)
<1>1. /\ c.kind = "B5" => i = 1 /\ Messages[n].type = "UBX"
      /\ c.kind = "$" => i = 1 /\ Messages[n].type = "NMEA"
      /\ Messages[n].len \in Nat
  BY KindsShape DEF Byte
<1>2. /\ ubx_nmea_state' = IF c.kind = "$" THEN "looking_for_asterix"
                           ELSE Expect(c.kind = "B5", "looking_for_62")
      /\ ubx_length' = IF c.kind = "$" THEN 0 ELSE ubx_length
      /\ summed' = << >>
  <2>1. /\ ubx_nmea_state' = NextState(c) /\ ubx_length' = NextLength(c)
        /\ summed' = CASE ubx_nmea_state \in {"looking_for_B5_dollar", "looking_for_62"} -> << >>
                       [] ubx_nmea_state \in InSum /\ NextState(c) # "looking_for_csum1" ->
                            Append(summed, c)
                       [] OTHER -> summed
    BY DEF Parse
  <2>. HIDE DEF c
  <2>2. summed' = << >>
    BY <2>1 DEF InSum
  <2>3. /\ NextState(c) = IF c.kind = "$" THEN "looking_for_asterix"
                           ELSE Expect(c.kind = "B5", "looking_for_62")
        /\ NextLength(c) = IF c.kind = "$" THEN 0 ELSE ubx_length
    BY DEF NextState, NextLength
  <2>. QED  BY <2>1, <2>2, <2>3
<1>. HIDE DEF c
<1>3. CASE c.kind = "$"
  <2>1. 1 - 1 = 0 /\ Part(n, 1, 0) = << >> /\ 1 \in 1 .. Messages[n].len + 1
    BY <1>1, PartGrows
  <2>2. InNmea(n, 1)'
    BY <1>2, <1>3, <2>1 DEF InNmea
  <2>. QED  BY <1>1, <1>3, <2>2 DEF Within
<1>4. CASE c.kind = "B5"
  <2>1. ubx_nmea_state' = "looking_for_62"
    BY <1>2, <1>4 DEF Expect
  <2>2. InUbx(n, 1)'
    BY <2>1 DEF InUbx
  <2>. QED  BY <1>1, <1>4, <2>2 DEF Within
<1>5. CASE c.kind # "$" /\ c.kind # "B5"
  BY <1>2, <1>5 DEF Expect
<1>. QED  BY <1>3, <1>4, <1>5

\* Without faults SerialBuffer holds consecutive bytes, up to the last one sent.
InOrder ==
  faults = 0 =>
    /\ \A k \in 1 .. Len(SerialBuffer) : SerialBuffer[k] \in Sent
    /\ \A k \in 1 .. Len(SerialBuffer) - 1 :
         SerialBuffer[k].pos < Size(SerialBuffer[k].msg) =>
           SerialBuffer[k + 1] = Byte(SerialBuffer[k].msg, SerialBuffer[k].pos + 1)
    /\ SerialBuffer # << >> => SerialBuffer[Len(SerialBuffer)] = Byte(msg, pos)

\* Byte i of message n is not its last one, it has been taken, and the next one
\* is still to be.
Taken(n, i) ==
  /\ n \in 1 .. Len(Messages) /\ i \in 1 .. Size(n) - 1
  /\ IF SerialBuffer = << >> THEN msg = n /\ pos = i ELSE SerialBuffer[1] = Byte(n, i + 1)

\* The framing is inside a message, where the stream is.
Following ==
  \E n \in 1 .. Len(Messages) : \E i \in 1 .. Size(n) - 1 :
    csum1 = Byte(n, i) /\ Within(n, i) /\ Taken(n, i)

\* In write_file the framing is between messages or where the stream is.
InStep ==
  faults = 0 /\ loop_step = "write_file" =>
    ubx_nmea_state # "sync_lost" /\ (ubx_nmea_state # "looking_for_B5_dollar" => Following)

StepInv == TInv /\ InOrder /\ InStep

LEMMA SentBytes ==
  ASSUME NEW c \in Sent
  PROVE  /\ c.msg \in 1 .. Len(Messages) /\ c.pos \in 1 .. Size(c.msg)
         /\ c = Byte(c.msg, c.pos)
BY DEF Sent, Byte

\* The stream goes on.
LEMMA ArriveInOrder ==
  ASSUME TInv, InOrder, Arrive, faults' = 0
  PROVE  /\ faults = 0 /\ SerialBuffer' = Append(SerialBuffer, Byte(msg', pos'))
         /\ \/ pos < Size(msg) /\ msg' = msg /\ pos' = pos + 1
            \/ pos = Size(msg) /\ msg' = msg + 1 /\ pos' = 1
         /\ Byte(msg', pos') \in Bytes
         /\ InOrder'
<1>1. faults \in Nat /\ SerialBuffer \in Seq(Bytes) /\ msg \in 0 .. Len(Messages) /\ pos \in Nat
  BY RawxAssumption DEF TInv, MoreTypes, BInv, BufferInv
<1>2. faults = 0 /\ Len(SerialBuffer) < BufferSize /\ StoreChar(Byte(msg', pos'))
  BY <1>1 DEF Arrive
<1>3. SerialBuffer' = Append(SerialBuffer, Byte(msg', pos'))
  BY <1>2 DEF StoreChar
<1>4. /\ \/ pos < Size(msg) /\ msg' = msg /\ pos' = pos + 1
         \/ pos = Size(msg) /\ msg' = msg + 1 /\ pos' = 1
      /\ msg' \in 1 .. Len(Messages) /\ pos' \in 1 .. Size(msg')
  <2>1. Len(Messages) \in Nat
    BY RawxAssumption
  <2>2. CASE pos < Size(msg) /\ msg' = msg /\ pos' = pos + 1
    <3>1. msg # 0
      BY <1>1, <2>2 DEF Size
    <3>2. Size(msg) \in Nat
      BY <1>1, <2>1, <3>1, SizeFacts
    <3>. QED  BY <1>1, <2>1, <2>2, <3>1, <3>2
  <2>3. CASE pos = Size(msg) /\ msg < Len(Messages) /\ msg' = msg + 1 /\ pos' = 1
    <3>1. msg' \in 1 .. Len(Messages)
      BY <1>1, <2>1, <2>3
    <3>2. Size(msg') \in Nat /\ Size(msg') >= 6
      BY <3>1, SizeFacts
    <3>. QED  BY <2>3, <3>1, <3>2
  <2>. QED  BY <2>2, <2>3 DEF Arrive
<1>. DEFINE b == Byte(msg', pos')
            L == Len(SerialBuffer)
<1>5. b \in Sent /\ b \in Bytes /\ L \in Nat
  BY <1>1, <1>4 DEF Sent, Bytes
<1>. HIDE DEF b
<1>6. /\ SerialBuffer' = Append(SerialBuffer, b) /\ Len(SerialBuffer') = L + 1
      /\ SerialBuffer'[L + 1] = b
      /\ \A k \in 1 .. L : SerialBuffer'[k] = SerialBuffer[k]
  BY <1>1, <1>3, <1>5, AppendProperties DEF b
<1>7. \A k \in 1 .. L + 1 : SerialBuffer'[k] \in Sent
  <2>. SUFFICES ASSUME NEW k \in 1 .. L + 1 PROVE SerialBuffer'[k] \in Sent
    OBVIOUS
  <2>1. CASE k = L + 1
    BY <1>5, <1>6, <2>1
  <2>2. CASE k # L + 1
    <3>1. k \in 1 .. L
      BY <1>5, <2>2
    <3>. QED  BY <1>2, <1>6, <3>1 DEF InOrder
  <2>. QED  BY <2>1, <2>2
<1>8. ASSUME NEW k \in 1 .. L, SerialBuffer'[k].pos < Size(SerialBuffer'[k].msg)
      PROVE  SerialBuffer'[k + 1] = Byte(SerialBuffer'[k].msg, SerialBuffer'[k].pos + 1)
  <2>1. CASE k = L
    <3>1. SerialBuffer # << >> /\ SerialBuffer[L] = Byte(msg, pos)
      BY <1>1, <1>2, <1>5, <2>1 DEF InOrder
    <3>2. SerialBuffer'[k] = Byte(msg, pos)
      BY <1>6, <2>1, <3>1
    <3>3. pos < Size(msg)
      BY <1>8, <3>2 DEF Byte
    <3>4. msg' = msg /\ pos' = pos + 1
      <4>1. msg # 0
        BY <1>1, <3>3 DEF Size
      <4>2. Size(msg) \in Nat
        BY <1>1, <4>1, SizeFacts, RawxAssumption
      <4>. QED  BY <1>1, <1>4, <3>3, <4>2
    <3>5. b = Byte(SerialBuffer'[k].msg, SerialBuffer'[k].pos + 1)
      BY <3>2, <3>4 DEF Byte, b
    <3>. QED  BY <1>6, <2>1, <3>5
  <2>2. CASE k # L
    <3>1. k \in 1 .. L - 1 /\ k + 1 \in 1 .. L
      BY <1>5, <2>2
    <3>. QED  BY <1>2, <1>6, <1>8, <3>1 DEF InOrder
  <2>. QED  BY <2>1, <2>2
<1>9. InOrder'
  <2>1. Len(SerialBuffer') - 1 = L
    BY <1>5, <1>6
  <2>2. SerialBuffer'[Len(SerialBuffer')] = Byte(msg', pos')
    BY <1>6 DEF b
  <2>. QED  BY <1>6, <1>7, <1>8, <2>1, <2>2 DEF InOrder
<1>. QED  BY <1>2, <1>3, <1>4, <1>5, <1>9 DEF b

\* A byte is taken.
LEMMA TailInOrder ==
  ASSUME TInv, InOrder, SerialBuffer # << >>, SerialBuffer' = Tail(SerialBuffer),
         UNCHANGED <<faults, msg, pos>>
  PROVE  /\ InOrder'
         /\ faults = 0 =>
              /\ Head(SerialBuffer) \in Sent /\ Head(SerialBuffer) = SerialBuffer[1]
              /\ SerialBuffer' = << >> => Head(SerialBuffer) = Byte(msg, pos)
              /\ SerialBuffer' # << >> /\ Head(SerialBuffer).pos < Size(Head(SerialBuffer).msg) =>
                   SerialBuffer'[1] = Byte(Head(SerialBuffer).msg, Head(SerialBuffer).pos + 1)
<1>. DEFINE L == Len(SerialBuffer)
<1>1. /\ SerialBuffer \in Seq(Bytes) /\ L \in Nat /\ L >= 1
      /\ SerialBuffer' \in Seq(Bytes) /\ Len(SerialBuffer') = L - 1
      /\ Head(SerialBuffer) = SerialBuffer[1]
      /\ \A k \in 1 .. L - 1 : SerialBuffer'[k] = SerialBuffer[k + 1]
  <2>1. SerialBuffer \in Seq(Bytes)
    BY DEF TInv, BInv, BufferInv
  <2>. QED  BY <2>1
<1>. HIDE DEF L
<1>2. \A k \in 1 .. L - 1 : k \in 1 .. L /\ k + 1 \in 1 .. L
  BY <1>1
<1>3. \A k \in 1 .. (L - 1) - 1 : k \in 1 .. L - 1 /\ k + 1 \in 1 .. L - 1
  BY <1>1
<1>4. SerialBuffer' # << >> => L - 1 \in 1 .. L - 1 /\ (L - 1) + 1 = L /\ 1 \in 1 .. L - 1
  BY <1>1
<1>5. SerialBuffer' = << >> => L = 1
  BY <1>1
<1>. SUFFICES ASSUME faults = 0
              PROVE  /\ InOrder'
                     /\ Head(SerialBuffer) \in Sent
                     /\ SerialBuffer' = << >> => Head(SerialBuffer) = Byte(msg, pos)
                     /\ SerialBuffer' # << >>
                        /\ Head(SerialBuffer).pos < Size(Head(SerialBuffer).msg) =>
                          SerialBuffer'[1] = Byte(Head(SerialBuffer).msg, Head(SerialBuffer).pos + 1)
  BY <1>1 DEF InOrder
<1>6. /\ \A k \in 1 .. L : SerialBuffer[k] \in Sent
      /\ \A k \in 1 .. L - 1 :
           SerialBuffer[k].pos < Size(SerialBuffer[k].msg) =>
             SerialBuffer[k + 1] = Byte(SerialBuffer[k].msg, SerialBuffer[k].pos + 1)
      /\ SerialBuffer[L] = Byte(msg, pos)
  BY DEF InOrder, L
<1>7. \A k \in 1 .. L - 1 : SerialBuffer'[k] \in Sent
  BY <1>1, <1>2, <1>6
<1>8. \A k \in 1 .. (L - 1) - 1 :
        SerialBuffer'[k].pos < Size(SerialBuffer'[k].msg) =>
          SerialBuffer'[k + 1] = Byte(SerialBuffer'[k].msg, SerialBuffer'[k].pos + 1)
  BY <1>1, <1>2, <1>3, <1>6
<1>9. SerialBuffer' # << >> => SerialBuffer'[L - 1] = Byte(msg, pos)
  BY <1>1, <1>4, <1>6
<1>10. InOrder'
  BY <1>1, <1>7, <1>8, <1>9 DEF InOrder
<1>11. 1 \in 1 .. L
  BY <1>1
<1>12. Head(SerialBuffer) \in Sent
  BY <1>1, <1>6, <1>11
<1>13. SerialBuffer' # << >> /\ Head(SerialBuffer).pos < Size(Head(SerialBuffer).msg) =>
         SerialBuffer'[1] = Byte(Head(SerialBuffer).msg, Head(SerialBuffer).pos + 1)
  <2>1. SerialBuffer' # << >> => SerialBuffer'[1] = SerialBuffer[1 + 1]
    BY <1>1, <1>4
  <2>. QED  BY <1>1, <1>4, <1>6, <2>1
<1>. QED  BY <1>1, <1>5, <1>6, <1>10, <1>12, <1>13

\* The framing follows byte i of message n, which it has just read.
LEMMA NowFollowing ==
  ASSUME NEW n \in 1 .. Len(Messages), NEW i \in 1 .. Size(n) - 1,
         csum1' = Byte(n, i), Within(n, i)', Taken(n, i)'
  PROVE  Following'
BY DEF Following

\* Nothing that it depends on changes.
LEMMA StillFollowing ==
  ASSUME UNCHANGED <<ubx_nmea_state, ubx_length, summed, csum1>>, Following,
         \A n \in 1 .. Len(Messages) : \A i \in 1 .. Size(n) - 1 : Taken(n, i) => Taken(n, i)'
  PROVE  Following'
<1>1. PICK n \in 1 .. Len(Messages) :
        \E i \in 1 .. Size(n) - 1 : csum1 = Byte(n, i) /\ Within(n, i) /\ Taken(n, i)
  BY DEF Following
<1>2. PICK i \in 1 .. Size(n) - 1 : csum1 = Byte(n, i) /\ Within(n, i) /\ Taken(n, i)
  BY <1>1
<1>3. Within(n, i)'
  BY <1>2 DEF Within, InUbx, InNmea
<1>4. csum1' = Byte(n, i) /\ Taken(n, i)'
  BY <1>2
<1>. QED  BY <1>3, <1>4, NowFollowing

\* A byte read in write_file: the framing gives up, or follows it; after the last
\* byte of a message it is between messages if it has not given up.
LEMMA ByteInStep ==
  ASSUME MessagesFit, StepInv, write_file, SerialBuffer # << >>, faults = 0
  PROVE  /\ ubx_nmea_state' \in {"sync_lost", "looking_for_B5_dollar"} \/ Following'
         /\ LastByte(Head(SerialBuffer)) =>
              ubx_nmea_state' \in {"sync_lost", "looking_for_B5_dollar"}
<1>1. /\ loop_step = "write_file" /\ SerialBuffer' = Tail(SerialBuffer)
      /\ Parse(Head(SerialBuffer)) /\ UNCHANGED <<faults, msg, pos>>
  BY DEF write_file, TakeByte, receiverVars
<1>2. TInv /\ InOrder
  BY DEF StepInv
<1>3. /\ Head(SerialBuffer) \in Sent
      /\ SerialBuffer' = << >> => Head(SerialBuffer) = Byte(msg, pos)
      /\ SerialBuffer' # << >> /\ Head(SerialBuffer).pos < Size(Head(SerialBuffer).msg) =>
           SerialBuffer'[1] = Byte(Head(SerialBuffer).msg, Head(SerialBuffer).pos + 1)
      /\ Head(SerialBuffer) = SerialBuffer[1]
  BY <1>1, <1>2, TailInOrder
<1>4. PICK n \in 1 .. Len(Messages) : \E i \in 1 .. Size(n) : Head(SerialBuffer) = Byte(n, i)
  BY <1>3, SentBytes
<1>5. PICK i \in 1 .. Size(n) : Head(SerialBuffer) = Byte(n, i)
  BY <1>4
<1>6. Size(n) \in Nat /\ Size(n) >= 6
  BY SizeFacts
<1>7. /\ Byte(n, i).msg = n /\ Byte(n, i).pos = i
      /\ csum1' = Byte(n, i) /\ Parse(Byte(n, i))
      /\ LastByte(Head(SerialBuffer)) => i = Size(n)
  BY <1>1, <1>5 DEF Parse, LastByte, Byte
<1>8. ASSUME i # Size(n) PROVE i \in 1 .. Size(n) - 1 /\ Taken(n, i)'
  <2>1. i \in 1 .. Size(n) - 1 /\ i < Size(n)
    BY <1>6, <1>8
  <2>2. CASE SerialBuffer' = << >>
    <3>1. Byte(msg, pos) = Byte(n, i)
      BY <1>3, <1>5, <2>2
    <3>2. msg' = n /\ pos' = i
      BY <1>1, <3>1 DEF Byte
    <3>. QED  BY <2>1, <2>2, <3>2 DEF Taken
  <2>3. CASE SerialBuffer' # << >>
    <3>1. SerialBuffer'[1] = Byte(n, i + 1)
      BY <1>3, <1>5, <1>7, <2>1, <2>3
    <3>. QED  BY <2>1, <2>3, <3>1 DEF Taken
  <2>. QED  BY <2>2, <2>3
<1>9. ASSUME i # Size(n), Within(n, i)'
      PROVE  Following' /\ ~LastByte(Head(SerialBuffer))
  <2>1. i \in 1 .. Size(n) - 1 /\ Taken(n, i)'
    BY <1>8, <1>9
  <2>2. Following'
    BY <1>7, <1>9, <2>1, NowFollowing
  <2>. QED  BY <1>7, <1>9, <2>2
<1>10. CASE ubx_nmea_state = "looking_for_B5_dollar"
  <2>1. \/ ubx_nmea_state' = "sync_lost"
        \/ i = 1 /\ Within(n, 1)'
    BY <1>7, <1>10, FirstByte
  <2>2. CASE ubx_nmea_state' = "sync_lost"
    BY <2>2
  <2>3. CASE i = 1 /\ Within(n, 1)'
    <3>1. i # Size(n) /\ Within(n, i)'
      BY <1>6, <2>3
    <3>. QED  BY <1>9, <3>1
  <2>. QED  BY <2>1, <2>2, <2>3
<1>11. CASE ubx_nmea_state # "looking_for_B5_dollar"
  <2>1. Following
    BY <1>1, <1>11 DEF StepInv, InStep
  <2>2. PICK m \in 1 .. Len(Messages) :
          \E j \in 1 .. Size(m) - 1 : csum1 = Byte(m, j) /\ Within(m, j) /\ Taken(m, j)
    BY <2>1 DEF Following
  <2>3. PICK j \in 1 .. Size(m) - 1 : csum1 = Byte(m, j) /\ Within(m, j) /\ Taken(m, j)
    BY <2>2
  <2>4. Byte(n, i) = Byte(m, j + 1)
    BY <1>3, <1>5, <2>3 DEF Taken
  <2>5. n = m /\ i = j + 1
    BY <2>4 DEF Byte
  <2>6. Parse(Byte(m, j + 1))
    BY <1>7, <2>4
  <2>7. IF j + 1 = Size(m) THEN ubx_nmea_state' = "looking_for_B5_dollar"
                           ELSE Within(m, j + 1)'
    <3>1. CASE Messages[m].type = "UBX"
      <4>1. InUbx(m, j)
        BY <2>3, <3>1 DEF Within
      <4>. QED  BY <2>3, <2>6, <3>1, <4>1, UbxStep DEF Within
    <3>2. CASE Messages[m].type # "UBX"
      <4>1. InNmea(m, j) /\ Messages[m].type = "NMEA"
        BY <2>3, <3>2, KindsShape DEF Within
      <4>. QED  BY <2>3, <2>6, <4>1, NmeaStep DEF Within
    <3>. QED  BY <3>1, <3>2
  <2>8. CASE j + 1 = Size(m)
    BY <2>7, <2>8
  <2>9. CASE j + 1 # Size(m)
    <3>1. i # Size(n) /\ Within(n, i)'
      BY <2>5, <2>7, <2>9
    <3>. QED  BY <1>9, <3>1
  <2>. QED  BY <2>8, <2>9
<1>. QED  BY <1>10, <1>11

\* A byte that arrives is the next one.
LEMMA ArriveFollows ==
  ASSUME TInv, InOrder, Arrive, faults' = 0, Following
  PROVE  Following'
<1>1. /\ SerialBuffer' = Append(SerialBuffer, Byte(msg', pos'))
      /\ \/ pos < Size(msg) /\ msg' = msg /\ pos' = pos + 1
         \/ pos = Size(msg) /\ msg' = msg + 1 /\ pos' = 1
      /\ Byte(msg', pos') \in Bytes
  BY ArriveInOrder
<1>2. UNCHANGED <<ubx_nmea_state, ubx_length, summed, csum1>>
  BY DEF Arrive, parserVars
<1>3. SerialBuffer \in Seq(Bytes)
  BY DEF TInv, BInv, BufferInv
<1>4. ASSUME NEW n \in 1 .. Len(Messages), NEW i \in 1 .. Size(n) - 1, Taken(n, i)
      PROVE  Taken(n, i)'
  <2>1. Size(n) \in Nat
    BY SizeFacts
  <2>2. CASE SerialBuffer = << >>
    <3>1. msg = n /\ pos = i
      BY <1>4, <2>2 DEF Taken
    <3>2. msg' = n /\ pos' = i + 1
      BY <1>1, <2>1, <3>1
    <3>3. SerialBuffer' = <<Byte(n, i + 1)>>
      BY <1>1, <2>2, <3>2
    <3>4. SerialBuffer' # << >> /\ SerialBuffer'[1] = Byte(n, i + 1)
      BY <3>3
    <3>. QED  BY <3>4 DEF Taken
  <2>3. CASE SerialBuffer # << >>
    <3>1. SerialBuffer[1] = Byte(n, i + 1)
      BY <1>4, <2>3 DEF Taken
    <3>2. PICK b \in Bytes : b = Byte(msg', pos')
      BY <1>1
    <3>3. SerialBuffer' = Append(SerialBuffer, b)
      BY <1>1, <3>2
    <3>4. SerialBuffer' # << >> /\ SerialBuffer'[1] = SerialBuffer[1]
      BY <1>3, <2>3, <3>3, AppendProperties
    <3>. QED  BY <3>1, <3>4 DEF Taken
  <2>. QED  BY <2>2, <2>3
<1>. QED  BY <1>2, <1>4, StillFollowing

\* Outside write_file's bytes nothing moves that the framing depends on.
LEMMA NextInStep ==
  ASSUME MessagesFit
  PROVE  StepInv /\ [Next]_vars /\ TInv' => InOrder' /\ InStep'
<1>. SUFFICES ASSUME StepInv, [Next]_vars, faults' = 0 PROVE InOrder' /\ InStep'
  BY DEF InOrder, InStep
<1>0. faults \in Nat /\ TInv /\ InOrder /\ InStep
  BY DEF StepInv, TInv, MoreTypes
<1>1. CASE Arrive
  <2>1. faults = 0 /\ InOrder'
    BY <1>0, <1>1, ArriveInOrder
  <2>2. UNCHANGED <<loop_step, ubx_nmea_state>>
    BY <1>1 DEF Arrive, parserVars
  <2>3. Following => Following'
    BY <1>0, <1>1, ArriveFollows
  <2>. QED  BY <1>0, <2>1, <2>2, <2>3 DEF InStep
<1>2. CASE write_file
  <2>1. UNCHANGED <<faults, msg, pos>> /\ loop_step = "write_file" /\ faults = 0
    BY <1>2 DEF write_file, receiverVars
  <2>2. CASE SerialBuffer # << >>
    <3>1. SerialBuffer' = Tail(SerialBuffer)
      BY <1>2, <2>2 DEF write_file, TakeByte
    <3>2. InOrder'
      BY <1>0, <2>1, <2>2, <3>1, TailInOrder
    <3>3. ubx_nmea_state' \in {"sync_lost", "looking_for_B5_dollar"} \/ Following'
      BY <1>2, <2>1, <2>2, ByteInStep
    <3>4. loop_step' = "write_file" => ubx_nmea_state' # "sync_lost"
      BY <1>2 DEF write_file
    <3>. QED  BY <3>2, <3>3, <3>4 DEF InStep
  <2>3. CASE SerialBuffer = << >>
    <3>1. UNCHANGED <<SerialBuffer, faults, msg, pos, ubx_nmea_state, ubx_length, summed, csum1>>
      BY <1>2, <2>1, <2>3 DEF write_file, parserVars
    <3>2. InOrder'
      BY <1>0, <3>1 DEF InOrder
    <3>3. Following => Following'
      BY <3>1, StillFollowing DEF Taken
    <3>. QED  BY <1>0, <2>1, <3>1, <3>2, <3>3 DEF InStep
  <2>. QED  BY <2>2, <2>3
<1>3. CASE Drain
  <2>1. /\ SerialBuffer # << >> /\ SerialBuffer' = Tail(SerialBuffer)
        /\ UNCHANGED <<faults, msg, pos>> /\ loop_step' # "write_file"
    BY <1>3 DEF Drain, TakeByte, receiverVars
  <2>. QED  BY <1>0, <2>1, TailInOrder DEF InStep
<1>4. CASE ~Arrive /\ ~write_file /\ ~Drain
  <2>1. UNCHANGED <<SerialBuffer, faults, msg, pos>>
    BY <1>4 DEF Next, loop, Tick, init, SetAlarm, start_rawx, open_file, new_file, close_file,
         restart_file, Off, EndOfDwell, BatteryRecovers, vars, receiverVars
  <2>2. InOrder'
    BY <1>0, <2>1 DEF InOrder
  <2>3. CASE loop_step' = "write_file"
    <3>1. \/ ubx_nmea_state' = "looking_for_B5_dollar"
          \/ /\ loop_step = "write_file"
             /\ UNCHANGED <<ubx_nmea_state, ubx_length, summed, csum1>>
      BY <1>4, <2>3 DEF Next, loop, Tick, init, SetAlarm, start_rawx, open_file, new_file, close_file,
         restart_file, Off, EndOfDwell, BatteryRecovers, vars, parserVars
    <3>2. CASE ubx_nmea_state' = "looking_for_B5_dollar"
      BY <2>2, <3>2 DEF InStep
    <3>3. CASE /\ loop_step = "write_file"
               /\ UNCHANGED <<ubx_nmea_state, ubx_length, summed, csum1>>
      <4>1. Following => Following'
        BY <2>1, <3>3, StillFollowing DEF Taken
      <4>. QED  BY <1>0, <2>1, <2>2, <3>3, <4>1 DEF InStep
    <3>. QED  BY <3>1, <3>2, <3>3
  <2>4. CASE loop_step' # "write_file"
    BY <2>2, <2>4 DEF InStep
  <2>. QED  BY <2>2, <2>3, <2>4
<1>. QED  BY <1>1, <1>2, <1>3, <1>4

\* In a stream without faults an alarm waits for the message under way and no
\* longer, however often files were changed, closed or begun inside a message.
THEOREM AlarmServed ==
  ASSUME MessagesFit
  PROVE  Spec => AlarmWaitsForOneMessage
<1>1. Init => StepInv
  <2>1. Init => InOrder
    BY DEF Init, InOrder
  <2>2. Init => InStep
    BY DEF Init, InStep
  <2>. QED  BY <2>1, <2>2, InitTInv DEF StepInv
<1>2. StepInv /\ [Next]_vars => StepInv'
  BY NextTInv, NextInStep DEF StepInv
<1>3. StepInv /\ [Next]_vars =>
        [write_file /\ SerialBuffer # << >> /\ LastByte(Head(SerialBuffer))
         /\ alarmFlag /\ faults = 0 => loop_step' # "write_file"]_vars
  <2>. SUFFICES ASSUME StepInv, write_file, SerialBuffer # << >>, LastByte(Head(SerialBuffer)),
                       alarmFlag, faults = 0
                PROVE  loop_step' # "write_file"
    OBVIOUS
  <2>1. ubx_nmea_state' \in {"sync_lost", "looking_for_B5_dollar"}
    BY ByteInStep
  <2>. QED  BY <2>1 DEF write_file, AtBoundary
<1>. QED  BY <1>1, <1>2, <1>3, PTL DEF Spec, AlarmWaitsForOneMessage
=============================================================================
