-------------------------- MODULE SampleBuffersProofs --------------------------
(***************************************************************************)
(* For every capacity S the template accepts and every element type: a     *)
(* RingBuf object stays inside its array and behaves as a bounded FIFO.    *)
(* For every number of columns and any number of samples besides: the      *)
(* buffers stay in bounds whatever the interrupt timing, they are never    *)
(* further apart than there were races, and without a race the rows are    *)
(* aligned, in order, and none is lost.                                    *)
(***************************************************************************)
EXTENDS SampleBuffers, RingBufObject, TLAPS

\* The object as its methods keep it: the index on a slot, the size within S.
GoodRings == [mBuffer : [Slots -> ET], mReadIndex : Slots, mSize : 0 .. S]

\* The index type chosen by the template holds S itself, and the wider type
\* holds the sum of an index and a size.
LEMMA Widths ==
  /\ ITMod \in Nat /\ BTMod \in Nat
  /\ S < ITMod
  /\ 2 * S < BTMod
<1>. USE SAssumption
<1>1. Byte * Byte \in Nat /\ Byte * Byte >= 2 * Byte
  <2>. DEFINE k == Byte - 2
  <2>1. k \in Nat /\ Byte = k + 2
    OBVIOUS
  <2>2. Byte * Byte = k * k + 4 * k + 4
    BY <2>1
  <2>3. k * k \in Nat
    BY <2>1
  <2>. QED  BY <2>1, <2>2, <2>3
<1>2. ITMod \in Nat /\ ITMod >= 2 /\ S < ITMod
  BY <1>1 DEF ITMod
<1>3. BTMod \in Nat /\ BTMod >= 2 * ITMod
  <2>. DEFINE k == ITMod - 2
  <2>1. k \in Nat /\ ITMod = k + 2
    BY <1>2
  <2>2. ITMod * ITMod = k * k + 4 * k + 4
    BY <2>1
  <2>3. k * k \in Nat
    BY <2>1
  <2>. QED  BY <2>1, <2>2, <2>3 DEF BTMod
<1>. QED  BY <1>2, <1>3

\* A size, or an index just past the last slot, survives its conversion to IT.
LEMMA ToITExact ==
  ASSUME NEW n \in 0 .. S
  PROVE  ToIT(n) = n
BY Widths, SAssumption DEF ToIT

\* A sum of an index and a size survives its conversion to BT.
LEMMA ToBTExact ==
  ASSUME NEW n \in 0 .. (2 * S)
  PROVE  ToBT(n) = n
BY Widths, SAssumption DEF ToBT

\* writeIndex() and operator[] wrap at most once, and land on a slot.
LEMMA OffsetWraps ==
  ASSUME NEW b, b.mReadIndex \in Slots, NEW n \in 0 .. S
  PROVE  /\ Offset(b, n) \in Slots
         /\ Offset(b, n) = IF b.mReadIndex + n >= S THEN b.mReadIndex + n - S
                                                    ELSE b.mReadIndex + n
<1>. DEFINE k == b.mReadIndex + n
             w == IF k >= S THEN k - S ELSE k
<1>1. k \in 0 .. (2 * S - 1)
  BY SAssumption DEF Slots
<1>2. ToBT(k) = k
  BY <1>1, ToBTExact, SAssumption
<1>3. w \in Slots /\ w \in 0 .. S
  BY <1>1, SAssumption DEF Slots
<1>4. ToIT(w) = w
  BY <1>3, ToITExact
<1>5. Offset(b, n) = w
  BY <1>2, <1>4 DEF Offset
<1>6. b.mReadIndex \in Int /\ n \in Int /\ S \in Int
  BY SAssumption DEF Slots
<1>. QED  BY <1>3, <1>5, <1>6

\* Two elements of the buffer are on different slots.
LEMMA OffsetsDiffer ==
  ASSUME NEW b, b.mReadIndex \in Slots, NEW n \in 0 .. S, NEW m \in 0 .. S, m < n, n < S
  PROVE  Offset(b, m) # Offset(b, n)
<1>1. ASSUME NEW r \in 0 .. (S - 1)
      PROVE  (IF r + m >= S THEN r + m - S ELSE r + m)
               # (IF r + n >= S THEN r + n - S ELSE r + n)
  BY SAssumption
<1>2. b.mReadIndex \in 0 .. (S - 1)
  BY DEF Slots
<1>3. Offset(b, m) = IF b.mReadIndex + m >= S THEN b.mReadIndex + m - S
                                             ELSE b.mReadIndex + m
  BY OffsetWraps
<1>4. Offset(b, n) = IF b.mReadIndex + n >= S THEN b.mReadIndex + n - S
                                             ELSE b.mReadIndex + n
  BY OffsetWraps
<1>. QED  BY ONLY <1>1, <1>2, <1>3, <1>4

\* mReadIndex++ followed by its reset steps to the next slot.
LEMMA NextReadIndexWraps ==
  ASSUME NEW b, b.mReadIndex \in Slots
  PROVE  /\ NextReadIndex(b) \in Slots
         /\ NextReadIndex(b) = IF b.mReadIndex + 1 = S THEN 0 ELSE b.mReadIndex + 1
<1>1. b.mReadIndex + 1 \in 0 .. S
  BY SAssumption DEF Slots
<1>2. ToIT(b.mReadIndex + 1) = b.mReadIndex + 1
  BY <1>1, ToITExact
<1>. QED  BY <1>1, <1>2, SAssumption DEF NextReadIndex, ResetAtEnd, Slots

\* push keeps a good object good, and writes inside the array.
LEMMA PushedGood ==
  ASSUME NEW b \in GoodRings, NEW x \in ET
  PROVE  /\ Pushed(b, x) \in GoodRings
         /\ Pushed(b, x).mReadIndex = b.mReadIndex
         /\ ~IsFull(b) => Pushed(b, x).mSize = b.mSize + 1
         /\ IsFull(b) => Pushed(b, x) = b
<1>1. b.mReadIndex \in Slots /\ b.mSize \in 0 .. S /\ b.mBuffer \in [Slots -> ET]
  BY DEF GoodRings
<1>2. CASE IsFull(b)
  BY <1>2 DEF Pushed
<1>3. CASE ~IsFull(b)
  <2>1. b.mSize + 1 \in 0 .. S
    BY <1>1, <1>3, SAssumption DEF IsFull
  <2>2. ToIT(b.mSize + 1) = b.mSize + 1
    BY <2>1, ToITExact
  <2>3. WriteIndex(b) \in Slots
    BY <1>1, OffsetWraps DEF WriteIndex
  <2>4. Pushed(b, x) = [b EXCEPT !.mBuffer = [@ EXCEPT ![WriteIndex(b)] = x],
                                 !.mSize = b.mSize + 1]
    BY <1>3, <2>2 DEF Pushed
  <2>. QED  BY <1>1, <1>3, <2>1, <2>3, <2>4 DEF GoodRings
<1>. QED  BY <1>2, <1>3

\* pop keeps a good object good.
LEMMA PoppedGood ==
  ASSUME NEW b \in GoodRings
  PROVE  /\ Popped(b) \in GoodRings
         /\ ~IsEmpty(b) => /\ Popped(b).mBuffer = b.mBuffer
                           /\ Popped(b).mReadIndex = NextReadIndex(b)
                           /\ Popped(b).mSize = b.mSize - 1
<1>1. b.mReadIndex \in Slots /\ b.mSize \in 0 .. S
  BY DEF GoodRings
<1>2. CASE IsEmpty(b)
  BY <1>2 DEF Popped
<1>3. CASE ~IsEmpty(b)
  <2>1. b.mSize - 1 \in 0 .. S
    BY <1>1, <1>3, SAssumption DEF IsEmpty
  <2>2. ToIT(b.mSize - 1) = b.mSize - 1
    BY <2>1, ToITExact
  <2>3. NextReadIndex(b) \in Slots
    BY <1>1, NextReadIndexWraps
  <2>. QED  BY <1>3, <2>1, <2>2, <2>3 DEF Popped, GoodRings
<1>. QED  BY <1>2, <1>3

\* operator[] reads a slot of the array whatever the index.
LEMMA AtGood ==
  ASSUME NEW b \in GoodRings, NEW i \in IT
  PROVE  At(b, i) \in ET
<1>1. b.mReadIndex \in Slots /\ b.mSize \in 0 .. S /\ b.mBuffer \in [Slots -> ET]
  BY DEF GoodRings
<1>2. CASE i >= b.mSize
  BY <1>1, <1>2, SAssumption DEF At, Slots
<1>3. CASE ~(i >= b.mSize)
  <2>1. i \in 0 .. S
    BY <1>1, <1>3, SAssumption, Widths DEF IT
  <2>2. Offset(b, i) \in Slots
    BY <1>1, <2>1, OffsetWraps
  <2>. QED  BY <1>1, <1>3, <2>2 DEF At
<1>. QED  BY <1>2, <1>3

LEMMA ContentsLength ==
  ASSUME NEW b \in GoodRings
  PROVE  /\ Contents(b) \in Seq(ET)
         /\ Len(Contents(b)) = b.mSize
<1>1. b.mReadIndex \in Slots /\ b.mSize \in Nat /\ b.mSize \in 0 .. S
      /\ b.mBuffer \in [Slots -> ET]
  BY SAssumption DEF GoodRings
<1>2. \A i \in 1 .. b.mSize : b.mBuffer[Offset(b, i - 1)] \in ET
  <2>. TAKE i \in 1 .. b.mSize
  <2>1. i - 1 \in 0 .. S
    BY <1>1, SAssumption
  <2>. QED  BY <1>1, <2>1, OffsetWraps
<1>. QED  BY <1>1, <1>2 DEF Contents

\* A push writes a slot that holds no live element.
LEMMA PushedContents ==
  ASSUME NEW b \in GoodRings, NEW x \in ET, ~IsFull(b)
  PROVE  Contents(Pushed(b, x)) = Append(Contents(b), x)
<1>. DEFINE p == Pushed(b, x)
<1>1. b.mReadIndex \in Slots /\ b.mSize \in 0 .. S /\ b.mBuffer \in [Slots -> ET]
      /\ b.mSize + 1 \in 0 .. S
  BY SAssumption DEF GoodRings, IsFull
<1>2. /\ p \in GoodRings /\ p.mReadIndex = b.mReadIndex /\ p.mSize = b.mSize + 1
  BY PushedGood
<1>3. p.mBuffer = [b.mBuffer EXCEPT ![WriteIndex(b)] = x]
  BY DEF Pushed
<1>4. WriteIndex(b) \in Slots
  BY <1>1, OffsetWraps DEF WriteIndex
<1>5. \A i \in 1 .. b.mSize + 1 :
        p.mBuffer[Offset(p, i - 1)] = Append(Contents(b), x)[i]
  <2>. SUFFICES ASSUME NEW i \in 1 .. b.mSize + 1
                PROVE  p.mBuffer[Offset(p, i - 1)] = Append(Contents(b), x)[i]
    OBVIOUS
  <2>1. i - 1 \in 0 .. S
    BY <1>1, SAssumption
  <2>2. Offset(p, i - 1) = Offset(b, i - 1)
    BY <1>2 DEF Offset
  <2>3. CASE i = b.mSize + 1
    <3>1. Offset(b, i - 1) = WriteIndex(b)
      BY <1>1, <2>3, SAssumption DEF WriteIndex
    <3>. QED  BY <1>1, <1>3, <1>4, <2>2, <2>3, <3>1, ContentsLength
  <2>4. CASE i \in 1 .. b.mSize
    <3>1. Offset(b, i - 1) # Offset(b, b.mSize)
      <4>1. i - 1 < b.mSize /\ b.mSize < S
        BY <1>1, <2>4, SAssumption
      <4>. QED  BY <1>1, <2>1, <4>1, OffsetsDiffer
    <3>2. Offset(b, i - 1) \in Slots
      BY <1>1, <2>1, OffsetWraps
    <3>3. p.mBuffer[Offset(p, i - 1)] = b.mBuffer[Offset(b, i - 1)]
      BY <1>1, <1>3, <1>4, <2>2, <3>1, <3>2 DEF WriteIndex
    <3>4. Append(Contents(b), x)[i] = Contents(b)[i]
      BY <2>4, ContentsLength
    <3>. QED  BY <2>4, <3>3, <3>4 DEF Contents
  <2>5. i = b.mSize + 1 \/ i \in 1 .. b.mSize
    BY <1>1, SAssumption
  <2>. QED  BY <2>3, <2>4, <2>5
<1>6. Contents(p) \in Seq(ET) /\ Len(Contents(p)) = b.mSize + 1
  BY <1>2, ContentsLength
<1>7. Append(Contents(b), x) \in Seq(ET) /\ Len(Append(Contents(b), x)) = b.mSize + 1
  BY ContentsLength
<1>8. \A i \in 1 .. b.mSize + 1 : Contents(p)[i] = Append(Contents(b), x)[i]
  BY <1>2, <1>5 DEF Contents
<1>. QED  BY <1>6, <1>7, <1>8

\* A pop delivers the oldest element and removes no other.
LEMMA PoppedContents ==
  ASSUME NEW b \in GoodRings, ~IsEmpty(b)
  PROVE  /\ Contents(b) # << >>
         /\ b.mBuffer[b.mReadIndex] = Head(Contents(b))
         /\ Contents(Popped(b)) = Tail(Contents(b))
<1>. DEFINE p == Popped(b)
<1>1. b.mReadIndex \in Slots /\ b.mSize \in 1 .. S /\ b.mBuffer \in [Slots -> ET]
  BY SAssumption DEF GoodRings, IsEmpty
<1>2. /\ p \in GoodRings /\ p.mBuffer = b.mBuffer
      /\ p.mReadIndex = NextReadIndex(b) /\ p.mSize = b.mSize - 1
  BY PoppedGood
<1>3. Contents(b) \in Seq(ET) /\ Len(Contents(b)) = b.mSize
  BY ContentsLength
<1>4. Contents(b) # << >>
  BY <1>1, <1>3
<1>5. b.mBuffer[b.mReadIndex] = Head(Contents(b))
  <2>1. Offset(b, 0) = b.mReadIndex
    BY <1>1, OffsetWraps, SAssumption DEF Slots
  <2>2. Contents(b)[1] = b.mBuffer[Offset(b, 0)]
    BY <1>1, SAssumption DEF Contents
  <2>. QED  BY <1>3, <1>4, <2>1, <2>2
<1>6. \A i \in 1 .. b.mSize - 1 : p.mBuffer[Offset(p, i - 1)] = Contents(b)[i + 1]
  <2>. SUFFICES ASSUME NEW i \in 1 .. b.mSize - 1
                PROVE  p.mBuffer[Offset(p, i - 1)] = Contents(b)[i + 1]
    OBVIOUS
  <2>1. i - 1 \in 0 .. S /\ i \in 0 .. S /\ i + 1 \in 1 .. b.mSize /\ i < S
    BY <1>1, SAssumption
  <2>2. NextReadIndex(b) = IF b.mReadIndex + 1 = S THEN 0 ELSE b.mReadIndex + 1
    BY <1>1, NextReadIndexWraps
  <2>3. p.mReadIndex \in Slots
    BY <1>2 DEF GoodRings
  <2>4. Offset(p, i - 1) = Offset(b, i)
    <3>1. Offset(p, i - 1) = IF p.mReadIndex + (i - 1) >= S
                               THEN p.mReadIndex + (i - 1) - S
                               ELSE p.mReadIndex + (i - 1)
      BY <2>1, <2>3, OffsetWraps
    <3>2. Offset(b, i) = IF b.mReadIndex + i >= S THEN b.mReadIndex + i - S
                                                  ELSE b.mReadIndex + i
      BY <1>1, <2>1, OffsetWraps
    <3>3. p.mReadIndex = IF b.mReadIndex + 1 = S THEN 0 ELSE b.mReadIndex + 1
      BY <1>2, <2>2
    <3>. QED  BY <1>1, <2>1, <3>1, <3>2, <3>3, SAssumption DEF Slots
  <2>5. Contents(b)[i + 1] = b.mBuffer[Offset(b, i)]
    BY <1>1, <2>1, SAssumption DEF Contents
  <2>. QED  BY <1>2, <2>4, <2>5
<1>7. Contents(p) \in Seq(ET) /\ Len(Contents(p)) = b.mSize - 1
  BY <1>2, ContentsLength
<1>8. Tail(Contents(b)) \in Seq(ET) /\ Len(Tail(Contents(b))) = b.mSize - 1
  BY <1>1, <1>3, <1>4
<1>9. \A i \in 1 .. b.mSize - 1 : Contents(p)[i] = Tail(Contents(b))[i]
  <2>. SUFFICES ASSUME NEW i \in 1 .. b.mSize - 1
                PROVE  Contents(p)[i] = Tail(Contents(b))[i]
    OBVIOUS
  <2>1. Contents(p)[i] = p.mBuffer[Offset(p, i - 1)]
    BY <1>2 DEF Contents
  <2>2. Tail(Contents(b))[i] = Contents(b)[i + 1]
    BY <1>1, <1>3, <1>4
  <2>. QED  BY <1>6, <2>1, <2>2
<1>. QED  BY <1>4, <1>5, <1>7, <1>8, <1>9

LEMMA EmptyContents ==
  ASSUME NEW b, b.mSize = 0
  PROVE  Contents(b) = << >>
BY DEF Contents

-----------------------------------------------------------------------------
(* The object *)

IInv == rb \in GoodRings /\ out \in ET /\ ok \in BOOLEAN

LEMMA InitIInv == RingInit => IInv
<1>1. 0 \in Slots /\ 0 \in 0 .. S /\ [k \in Slots |-> Zero] \in [Slots -> ET]
  BY SAssumption DEF Slots
<1>. QED  BY <1>1, SAssumption DEF RingInit, IInv, NewRingBuf, GoodRings

LEMMA NextIInv == IInv /\ [RingNext]_ringVars => IInv'
<1>. SUFFICES ASSUME IInv, [RingNext]_ringVars PROVE IInv'
  OBVIOUS
<1>1. CASE \E x \in ET : push(x)
  <2>1. PICK x \in ET : push(x)
    BY <1>1
  <2>. QED  BY <2>1, PushedGood DEF push, IInv
<1>2. CASE pop
  <2>1. rb.mBuffer[rb.mReadIndex] \in ET
    BY DEF IInv, GoodRings
  <2>. QED  BY <1>2, <2>1, PoppedGood DEF pop, IInv
<1>3. CASE \E i \in IT : read(i)
  BY <1>3, AtGood DEF read, IInv
<1>4. CASE clear
  BY <1>4, SAssumption DEF clear, Cleared, IInv, GoodRings
<1>5. CASE UNCHANGED ringVars
  BY <1>5 DEF ringVars, IInv
<1>. QED  BY <1>1, <1>2, <1>3, <1>4, <1>5 DEF RingNext

LEMMA IInvTypeOK == IInv => RingTypeOK
<1>1. Slots \subseteq IT /\ 0 .. S \subseteq IT
  BY Widths, SAssumption DEF Slots, IT
<1>. QED  BY <1>1 DEF IInv, RingTypeOK, GoodRings, RingBufs

\* For every S in 1..65535 the index arithmetic of RingBuf.h never leaves the
\* array, in either integer width, and never overflows it.
THEOREM RingTypeCorrect == RingSpec => []RingTypeOK
BY InitIInv, NextIInv, IInvTypeOK, PTL DEF RingSpec

-----------------------------------------------------------------------------
(* Refinement of BoundedFifo *)

LEMMA RefinesInit == RingInit => Fifo!Init
BY EmptyContents DEF RingInit, NewRingBuf, Fifo!Init

LEMMA RefinesPush ==
  ASSUME IInv, NEW x \in ET, push(x)
  PROVE  Fifo!Push(x)
<1>1. rb \in GoodRings /\ rb.mSize \in 0 .. S
  BY DEF IInv, GoodRings
<1>2. Len(Contents(rb)) = rb.mSize
  BY <1>1, ContentsLength
<1>3. IsFull(rb) <=> ~(Len(Contents(rb)) < S)
  BY <1>1, <1>2, SAssumption DEF IsFull
<1>4. CASE IsFull(rb)
  <2>1. rb' = rb
    BY <1>4 DEF push, Pushed
  <2>. QED  BY <1>3, <1>4, <2>1 DEF push, Fifo!Push
<1>5. CASE ~IsFull(rb)
  <2>1. Contents(rb') = Append(Contents(rb), x)
    BY <1>1, <1>5, PushedContents DEF push
  <2>. QED  BY <1>3, <1>5, <2>1 DEF push, Fifo!Push
<1>. QED  BY <1>4, <1>5

LEMMA RefinesPop ==
  ASSUME IInv, pop
  PROVE  Fifo!Pop
<1>1. rb \in GoodRings
  BY DEF IInv
<1>2. CASE IsEmpty(rb)
  <2>1. Contents(rb) = << >> /\ rb' = rb
    BY <1>2, EmptyContents DEF IsEmpty, pop, Popped
  <2>. QED  BY <1>2, <2>1 DEF pop, Fifo!Pop
<1>3. CASE ~IsEmpty(rb)
  <2>1. /\ Contents(rb) # << >>
        /\ rb.mBuffer[rb.mReadIndex] = Head(Contents(rb))
        /\ Contents(rb') = Tail(Contents(rb))
    BY <1>1, <1>3, PoppedContents DEF pop
  <2>. QED  BY <1>3, <2>1 DEF pop, Fifo!Pop
<1>. QED  BY <1>2, <1>3

LEMMA RefinesRead ==
  ASSUME IInv, NEW i \in IT, read(i)
  PROVE  \E k \in 0 .. S : Fifo!ReadAt(k)
<1>1. rb \in GoodRings /\ rb.mSize \in 0 .. S
  BY DEF IInv, GoodRings
<1>2. Len(Contents(rb)) = rb.mSize
  BY <1>1, ContentsLength
<1>3. i \in Nat
  BY Widths DEF IT
<1>4. CASE i < rb.mSize
  <2>1. i \in 0 .. S /\ i + 1 \in 1 .. rb.mSize /\ ~(i >= rb.mSize) /\ (i + 1) - 1 = i
    BY <1>1, <1>3, <1>4, SAssumption
  <2>2. At(rb, i) = Contents(rb)[i + 1]
    BY <2>1 DEF At, Contents
  <2>3. Fifo!ReadAt(i)
    BY <1>2, <1>4, <2>2 DEF read, Fifo!ReadAt
  <2>. QED  BY <2>1, <2>3
<1>5. CASE ~(i < rb.mSize)
  <2>1. At(rb, i) \in ET
    BY <1>1, AtGood
  <2>2. S \in 0 .. S /\ ~(S < rb.mSize)
    BY <1>1, SAssumption
  <2>3. Fifo!ReadAt(S)
    BY <1>2, <2>1, <2>2 DEF read, Fifo!ReadAt
  <2>. QED  BY <2>2, <2>3
<1>. QED  BY <1>4, <1>5

LEMMA RefinesClear ==
  ASSUME IInv, clear
  PROVE  Fifo!Clear
<1>1. rb'.mSize = 0
  BY DEF IInv, GoodRings, clear, Cleared
<1>2. Contents(rb') = << >>
  BY <1>1, EmptyContents
<1>. QED  BY <1>2 DEF clear, Fifo!Clear

LEMMA RefinesNext == IInv /\ [RingNext]_ringVars => [Fifo!Next]_(Fifo!vars)
<1>. SUFFICES ASSUME IInv, [RingNext]_ringVars PROVE [Fifo!Next]_(Fifo!vars)
  OBVIOUS
<1>1. CASE \E x \in ET : push(x)
  BY <1>1, RefinesPush DEF Fifo!Next
<1>2. CASE pop
  BY <1>2, RefinesPop DEF Fifo!Next
<1>3. CASE \E i \in IT : read(i)
  BY <1>3, RefinesRead DEF Fifo!Next
<1>4. CASE clear
  BY <1>4, RefinesClear DEF Fifo!Next
<1>5. CASE UNCHANGED ringVars
  BY <1>5 DEF ringVars, Fifo!vars
<1>. QED  BY <1>1, <1>2, <1>3, <1>4, <1>5 DEF RingNext

\* For every capacity and element type, RingBuf.h implements the bounded FIFO:
\* every method call is the abstract operation of the same name.
THEOREM RingRefinement == RingSpec => ImplementsFifo
<1>1. RingSpec => []IInv
  BY InitIInv, NextIInv, PTL DEF RingSpec
<1>. QED  BY <1>1, RefinesInit, RefinesNext, PTL DEF RingSpec, ImplementsFifo, Fifo!Spec
-----------------------------------------------------------------------------
(***************************************************************************)
(* Bounds.  Between the test and the store of a pop only readSensors() can *)
(* touch the column, and it only makes mSize larger: the value loaded is   *)
(* at least 1 and at most the current one.                                 *)
(***************************************************************************)
PopInProgress == "size" \in pending => 1 <= loaded /\ loaded <= buf[col].mSize

BInv == TypeOK /\ PopInProgress

LEMMA BuffersAreGood ==
  [Columns -> [mBuffer : [Slots -> ET], mReadIndex : Slots, mSize : 0 .. S]]
    = [Columns -> GoodRings]
BY DEF GoodRings

LEMMA InitBInv == Init => BInv
<1>. SUFFICES ASSUME Init PROVE BInv
  OBVIOUS
<1>1. NewRingBuf \in GoodRings
  <2>1. 0 \in Slots /\ 0 \in 0 .. S /\ [k \in Slots |-> Zero] \in [Slots -> ET]
    BY SAssumption DEF Slots
  <2>. QED  BY <2>1 DEF NewRingBuf, GoodRings
<1>2. buf \in [Columns -> GoodRings]
  BY <1>1 DEF Init
<1>3. 0 \in ET /\ 0 \in 0 .. S /\ 0 \in 0 .. MaxSamples /\ 0 \in 0 .. (NCols + 1)
  BY SAssumption, ColumnsAssumption
<1>4. row \in [Columns -> ET] /\ last \in [Columns -> ET]
  BY <1>3, ColumnsAssumption DEF Init
<1>5. TypeOK
  <2>1. enLog \in BOOLEAN
    BY DEF Init
  <2>2. accepted \in 0 .. sampled /\ races \in 0 .. accepted
    BY DEF Init
  <2>. QED  BY <1>2, <1>3, <1>4, <2>1, <2>2, BuffersAreGood DEF Init, TypeOK
<1>. QED  BY <1>5 DEF Init, BInv, PopInProgress

LEMMA StoredType ==
  ASSUME TypeOK, NEW store \in pending, Stored(store)
  PROVE  /\ pending' \in SUBSET {"index", "size"}
         /\ col' \in 0 .. (NCols + 1)
         /\ pending' # {} => col' = col /\ col \in Columns
<1>1. col \in 1 .. NCols /\ NCols \in Nat
  BY ColumnsAssumption DEF TypeOK, Columns
<1>. QED  BY <1>1 DEF TypeOK, Stored, Columns

LEMMA NextBInv == BInv /\ [Next]_vars => BInv'
<1>. SUFFICES ASSUME BInv, [Next]_vars PROVE BInv'
  OBVIOUS
<1>. USE BuffersAreGood
<1>0. /\ buf \in [Columns -> GoodRings] /\ TypeOK /\ PopInProgress
      /\ \A i \in Columns : buf[i].mSize \in 0 .. S /\ buf[i].mReadIndex \in Slots
                            /\ buf[i].mBuffer \in [Slots -> ET]
  BY DEF BInv, TypeOK, GoodRings
<1>1. CASE handleDigitalIO
  BY <1>0, <1>1 DEF BInv, TypeOK, PopInProgress, handleDigitalIO, loopVars
<1>2. CASE readSensors
  <2>1. CASE IsFull(buf[1])
    <3>1. /\ enLog' = enLog /\ buf' = buf /\ row' = row /\ col' = col /\ pending' = pending
          /\ loaded' = loaded /\ accepted' = accepted /\ logged' = logged /\ last' = last
          /\ races' = races
      BY <1>2, <2>1 DEF readSensors, loopVars
    <3>2. sampled' \in 0 .. MaxSamples /\ accepted \in 0 .. sampled'
      BY <1>0, <1>2, ColumnsAssumption DEF TypeOK, readSensors
    <3>3. TypeOK'
      BY <1>0, <3>1, <3>2, Zenon DEF TypeOK
    <3>4. PopInProgress'
      BY <1>0, <3>1, Zenon DEF PopInProgress
    <3>. QED  BY <3>3, <3>4 DEF BInv
  <2>2. CASE ~IsFull(buf[1])
    <3>1. sampled + 1 \in ET /\ sampled + 1 \in 0 .. MaxSamples
      BY <1>0, <1>2, ColumnsAssumption DEF TypeOK, readSensors
    <3>2. buf' = [i \in Columns |-> Pushed(buf[i], sampled + 1)]
      BY <1>2, <2>2 DEF readSensors
    <3>3. buf' \in [Columns -> GoodRings]
      BY <1>0, <3>1, <3>2, PushedGood
    <3>4. \A i \in Columns : buf[i].mSize <= buf'[i].mSize
      <4>. SUFFICES ASSUME NEW i \in Columns PROVE buf[i].mSize <= buf'[i].mSize
        OBVIOUS
      <4>1. buf[i] \in GoodRings /\ buf'[i] = Pushed(buf[i], sampled + 1)
        BY <1>0, <3>2
      <4>2. buf'[i].mSize = buf[i].mSize \/ buf'[i].mSize = buf[i].mSize + 1
        BY <3>1, <4>1, PushedGood
      <4>. QED  BY <1>0, <4>2, SAssumption
    <3>5. /\ sampled' \in 0 .. MaxSamples
          /\ accepted' \in 0 .. sampled'
          /\ races' \in 0 .. accepted'
      BY <1>0, <1>2, <2>2, <3>1 DEF TypeOK, readSensors
    <3>6. TypeOK'
      BY <1>0, <1>2, <3>3, <3>5 DEF TypeOK, readSensors, loopVars
    <3>7. PopInProgress'
      BY <1>0, <1>2, <3>3, <3>4, SAssumption
         DEF PopInProgress, TypeOK, readSensors, loopVars, GoodRings
    <3>. QED  BY <3>6, <3>7 DEF BInv
  <2>. QED  BY <2>1, <2>2
<1>3. CASE StartRow
  <2>1. pending = {} /\ col' \in 0 .. (NCols + 1)
    BY <1>0, <1>3, ColumnsAssumption DEF TypeOK, StartRow, Columns
  <2>. QED  BY <1>0, <1>3, <2>1 DEF BInv, TypeOK, PopInProgress, StartRow
<1>4. CASE PopEmpty
  <2>1. col + 1 \in 0 .. (NCols + 1)
    BY <1>4, ColumnsAssumption DEF PopEmpty, Columns
  <2>. QED  BY <1>0, <1>4, <2>1 DEF BInv, TypeOK, PopInProgress, PopEmpty
<1>5. CASE PopLoad
  <2>1. col \in Columns /\ buf[col].mSize \in 1 .. S
    BY <1>0, <1>5, SAssumption DEF PopLoad, IsEmpty
  <2>2. row' \in [Columns -> ET]
    BY <1>0, <1>5, <2>1 DEF PopLoad, TypeOK
  <2>. QED  BY <1>0, <1>5, <2>1, <2>2, SAssumption
            DEF BInv, TypeOK, PopInProgress, PopLoad, PopStores
<1>6. CASE StoreIndex
  <2>1. col \in Columns /\ NextReadIndex(buf[col]) \in Slots
    BY <1>0, <1>6, NextReadIndexWraps DEF StoreIndex, TypeOK
  <2>2. /\ buf' \in [Columns -> GoodRings]
        /\ \A i \in Columns : buf'[i].mSize = buf[i].mSize
    BY <1>0, <1>6, <2>1 DEF StoreIndex, GoodRings
  <2>3. /\ pending' \in SUBSET {"index", "size"} /\ pending' \subseteq pending
        /\ col' \in 0 .. (NCols + 1)
        /\ pending' # {} => col' = col /\ col \in Columns
    BY <1>0, <1>6, StoredType DEF StoreIndex, Stored
  <2>. QED  BY <1>0, <1>6, <2>1, <2>2, <2>3 DEF BInv, TypeOK, PopInProgress, StoreIndex
<1>7. CASE StoreSize
  <2>1. PICK n \in {loaded, buf[col].mSize} :
          buf' = [buf EXCEPT ![col] = [@ EXCEPT !.mSize = ToIT(n - 1)]]
    BY <1>7 DEF StoreSize
  <2>2. col \in Columns /\ n \in 1 .. S
    BY <1>0, <1>7, SAssumption DEF StoreSize, TypeOK, PopInProgress
  <2>3. ToIT(n - 1) = n - 1 /\ n - 1 \in 0 .. S
    BY <2>2, ToITExact, SAssumption
  <2>4. buf' \in [Columns -> GoodRings]
    BY <1>0, <2>1, <2>2, <2>3 DEF GoodRings
  <2>5. /\ pending' \in SUBSET {"index", "size"} /\ "size" \notin pending'
        /\ col' \in 0 .. (NCols + 1)
        /\ pending' # {} => col' = col /\ col \in Columns
    BY <1>0, <1>7, StoredType DEF StoreSize, Stored
  <2>. QED  BY <1>0, <1>7, <2>4, <2>5 DEF BInv, TypeOK, PopInProgress, StoreSize
<1>8. CASE LogRow
  <2>1. pending = {} /\ col' \in 0 .. (NCols + 1)
    BY <1>0, <1>8, ColumnsAssumption DEF TypeOK, LogRow, Columns
  <2>. QED  BY <1>0, <1>8, <2>1 DEF BInv, TypeOK, PopInProgress, LogRow
<1>9. CASE UNCHANGED vars
  BY <1>0, <1>9 DEF BInv, TypeOK, PopInProgress, vars
<1>. QED  BY <1>1, <1>2, <1>3, <1>4, <1>5, <1>6, <1>7, <1>8, <1>9 DEF Next, Loop

\* For any number of columns and any capacity, no interleaving of readSensors()
\* with the unlocked pops of loop() takes an index or a size out of bounds.
THEOREM TypeCorrect == Spec => []TypeOK
<1>1. BInv => TypeOK
  BY DEF BInv
<1>. QED  BY <1>1, InitBInv, NextBInv, PTL DEF Spec
-----------------------------------------------------------------------------
(***************************************************************************)
(* Alignment.  Without a race every column makes the same moves, a column  *)
(* not yet popped being one pop behind: once the pops of the current row   *)
(* are counted in (Settled...), the columns are equal, slot for slot.      *)
(***************************************************************************)
IndexDone(i) == col = 0 \/ i < col \/ (i = col /\ pending # {} /\ "index" \notin pending)
SizeDone(i)  == col = 0 \/ i < col \/ (i = col /\ pending # {} /\ "size" \notin pending)

\* The value of column i has been copied into row.
Taken(i) == i < col \/ (i = col /\ pending # {})

SettledIndex(i) == IF IndexDone(i) THEN buf[i].mReadIndex ELSE NextReadIndex(buf[i])
SettledSize(i)  == IF SizeDone(i) THEN buf[i].mSize ELSE buf[i].mSize - 1

\* time_buf with the pops of the current row counted in.
Settled == [mBuffer |-> buf[1].mBuffer, mReadIndex |-> SettledIndex(1), mSize |-> SettledSize(1)]

\* What column i has given, or will give, to the current row.
RowValue(i) == IF Taken(i) THEN row[i] ELSE buf[i].mBuffer[buf[i].mReadIndex]

SameMoves ==
  \A i \in Columns : /\ buf[i].mBuffer = buf[1].mBuffer
                     /\ SettledIndex(i) = SettledIndex(1)
                     /\ SettledSize(i) = SettledSize(1)

StillToPop == \A i \in Columns : ~SizeDone(i) => buf[i].mSize >= 1
SameRow == col # 0 => \A i \in Columns : RowValue(i) = RowValue(1)
LoadedCurrent == "size" \in pending => loaded = buf[col].mSize
Accounted == accepted = logged + SettledSize(1) + (IF col = 0 THEN 0 ELSE 1)

AInv == races = 0 => /\ SameMoves /\ StillToPop /\ SameRow
                     /\ LoadedCurrent /\ Accounted /\ Aligned(last)

LEMMA InitAInv == Init => AInv
<1>. SUFFICES ASSUME Init PROVE AInv
  OBVIOUS
<1>1. \A i \in Columns : buf[i] = NewRingBuf /\ last[i] = 0
  BY ColumnsAssumption DEF Init
<1>2. 1 \in Columns /\ NewRingBuf.mSize = 0
  BY ColumnsAssumption DEF Columns, NewRingBuf
<1>. QED  BY <1>1, <1>2 DEF Init, AInv, SameMoves, StillToPop, SameRow, LoadedCurrent,
            Accounted, Aligned, IndexDone, SizeDone, SettledIndex, SettledSize

\* What TypeOK gives about one column.
LEMMA ColumnTypes ==
  ASSUME TypeOK, NEW i \in Columns
  PROVE  /\ buf[i] \in GoodRings
         /\ buf[i].mBuffer \in [Slots -> ET]
         /\ buf[i].mReadIndex \in Slots
         /\ buf[i].mSize \in 0 .. S /\ buf[i].mSize \in Nat
         /\ col \in Nat /\ i \in Nat /\ NCols \in Nat /\ logged \in Nat /\ accepted \in Nat
         /\ 1 \in Columns
<1>1. buf[i] \in GoodRings
  BY BuffersAreGood DEF TypeOK
<1>2. sampled \in Nat /\ accepted \in 0 .. sampled /\ logged \in Nat
  BY ColumnsAssumption DEF TypeOK
<1>3. col \in Nat /\ i \in Nat /\ NCols \in Nat /\ 1 \in Columns
  BY ColumnsAssumption DEF TypeOK, Columns
<1>4. buf[i].mSize \in 0 .. S /\ S \in Nat
  BY <1>1, SAssumption DEF GoodRings
<1>. QED  BY <1>1, <1>2, <1>3, <1>4 DEF GoodRings

\* A column one pop behind writes to the same slot as one that is not.
LEMMA SameSlot ==
  ASSUME NEW b, b.mReadIndex \in Slots, b.mSize \in 1 .. S,
         NEW r, r = NextReadIndex(b), NEW n, n = b.mSize - 1
  PROVE  WriteIndex(b) = IF r + n >= S THEN r + n - S ELSE r + n
<1>1. ASSUME NEW q \in 0 .. (S - 1), NEW m \in 1 .. S,
             NEW p, p = IF q + 1 = S THEN 0 ELSE q + 1
      PROVE  (IF q + m >= S THEN q + m - S ELSE q + m)
               = (IF p + (m - 1) >= S THEN p + (m - 1) - S ELSE p + (m - 1))
  BY <1>1, SAssumption
<1>2. b.mReadIndex \in 0 .. (S - 1) /\ b.mSize \in 0 .. S
  BY SAssumption DEF Slots
<1>3. WriteIndex(b) = IF b.mReadIndex + b.mSize >= S THEN b.mReadIndex + b.mSize - S
                                                    ELSE b.mReadIndex + b.mSize
  BY <1>2, OffsetWraps DEF WriteIndex
<1>4. r = IF b.mReadIndex + 1 = S THEN 0 ELSE b.mReadIndex + 1
  BY NextReadIndexWraps
<1>. QED  BY <1>1, <1>2, <1>3, <1>4

LEMMA ColumnsWriteSameSlot ==
  ASSUME TypeOK, SameMoves, StillToPop, pending = {}, NEW i \in Columns
  PROVE  /\ WriteIndex(buf[i]) = WriteIndex(buf[1])
         /\ WriteIndex(buf[i]) = IF SettledIndex(1) + SettledSize(1) >= S
                                   THEN SettledIndex(1) + SettledSize(1) - S
                                   ELSE SettledIndex(1) + SettledSize(1)
<1>1. ASSUME NEW j \in Columns
      PROVE  WriteIndex(buf[j]) = IF SettledIndex(j) + SettledSize(j) >= S
                                    THEN SettledIndex(j) + SettledSize(j) - S
                                    ELSE SettledIndex(j) + SettledSize(j)
  <2>1. buf[j].mReadIndex \in Slots /\ buf[j].mSize \in 0 .. S
    BY ColumnTypes
  <2>2. CASE SizeDone(j)
    <3>1. IndexDone(j)
      BY <2>2 DEF SizeDone, IndexDone
    <3>. QED  BY <2>1, <2>2, <3>1, OffsetWraps DEF WriteIndex, SettledIndex, SettledSize
  <2>3. CASE ~SizeDone(j)
    <3>1. ~IndexDone(j)
      BY <2>3 DEF SizeDone, IndexDone
    <3>2. buf[j].mSize \in 1 .. S
      BY <2>1, <2>3, SAssumption DEF StillToPop
    <3>. QED  BY <2>1, <2>3, <3>1, <3>2, SameSlot DEF SettledIndex, SettledSize
  <2>. QED  BY <2>2, <2>3
<1>2. 1 \in Columns
  BY ColumnTypes
<1>. QED  BY <1>1, <1>2 DEF SameMoves

Even == SameMoves /\ StillToPop /\ SameRow /\ LoadedCurrent /\ Accounted /\ Aligned(last)

\* A sample outside any pop, with no column full, goes to the same slot of
\* every column.
LEMMA ReadSensorsEven ==
  ASSUME TypeOK, Even, readSensors, pending = {}, ~OtherColumnFull, ~IsFull(buf[1])
  PROVE  /\ Even'
         /\ Settled' = [mBuffer |-> [buf[1].mBuffer EXCEPT ![WriteIndex(buf[1])] = sampled + 1],
                        mReadIndex |-> SettledIndex(1), mSize |-> SettledSize(1) + 1]
         /\ col # 0 => RowValue(1)' = RowValue(1)
<1>. DEFINE x == sampled + 1
<1>1. x \in ET
  BY ColumnsAssumption DEF TypeOK, readSensors
<1>2. \A i \in Columns : buf'[i] = Pushed(buf[i], x) /\ ~IsFull(buf[i])
  BY DEF readSensors, OtherColumnFull
<1>3. /\ UNCHANGED <<row, col, pending, loaded, logged, last>>
      /\ accepted' = accepted + 1
  BY DEF readSensors, loopVars
<1>4. ASSUME NEW i \in Columns
      PROVE  /\ buf'[i].mReadIndex = buf[i].mReadIndex
             /\ buf'[i].mSize = buf[i].mSize + 1
             /\ buf'[i].mBuffer = [buf[i].mBuffer EXCEPT ![WriteIndex(buf[1])] = x]
  <2>1. buf[i] \in GoodRings /\ buf'[i] = Pushed(buf[i], x) /\ ~IsFull(buf[i])
    BY <1>2, ColumnTypes
  <2>2. WriteIndex(buf[i]) = WriteIndex(buf[1])
    BY ColumnsWriteSameSlot DEF Even
  <2>3. /\ buf'[i].mReadIndex = buf[i].mReadIndex
        /\ buf'[i].mSize = buf[i].mSize + 1
    BY <1>1, <2>1, PushedGood
  <2>4. buf'[i].mBuffer = [buf[i].mBuffer EXCEPT ![WriteIndex(buf[i])] = x]
    BY <2>1 DEF Pushed, GoodRings
  <2>. QED  BY <2>2, <2>3, <2>4
<1>5. ASSUME NEW i \in Columns
      PROVE  /\ IndexDone(i)' <=> IndexDone(i)
             /\ SizeDone(i)' <=> SizeDone(i)
             /\ Taken(i)' <=> Taken(i)
             /\ SettledIndex(i)' = SettledIndex(i)
             /\ SettledSize(i)' = SettledSize(i) + 1
  <2>1. /\ IndexDone(i)' <=> IndexDone(i)
        /\ SizeDone(i)' <=> SizeDone(i)
        /\ Taken(i)' <=> Taken(i)
    BY <1>3 DEF IndexDone, SizeDone, Taken
  <2>2. NextReadIndex(buf'[i]) = NextReadIndex(buf[i])
    BY <1>4 DEF NextReadIndex
  <2>3. buf[i].mSize \in Nat
    BY ColumnTypes
  <2>4. SettledIndex(i)' = SettledIndex(i)
    BY <1>4, <2>1, <2>2 DEF SettledIndex
  <2>5. SettledSize(i)' = SettledSize(i) + 1
    <3>1. buf'[i].mSize = buf[i].mSize + 1
      BY <1>4
    <3>2. CASE SizeDone(i)
      BY <2>1, <3>1, <3>2 DEF SettledSize
    <3>3. CASE ~SizeDone(i)
      <4>1. SettledSize(i)' = buf'[i].mSize - 1 /\ SettledSize(i) = buf[i].mSize - 1
        BY <2>1, <3>3 DEF SettledSize
      <4>. QED  BY <2>3, <3>1, <4>1
    <3>. QED  BY <3>2, <3>3
  <2>. QED  BY <2>1, <2>4, <2>5
<1>6. 1 \in Columns
  BY ColumnsAssumption DEF Columns
<1>7. SameMoves'
  <2>. SUFFICES ASSUME NEW i \in Columns
                PROVE  /\ buf'[i].mBuffer = buf'[1].mBuffer
                       /\ SettledIndex(i)' = SettledIndex(1)'
                       /\ SettledSize(i)' = SettledSize(1)'
    BY DEF SameMoves
  <2>1. /\ buf[i].mBuffer = buf[1].mBuffer
        /\ SettledIndex(i) = SettledIndex(1)
        /\ SettledSize(i) = SettledSize(1)
    BY DEF SameMoves, Even
  <2>2. buf'[i].mBuffer = buf'[1].mBuffer
    <3>1. /\ buf'[i].mBuffer = [buf[i].mBuffer EXCEPT ![WriteIndex(buf[1])] = x]
          /\ buf'[1].mBuffer = [buf[1].mBuffer EXCEPT ![WriteIndex(buf[1])] = x]
      BY <1>4, <1>6
    <3>. QED  BY <2>1, <3>1
  <2>3. SettledIndex(i)' = SettledIndex(1)'
    <3>1. /\ SettledIndex(i)' = SettledIndex(i)
          /\ SettledIndex(1)' = SettledIndex(1)
      BY <1>5, <1>6
    <3>. QED  BY <2>1, <3>1
  <2>4. SettledSize(i)' = SettledSize(1)'
    <3>1. /\ SettledSize(i)' = SettledSize(i) + 1
          /\ SettledSize(1)' = SettledSize(1) + 1
      BY <1>5, <1>6
    <3>. QED  BY <2>1, <3>1
  <2>. QED  BY <2>2, <2>3, <2>4
<1>8. StillToPop'
  <2>. SUFFICES ASSUME NEW i \in Columns, ~SizeDone(i)' PROVE buf'[i].mSize >= 1
    BY DEF StillToPop
  <2>1. buf'[i].mSize = buf[i].mSize + 1 /\ buf[i].mSize \in Nat
    BY <1>4, ColumnTypes
  <2>. QED  BY <2>1
<1>9. ASSUME NEW i \in Columns, col # 0 PROVE RowValue(i)' = RowValue(i)
  <2>1. CASE Taken(i)
    BY <1>3, <1>5, <2>1 DEF RowValue
  <2>2. CASE ~Taken(i)
    <3>1. ~SizeDone(i)
      BY <1>9, <2>2 DEF Taken, SizeDone
    <3>2. buf[i].mReadIndex \in Slots /\ buf[i].mSize \in 1 .. S /\ buf[i].mSize < S
          /\ buf[i].mBuffer \in [Slots -> ET] /\ 0 \in 0 .. S /\ buf[i].mSize \in 0 .. S
      BY <1>2, <3>1, ColumnTypes, SAssumption DEF StillToPop, Even, IsFull
    <3>3. Offset(buf[i], 0) # Offset(buf[i], buf[i].mSize)
      BY <3>2, OffsetsDiffer
    <3>4. Offset(buf[i], 0) = buf[i].mReadIndex
      BY <3>2, OffsetWraps, SAssumption DEF Slots
    <3>5. WriteIndex(buf[1]) # buf[i].mReadIndex
      BY <3>3, <3>4, ColumnsWriteSameSlot DEF WriteIndex, Even
    <3>. QED  BY <1>4, <1>5, <2>2, <3>2, <3>5 DEF RowValue
  <2>. QED  BY <2>1, <2>2
<1>10. SameRow'
  BY <1>3, <1>6, <1>9 DEF SameRow, Even
<1>11. LoadedCurrent'
  BY <1>3 DEF LoadedCurrent
<1>12. Accounted'
  <2>1. SettledSize(1) \in Int /\ accepted \in Nat /\ logged \in Nat
    BY <1>6, ColumnTypes DEF SettledSize
  <2>. QED  BY <1>3, <1>5, <1>6, <2>1 DEF Accounted, Even
<1>13. Aligned(last)'
  BY <1>3 DEF Aligned, Even
<1>14. Even'
  BY <1>7, <1>8, <1>10, <1>11, <1>12, <1>13 DEF Even
<1>15. Settled' = [mBuffer |-> [buf[1].mBuffer EXCEPT ![WriteIndex(buf[1])] = sampled + 1],
                   mReadIndex |-> SettledIndex(1), mSize |-> SettledSize(1) + 1]
  <2>1. /\ buf'[1].mBuffer = [buf[1].mBuffer EXCEPT ![WriteIndex(buf[1])] = sampled + 1]
        /\ SettledIndex(1)' = SettledIndex(1)
        /\ SettledSize(1)' = SettledSize(1) + 1
    BY <1>4, <1>5, <1>6
  <2>. QED  BY <2>1 DEF Settled
<1>16. col # 0 => RowValue(1)' = RowValue(1)
  BY <1>6, <1>9
<1>. QED  BY <1>14, <1>15, <1>16

LEMMA StartRowEven ==
  ASSUME TypeOK, Even, StartRow
  PROVE  Even'
<1>1. /\ UNCHANGED <<buf, row, pending, loaded, logged, accepted, last>>
      /\ col = 0 /\ col' = 1 /\ pending = {}
  BY ColumnsAssumption DEF StartRow, TypeOK, Columns
<1>2. ASSUME NEW i \in Columns
      PROVE  /\ buf[i].mReadIndex = buf[1].mReadIndex
             /\ buf[i].mBuffer = buf[1].mBuffer
             /\ buf[i].mSize = buf[1].mSize /\ buf[1].mSize \in 1 .. S
  <2>1. buf[1].mSize \in 0 .. S /\ buf[1].mSize # 0 /\ 1 \in Columns
    BY ColumnTypes, ColumnsAssumption DEF StartRow, IsEmpty, Columns
  <2>. QED  BY <1>1, <2>1, SAssumption
            DEF Even, SameMoves, SettledIndex, SettledSize, IndexDone, SizeDone
<1>3. ASSUME NEW i \in Columns
      PROVE  ~IndexDone(i)' /\ ~SizeDone(i)' /\ ~Taken(i)'
  <2>1. i >= 1
    BY DEF Columns
  <2>. QED  BY <1>1, <2>1 DEF IndexDone, SizeDone, Taken, Columns
<1>4. 1 \in Columns
  BY ColumnsAssumption DEF Columns
<1>5. SameMoves'
  BY <1>1, <1>2, <1>3, <1>4 DEF SameMoves, SettledIndex, SettledSize, NextReadIndex
<1>6. StillToPop'
  BY <1>1, <1>2, SAssumption DEF StillToPop
<1>7. SameRow'
  BY <1>1, <1>2, <1>3, <1>4 DEF SameRow, RowValue
<1>8. Accounted'
  BY <1>1, <1>2, <1>3, <1>4, ColumnTypes
     DEF Accounted, Even, SettledSize, SizeDone
<1>. QED  BY <1>1, <1>5, <1>6, <1>7, <1>8 DEF Even, LoadedCurrent, Aligned

LEMMA LogRowEven ==
  ASSUME TypeOK, Even, LogRow
  PROVE  Even'
<1>1. /\ UNCHANGED <<buf, row, pending, loaded, accepted>>
      /\ col = NCols + 1 /\ col' = 0 /\ pending = {} /\ last' = row
      /\ logged' = logged + 1
  BY ColumnsAssumption DEF LogRow, TypeOK, Columns
<1>2. ASSUME NEW i \in Columns
      PROVE  /\ IndexDone(i) /\ SizeDone(i) /\ Taken(i)
             /\ IndexDone(i)' /\ SizeDone(i)'
  BY <1>1, ColumnsAssumption DEF IndexDone, SizeDone, Taken, Columns
<1>3. 1 \in Columns /\ col # 0
  BY <1>1, ColumnsAssumption DEF Columns
<1>4. SameMoves'
  BY <1>1, <1>2, <1>3 DEF Even, SameMoves, SettledIndex, SettledSize
<1>5. Aligned(last)'
  BY <1>1, <1>2, <1>3 DEF Even, SameRow, RowValue, Aligned
<1>6. Accounted'
  <2>1. buf[1].mSize \in Nat /\ accepted \in Nat /\ logged \in Nat
    BY <1>3, ColumnTypes
  <2>. QED  BY <1>1, <1>2, <1>3, <2>1 DEF Accounted, Even, SettledSize
<1>. QED  BY <1>1, <1>2, <1>4, <1>5, <1>6
          DEF Even, StillToPop, SameRow, LoadedCurrent

\* Without a race, loop() never meets an empty column in the middle of a row.
LEMMA NoPopEmpty ==
  ASSUME TypeOK, Even, PopEmpty
  PROVE  FALSE
<1>1. col \in Columns /\ ~SizeDone(col) /\ buf[col].mSize = 0
  BY ColumnsAssumption DEF PopEmpty, SizeDone, Columns, IsEmpty
<1>2. buf[col].mSize >= 1
  BY <1>1 DEF Even, StillToPop
<1>. QED  BY <1>1, <1>2

LEMMA PopLoadEven ==
  ASSUME TypeOK, Even, PopLoad
  PROVE  Even' /\ Settled' = Settled /\ RowValue(1)' = RowValue(1) /\ col # 0 /\ col' # 0
<1>1. /\ UNCHANGED <<buf, col, logged, accepted, last>>
      /\ col \in Columns /\ pending = {} /\ pending' = {"index", "size"}
      /\ row' = [row EXCEPT ![col] = buf[col].mBuffer[buf[col].mReadIndex]]
      /\ loaded' = buf[col].mSize
  BY DEF PopLoad, PopStores
<1>2. ASSUME NEW i \in Columns
      PROVE  /\ IndexDone(i)' <=> IndexDone(i)
             /\ SizeDone(i)' <=> SizeDone(i)
  BY <1>1 DEF IndexDone, SizeDone
<1>3. ASSUME NEW i \in Columns PROVE RowValue(i)' = RowValue(i)
  <2>1. row \in [Columns -> ET] /\ col \in Nat /\ i \in Nat
    BY ColumnTypes DEF TypeOK
  <2>2. CASE i = col
    BY <1>1, <2>1, <2>2 DEF RowValue, Taken
  <2>3. CASE i # col
    BY <1>1, <2>1, <2>3 DEF RowValue, Taken
  <2>. QED  BY <2>2, <2>3
<1>4. 1 \in Columns
  BY ColumnsAssumption DEF Columns
<1>5. SameMoves'
  BY <1>1, <1>2, <1>4 DEF Even, SameMoves, SettledIndex, SettledSize, NextReadIndex
<1>6. StillToPop'
  BY <1>1, <1>2 DEF Even, StillToPop
<1>7. SameRow'
  BY <1>1, <1>3, <1>4 DEF Even, SameRow
<1>8. LoadedCurrent'
  BY <1>1 DEF LoadedCurrent
<1>9. Accounted'
  BY <1>1, <1>2, <1>4 DEF Even, Accounted, SettledSize
<1>10. Aligned(last)'
  BY <1>1 DEF Even, Aligned
<1>11. Settled' = Settled
  BY <1>1, <1>2, <1>4 DEF Settled, SettledIndex, SettledSize, NextReadIndex
<1>12. col # 0
  BY <1>1 DEF Columns
<1>. QED  BY <1>1, <1>3, <1>4, <1>5, <1>6, <1>7, <1>8, <1>9, <1>10, <1>11, <1>12 DEF Even

\* What a store and the return of the pop change in the bookkeeping.
LEMMA StoredBookkeeping ==
  ASSUME TypeOK, NEW store \in pending, Stored(store), NEW i \in Columns
  PROVE  /\ col \in Columns /\ col # 0 /\ col' # 0
         /\ Taken(i)' <=> Taken(i)
         /\ IndexDone(i)' <=> (IndexDone(i) \/ (i = col /\ store = "index"))
         /\ SizeDone(i)' <=> (SizeDone(i) \/ (i = col /\ store = "size"))
         /\ i = col => (IndexDone(i) <=> "index" \notin pending)
                       /\ (SizeDone(i) <=> "size" \notin pending)
<1>1. /\ pending \in SUBSET {"index", "size"} /\ pending # {}
      /\ col \in Columns /\ col \in Nat /\ i \in Nat /\ col # 0
  BY ColumnTypes DEF TypeOK, Columns
<1>2. pending' = pending \ {store} /\ col' = IF pending = {store} THEN col + 1 ELSE col
  BY DEF Stored
<1>3. CASE pending = {store}
  <2>1. pending' = {} /\ col' = col + 1
    BY <1>2, <1>3
  <2>. QED  BY <1>1, <1>3, <2>1 DEF Taken, IndexDone, SizeDone
<1>4. CASE pending # {store}
  <2>1. pending = {"index", "size"} /\ pending' # {} /\ col' = col
    BY <1>1, <1>2, <1>4
  <2>2. Taken(i)' <=> Taken(i)
    BY <1>1, <2>1 DEF Taken
  <2>3. CASE store = "index"
    <3>1. pending' = {"size"}
      BY <1>2, <2>1, <2>3
    <3>. QED  BY <1>1, <2>1, <2>2, <2>3, <3>1 DEF IndexDone, SizeDone
  <2>4. CASE store = "size"
    <3>1. pending' = {"index"}
      BY <1>2, <2>1, <2>4
    <3>. QED  BY <1>1, <2>1, <2>2, <2>4, <3>1 DEF IndexDone, SizeDone
  <2>. QED  BY <1>1, <2>3, <2>4
<1>. QED  BY <1>3, <1>4

LEMMA StoreIndexEven ==
  ASSUME TypeOK, Even, StoreIndex
  PROVE  Even' /\ Settled' = Settled /\ RowValue(1)' = RowValue(1) /\ col # 0 /\ col' # 0
<1>1. /\ UNCHANGED <<row, loaded, logged, accepted, last>>
      /\ "index" \in pending /\ Stored("index") /\ pending' \subseteq pending
      /\ buf' = [buf EXCEPT ![col] = [@ EXCEPT !.mReadIndex = NextReadIndex(buf[col])]]
  BY DEF StoreIndex, Stored
<1>2. col \in Columns /\ 1 \in Columns /\ col # 0 /\ col' # 0
  BY <1>1, ColumnTypes, StoredBookkeeping, ColumnsAssumption DEF Columns
<1>3. ASSUME NEW i \in Columns
      PROVE  /\ buf'[i].mBuffer = buf[i].mBuffer
             /\ buf'[i].mSize = buf[i].mSize
             /\ i # col => buf'[i] = buf[i]
             /\ i = col => buf'[i].mReadIndex = NextReadIndex(buf[i])
  <2>1. buf[col] \in GoodRings /\ buf \in [Columns -> GoodRings]
    BY <1>2, BuffersAreGood DEF TypeOK
  <2>. QED  BY <1>1, <1>2, <2>1 DEF GoodRings
<1>4. ASSUME NEW i \in Columns
      PROVE  /\ SettledIndex(i)' = SettledIndex(i)
             /\ SettledSize(i)' = SettledSize(i)
             /\ SizeDone(i)' <=> SizeDone(i)
  <2>1. SizeDone(i)' <=> SizeDone(i)
    BY <1>1, StoredBookkeeping
  <2>2. CASE i = col
    BY <1>1, <1>3, <2>1, <2>2, StoredBookkeeping DEF SettledIndex, SettledSize
  <2>3. CASE i # col
    BY <1>1, <1>3, <2>1, <2>3, StoredBookkeeping DEF SettledIndex, SettledSize
  <2>. QED  BY <2>1, <2>2, <2>3
<1>5. ASSUME NEW i \in Columns PROVE RowValue(i)' = RowValue(i)
  <2>1. Taken(i)' <=> Taken(i)
    BY <1>1, StoredBookkeeping
  <2>2. CASE Taken(i)
    BY <1>1, <2>1, <2>2 DEF RowValue
  <2>3. CASE ~Taken(i)
    <3>1. i # col
      BY <1>1, <2>3 DEF Taken
    <3>. QED  BY <1>3, <2>1, <2>3, <3>1 DEF RowValue
  <2>. QED  BY <2>2, <2>3
<1>6. SameMoves'
  BY <1>2, <1>3, <1>4 DEF Even, SameMoves
<1>7. StillToPop'
  BY <1>3, <1>4 DEF Even, StillToPop
<1>8. SameRow'
  BY <1>2, <1>5 DEF Even, SameRow
<1>9. LoadedCurrent'
  <2>. SUFFICES ASSUME "size" \in pending' PROVE loaded' = buf'[col'].mSize
    BY DEF LoadedCurrent
  <2>1. col' = col
    BY <1>1 DEF Stored
  <2>. QED  BY <1>1, <1>2, <1>3, <2>1 DEF Even, LoadedCurrent
<1>10. Accounted'
  BY <1>1, <1>2, <1>4 DEF Even, Accounted
<1>11. Aligned(last)'
  BY <1>1 DEF Even, Aligned
<1>12. Settled' = Settled
  BY <1>2, <1>3, <1>4 DEF Settled
<1>. QED  BY <1>2, <1>5, <1>6, <1>7, <1>8, <1>9, <1>10, <1>11, <1>12 DEF Even

LEMMA StoreSizeEven ==
  ASSUME TypeOK, Even, StoreSize
  PROVE  Even' /\ Settled' = Settled /\ RowValue(1)' = RowValue(1) /\ col # 0 /\ col' # 0
<1>0. buf[col].mSize \in 1 .. S /\ col \in Columns
  <2>1. col \in Columns /\ "size" \in pending /\ Stored("size")
    BY DEF TypeOK, StoreSize
  <2>2. buf[col].mSize >= 1
    BY <2>1, StoredBookkeeping DEF Even, StillToPop
  <2>. QED  BY <2>1, <2>2, ColumnTypes, SAssumption
<1>1. /\ UNCHANGED <<row, loaded, logged, accepted, last>>
      /\ "size" \in pending /\ Stored("size") /\ "size" \notin pending'
      /\ buf' = [buf EXCEPT ![col] = [@ EXCEPT !.mSize = buf[col].mSize - 1]]
  <2>1. loaded = buf[col].mSize
    BY DEF Even, LoadedCurrent, StoreSize
  <2>2. ToIT(buf[col].mSize - 1) = buf[col].mSize - 1
    <3>1. buf[col].mSize - 1 \in 0 .. S
      BY <1>0, SAssumption
    <3>. QED  BY <3>1, ToITExact
  <2>. QED  BY <2>1, <2>2 DEF StoreSize, Stored
<1>2. col \in Columns /\ 1 \in Columns /\ col # 0 /\ col' # 0
  BY <1>0, <1>1, ColumnTypes, StoredBookkeeping
<1>3. ASSUME NEW i \in Columns
      PROVE  /\ buf'[i].mBuffer = buf[i].mBuffer
             /\ buf'[i].mReadIndex = buf[i].mReadIndex
             /\ i # col => buf'[i] = buf[i]
             /\ i = col => buf'[i].mSize = buf[i].mSize - 1
  <2>1. buf[col] \in GoodRings /\ buf \in [Columns -> GoodRings]
    BY <1>2, BuffersAreGood DEF TypeOK
  <2>. QED  BY <1>1, <1>2, <2>1 DEF GoodRings
<1>4. ASSUME NEW i \in Columns
      PROVE  /\ SettledIndex(i)' = SettledIndex(i)
             /\ SettledSize(i)' = SettledSize(i)
  <2>1. IndexDone(i)' <=> IndexDone(i)
    BY <1>1, StoredBookkeeping
  <2>2. NextReadIndex(buf'[i]) = NextReadIndex(buf[i])
    BY <1>3 DEF NextReadIndex
  <2>3. CASE i = col
    BY <1>1, <1>3, <2>1, <2>2, <2>3, StoredBookkeeping DEF SettledIndex, SettledSize
  <2>4. CASE i # col
    BY <1>1, <1>3, <2>1, <2>4, StoredBookkeeping DEF SettledIndex, SettledSize
  <2>. QED  BY <2>3, <2>4
<1>5. ASSUME NEW i \in Columns PROVE RowValue(i)' = RowValue(i)
  <2>1. Taken(i)' <=> Taken(i)
    BY <1>1, StoredBookkeeping
  <2>. QED  BY <1>1, <1>3, <2>1 DEF RowValue
<1>6. SameMoves'
  BY <1>2, <1>3, <1>4 DEF Even, SameMoves
<1>7. StillToPop'
  <2>. SUFFICES ASSUME NEW i \in Columns, ~SizeDone(i)' PROVE buf'[i].mSize >= 1
    BY DEF StillToPop
  <2>1. i # col /\ ~SizeDone(i)
    BY <1>1, StoredBookkeeping
  <2>. QED  BY <1>3, <2>1 DEF Even, StillToPop
<1>8. SameRow'
  BY <1>2, <1>5 DEF Even, SameRow
<1>9. LoadedCurrent'
  BY <1>1 DEF LoadedCurrent
<1>10. Accounted'
  BY <1>1, <1>2, <1>4 DEF Even, Accounted
<1>11. Aligned(last)'
  BY <1>1 DEF Even, Aligned
<1>12. Settled' = Settled
  BY <1>2, <1>3, <1>4 DEF Settled
<1>. QED  BY <1>2, <1>5, <1>6, <1>7, <1>8, <1>9, <1>10, <1>11, <1>12 DEF Even

LEMMA NextAInv == BInv /\ AInv /\ [Next]_vars => AInv'
<1>. SUFFICES ASSUME BInv, AInv, [Next]_vars, races' = 0 PROVE Even'
  BY DEF AInv, Even
<1>1. TypeOK /\ races \in Nat
  BY ColumnsAssumption DEF BInv, TypeOK
<1>2. races = 0 /\ Even
  <2>1. races' = races \/ races' = races + 1
    BY DEF Next, Loop, handleDigitalIO, readSensors, StartRow, PopEmpty, PopLoad,
           StoreIndex, StoreSize, LogRow, vars
  <2>. QED  BY <1>1, <2>1 DEF AInv, Even
<1>3. ASSUME UNCHANGED <<buf, row, col, pending, loaded, logged, accepted, last>>
      PROVE  Even'
  BY <1>2, <1>3 DEF Even, SameMoves, StillToPop, SameRow, LoadedCurrent, Accounted, Aligned,
       SettledIndex, SettledSize, RowValue, IndexDone, SizeDone, Taken
<1>4. CASE handleDigitalIO
  BY <1>3, <1>4 DEF handleDigitalIO, loopVars
<1>5. CASE readSensors
  <2>1. CASE IsFull(buf[1])
    BY <1>3, <1>5, <2>1 DEF readSensors, loopVars
  <2>2. CASE ~IsFull(buf[1])
    <3>1. pending = {} /\ ~OtherColumnFull
      BY <1>2, <1>5, <2>2 DEF readSensors
    <3>. QED  BY <1>1, <1>2, <1>5, <2>2, <3>1, ReadSensorsEven
  <2>. QED  BY <2>1, <2>2
<1>6. CASE Loop
  BY <1>1, <1>2, <1>6, StartRowEven, NoPopEmpty, PopLoadEven, StoreIndexEven,
     StoreSizeEven, LogRowEven DEF Loop
<1>7. CASE UNCHANGED vars
  BY <1>3, <1>7 DEF vars
<1>. QED  BY <1>4, <1>5, <1>6, <1>7 DEF Next

LEMMA AlwaysAInv == Spec => [](BInv /\ AInv)
<1>1. Init => BInv /\ AInv
  BY InitBInv, InitAInv
<1>2. (BInv /\ AInv) /\ [Next]_vars => (BInv /\ AInv)'
  BY NextBInv, NextAInv
<1>. QED  BY <1>1, <1>2, PTL DEF Spec

\* For any number of columns and any capacity: a row mixes two samples only
\* after a sample came inside a pop or met a full column behind time_buf.
THEOREM AlignedRows == Spec => []RowsAlignedUnlessRaced
<1>1. AInv => RowsAlignedUnlessRaced
  BY DEF AInv, RowsAlignedUnlessRaced
<1>. QED  BY <1>1, AlwaysAInv, PTL

\* Likewise no accepted sample disappears between readSensors() and logToSD.
THEOREM NothingLost == Spec => []NothingLostUnlessRaced
<1>1. BInv /\ AInv => NothingLostUnlessRaced
  <2>. SUFFICES ASSUME BInv, AInv, races = 0, col = 0
                PROVE  accepted = logged + buf[1].mSize
    BY DEF NothingLostUnlessRaced
  <2>1. 1 \in Columns /\ SizeDone(1)
    BY ColumnsAssumption DEF Columns, SizeDone
  <2>2. buf[1].mSize \in Nat /\ logged \in Nat
    BY <2>1, ColumnTypes DEF BInv
  <2>. QED  BY <2>1, <2>2 DEF AInv, Accounted, SettledSize
<1>. QED  BY <1>1, AlwaysAInv, PTL
-----------------------------------------------------------------------------
(***************************************************************************)
(* Skew.  A race makes one column at most one longer than another: the     *)
(* sample goes into some columns only, or a pop that it came into stores   *)
(* the size it had loaded before.  So what counts for the column being     *)
(* popped is the least size that its pop may yet store.                    *)
(***************************************************************************)
LeastSize(i) == IF "size" \in pending /\ i = col THEN loaded - 1 ELSE SettledSize(i)

Close == \A i, j \in Columns : SettledSize(i) - LeastSize(j) <= races

\* loop() begins a row only when time_buf has an element, and nobody else pops.
TimeThere == ~SizeDone(1) => buf[1].mSize >= 1

KInv == Close /\ TimeThere

LEMMA TimeColumn == 1 \in Columns
BY ColumnsAssumption DEF Columns

LEMMA SizesInt ==
  ASSUME BInv, NEW i \in Columns
  PROVE  /\ SettledSize(i) \in Int /\ LeastSize(i) \in Int /\ LeastSize(i) <= SettledSize(i)
         /\ buf[i].mSize \in Nat /\ races \in Nat /\ loaded \in Nat /\ 1 \in Columns
<1>1. TypeOK /\ PopInProgress
  BY DEF BInv
<1>2. buf[i].mSize \in Nat /\ 1 \in Columns
  BY <1>1, ColumnTypes
<1>3. races \in Nat /\ loaded \in Nat
  BY <1>1, ColumnsAssumption, SAssumption DEF TypeOK
<1>4. SettledSize(i) \in Int
  BY <1>2 DEF SettledSize
<1>5. "size" \in pending /\ i = col => loaded - 1 <= buf[i].mSize - 1 /\ ~SizeDone(i)
  <2>1. col \in Nat /\ ("size" \in pending => col \in Columns /\ loaded <= buf[col].mSize)
    BY <1>1, ColumnTypes DEF TypeOK, PopInProgress
  <2>2. "size" \in pending /\ i = col => ~SizeDone(i)
    BY <2>1 DEF SizeDone, Columns
  <2>. QED  BY <1>2, <1>3, <2>1, <2>2
<1>6. LeastSize(i) \in Int /\ LeastSize(i) <= SettledSize(i)
  BY <1>2, <1>3, <1>4, <1>5 DEF LeastSize, SettledSize
<1>. QED  BY <1>2, <1>3, <1>4, <1>6

\* A sample makes every column at most one longer.
LEMMA ReadSensorsClose ==
  ASSUME BInv, KInv, readSensors, ~IsFull(buf[1])
  PROVE  KInv'
<1>1. /\ UNCHANGED <<col, pending, loaded>>
      /\ races' = IF pending # {} \/ OtherColumnFull THEN races + 1 ELSE races
      /\ buf' = [i \in Columns |-> Pushed(buf[i], sampled + 1)]
  BY DEF readSensors, loopVars
<1>2. sampled + 1 \in ET
  BY ColumnsAssumption DEF BInv, TypeOK, readSensors
<1>3. ASSUME NEW i \in Columns
      PROVE  /\ SizeDone(i)' <=> SizeDone(i)
             /\ buf'[i].mSize \in {buf[i].mSize, buf[i].mSize + 1}
             /\ ~OtherColumnFull => buf'[i].mSize = buf[i].mSize + 1
  <2>1. buf[i] \in GoodRings /\ buf'[i] = Pushed(buf[i], sampled + 1)
    BY <1>1, ColumnTypes DEF BInv
  <2>2. /\ ~IsFull(buf[i]) => buf'[i].mSize = buf[i].mSize + 1
        /\ IsFull(buf[i]) => buf'[i] = buf[i]
    BY <1>2, <2>1, PushedGood
  <2>. QED  BY <1>1, <2>2 DEF OtherColumnFull, SizeDone
<1>4. ASSUME NEW i \in Columns
      PROVE  /\ SettledSize(i)' \in {SettledSize(i), SettledSize(i) + 1}
             /\ ~OtherColumnFull => SettledSize(i)' = SettledSize(i) + 1
  <2>1. buf[i].mSize \in Nat
    BY SizesInt
  <2>2. SettledSize(i)' = IF SizeDone(i) THEN buf'[i].mSize ELSE buf'[i].mSize - 1
    BY <1>3 DEF SettledSize
  <2>. QED  BY <1>3, <2>1, <2>2 DEF SettledSize
<1>5. ASSUME NEW j \in Columns
      PROVE  /\ LeastSize(j)' \in {LeastSize(j), LeastSize(j) + 1}
             /\ pending = {} /\ ~OtherColumnFull => LeastSize(j)' = LeastSize(j) + 1
  BY <1>1, <1>4, SizesInt DEF LeastSize
<1>6. ASSUME NEW i \in Columns, NEW j \in Columns
      PROVE  SettledSize(i)' - LeastSize(j)' <= races'
  <2>1. /\ SettledSize(i) \in Int /\ LeastSize(j) \in Int /\ races \in Nat
        /\ SettledSize(i) - LeastSize(j) <= races
    BY SizesInt DEF KInv, Close
  <2>2. CASE pending = {} /\ ~OtherColumnFull
    BY <1>1, <1>4, <1>5, <2>1, <2>2
  <2>3. CASE ~(pending = {} /\ ~OtherColumnFull)
    <3>1. races' = races + 1
      BY <1>1, <2>3
    <3>2. SettledSize(i)' \in Int /\ SettledSize(i)' <= SettledSize(i) + 1
      BY <1>4, <2>1
    <3>3. LeastSize(j)' \in Int /\ LeastSize(j)' >= LeastSize(j)
      BY <1>5, <2>1
    <3>. QED  BY <2>1, <3>1, <3>2, <3>3
  <2>. QED  BY <2>2, <2>3
<1>7. TimeThere'
  BY <1>3, TimeColumn, SizesInt DEF KInv, TimeThere
<1>. QED  BY <1>6, <1>7 DEF KInv, Close

\* A row begins: every column is to be popped.
LEMMA StartRowClose ==
  ASSUME BInv, KInv, StartRow
  PROVE  KInv'
<1>1. col = 0 /\ col' = 1 /\ pending = {} /\ ~IsEmpty(buf[1]) /\ UNCHANGED <<buf, pending, races>>
  BY DEF StartRow, BInv, TypeOK, Columns
<1>2. ASSUME NEW i \in Columns
      PROVE  /\ SettledSize(i)' = SettledSize(i) - 1 /\ LeastSize(i)' = LeastSize(i) - 1
  <2>1. SizeDone(i) /\ ~SizeDone(i)'
    BY <1>1 DEF SizeDone, Columns
  <2>. QED  BY <1>1, <2>1 DEF SettledSize, LeastSize
<1>3. Close'
  BY <1>1, <1>2, SizesInt DEF KInv, Close
<1>4. TimeThere'
  BY <1>1, TimeColumn, SizesInt DEF TimeThere, IsEmpty
<1>. QED  BY <1>3, <1>4 DEF KInv

\* A column found empty counts as popped: it was counted as one short.
LEMMA PopEmptyClose ==
  ASSUME BInv, KInv, PopEmpty
  PROVE  KInv'
<1>1. /\ col \in Columns /\ pending = {} /\ buf[col].mSize = 0 /\ col' = col + 1
      /\ UNCHANGED <<buf, pending, races>>
  BY DEF PopEmpty, IsEmpty
<1>2. ASSUME NEW i \in Columns
      PROVE  /\ i # col => SettledSize(i)' = SettledSize(i) /\ (SizeDone(i)' <=> SizeDone(i))
             /\ i = col => SettledSize(i)' = 0 /\ SettledSize(i) = -1 /\ SizeDone(i)'
             /\ LeastSize(i) = SettledSize(i) /\ LeastSize(i)' = SettledSize(i)'
  <2>1. i \in Nat /\ col \in Nat /\ i # 0 /\ col # 0
    BY <1>1, ColumnsAssumption DEF Columns
  <2>2. CASE i = col
    BY <1>1, <2>1, <2>2 DEF SizeDone, SettledSize, LeastSize
  <2>3. CASE i # col
    BY <1>1, <2>1, <2>3 DEF SizeDone, SettledSize, LeastSize
  <2>. QED  BY <2>2, <2>3
<1>3. 1 \in Columns /\ SettledSize(1) \in Nat
  <2>1. 1 \in Columns /\ buf[1].mSize \in Nat
    BY SizesInt, <1>1
  <2>. QED  BY <2>1 DEF SettledSize, KInv, TimeThere
<1>4. ASSUME NEW i \in Columns, NEW j \in Columns
      PROVE  SettledSize(i)' - LeastSize(j)' <= races
  <2>1. /\ SettledSize(i) \in Int /\ SettledSize(j) \in Int /\ races \in Nat
        /\ SettledSize(i) - SettledSize(j) <= races /\ SettledSize(1) - SettledSize(j) <= races
    BY <1>2, <1>3, SizesInt DEF KInv, Close
  <2>2. CASE i # col
    BY <1>2, <2>1, <2>2
  <2>3. CASE i = col /\ j # col
    BY <1>2, <1>3, <2>1, <2>3
  <2>4. CASE i = col /\ j = col
    BY <1>2, <2>1, <2>4
  <2>. QED  BY <2>2, <2>3, <2>4
<1>5. TimeThere'
  BY <1>1, <1>2, <1>3 DEF KInv, TimeThere
<1>. QED  BY <1>1, <1>4, <1>5 DEF KInv, Close

LEMMA PopLoadClose ==
  ASSUME BInv, KInv, PopLoad
  PROVE  KInv'
<1>1. /\ col \in Columns /\ pending = {} /\ pending' = {"index", "size"} /\ UNCHANGED <<buf, col, races>>
      /\ loaded' = buf[col].mSize
  BY DEF PopLoad, PopStores
<1>2. ASSUME NEW i \in Columns
      PROVE  /\ SizeDone(i)' <=> SizeDone(i)
             /\ SettledSize(i)' = SettledSize(i) /\ LeastSize(i)' = LeastSize(i)
  <2>1. i \in Nat /\ i # 0
    BY DEF Columns
  <2>2. SizeDone(i)' <=> SizeDone(i)
    BY <1>1, <2>1 DEF SizeDone
  <2>3. i = col => ~SizeDone(i)
    BY <1>1, <2>1 DEF SizeDone
  <2>. QED  BY <1>1, <2>2, <2>3 DEF SettledSize, LeastSize
<1>. QED  BY <1>1, <1>2, TimeColumn, SizesInt DEF KInv, Close, TimeThere

LEMMA StoreIndexClose ==
  ASSUME BInv, KInv, StoreIndex
  PROVE  KInv'
<1>1. /\ "index" \in pending /\ Stored("index") /\ col \in Columns /\ UNCHANGED <<loaded, races>>
      /\ "size" \in pending' <=> "size" \in pending
      /\ "size" \in pending => col' = col
      /\ TypeOK
  BY DEF StoreIndex, Stored, BInv, TypeOK
<1>2. ASSUME NEW i \in Columns
      PROVE  buf'[i].mSize = buf[i].mSize
  <2>1. buf[col] \in GoodRings /\ buf \in [Columns -> GoodRings]
    BY <1>1, BuffersAreGood DEF TypeOK
  <2>. QED  BY <1>1, <2>1 DEF GoodRings, StoreIndex
<1>3. ASSUME NEW i \in Columns
      PROVE  /\ SizeDone(i)' <=> SizeDone(i)
             /\ SettledSize(i)' = SettledSize(i) /\ LeastSize(i)' = LeastSize(i)
  <2>1. SizeDone(i)' <=> SizeDone(i)
    BY <1>1, StoredBookkeeping
  <2>. QED  BY <1>1, <1>2, <2>1 DEF SettledSize, LeastSize
<1>. QED  BY <1>1, <1>2, <1>3, SizesInt DEF KInv, Close, TimeThere

\* Whichever value pop() decrements, the size is not below the least one.
LEMMA StoreSizeClose ==
  ASSUME BInv, KInv, StoreSize
  PROVE  KInv'
<1>1. /\ "size" \in pending /\ Stored("size") /\ col \in Columns /\ UNCHANGED races
      /\ "size" \notin pending' /\ TypeOK
  BY DEF StoreSize, Stored, BInv, TypeOK
<1>2. PICK n \in {loaded, buf[col].mSize} :
        buf' = [buf EXCEPT ![col] = [@ EXCEPT !.mSize = ToIT(n - 1)]]
  BY DEF StoreSize
<1>3. n \in Nat /\ loaded <= n /\ n <= buf[col].mSize /\ buf[col].mSize \in Nat /\ loaded \in Nat
      /\ n - 1 \in 0 .. S
  BY <1>1, ColumnTypes, SAssumption DEF BInv, PopInProgress, TypeOK
<1>4. ToIT(n - 1) = n - 1
  BY <1>3, ToITExact
<1>5. ASSUME NEW i \in Columns
      PROVE  /\ i # col => buf'[i] = buf[i]
             /\ i = col => buf'[i].mSize = n - 1
  <2>1. buf[col] \in GoodRings /\ buf \in [Columns -> GoodRings]
    BY <1>1, BuffersAreGood DEF TypeOK
  <2>. QED  BY <1>1, <1>2, <1>4, <2>1 DEF GoodRings
<1>6. ASSUME NEW i \in Columns
      PROVE  /\ LeastSize(i)' = SettledSize(i)'
             /\ i # col => SettledSize(i)' = SettledSize(i) /\ LeastSize(i) = SettledSize(i)
                           /\ (SizeDone(i)' <=> SizeDone(i))
             /\ i = col => SettledSize(i)' = n - 1 /\ LeastSize(i) = loaded - 1
                           /\ SettledSize(i) = buf[i].mSize - 1 /\ SizeDone(i)'
  <2>1. /\ SizeDone(i)' <=> (SizeDone(i) \/ i = col)
        /\ i = col => ~SizeDone(i)
    BY <1>1, StoredBookkeeping
  <2>2. CASE i = col
    BY <1>1, <1>5, <2>1, <2>2 DEF SettledSize, LeastSize
  <2>3. CASE i # col
    BY <1>1, <1>5, <2>1, <2>3 DEF SettledSize, LeastSize
  <2>. QED  BY <2>2, <2>3
<1>7. ASSUME NEW i \in Columns
      PROVE  /\ SettledSize(i)' \in Int
             /\ LeastSize(i) <= SettledSize(i)' /\ SettledSize(i)' <= SettledSize(i)
  BY <1>3, <1>6, SizesInt
<1>8. ASSUME NEW i \in Columns, NEW j \in Columns
      PROVE  SettledSize(i)' - LeastSize(j)' <= races'
  <2>1. /\ SettledSize(i) \in Int /\ LeastSize(j) \in Int /\ races \in Nat
        /\ SettledSize(i) - LeastSize(j) <= races
    BY SizesInt DEF KInv, Close
  <2>2. LeastSize(j)' = SettledSize(j)' /\ races' = races
    BY <1>1, <1>6
  <2>. QED  BY <1>7, <2>1, <2>2
<1>9. TimeThere'
  BY <1>5, <1>6, TimeColumn, SizesInt DEF KInv, TimeThere
<1>. QED  BY <1>8, <1>9 DEF KInv, Close

LEMMA LogRowClose ==
  ASSUME BInv, KInv, LogRow
  PROVE  KInv'
<1>1. col = NCols + 1 /\ col' = 0 /\ pending = {} /\ UNCHANGED <<buf, pending, races>>
  BY ColumnsAssumption DEF LogRow, BInv, TypeOK, Columns
<1>2. ASSUME NEW i \in Columns
      PROVE  /\ SizeDone(i) /\ SizeDone(i)'
             /\ SettledSize(i)' = SettledSize(i) /\ LeastSize(i)' = LeastSize(i)
  <2>1. SizeDone(i) /\ SizeDone(i)'
    BY <1>1, ColumnsAssumption DEF SizeDone, Columns
  <2>. QED  BY <1>1, <2>1 DEF SettledSize, LeastSize
<1>. QED  BY <1>1, <1>2, TimeColumn, SizesInt DEF KInv, Close, TimeThere

LEMMA InitKInv == Init => KInv
<1>. SUFFICES ASSUME Init PROVE KInv
  OBVIOUS
<1>1. 1 \in Columns /\ \A i \in Columns : SettledSize(i) = 0 /\ LeastSize(i) = 0 /\ SizeDone(i)
  BY ColumnsAssumption DEF Init, NewRingBuf, Columns, SettledSize, LeastSize, SizeDone
<1>. QED  BY <1>1 DEF Init, KInv, Close, TimeThere

LEMMA NextKInv == BInv /\ KInv /\ [Next]_vars => KInv'
<1>. SUFFICES ASSUME BInv, KInv, [Next]_vars PROVE KInv'
  OBVIOUS
<1>1. ASSUME UNCHANGED <<buf, col, pending, loaded, races>> PROVE KInv'
  BY <1>1 DEF KInv, Close, TimeThere, SettledSize, LeastSize, SizeDone
<1>2. CASE handleDigitalIO
  BY <1>1, <1>2 DEF handleDigitalIO, loopVars
<1>3. CASE readSensors /\ IsFull(buf[1])
  BY <1>1, <1>3 DEF readSensors, loopVars
<1>4. CASE readSensors /\ ~IsFull(buf[1])
  BY <1>4, ReadSensorsClose
<1>5. CASE Loop
  BY <1>5, StartRowClose, PopEmptyClose, PopLoadClose, StoreIndexClose, StoreSizeClose,
     LogRowClose DEF Loop
<1>6. CASE UNCHANGED vars
  BY <1>1, <1>6 DEF vars
<1>. QED  BY <1>2, <1>3, <1>4, <1>5, <1>6 DEF Next

\* For any number of columns, any capacity and any number of races: each race
\* moves two columns at most one reading apart.
THEOREM Skew == Spec => []SkewBounded
<1>1. BInv /\ KInv => SkewBounded
  <2>. SUFFICES ASSUME BInv, KInv, col = 0, NEW i \in Columns, NEW j \in Columns
                PROVE  buf[i].mSize - buf[j].mSize <= races
    BY DEF SkewBounded
  <2>1. pending = {} /\ SettledSize(i) = buf[i].mSize /\ LeastSize(j) = buf[j].mSize
    BY DEF BInv, TypeOK, Columns, SettledSize, LeastSize, SizeDone
  <2>. QED  BY <2>1 DEF KInv, Close
<1>2. Init => BInv /\ KInv
  BY InitBInv, InitKInv
<1>3. (BInv /\ KInv) /\ [Next]_vars => (BInv /\ KInv)'
  BY NextBInv, NextKInv
<1>. QED  BY <1>1, <1>2, <1>3, PTL DEF Spec
-----------------------------------------------------------------------------
(***************************************************************************)
(* Order.  Without a race time_buf, with the pops of the current row       *)
(* counted in, is a queue of the numbers of samples, ascending from what   *)
(* the current or the last row has; the other columns have the same.       *)
(***************************************************************************)
Previous == IF col = 0 THEN last[1] ELSE RowValue(1)

\* q ascends from above low up to high at most.
Ascends(q, low, high) ==
  /\ low <= high
  /\ \A k \in 1 .. Len(q) : low < q[k] /\ q[k] <= high
  /\ \A j, k \in 1 .. Len(q) : j < k => q[j] < q[k]

InOrder ==
  /\ Ascends(Contents(Settled), Previous, sampled)
  /\ col # 0 => last[1] < RowValue(1)

OInv == races = 0 => InOrder

LEMMA LongerByOne ==
  ASSUME NEW T, NEW q \in Seq(T), NEW x \in T
  PROVE  /\ Len(q) \in Nat /\ Len(Append(q, x)) = Len(q) + 1 /\ Append(q, x)[Len(q) + 1] = x
         /\ \A k \in 1 .. Len(q) : Append(q, x)[k] = q[k] /\ q[k] \in T
  OBVIOUS

LEMMA AscendsOn ==
  ASSUME NEW q \in Seq(ET), NEW low \in ET, NEW high \in ET, Ascends(q, low, high)
  PROVE  /\ \A x \in ET : high < x => Ascends(Append(q, x), low, x) /\ Ascends(q, low, x)
         /\ q # << >> => low < Head(q) /\ Ascends(Tail(q), Head(q), high)
<1>. ET \subseteq Nat
  BY ColumnsAssumption
<1>1. ASSUME NEW x \in ET, high < x PROVE Ascends(q, low, x)
  <2>1. \A k \in 1 .. Len(q) : q[k] \in ET
    OBVIOUS
  <2>2. \A k \in 1 .. Len(q) : q[k] \in Nat
    BY <2>1
  <2>. QED  BY <1>1, <2>2 DEF Ascends
<1>2. ASSUME NEW x \in ET, high < x PROVE Ascends(Append(q, x), low, x)
  <2>1. /\ Len(q) \in Nat /\ Len(Append(q, x)) = Len(q) + 1 /\ Append(q, x)[Len(q) + 1] = x
        /\ \A k \in 1 .. Len(q) : Append(q, x)[k] = q[k] /\ q[k] \in Nat
        /\ \A k \in 1 .. Len(q) + 1 : k \in 1 .. Len(q) \/ k = Len(q) + 1
    <3>1. /\ Len(q) \in Nat /\ Len(Append(q, x)) = Len(q) + 1 /\ Append(q, x)[Len(q) + 1] = x
          /\ \A k \in 1 .. Len(q) : Append(q, x)[k] = q[k] /\ q[k] \in ET
      BY LongerByOne
    <3>2. \A k \in 1 .. Len(q) : q[k] \in Nat
      BY <3>1
    <3>3. \A k \in 1 .. Len(q) + 1 : k \in 1 .. Len(q) \/ k = Len(q) + 1
      BY <3>1
    <3>. QED  BY <3>1, <3>2, <3>3
  <2>2. /\ low <= high /\ \A k \in 1 .. Len(q) : low < q[k] /\ q[k] <= high
        /\ \A j, k \in 1 .. Len(q) : j < k => q[j] < q[k]
    BY DEF Ascends
  <2>3. \A k \in 1 .. Len(q) + 1 : low < Append(q, x)[k] /\ Append(q, x)[k] <= x
    BY <1>2, <2>1, <2>2
  <2>4. ASSUME NEW j \in 1 .. Len(q) + 1, NEW k \in 1 .. Len(q) + 1, j < k
        PROVE  Append(q, x)[j] < Append(q, x)[k]
    <3>1. j \in 1 .. Len(q)
      BY <2>1, <2>4
    <3>2. CASE k \in 1 .. Len(q)
      BY <2>1, <2>2, <2>4, <3>1, <3>2
    <3>3. CASE k = Len(q) + 1
      BY <1>2, <2>1, <2>2, <3>1, <3>3
    <3>. QED  BY <2>1, <3>2, <3>3
  <2>5. low <= x
    BY <1>2, <2>2
  <2>. QED  BY <2>1, <2>3, <2>4, <2>5 DEF Ascends
<1>3. ASSUME q # << >> PROVE low < Head(q) /\ Ascends(Tail(q), Head(q), high)
  <2>1. /\ Len(q) \in Nat /\ 1 \in 1 .. Len(q) /\ Len(Tail(q)) = Len(q) - 1 /\ Head(q) = q[1]
        /\ \A k \in 1 .. Len(q) - 1 : Tail(q)[k] = q[k + 1] /\ k + 1 \in 1 .. Len(q) /\ 1 < k + 1
    BY <1>3
  <2>2. /\ low < q[1] /\ q[1] <= high
        /\ \A k \in 1 .. Len(q) - 1 : q[1] < q[k + 1] /\ q[k + 1] <= high
    BY <2>1 DEF Ascends
  <2>3. ASSUME NEW j \in 1 .. Len(q) - 1, NEW k \in 1 .. Len(q) - 1, j < k
        PROVE  q[j + 1] < q[k + 1]
    <3>1. j + 1 \in 1 .. Len(q) /\ k + 1 \in 1 .. Len(q) /\ j + 1 < k + 1
      BY <2>1, <2>3
    <3>. QED  BY <3>1 DEF Ascends
  <2>. QED  BY <2>1, <2>2, <2>3 DEF Ascends
<1>. QED  BY <1>1, <1>2, <1>3

\* Without a race the settled column is a buffer like any other.
LEMMA SettledGood ==
  ASSUME TypeOK, Even
  PROVE  /\ Settled \in GoodRings /\ Contents(Settled) \in Seq(ET)
         /\ SettledSize(1) <= buf[1].mSize
         /\ Previous \in ET /\ RowValue(1) \in ET /\ last[1] \in ET /\ sampled \in ET
<1>1. /\ buf[1].mBuffer \in [Slots -> ET] /\ buf[1].mReadIndex \in Slots
      /\ buf[1].mSize \in 0 .. S /\ S \in Nat
  BY TimeColumn, ColumnTypes, SAssumption
<1>2. SettledIndex(1) \in Slots
  BY <1>1, NextReadIndexWraps DEF SettledIndex
<1>3. SettledSize(1) \in 0 .. S /\ SettledSize(1) <= buf[1].mSize
  BY <1>1, TimeColumn DEF SettledSize, Even, StillToPop
<1>4. Settled \in GoodRings
  BY <1>1, <1>2, <1>3 DEF Settled, GoodRings
<1>5. RowValue(1) \in ET /\ last[1] \in ET
  BY <1>1, TimeColumn DEF TypeOK, RowValue
<1>6. sampled \in ET
  BY ColumnsAssumption DEF TypeOK
<1>. QED  BY <1>3, <1>4, <1>5, <1>6, ContentsLength DEF Previous

\* A sample goes to the end of the queue.
LEMMA ReadSensorsInOrder ==
  ASSUME TypeOK, Even, InOrder, readSensors, pending = {}, ~OtherColumnFull, ~IsFull(buf[1])
  PROVE  InOrder'
<1>1. PICK x \in ET : x = sampled + 1 /\ sampled' = x /\ sampled < x
  BY ColumnsAssumption DEF TypeOK, readSensors
<1>2. /\ Settled' = [mBuffer |-> [buf[1].mBuffer EXCEPT ![WriteIndex(buf[1])] = sampled + 1],
                     mReadIndex |-> SettledIndex(1), mSize |-> SettledSize(1) + 1]
      /\ col # 0 => RowValue(1)' = RowValue(1)
      /\ UNCHANGED <<col, last>>
  BY ReadSensorsEven DEF readSensors, loopVars
<1>3. /\ Settled \in GoodRings /\ SettledSize(1) \in 0 .. S /\ SettledSize(1) < S
      /\ SettledIndex(1) \in Slots
  <2>1. buf[1].mSize \in 0 .. S /\ buf[1].mSize # S /\ S \in Nat
    BY TimeColumn, ColumnTypes, SAssumption DEF IsFull
  <2>2. Settled \in GoodRings /\ SettledSize(1) <= buf[1].mSize
    BY SettledGood
  <2>. QED  BY <2>1, <2>2 DEF Settled, GoodRings
<1>4. WriteIndex(Settled) = WriteIndex(buf[1])
  <2>1. WriteIndex(Settled) = IF SettledIndex(1) + SettledSize(1) >= S
                                THEN SettledIndex(1) + SettledSize(1) - S
                                ELSE SettledIndex(1) + SettledSize(1)
    BY <1>3, OffsetWraps DEF WriteIndex, Settled
  <2>2. WriteIndex(buf[1]) = IF SettledIndex(1) + SettledSize(1) >= S
                               THEN SettledIndex(1) + SettledSize(1) - S
                               ELSE SettledIndex(1) + SettledSize(1)
    BY TimeColumn, ColumnsWriteSameSlot DEF Even
  <2>. QED  BY <2>1, <2>2
<1>5. ~IsFull(Settled)
  BY <1>3, SAssumption DEF IsFull, Settled
<1>6. Settled' = Pushed(Settled, x)
  <2>1. ToIT(SettledSize(1) + 1) = SettledSize(1) + 1
    BY <1>3, ToITExact, SAssumption
  <2>2. Pushed(Settled, x) = [Settled EXCEPT !.mBuffer = [@ EXCEPT ![WriteIndex(Settled)] = x],
                                             !.mSize = ToIT(@ + 1)]
    BY <1>5 DEF Pushed
  <2>. QED  BY <1>1, <1>2, <1>4, <2>1, <2>2 DEF Settled
<1>7. Contents(Settled') = Append(Contents(Settled), x)
  BY <1>3, <1>5, <1>6, PushedContents
<1>8. Previous' = Previous
  BY <1>2 DEF Previous
<1>9. Ascends(Append(Contents(Settled), x), Previous, x)
  BY <1>1, SettledGood, AscendsOn DEF InOrder
<1>10. Ascends(Contents(Settled), Previous, sampled)'
  BY <1>1, <1>7, <1>8, <1>9
<1>. QED  BY <1>2, <1>10 DEF InOrder

\* A row takes the head of the queue.
LEMMA StartRowInOrder ==
  ASSUME TypeOK, Even, InOrder, StartRow
  PROVE  InOrder'
<1>1. /\ col = 0 /\ col' = 1 /\ pending = {} /\ ~IsEmpty(buf[1])
      /\ UNCHANGED <<buf, row, pending, last, sampled>>
  BY DEF StartRow, TypeOK, Columns
<1>2. /\ IndexDone(1) /\ SizeDone(1) /\ ~IndexDone(1)' /\ ~SizeDone(1)' /\ ~Taken(1)'
  BY <1>1 DEF IndexDone, SizeDone, Taken
<1>3. /\ Settled.mBuffer = buf[1].mBuffer /\ Settled.mReadIndex = buf[1].mReadIndex
      /\ Settled.mSize = buf[1].mSize
  BY <1>2 DEF Settled, SettledIndex, SettledSize
<1>4. Settled \in GoodRings /\ ~IsEmpty(Settled)
  BY <1>1, <1>3, SettledGood DEF IsEmpty
<1>5. Settled' = [mBuffer |-> buf[1].mBuffer, mReadIndex |-> NextReadIndex(buf[1]),
                  mSize |-> buf[1].mSize - 1]
  BY <1>1, <1>2 DEF Settled, SettledIndex, SettledSize
<1>6. Settled' = Popped(Settled)
  <2>1. /\ Popped(Settled) \in GoodRings /\ Popped(Settled).mBuffer = Settled.mBuffer
        /\ Popped(Settled).mReadIndex = NextReadIndex(Settled)
        /\ Popped(Settled).mSize = Settled.mSize - 1
    BY <1>4, PoppedGood
  <2>2. NextReadIndex(Settled) = NextReadIndex(buf[1])
    BY <1>3 DEF NextReadIndex
  <2>. QED  BY <1>3, <1>5, <2>1, <2>2 DEF GoodRings
<1>7. /\ Contents(Settled) # << >> /\ Contents(Settled') = Tail(Contents(Settled))
      /\ Head(Contents(Settled)) = buf[1].mBuffer[buf[1].mReadIndex]
  BY <1>3, <1>4, <1>6, PoppedContents
<1>8. RowValue(1)' = Head(Contents(Settled)) /\ Previous = last[1]
  BY <1>1, <1>2, <1>7 DEF RowValue, Previous
<1>9. /\ Previous < Head(Contents(Settled))
      /\ Ascends(Tail(Contents(Settled)), Head(Contents(Settled)), sampled)
  BY <1>7, SettledGood, AscendsOn DEF InOrder
<1>10. Previous' = Head(Contents(Settled))
  BY <1>1, <1>8 DEF Previous
<1>. QED  BY <1>1, <1>7, <1>8, <1>9, <1>10 DEF InOrder

LEMMA LogRowInOrder ==
  ASSUME TypeOK, Even, InOrder, LogRow
  PROVE  /\ InOrder'
         /\ \A i \in Columns : last'[i] > last[i]
<1>1. /\ UNCHANGED <<buf, row, pending, sampled>>
      /\ col = NCols + 1 /\ col' = 0 /\ pending = {} /\ last' = row /\ col # 0
  BY ColumnsAssumption DEF LogRow, TypeOK, Columns
<1>2. ASSUME NEW i \in Columns
      PROVE  /\ IndexDone(i) /\ SizeDone(i) /\ Taken(i)
             /\ IndexDone(i)' /\ SizeDone(i)'
  BY <1>1, ColumnsAssumption DEF IndexDone, SizeDone, Taken, Columns
<1>3. ASSUME NEW i \in Columns PROVE RowValue(i) = row[i]
  BY <1>2 DEF RowValue
<1>4. Settled' = Settled
  BY <1>1, <1>2, TimeColumn DEF Settled, SettledIndex, SettledSize
<1>5. Previous' = row[1] /\ Previous = row[1] /\ last[1] < row[1]
  BY <1>1, <1>3, TimeColumn DEF Previous, InOrder
<1>6. InOrder'
  BY <1>1, <1>4, <1>5 DEF InOrder
<1>7. ASSUME NEW i \in Columns PROVE last'[i] > last[i]
  <2>1. row[i] = row[1] /\ last[i] = last[1]
    BY <1>1, <1>3, TimeColumn DEF Even, SameRow, Aligned
  <2>2. row[1] \in Nat /\ last[1] \in Nat
    BY TimeColumn, ColumnsAssumption DEF TypeOK
  <2>. QED  BY <1>1, <1>5, <2>1, <2>2
<1>. QED  BY <1>6, <1>7

LEMMA InitOInv == Init => OInv
<1>. SUFFICES ASSUME Init PROVE InOrder
  BY DEF OInv
<1>1. buf[1] = NewRingBuf /\ last[1] = 0 /\ col = 0 /\ sampled = 0
  BY TimeColumn, ColumnsAssumption DEF Init
<1>2. Settled.mSize = 0
  BY <1>1 DEF Settled, SettledSize, SizeDone, NewRingBuf
<1>3. Contents(Settled) = << >>
  BY <1>2, EmptyContents
<1>. QED  BY <1>1, <1>3 DEF InOrder, Ascends, Previous

LEMMA NextOInv == BInv /\ AInv /\ OInv /\ [Next]_vars => OInv'
<1>. SUFFICES ASSUME BInv, AInv, OInv, [Next]_vars, races' = 0 PROVE InOrder'
  BY DEF OInv
<1>1. TypeOK /\ races \in Nat
  BY ColumnsAssumption DEF BInv, TypeOK
<1>2. races = 0 /\ Even /\ InOrder
  <2>1. races' = races \/ races' = races + 1
    BY DEF Next, Loop, handleDigitalIO, readSensors, StartRow, PopEmpty, PopLoad,
           StoreIndex, StoreSize, LogRow, vars
  <2>. QED  BY <1>1, <2>1 DEF AInv, Even, OInv
<1>3. ASSUME Settled' = Settled, UNCHANGED <<col, last>>, col # 0 => RowValue(1)' = RowValue(1),
             sampled' = sampled \/ (sampled' = sampled + 1 /\ sampled' \in ET)
      PROVE  InOrder'
  <2>1. Previous' = Previous
    BY <1>3 DEF Previous
  <2>2. Ascends(Contents(Settled), Previous, sampled')
    <3>1. CASE sampled' = sampled
      BY <1>2, <3>1 DEF InOrder
    <3>2. CASE sampled' = sampled + 1 /\ sampled' \in ET
      <4>1. sampled < sampled'
        BY <1>1, <3>2, ColumnsAssumption DEF TypeOK
      <4>. QED  BY <1>1, <1>2, <3>2, <4>1, SettledGood, AscendsOn DEF InOrder
    <3>. QED  BY <1>3, <3>1, <3>2
  <2>. QED  BY <1>2, <1>3, <2>1, <2>2 DEF InOrder
<1>4. ASSUME UNCHANGED <<buf, row, col, pending, last>>,
             sampled' = sampled \/ (sampled' = sampled + 1 /\ sampled' \in ET)
      PROVE  InOrder'
  BY <1>3, <1>4 DEF Settled, SettledIndex, SettledSize, RowValue, IndexDone, SizeDone, Taken
<1>5. CASE handleDigitalIO
  BY <1>4, <1>5 DEF handleDigitalIO, loopVars
<1>6. CASE readSensors
  <2>1. CASE IsFull(buf[1])
    <3>1. sampled' = sampled + 1 /\ sampled' \in ET
      BY <1>1, <1>6, ColumnsAssumption DEF readSensors, TypeOK
    <3>. QED  BY <1>4, <1>6, <2>1, <3>1 DEF readSensors, loopVars
  <2>2. CASE ~IsFull(buf[1])
    <3>1. pending = {} /\ ~OtherColumnFull
      BY <1>2, <1>6, <2>2 DEF readSensors
    <3>. QED  BY <1>1, <1>2, <1>6, <2>2, <3>1, ReadSensorsInOrder
  <2>. QED  BY <2>1, <2>2
<1>7. CASE PopLoad \/ StoreIndex \/ StoreSize
  <2>1. Settled' = Settled /\ RowValue(1)' = RowValue(1) /\ col # 0 /\ col' # 0
    BY <1>1, <1>2, <1>7, PopLoadEven, StoreIndexEven, StoreSizeEven
  <2>2. UNCHANGED <<last, sampled>>
    BY <1>7 DEF PopLoad, StoreIndex, StoreSize
  <2>. QED  BY <1>2, <2>1, <2>2 DEF InOrder, Previous
<1>8. CASE StartRow \/ PopEmpty \/ LogRow
  BY <1>1, <1>2, <1>8, StartRowInOrder, NoPopEmpty, LogRowInOrder
<1>9. CASE UNCHANGED vars
  BY <1>4, <1>9 DEF vars
<1>. QED  BY <1>5, <1>6, <1>7, <1>8, <1>9 DEF Next, Loop

\* For any number of columns and any capacity: until the first race every row
\* logged is of a later sample than the row before, in every column.
THEOREM RowsInOrder == Spec => RowsInOrderUnlessRaced
<1>1. Init => BInv /\ AInv /\ OInv
  BY InitBInv, InitAInv, InitOInv
<1>2. (BInv /\ AInv /\ OInv) /\ [Next]_vars => (BInv /\ AInv /\ OInv)'
  BY NextBInv, NextAInv, NextOInv
<1>3. BInv /\ AInv /\ OInv /\ [Next]_vars =>
        [LogRow /\ races = 0 => \A i \in Columns : last'[i] > last[i]]_vars
  BY LogRowInOrder DEF BInv, AInv, OInv, Even
<1>. QED  BY <1>1, <1>2, <1>3, PTL DEF Spec, RowsInOrderUnlessRaced
=============================================================================
