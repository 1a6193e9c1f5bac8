------------------------------- MODULE RingBuf -------------------------------
(***************************************************************************)
(* RingBuf.h: the ring buffer that carries every measured column from the  *)
(* sampling interrupt to loop().  Its methods are operators on the three   *)
(* fields of the object, with the integer widths the template chooses.     *)
(* RingBufObject is the object used by one thread; SampleBuffers uses the  *)
(* operators across an interrupt.                                          *)
(***************************************************************************)
EXTENDS Integers

CONSTANTS S,     \* template parameter S: number of slots
          ET,    \* template parameter ET: the element type
          Zero,  \* a zero-initialised element (the buffers are globals)
          Byte   \* values of a uint8_t: 256 in the program, smaller for TLC

ASSUME SAssumption ==
  /\ Byte \in Nat \ {0, 1}
  /\ S \in 1 .. (Byte * Byte - 1)   \* the two static_asserts on S
  /\ Zero \in ET

\* Index<(S > 255)>: the index and size have type IT, uint8_t or uint16_t;
\* intermediate sums have type BT, twice as wide.
ITMod == IF S > Byte - 1 THEN Byte * Byte ELSE Byte
BTMod == ITMod * ITMod

IT == 0 .. (ITMod - 1)

\* Storing n in a variable of either type.
ToIT(n) == n % ITMod
ToBTNarrow(n) == n % ITMod  \* mutant: sums kept in the type of the index
ToBT(n) == n % BTMod

Slots == 0 .. (S - 1)
RingBufs == [mBuffer : [Slots -> ET], mReadIndex : IT, mSize : IT]

NewRingBuf == [mBuffer |-> [k \in Slots |-> Zero], mReadIndex |-> 0, mSize |-> 0]

IsFullLate(b) == b.mSize > S  \* mutant: full one element too late
IsFull(b)  == b.mSize = S
IsEmpty(b) == b.mSize = 0

\* mutant: the slot after the last one is not wrapped
OffsetPastEnd(b, n) == LET wi == ToBT(b.mReadIndex + n)
                       IN  ToIT(IF wi > S THEN wi - S ELSE wi)

\* Both writeIndex() and operator[] step n slots from mReadIndex.
Offset(b, n) == LET wi == ToBT(b.mReadIndex + n)
                IN  ToIT(IF wi >= S THEN wi - S ELSE wi)
WriteIndex(b) == Offset(b, b.mSize)

\* The object after push(x); unchanged, and push returned false, when full.
Pushed(b, x) ==
  IF IsFull(b) THEN b
  ELSE [b EXCEPT !.mBuffer = [@ EXCEPT ![WriteIndex(b)] = x],
                 !.mSize = ToIT(@ + 1)]

LateReset(r) == IF r > S THEN 0 ELSE r  \* mutant: reset one slot late
ResetAtEnd(r) == IF r = S THEN 0 ELSE r

NextReadIndex(b) == ResetAtEnd(ToIT(b.mReadIndex + 1))

Popped(b) == IF IsEmpty(b) THEN b
             ELSE [b EXCEPT !.mReadIndex = NextReadIndex(b), !.mSize = ToIT(@ - 1)]

At(b, i) == IF i >= b.mSize THEN b.mBuffer[0] ELSE b.mBuffer[Offset(b, i)]

Cleared(b) == [b EXCEPT !.mSize = 0]

\* What the object holds, oldest first.
Contents(b) == [i \in 1 .. b.mSize |-> b.mBuffer[Offset(b, i - 1)]]
=============================================================================
