---------------------------- MODULE RingBufObject ----------------------------
(***************************************************************************)
(* A RingBuf object whose methods run to completion, one after the other:  *)
(* every use of it with interrupts disabled (lockedPush, lockedPop), or    *)
(* from one thread.  It must behave as BoundedFifo.                        *)
(***************************************************************************)
EXTENDS RingBuf, Sequences

VARIABLES rb,   \* the object
          out,  \* the caller's variable: outElement of pop, result of operator[]
          ok    \* result of the last push or pop

ringVars == <<rb, out, ok>>

RingInit == rb = NewRingBuf /\ out = Zero /\ ok = TRUE

push(x) == /\ rb' = Pushed(rb, x)
           /\ ok' = ~IsFull(rb)
           /\ UNCHANGED out

pop == /\ rb' = Popped(rb)
       /\ ok' = ~IsEmpty(rb)
       /\ out' = IF IsEmpty(rb) THEN out ELSE rb.mBuffer[rb.mReadIndex]

\* operator[]: the parameter has type IT, so out-of-range indices included.
read(i) == out' = At(rb, i) /\ UNCHANGED <<rb, ok>>

clear == rb' = Cleared(rb) /\ UNCHANGED <<out, ok>>

RingNext == \/ \E x \in ET : push(x)
            \/ pop
            \/ \E i \in IT : read(i)
            \/ clear

RingSpec == RingInit /\ [][RingNext]_ringVars

-----------------------------------------------------------------------------
\* The fields keep their integer types and the index stays on a slot, so that
\* every access to mBuffer in push, pop and operator[] is inside the array.
RingTypeOK == /\ rb \in RingBufs
              /\ rb.mReadIndex \in Slots
              /\ rb.mSize \in 0 .. S
              /\ out \in ET
              /\ ok \in BOOLEAN

Fifo == INSTANCE BoundedFifo WITH Capacity <- S, Element <- ET, Initial <- Zero,
                                  q <- Contents(rb)

\* The array, index and size arithmetic of RingBuf.h behaves as a bounded
\* FIFO: no push overwrites a live element, pops come in push order across
\* the wrap, and the results say what happened.
ImplementsFifo == Fifo!Spec
=============================================================================
