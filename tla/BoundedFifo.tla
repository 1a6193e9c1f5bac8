----------------------------- MODULE BoundedFifo -----------------------------
(***************************************************************************)
(* What a RingBuf promises to the sketches that declare one: a FIFO of at  *)
(* most Capacity elements whose operations report, in `ok', whether they   *)
(* took effect, and deliver an element in `out'.  Nothing here knows about *)
(* an array, an index or an integer width.                                 *)
(***************************************************************************)
EXTENDS Naturals, Sequences

CONSTANTS Capacity,  \* the most elements the queue holds
          Element,   \* what it holds
          Initial    \* content of the caller's variable before the first pop

VARIABLES q,    \* the queue, oldest element first
          out,  \* the variable passed by reference to pop, or read through [i]
          ok    \* the result of the last push or pop

vars == <<q, out, ok>>

Init == q = << >> /\ out = Initial /\ ok = TRUE

Push(x) == /\ ok' = (Len(q) < Capacity)
           /\ q' = IF Len(q) < Capacity THEN Append(q, x) ELSE q
           /\ UNCHANGED out

Pop == /\ ok' = (q # << >>)
       /\ out' = IF q # << >> THEN Head(q) ELSE out
       /\ q' = IF q # << >> THEN Tail(q) ELSE q

\* The i-th oldest element, counted from 0; outside the queue, any element
\* (one index past the capacity stands for all of those).
ReadAt(i) == /\ out' \in IF i < Len(q) THEN {q[i + 1]} ELSE Element
             /\ UNCHANGED <<q, ok>>

Clear == q' = << >> /\ UNCHANGED <<out, ok>>

Next == \/ \E x \in Element : Push(x)
        \/ Pop
        \/ \E i \in 0 .. Capacity : ReadAt(i)
        \/ Clear

Spec == Init /\ [][Next]_vars
=============================================================================
