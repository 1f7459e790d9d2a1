---------------------------- MODULE BoundedFifo ----------------------------
(***************************************************************************)
(* What a bounded blocking queue promises its callers: every Put appends   *)
(* its value atomically while fewer than Bound values are stored, every    *)
(* Get atomically removes the oldest stored value and returns it.          *)
(***************************************************************************)
EXTENDS Naturals, Sequences

CONSTANTS Callers, Items, Bound, Nothing

VARIABLES fifo,     \* the values put and not yet returned, oldest first
          returned  \* [Callers -> Items \cup {Nothing}]: last result of Get

Init == /\ fifo = << >>
        /\ returned = [c \in Callers |-> Nothing]

Put(v) == /\ Len(fifo) < Bound
          /\ fifo' = Append(fifo, v)
          /\ UNCHANGED returned

Get(c) == /\ fifo # << >>
          /\ fifo' = Tail(fifo)
          /\ returned' = [returned EXCEPT ![c] = Head(fifo)]

Next == (\E v \in Items : Put(v)) \/ (\E c \in Callers : Get(c))

Spec == Init /\ [][Next]_<<fifo, returned>>
=============================================================================
