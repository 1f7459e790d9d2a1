----------------------------- MODULE ObjectPool -----------------------------
(***************************************************************************)
(* What an object cache promises its client: an allocation returns an      *)
(* object nobody holds, and the memory of an object that is held stays.    *)
(***************************************************************************)
CONSTANT Objects

VARIABLES held,    \* objects the client has and has not freed
          backed   \* objects with memory behind them

Init == held = {} /\ backed = {}

Alloc == \E o \in Objects \ held : held' = held \cup {o}

Free == \E o \in held : held' = held \ {o}

\* The pool goes away, with all that is held.
Close == held' = {} /\ backed' = {}

\* The memory may grow or shrink around the objects that are held.
Next == \/ (Alloc \/ Free) /\ backed' \in SUBSET Objects /\ held' \subseteq backed'
        \/ Close

Spec == Init /\ [][Next]_<<held, backed>>
=============================================================================
