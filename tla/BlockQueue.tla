----------------------------- MODULE BlockQueue -----------------------------
(***************************************************************************)
(* block_queue/block_queue.h: a queue of bounded capacity with one mutex   *)
(* and one condition variable per direction, and the producer and consumer *)
(* loops of block_queue/test.cpp that drive it.                            *)
(*                                                                         *)
(* Every access to _data, and every notify, happens with _mtx held, so the *)
(* stretch of code between two releases of _mtx is one action.  A thread   *)
(* that finds its predicate false sleeps on its condition variable; it     *)
(* tests the predicate again when notified (it is then "awake", competing  *)
(* for _mtx) or spuriously, straight from its sleep.                       *)
(***************************************************************************)
EXTENDS Naturals, Sequences

CONSTANTS Producers, Consumers, Values,
          RequestedCap,      \* the constructor's argument
          DefaultCapacity,   \* _DEFAULT_CAPACITY
          None

ASSUME BQAssumption ==
    /\ RequestedCap \in Nat
    /\ DefaultCapacity \in Nat \ {0}
    /\ Producers \cap Consumers = {}
    /\ None \notin Values

Cap == IF RequestedCap = 0 THEN DefaultCapacity ELSE RequestedCap

VARIABLES data,   \* _data
          pc,     \* where each thread is: "out", "asleep" or "awake"
          arg,    \* the value a producer is putting
          result  \* what a consumer's last get() returned

vars == <<data, pc, arg, result>>

Threads == Producers \cup Consumers

Init ==
    /\ data = << >>
    /\ pc = [t \in Threads |-> "out"]
    /\ arg = [p \in Producers |-> None]
    /\ result = [c \in Consumers |-> None]

Empty == Len(data) = 0

Full == Len(data) = Cap

\* Mutant: the value is stored or taken without a notify.
Leave_NoNotify(t, cv) == pc' = [pc EXCEPT ![t] = "out"]

\* The state of the threads after t left the monitor and notified all of cv.
LeaveAndNotify(t, cv) ==
    pc' = [u \in Threads |->
              IF u = t THEN "out"
              ELSE IF u \in cv /\ pc[u] = "asleep" THEN "awake" ELSE pc[u]]

\* A producer enters put(v) and takes _mtx: it stores v or goes to sleep.
CallPut(p, v) ==
    /\ pc[p] = "out"
    /\ \/ /\ Full
          /\ pc' = [pc EXCEPT ![p] = "asleep"]
          /\ arg' = [arg EXCEPT ![p] = v]
          /\ UNCHANGED <<data, result>>
       \/ /\ ~Full
          /\ data' = Append(data, v)
          /\ LeaveAndNotify(p, Consumers)
          /\ UNCHANGED <<arg, result>>

\* Mutant: put() waits with "if" where it needs "while".
ResumePut_NoRetest(p) ==
    /\ pc[p] = "awake"
    /\ data' = Append(data, arg[p])
    /\ arg' = [arg EXCEPT ![p] = None]
    /\ LeaveAndNotify(p, Consumers)
    /\ UNCHANGED result

\* A producer in _full_cond.wait has _mtx again and tests its predicate.
ResumePut(p) ==
    /\ pc[p] \in {"asleep", "awake"}
    /\ \/ /\ Full
          /\ pc' = [pc EXCEPT ![p] = "asleep"]
          /\ UNCHANGED <<data, arg>>
       \/ /\ ~Full
          /\ data' = Append(data, arg[p])
          /\ arg' = [arg EXCEPT ![p] = None]
          /\ LeaveAndNotify(p, Consumers)
    /\ UNCHANGED result

\* The part of get() that runs once the predicate holds.
TakeFront(c) ==
    /\ ~Empty
    /\ data' = Tail(data)
    /\ result' = [result EXCEPT ![c] = Head(data)]
    /\ LeaveAndNotify(c, Producers)
    /\ UNCHANGED arg

\* A consumer enters get(): it takes the front value or goes to sleep.
CallGet(c) ==
    /\ pc[c] = "out"
    /\ \/ /\ Empty
          /\ pc' = [pc EXCEPT ![c] = "asleep"]
          /\ UNCHANGED <<data, arg, result>>
       \/ TakeFront(c)

\* A consumer in _empty_cond.wait has _mtx again and tests its predicate.
ResumeGet(c) ==
    /\ pc[c] \in {"asleep", "awake"}
    /\ \/ /\ Empty
          /\ pc' = [pc EXCEPT ![c] = "asleep"]
          /\ UNCHANGED <<data, arg, result>>
       \/ TakeFront(c)

Next == \/ \E p \in Producers : ResumePut(p) \/ \E v \in Values : CallPut(p, v)
        \/ \E c \in Consumers : CallGet(c) \/ ResumeGet(c)

\* A notified thread gets _mtx sooner or later and the loops of test.cpp call
\* again after each sleep; nothing makes a sleeper wake without a notify.
Fairness ==
    /\ \A p \in Producers :
          /\ WF_vars(\E v \in Values : CallPut(p, v))
          /\ WF_vars(pc[p] = "awake" /\ ResumePut(p))
    /\ \A c \in Consumers :
          /\ WF_vars(CallGet(c))
          /\ WF_vars(pc[c] = "awake" /\ ResumeGet(c))

Spec == Init /\ [][Next]_vars
FairSpec == Spec /\ Fairness

-----------------------------------------------------------------------------
\* Every variable has its type, and the queue never exceeds its capacity.
TypeOK ==
    /\ data \in Seq(Values)
    /\ Len(data) <= Cap
    /\ pc \in [Threads -> {"out", "asleep", "awake"}]
    /\ arg \in [Producers -> Values \cup {None}]
    /\ result \in [Consumers -> Values \cup {None}]

\* No wakeup is lost: put() and get() notify under the mutex, so a thread that
\* sleeps un-notified does so only while its own condition is false; no
\* producer sleeps while there is room and no consumer while there is a value.
NoLostWakeup ==
    /\ \A p \in Producers : pc[p] = "asleep" => Full
    /\ \A c \in Consumers : pc[c] = "asleep" => Empty

\* put() and get() behave as the atomic operations of a bounded FIFO queue.
Fifo == INSTANCE BoundedFifo WITH
            Callers <- Consumers, Items <- Values, Bound <- Cap,
            Nothing <- None, fifo <- data, returned <- result
FifoSpec == Fifo!Spec

\* A full queue is drained and an empty one is filled: the two sides can never
\* all be asleep on their condition variables for good.
KeepsMoving == /\ []<>(~Full)
               /\ []<>(~Empty)
=============================================================================
