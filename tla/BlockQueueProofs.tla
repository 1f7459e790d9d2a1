-------------------------- MODULE BlockQueueProofs --------------------------
(***************************************************************************)
(* Proofs about BlockQueue for any producers, consumers, values and        *)
(* capacity: type correctness with the capacity bound, absence of lost     *)
(* wakeups, and implementation of BoundedFifo.                             *)
(***************************************************************************)
EXTENDS BlockQueue, SequenceTheorems, TLAPS

\* The capacity the constructor settles on is a positive number.
LEMMA CapPositive == Cap \in Nat /\ Cap > 0
  BY BQAssumption DEF Cap

\* Full and Empty say where the length of the queue stands in 0 .. Cap.
LEMMA RoomAndContent ==
  ASSUME TypeOK
  PROVE  /\ Len(data) \in Nat
         /\ ~Full => Len(data) < Cap
         /\ Empty <=> data = << >>
  BY CapPositive, EmptySeq DEF TypeOK, Full, Empty

\* Storing a value in a queue that is not full keeps it within its capacity.
LEMMA StoreTyped ==
  ASSUME TypeOK, ~Full, NEW v \in Values, data' = Append(data, v)
  PROVE  data' \in Seq(Values) /\ Len(data') <= Cap
  BY RoomAndContent, CapPositive DEF TypeOK

\* Taking the front value returns a value and leaves a shorter queue.
LEMMA TakeTyped ==
  ASSUME TypeOK, ~Empty
  PROVE  /\ Tail(data) \in Seq(Values)
         /\ Len(Tail(data)) <= Cap
         /\ Head(data) \in Values
  BY RoomAndContent, CapPositive, HeadTailProperties DEF TypeOK

\* A producer in put() holds the value it will store: what ResumePut needs.
Pending == \A p \in Producers : pc[p] # "out" => arg[p] \in Values

Inv == TypeOK /\ NoLostWakeup /\ Pending

LEMMA InitInv == Init => Inv
  <1> SUFFICES ASSUME Init PROVE Inv
    OBVIOUS
  <1>1. TypeOK
    BY CapPositive, EmptySeq DEF Init, TypeOK, Threads
  <1>2. NoLostWakeup /\ Pending
    BY DEF Init, NoLostWakeup, Pending, Threads
  <1> QED BY <1>1, <1>2 DEF Inv

\* Notifying a condition variable keeps pc typed and puts nobody to sleep;
\* nobody in the notified set is left asleep.
LEMMA NotifyEffect ==
  ASSUME TypeOK, NEW t \in Threads, NEW cv \in SUBSET Threads,
         LeaveAndNotify(t, cv)
  PROVE  /\ pc' \in [Threads -> {"out", "asleep", "awake"}]
         /\ pc'[t] = "out"
         /\ \A u \in cv : pc'[u] # "asleep"
         /\ \A u \in Threads : /\ pc'[u] = "asleep" => pc[u] = "asleep"
                               /\ pc'[u] # "out" => pc[u] # "out"
  BY DEF TypeOK, LeaveAndNotify

LEMMA CallPutInv ==
  ASSUME Inv, NEW p \in Producers, NEW v \in Values, CallPut(p, v)
  PROVE  Inv'
  <1> USE DEF Inv, Threads
  <1>1. CASE Full /\ UNCHANGED <<data, result>>
             /\ pc' = [pc EXCEPT ![p] = "asleep"]
             /\ arg' = [arg EXCEPT ![p] = v]
    BY <1>1, BQAssumption DEF TypeOK, NoLostWakeup, Pending, Full, Empty
  <1>2. CASE ~Full /\ data' = Append(data, v) /\ LeaveAndNotify(p, Consumers)
             /\ UNCHANGED <<arg, result>>
    <2>1. data' \in Seq(Values) /\ Len(data') <= Cap
      BY <1>2, StoreTyped
    <2>2. /\ pc' \in [Threads -> {"out", "asleep", "awake"}]
          /\ \A u \in Consumers : pc'[u] # "asleep"
          /\ \A u \in Threads : /\ pc'[u] = "asleep" => pc[u] = "asleep"
                                /\ pc'[u] # "out" => pc[u] # "out"
      BY <1>2, NotifyEffect
    <2>3. TypeOK'
      BY <1>2, <2>1, <2>2 DEF TypeOK
    <2>4. NoLostWakeup'
      BY <1>2, <2>2 DEF NoLostWakeup
    <2>5. Pending'
      BY <1>2, <2>2 DEF Pending
    <2> QED BY <2>3, <2>4, <2>5
  <1> QED BY <1>1, <1>2 DEF CallPut

LEMMA ResumePutInv ==
  ASSUME Inv, NEW p \in Producers, ResumePut(p)
  PROVE  Inv'
  <1> USE DEF Inv, Threads
  <1>1. CASE Full /\ UNCHANGED <<data, arg, result>>
             /\ pc' = [pc EXCEPT ![p] = "asleep"]
    BY <1>1, BQAssumption DEF TypeOK, NoLostWakeup, Pending, Full, Empty, ResumePut
  <1>2. CASE ~Full /\ data' = Append(data, arg[p])
             /\ arg' = [arg EXCEPT ![p] = None]
             /\ LeaveAndNotify(p, Consumers) /\ UNCHANGED result
    <2>0. arg[p] \in Values
      BY DEF Pending, ResumePut
    <2>1. data' \in Seq(Values) /\ Len(data') <= Cap
      BY <1>2, <2>0, StoreTyped
    <2>2. /\ pc' \in [Threads -> {"out", "asleep", "awake"}]
          /\ pc'[p] = "out"
          /\ \A u \in Consumers : pc'[u] # "asleep"
          /\ \A u \in Threads : /\ pc'[u] = "asleep" => pc[u] = "asleep"
                                /\ pc'[u] # "out" => pc[u] # "out"
      BY <1>2, NotifyEffect
    <2>3. TypeOK'
      BY <1>2, <2>1, <2>2 DEF TypeOK
    <2>4. NoLostWakeup'
      BY <1>2, <2>2 DEF NoLostWakeup
    <2>5. Pending'
      BY <1>2, <2>2 DEF Pending, TypeOK
    <2> QED BY <2>3, <2>4, <2>5
  <1> QED BY <1>1, <1>2 DEF ResumePut

\* What get() does once its predicate holds keeps the invariant.
LEMMA TakeFrontInv ==
  ASSUME Inv, NEW c \in Consumers, TakeFront(c)
  PROVE  Inv'
  <1> USE DEF Inv, Threads
  <1>1. /\ Tail(data) \in Seq(Values)
        /\ Len(Tail(data)) <= Cap
        /\ Head(data) \in Values
    BY TakeTyped DEF TakeFront
  <1>2. /\ pc' \in [Threads -> {"out", "asleep", "awake"}]
        /\ \A u \in Producers : pc'[u] # "asleep"
        /\ \A u \in Threads : /\ pc'[u] = "asleep" => pc[u] = "asleep"
                              /\ pc'[u] # "out" => pc[u] # "out"
    BY NotifyEffect DEF TakeFront
  <1>3. TypeOK'
    BY <1>1, <1>2 DEF TypeOK, TakeFront
  <1>4. NoLostWakeup'
    BY <1>2 DEF NoLostWakeup, TakeFront
  <1>5. Pending'
    BY <1>2 DEF Pending, TakeFront
  <1> QED BY <1>3, <1>4, <1>5

\* A consumer that finds the queue empty goes to sleep rightly.
LEMMA SleepInv ==
  ASSUME Inv, NEW c \in Consumers, Empty, pc' = [pc EXCEPT ![c] = "asleep"],
         UNCHANGED <<data, arg, result>>
  PROVE  Inv'
  BY BQAssumption DEF Inv, Threads, TypeOK, NoLostWakeup, Pending, Full, Empty

LEMMA NextInv == Inv /\ [Next]_vars => Inv'
  <1> SUFFICES ASSUME Inv, [Next]_vars PROVE Inv'
    OBVIOUS
  <1>1. ASSUME NEW p \in Producers, ResumePut(p) PROVE Inv'
    BY <1>1, ResumePutInv
  <1>2. ASSUME NEW p \in Producers, NEW v \in Values, CallPut(p, v) PROVE Inv'
    BY <1>2, CallPutInv
  <1>3. ASSUME NEW c \in Consumers, CallGet(c) PROVE Inv'
    BY <1>3, TakeFrontInv, SleepInv DEF CallGet
  <1>4. ASSUME NEW c \in Consumers, ResumeGet(c) PROVE Inv'
    BY <1>4, TakeFrontInv, SleepInv DEF ResumeGet
  <1>5. CASE UNCHANGED vars
    BY <1>5 DEF Inv, vars, TypeOK, NoLostWakeup, Pending, Full, Empty
  <1> QED BY <1>1, <1>2, <1>3, <1>4, <1>5 DEF Next

\* Every reachable state satisfies the inductive invariant.
THEOREM Invariance == Spec => []Inv
  <1> QED BY InitInv, NextInv, PTL DEF Spec

\* Type correctness, with the bound on the queue's length, for every capacity.
THEOREM TypeCorrect == Spec => []TypeOK
  <1>1. Inv => TypeOK
    BY DEF Inv
  <1> QED BY <1>1, Invariance, PTL

\* No put() or get() is left asleep while it could proceed.
THEOREM NoWakeupIsLost == Spec => []NoLostWakeup
  <1>1. Inv => NoLostWakeup
    BY DEF Inv
  <1> QED BY <1>1, Invariance, PTL

\* Every step of the monitor is an atomic Put, an atomic Get, or invisible.
LEMMA StepRefines == Inv /\ [Next]_vars => [Fifo!Next]_<<data, result>>
  <1> SUFFICES ASSUME Inv, [Next]_vars PROVE [Fifo!Next]_<<data, result>>
    OBVIOUS
  <1> USE DEF Inv
  <1>1. ASSUME NEW p \in Producers, ResumePut(p)
        PROVE  [Fifo!Next]_<<data, result>>
    <2>1. arg[p] \in Values
      BY <1>1 DEF Pending, ResumePut
    <2> QED BY <1>1, <2>1, RoomAndContent DEF ResumePut, Fifo!Next, Fifo!Put
  <1>2. ASSUME NEW p \in Producers, NEW v \in Values, CallPut(p, v)
        PROVE  [Fifo!Next]_<<data, result>>
    BY <1>2, RoomAndContent DEF CallPut, Fifo!Next, Fifo!Put
  <1>3. ASSUME NEW c \in Consumers, TakeFront(c)
        PROVE  [Fifo!Next]_<<data, result>>
    BY <1>3, RoomAndContent DEF TakeFront, Fifo!Next, Fifo!Get
  <1>4. ASSUME NEW c \in Consumers, CallGet(c) \/ ResumeGet(c)
        PROVE  [Fifo!Next]_<<data, result>>
    BY <1>3, <1>4 DEF CallGet, ResumeGet
  <1>5. CASE UNCHANGED vars
    BY <1>5 DEF vars
  <1> QED BY <1>1, <1>2, <1>4, <1>5 DEF Next

\* The monitor implements the bounded FIFO queue.
THEOREM ImplementsFifo == Spec => FifoSpec
  <1>1. Init => Fifo!Init
    BY DEF Init, Fifo!Init
  <1> QED BY <1>1, StepRefines, Invariance, PTL DEF Spec, FifoSpec, Fifo!Spec
=============================================================================
