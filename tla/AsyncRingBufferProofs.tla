----------------------- MODULE AsyncRingBufferProofs -----------------------
(* A scheduled flush is never forgotten and a flush copies constructed       *)
(* records only, for any number of writers and records and any capacities.  *)
EXTENDS AsyncRingBuffer, TLAPS

\* Where a writer has constructed its record and not yet told.
Telling == {"index", "storeindex", "element", "header"}
Emplacing == {"request", "retry", "construct"} \cup InRequest \cup Telling
Overflowing == {"lock", "check", "armed", "asleep", "swap", "load", "store", "push"}
Places == Emplacing \cup Overflowing \cup {"join", "drain", "poll", "stop", "end"}

Types ==
    /\ pc \in [Threads -> Places]
    /\ DOMAIN ptr = Writers
    /\ queue \in Nat /\ taken \in Nat /\ filePos \in Nat

\* A request is queued, or in the flush thread's list, or about to be queued.
Requested == queue + taken > 0 \/ \E t \in Threads : pc[t] = "push"

\* When the flush thread is about to write back a status with B_SCHE in it,
\* there is a request for it.
StoredBack ==
    fpc \in {"syncing", "finishing"} /\ "SCHE" \in freg => Requested

\* A record was constructed wherever a header points, a writer is about to make
\* one point, and the flush thread is about to copy.
RecordsBehindHeaders ==
    /\ \A e \in DOMAIN header : header[e] \in memory
    /\ \A w \in Writers : pc[w] \in Telling => ptr[w] \in memory
    /\ fpc \in {"write", "copy"} => fptr \in memory

Inv == Types /\ ScheduledIsQueued /\ StoredBack /\ RecordsBehindHeaders
       /\ FlushedWasConstructed

USE DEF banks, ring, own, local, turn, flusher, output

-----------------------------------------------------------------------------
(* Where a step takes the threads, and what it leaves alone. *)

\* The steps other than a writer's in emplace_back.
OverflowStep(t) == Overflow(t) \/ Lock(t) \/ Push(t) \/ WakeSpuriously(t)

LEMMA NextSplit ==
    ASSUME [Next]_vars
    PROVE  \/ \E w \in Writers : Emplace(w)
           \/ \E t \in Threads : OverflowStep(t)
           \/ Flusher
           \/ MainStep
           \/ UNCHANGED vars
BY DEF Next, OverflowStep

\* A writer's step in emplace_back.
LEMMA EmplaceDoes ==
    ASSUME Types, NEW w \in Writers, Emplace(w)
    PROVE  /\ UNCHANGED <<status, flusher, output>>
           /\ pc[w] \in Emplacing
           /\ \E l \in Emplacing \cup {"lock", "end"} : pc' = [pc EXCEPT ![w] = l]
           /\ \A t \in Threads : t # w => pc'[t] = pc[t]
           /\ pc'[w] # "push"
<1>1. w \in Threads /\ pc \in [Threads -> Places]
    BY DEF Threads, Types
<1>2. UNCHANGED <<status, flusher, output>>
    BY DEF Emplace, Request, Place, Construct, GetIndex, StoreHeader
<1>3. /\ pc[w] \in Emplacing
      /\ \E l \in Emplacing \cup {"lock", "end"} : pc' = [pc EXCEPT ![w] = l]
    BY DEF Emplace, Request, Place, Construct, GetIndex, StoreHeader, Returned, Goto,
           Emplacing, Telling, InRequest
<1>4. PICK l \in Emplacing \cup {"lock", "end"} : pc' = [pc EXCEPT ![w] = l]
    BY <1>3
<1>5. pc'[w] = l /\ \A t \in Threads : t # w => pc'[t] = pc[t]
    BY <1>1, <1>4
<1>6. l # "push"
    BY DEF Emplacing, Telling, InRequest
<1>7. QED
    BY <1>2, <1>3, <1>5, <1>6

\* A step in overflow.
LEMMA OverflowDoes ==
    ASSUME Types, NEW t \in Threads, OverflowStep(t)
    PROVE  /\ UNCHANGED <<own, memory, header, output>>
           /\ UNCHANGED <<fpc, turn, taken, running, exited>>
           /\ \E l \in Overflowing \cup {"retry", "poll"} : pc' = [pc EXCEPT ![t] = l]
           /\ \/ Push(t)
              \/ queue' = queue /\ pc[t] # "push"
<1>1. CASE Push(t)
    BY <1>1 DEF Push, Goto
<1>2. CASE Swap(t)
    <2>1. /\ UNCHANGED <<status, mtx, memory, header, own, reg, flusher, output>>
          /\ pc[t] = "swap"
          /\ pc' = pc \/ Goto(t, "load")
        BY <1>2, Zenon DEF Swap
    <2>2. pc' = pc => pc' = [pc EXCEPT ![t] = "swap"]
        BY <2>1 DEF Types
    <2>3. QED
        BY <2>1, <2>2 DEF Overflowing, Goto
<1>3. CASE ~Push(t) /\ ~Swap(t)
    BY <1>3 DEF OverflowStep, Overflow, Lock, WakeSpuriously, Check, Sleep, LoadStatus,
                StoreStatus, Goto, Overflowing
<1>4. QED
    BY <1>1, <1>2, <1>3

\* A step of the flush thread moves at most a sleeper.
LEMMA FlusherDoes ==
    ASSUME Types, Flusher
    PROVE  /\ UNCHANGED <<own, memory, header>>
           /\ \/ pc' = pc
              \/ \E t \in Threads : pc[t] = "asleep" /\ pc' = [pc EXCEPT ![t] = "lock"]
BY DEF Flusher, Flush, Top, NextRequest, Load, Store, FlushOne, WriteToFileBuffer,
       FlushEnd, Notify, Goto

\* A step of main itself.
LEMMA MainDoes ==
    ASSUME Types, MainStep
    PROVE  /\ UNCHANGED <<ring, own, fpc, turn, queue, taken, exited, fileMemory>>
           /\ filePos' = filePos \/ filePos' = 0
           /\ \/ pc' = pc
              \/ /\ pc[Main] # "push"
                 /\ \E l \in {"drain", "lock", "stop", "end"} : pc' = [pc EXCEPT ![Main] = l]
BY DEF MainStep, Join, Drain, Poll, Stopped, Goto

-----------------------------------------------------------------------------
LEMMA TypesInv == ASSUME Types, [Next]_vars PROVE Types'
<1>0. pc \in [Threads -> Places] /\ queue \in Nat /\ taken \in Nat /\ filePos \in Nat
      /\ DOMAIN ptr = Writers
    BY DEF Types
<1>1. ASSUME NEW w \in Writers, Emplace(w) PROVE Types'
    <2>1. DOMAIN ptr' = Writers
        BY <1>0, <1>1 DEF Emplace, Request, Place, Construct, GetIndex, StoreHeader
    <2>2. pc' \in [Threads -> Places]
        BY <1>0, <1>1, EmplaceDoes DEF Threads, Places, Overflowing
    <2>3. QED
        BY <1>0, <1>1, <2>1, <2>2, EmplaceDoes DEF Types
<1>2. ASSUME NEW t \in Threads, OverflowStep(t) PROVE Types'
    <2>1. pc' \in [Threads -> Places]
        BY <1>0, <1>2, OverflowDoes DEF Places, Emplacing
    <2>2. queue' \in Nat
        BY <1>0, <1>2, OverflowDoes DEF Push
    <2>3. QED
        BY <1>0, <1>2, <2>1, <2>2, OverflowDoes DEF Types
<1>3. CASE Flusher
    <2>1. pc' \in [Threads -> Places]
        BY <1>0, <1>3, FlusherDoes DEF Places, Overflowing
    <2>2. queue' \in Nat /\ taken' \in Nat
        BY <1>0, <1>3 DEF Flusher, Flush, Top, NextRequest, Load, Store, FlushOne,
                          WriteToFileBuffer, FlushEnd, Notify
    <2>3. filePos' \in Nat
        BY <1>0, <1>3 DEF Flusher, Flush, Top, NextRequest, Load, Store, FlushOne,
                          WriteToFileBuffer, FlushEnd, Notify
    <2>4. QED
        BY <1>0, <1>3, <2>1, <2>2, <2>3, FlusherDoes DEF Types
<1>4. CASE MainStep
    <2>1. pc' \in [Threads -> Places]
        BY <1>0, <1>4, MainDoes DEF Places, Overflowing, Threads
    <2>2. QED
        BY <1>0, <1>4, <2>1, MainDoes DEF Types
<1>5. CASE UNCHANGED vars
    BY <1>5 DEF vars, Types
<1>6. QED
    BY <1>1, <1>2, <1>3, <1>4, <1>5, NextSplit

-----------------------------------------------------------------------------
(* The status word and the requests. *)

\* Nobody but the flush thread, turning to a request, makes the last request
\* disappear.
LEMMA RequestStays ==
    ASSUME Types, [Next]_vars, Requested, ~NextRequest PROVE Requested'
<1>0. pc \in [Threads -> Places] /\ queue \in Nat /\ taken \in Nat
    BY DEF Types
<1>1. ASSUME NEW w \in Writers, Emplace(w) PROVE Requested'
    <2>1. \A t \in Threads : pc[t] = "push" => t # w
        BY <1>1, EmplaceDoes DEF Emplacing, Telling, InRequest
    <2>2. QED
        BY <1>1, <2>1, EmplaceDoes DEF Requested
<1>2. ASSUME NEW t \in Threads, OverflowStep(t) PROVE Requested'
    <2>1. CASE Push(t)
        BY <1>0, <2>1 DEF Push, Requested
    <2>2. CASE queue' = queue /\ pc[t] # "push"
        BY <1>0, <1>2, <2>2, OverflowDoes DEF Requested
    <2>3. QED
        BY <1>2, <2>1, <2>2, OverflowDoes
<1>3. CASE Flusher
    <2>1. queue + taken > 0 => queue' + taken' > 0
        BY <1>0, <1>3 DEF Flusher, Flush, Top, Load, Store, FlushOne, WriteToFileBuffer,
                          FlushEnd, Notify
    <2>2. \A t \in Threads : pc[t] = "push" => pc'[t] = "push"
        BY <1>0, <1>3, FlusherDoes
    <2>3. QED
        BY <2>1, <2>2 DEF Requested
<1>4. CASE MainStep
    BY <1>0, <1>4, MainDoes DEF Requested
<1>5. CASE UNCHANGED vars
    BY <1>5 DEF Requested, vars
<1>6. QED
    BY <1>1, <1>2, <1>3, <1>4, <1>5, NextSplit

\* B_SCHE is set by a thread about to push, or written back by the flush
\* thread, which had found it set.
LEMMA ScheduledInv ==
    ASSUME Inv, [Next]_vars PROVE ScheduledIsQueued' /\ StoredBack'
<1>0. /\ pc \in [Threads -> Places] /\ queue \in Nat /\ taken \in Nat
      /\ StoredBack /\ ScheduledIsQueued /\ Types
    BY DEF Inv, Types
<1>1. CASE NextRequest
    <2>1. StoredBack'
        BY <1>1 DEF NextRequest, StoredBack
    <2>2. ScheduledIsQueued'
        BY <1>0, <1>1 DEF NextRequest, ScheduledIsQueued
    <2>3. QED
        BY <2>1, <2>2
<1>2. CASE Load
    <2>1. StoredBack'
        BY <1>0, <1>2 DEF Load, StoredBack, ScheduledIsQueued, Requested
    <2>2. ScheduledIsQueued'
        BY <1>0, <1>2 DEF Load, ScheduledIsQueued
    <2>3. QED
        BY <2>1, <2>2
<1>3. CASE Store
    <2>1. StoredBack'
        BY <1>3 DEF Store, StoredBack
    <2>2. ScheduledIsQueued'
        BY <1>0, <1>3 DEF Store, ScheduledIsQueued, StoredBack, Requested
    <2>3. QED
        BY <2>1, <2>2
<1>4. CASE ~NextRequest /\ ~Load /\ ~Store
    <2>1. \/ /\ fpc' \notin {"clear", "clearing", "syncing", "finishing"}
             /\ fpc \notin {"clear", "clearing"}
             /\ status' = status
          \/ /\ fpc' = fpc /\ freg' = freg
             /\ status' = status \/ \E t \in Threads : StoreStatus(t)
        <3>1. ASSUME NEW w \in Writers, Emplace(w)
              PROVE  fpc' = fpc /\ freg' = freg /\ status' = status
            BY <1>0, <3>1, EmplaceDoes
        <3>2. ASSUME NEW t \in Threads, OverflowStep(t)
              PROVE  /\ fpc' = fpc /\ freg' = freg
                     /\ status' = status \/ StoreStatus(t)
            <4>1. fpc' = fpc /\ freg' = freg
                BY <1>0, <3>2, OverflowDoes
            <4>2. status' = status \/ StoreStatus(t)
                BY <3>2 DEF OverflowStep, Overflow, Lock, Push, WakeSpuriously, Check,
                            Sleep, Swap, LoadStatus
            <4>3. QED
                BY <4>1, <4>2
        <3>3. CASE Top \/ Flush \/ Notify
            BY <3>3 DEF Top, Flush, FlushOne, WriteToFileBuffer, FlushEnd, Notify
        <3>4. CASE MainStep
            BY <1>0, <3>4, MainDoes DEF RecordsBehindHeaders
        <3>5. CASE UNCHANGED vars
            BY <1>0, <3>5 DEF vars, RecordsBehindHeaders
        <3>6. QED
            BY <1>4, <3>1, <3>2, <3>3, <3>4, <3>5, NextSplit DEF Flusher
    <2>2. StoredBack'
        BY <1>0, <1>4, <2>1, RequestStays DEF StoredBack
    <2>3. CASE \E t \in Threads : StoreStatus(t)
        <3>1. PICK t \in Threads : StoreStatus(t)
            BY <2>3
        <3>2. pc'[t] = "push"
            BY <1>0, <3>1 DEF StoreStatus, Goto
        <3>3. QED
            BY <2>2, <3>2 DEF ScheduledIsQueued
    <2>4. CASE ~\E t \in Threads : StoreStatus(t)
        <3>1. SUFFICES ASSUME "SCHE" \in status', fpc' \notin {"clear", "clearing"}
                       PROVE  Requested'
            BY <2>2 DEF ScheduledIsQueued, Requested
        <3>2. Requested
            BY <1>0, <2>1, <2>4, <3>1 DEF ScheduledIsQueued, Requested
        <3>3. QED
            BY <1>0, <1>4, <3>2, RequestStays
    <2>5. QED
        BY <2>2, <2>3, <2>4
<1>5. QED
    BY <1>1, <1>2, <1>3, <1>4

-----------------------------------------------------------------------------
(* The records, their headers and the file buffer. *)

\* The steps that are no writer's in emplace_back construct and tell nothing.
LEMMA OthersTellNothing ==
    ASSUME Types, [Next]_vars, ~\E w \in Writers : Emplace(w)
    PROVE  /\ UNCHANGED <<ptr, memory, header>>
           /\ \A w \in Writers : pc'[w] \in Telling => pc'[w] = pc[w]
<1>0. pc \in [Threads -> Places] /\ Writers \subseteq Threads
    BY DEF Types, Threads
<1>1. ASSUME NEW t \in Threads, OverflowStep(t)
      PROVE  /\ UNCHANGED <<ptr, memory, header>>
             /\ \A w \in Writers : pc'[w] \in Telling => pc'[w] = pc[w]
    BY <1>0, <1>1, OverflowDoes DEF Overflowing, Telling
<1>2. CASE Flusher
    BY <1>0, <1>2, FlusherDoes DEF Telling
<1>3. CASE MainStep
    BY <1>0, <1>3, MainDoes DEF Telling
<1>4. CASE UNCHANGED vars
    BY <1>4 DEF vars
<1>5. QED
    BY <1>1, <1>2, <1>3, <1>4, NextSplit

\* A header is stored for a place that has a record, and memory once
\* constructed stays so.
LEMMA HeadersInv ==
    ASSUME Inv, NEW w \in Writers, Emplace(w) PROVE RecordsBehindHeaders'
<1>0. /\ RecordsBehindHeaders /\ Types /\ pc \in [Threads -> Places]
      /\ DOMAIN ptr = Writers /\ w \in Threads /\ Writers \subseteq Threads
    BY DEF Inv, Types, Threads
<1>1. fpc' = fpc /\ fptr' = fptr /\ \A v \in Writers : v # w => pc'[v] = pc[v]
    BY <1>0, EmplaceDoes
<1>2. CASE Request(w) \/ Place(w)
    <2>1. UNCHANGED <<memory, header>> /\ pc'[w] \notin Telling
        BY <1>0, <1>2 DEF Request, Place, Returned, Goto, Telling
    <2>2. \A v \in Writers : v # w => ptr'[v] = ptr[v]
        BY <1>0, <1>2 DEF Request, Place
    <2>3. QED
        BY <1>0, <1>1, <2>1, <2>2 DEF RecordsBehindHeaders
<1>3. CASE Construct(w)
    <2>1. UNCHANGED <<header, ptr>> /\ memory' = memory \cup {ptr[w]}
        BY <1>3 DEF Construct
    <2>2. QED
        BY <1>0, <1>1, <2>1 DEF RecordsBehindHeaders
<1>4. CASE GetIndex(w)
    <2>1. UNCHANGED <<memory, header, ptr>> /\ pc[w] \in Telling
        BY <1>4 DEF GetIndex, Telling
    <2>2. QED
        BY <1>0, <1>1, <2>1 DEF RecordsBehindHeaders
<1>5. CASE StoreHeader(w) /\ pc[w] = "element"
    <2>1. UNCHANGED <<memory, header, ptr>> /\ pc[w] \in Telling
        BY <1>5 DEF StoreHeader, Telling
    <2>2. QED
        BY <1>0, <1>1, <2>1 DEF RecordsBehindHeaders
<1>6. CASE StoreHeader(w) /\ pc[w] # "element"
    <2>1. /\ pc[w] = "header" /\ memory' = memory
          /\ header' = [e \in DOMAIN header \cup {elem[w]} |->
                           IF e = elem[w] THEN ptr[w] ELSE header[e]]
          /\ ptr' = [ptr EXCEPT ![w] = <<0, 0>>]
          /\ Returned(w)
        BY <1>6 DEF StoreHeader
    <2>2. pc'[w] \notin Telling
        BY <1>0, <2>1 DEF Returned, Goto, Telling
    <2>3. ptr[w] \in memory
        BY <1>0, <2>1 DEF RecordsBehindHeaders, Telling
    <2>4. \A e \in DOMAIN header' : header'[e] \in memory'
        BY <1>0, <2>1, <2>3 DEF RecordsBehindHeaders
    <2>5. \A v \in Writers : v # w => ptr'[v] = ptr[v]
        BY <1>0, <2>1
    <2>6. QED
        BY <1>0, <1>1, <2>1, <2>2, <2>4, <2>5 DEF RecordsBehindHeaders
<1>7. QED
    BY <1>2, <1>3, <1>4, <1>5, <1>6 DEF Emplace

\* The flush thread takes the place it copies from a header.
LEMMA RecordsInv == ASSUME Inv, [Next]_vars PROVE RecordsBehindHeaders'
<1>0. RecordsBehindHeaders /\ Types
    BY DEF Inv
<1>1. CASE \E w \in Writers : Emplace(w)
    BY <1>1, HeadersInv
<1>2. CASE ~\E w \in Writers : Emplace(w)
    <2>1. /\ UNCHANGED <<ptr, memory, header>>
          /\ \A w \in Writers : pc'[w] \in Telling => pc'[w] = pc[w]
        BY <1>0, <1>2, OthersTellNothing
    <2>2. fpc' \in {"write", "copy"} => fptr' \in memory
        <3>1. ASSUME NEW t \in Threads, OverflowStep(t) PROVE fpc' = fpc /\ fptr' = fptr
            BY <1>0, <3>1, OverflowDoes
        <3>2. CASE FlushOne \/ WriteToFileBuffer
            BY <1>0, <3>2 DEF FlushOne, WriteToFileBuffer, RecordsBehindHeaders
        <3>3. CASE Top \/ NextRequest \/ Load \/ Store \/ FlushEnd \/ Notify
            BY <3>3 DEF Top, NextRequest, Load, Store, FlushEnd, Notify
        <3>4. CASE MainStep
            BY <1>0, <3>4, MainDoes DEF RecordsBehindHeaders
        <3>5. CASE UNCHANGED vars
            BY <1>0, <3>5 DEF vars, RecordsBehindHeaders
        <3>6. QED
            BY <1>0, <1>2, <3>1, <3>2, <3>3, <3>4, <3>5, NextSplit
               DEF Flusher, Flush, RecordsBehindHeaders
    <2>3. QED
        BY <1>0, <2>1, <2>2 DEF RecordsBehindHeaders
<1>3. QED
    BY <1>1, <1>2

LEMMA FileBufferInv == ASSUME Inv, [Next]_vars PROVE FlushedWasConstructed'
<1>0. /\ FlushedWasConstructed /\ Types /\ filePos \in Nat
      /\ fpc = "copy" => fptr \in memory
    BY DEF Inv, Types, RecordsBehindHeaders
<1>1. CASE WriteToFileBuffer
    <2>1. CASE fpc = "write" /\ filePos < FileCap
        <3>1. /\ filePos' = filePos + 1 /\ fslot' = filePos /\ fpc' = "copy"
              /\ fileMemory' = fileMemory
            BY <1>0, <1>1, <2>1, ARBAssumption DEF WriteToFileBuffer
        <3>2. \A s \in 0 .. filePos' - 1 : s = filePos \/ s \in 0 .. filePos - 1
            BY <1>0, <3>1
        <3>3. QED
            BY <1>0, <2>1, <3>1, <3>2 DEF FlushedWasConstructed
    <2>2. CASE fpc = "write" /\ ~(filePos < FileCap)
        <3>1. filePos' = 0
            BY <1>0, <1>1, <2>2 DEF WriteToFileBuffer
        <3>2. QED
            BY <3>1 DEF FlushedWasConstructed
    <2>3. CASE fpc # "write"
        <3>1. /\ fpc = "copy" /\ fileMemory' = fileMemory \cup {fslot}
              /\ filePos' = filePos
            BY <1>0, <1>1, <2>3 DEF WriteToFileBuffer
        <3>2. QED
            BY <1>0, <3>1 DEF FlushedWasConstructed
    <2>4. QED
        BY <2>1, <2>2, <2>3
<1>2. CASE FlushOne \/ FlushEnd \/ Top \/ NextRequest \/ Load \/ Store \/ Notify
    <2>1. UNCHANGED <<filePos, fileMemory>> /\ fpc # "copy"
        BY <1>2 DEF FlushOne, FlushEnd, Top, NextRequest, Load, Store, Notify
    <2>2. QED
        BY <1>0, <2>1 DEF FlushedWasConstructed
<1>3. CASE MainStep
    <2>1. /\ UNCHANGED <<fpc, fslot, fileMemory>>
          /\ filePos' = filePos \/ filePos' = 0
        BY <1>0, <1>3, MainDoes
    <2>2. QED
        BY <1>0, <2>1 DEF FlushedWasConstructed
<1>4. CASE \/ \E w \in Writers : Emplace(w)
           \/ \E t \in Threads : OverflowStep(t)
           \/ UNCHANGED vars
    <2>1. UNCHANGED <<fpc, fslot, filePos, fileMemory>>
        BY <1>0, <1>4, EmplaceDoes, OverflowDoes DEF vars
    <2>2. QED
        BY <1>0, <2>1 DEF FlushedWasConstructed
<1>5. QED
    BY <1>1, <1>2, <1>3, <1>4, NextSplit DEF Flusher, Flush

-----------------------------------------------------------------------------
LEMMA InitInv == Init => Inv
<1> SUFFICES ASSUME Init PROVE Inv
    OBVIOUS
<1>1. Types
    BY DEF Init, Types, Places, Emplacing
<1>2. ScheduledIsQueued /\ StoredBack
    BY DEF Init, ScheduledIsQueued, StoredBack
<1>3. RecordsBehindHeaders
    BY ARBAssumption DEF Init, RecordsBehindHeaders, Threads, Telling
<1>4. FlushedWasConstructed
    BY DEF Init, FlushedWasConstructed
<1>5. QED
    BY <1>1, <1>2, <1>3, <1>4 DEF Inv

LEMMA Invariance == Spec => []Inv
<1>1. Inv /\ [Next]_vars => Inv'
    BY TypesInv, ScheduledInv, RecordsInv, FileBufferInv DEF Inv
<1>2. QED
    BY <1>1, InitInv, PTL DEF Spec

\* A ring marked B_SCHE has a request on its way, however the unprotected
\* updates of its status overlap.
THEOREM NoRequestForgotten == Spec => []ScheduledIsQueued
<1>1. Inv => ScheduledIsQueued
    BY DEF Inv
<1>2. QED
    BY <1>1, Invariance, PTL

\* However swap() overlaps writers and flush, only constructed records are
\* copied to the file buffer.
THEOREM OnlyRecordsFlushed == Spec => []FlushedWasConstructed
<1>1. Inv => FlushedWasConstructed
    BY DEF Inv
<1>2. QED
    BY <1>1, Invariance, PTL
=============================================================================
