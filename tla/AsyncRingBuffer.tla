--------------------------- MODULE AsyncRingBuffer ---------------------------
(***************************************************************************)
(* async-ring-buffer: writers place records in a ring buffer that has two  *)
(* banks, a writer that finds the front bank full swaps the banks and asks *)
(* the flush thread to copy the back bank to the file buffer, and main,    *)
(* once the writers are joined, flushes what is left and stops the flush   *)
(* thread.                                                                 *)
(*                                                                         *)
(* The status word of the ring is changed by writers under its own mutex   *)
(* and by the flush thread under another one, and swap() exchanges the     *)
(* fields of m_buffer and m_swap_buffer under the ring's mutex while a     *)
(* writer in emplace_back holds others and the flush thread none: every    *)
(* access to these fields is a step of its own.                            *)
(***************************************************************************)
EXTENDS Integers, Sequences, FiniteSets

CONSTANTS Writers, Main, NoThread,
          Items,      \* how many records each writer writes
          Cap,        \* records a bank holds (BUF_SIZE / sizeof(payload_t))
          FileCap     \* records the file buffer holds

ASSUME ARBAssumption ==
    /\ IsFiniteSet(Writers)
    /\ Main \notin Writers /\ NoThread \notin Writers \cup {Main}
    /\ Items \in [Writers -> Nat \ {0}] /\ Cap \in Nat \ {0} /\ FileCap \in Nat \ {0}

Threads == Writers \cup {Main}

VARIABLES
    \* the ring buffer
    status,         \* subset of {"SCHE", "SYNC"}
    mtx,            \* who holds RingBuffer::m_mtx
    field,          \* of m_buffer and m_swap_buffer: which array m_header and
                    \* m_data point to, write_pos in records, m_index
    sw,             \* how far swap() is, and the two values it has read
    memory,         \* the places a record was constructed in
    header,         \* element of a header array -> place
    \* writers and main
    pc, item, ptr, num, elem, reg,
    \* the flush thread
    fpc, freg, fi, fptr, fslot,
    queue, taken,   \* requests in m_swap_buffer_list and in the local list
    running, exited,
    \* the manager's lists and the file buffer
    registered, todo, filePos, fileMemory

banks == <<field, sw, memory, header>>
ring == <<status, mtx, banks>>
own == <<item, ptr, num, elem>>
local == <<pc, own, reg>>
turn == <<freg, fi, fptr, fslot>>
flusher == <<fpc, turn, queue, taken, running, exited>>
output == <<registered, todo, filePos, fileMemory>>
vars == <<ring, local, flusher, output>>

Buffers == {"front", "back"}        \* m_buffer and m_swap_buffer
Exchanged == <<"header", "data", "pos", "index">>
Fields == {"header", "data", "pos", "index"}
SwapStart == [field |-> 1, access |-> "mine", mine |-> 0, other |-> 0]

Init ==
    /\ status = {} /\ mtx = NoThread /\ sw = SwapStart
    /\ field = [b \in Buffers |-> [f \in Fields |->
                   IF f \in {"header", "data"} /\ b = "back" THEN 1 ELSE 0]]
    /\ memory = {} /\ header = <<>>
    /\ pc = [t \in Threads |-> IF t = Main THEN "join" ELSE "request"]
    /\ item = [w \in Writers |-> 1]
    /\ ptr = [w \in Writers |-> <<0, 0>>]
    /\ num = [w \in Writers |-> 0]
    /\ elem = [w \in Writers |-> <<0, 0>>]
    /\ reg = [t \in Threads |-> {}]
    /\ fpc = "top" /\ freg = {} /\ fi = 0 /\ fptr = <<0, 0>> /\ fslot = 0
    /\ queue = 0 /\ taken = 0 /\ running = TRUE /\ exited = FALSE
    /\ registered = FALSE /\ todo = <<"ring">>
    /\ filePos = 0 /\ fileMemory = {}

Goto(t, l) == pc' = [pc EXCEPT ![t] = l]

-----------------------------------------------------------------------------
\* RingBuffer::emplace_back, by a writer: a place in m_buffer, the record, an
\* index and the header, each under another mutex or none.

Returned(w) ==
    /\ item' = [item EXCEPT ![w] = @ + 1]
    /\ Goto(w, IF item[w] = Items[w] THEN "end" ELSE "request")

InRequest == {"data", "place", "loadpos", "storepos"}

\* request() under RingBufferBase::m_mtx.  A second failure returns nullptr and
\* the record is dropped.
Request(w) ==
    /\ pc[w] \in {"request", "retry"}
    /\ \A v \in Writers : pc[v] \notin InRequest
    /\ \/ field["front"]["pos"] < Cap /\ Goto(w, "data") /\ UNCHANGED item
       \/ /\ field["front"]["pos"] >= Cap
          /\ \/ pc[w] = "request" /\ Goto(w, "lock") /\ UNCHANGED item
             \/ pc[w] = "retry" /\ Returned(w)
    /\ UNCHANGED <<ring, ptr, num, elem, reg, flusher, output>>

\* char* ptr = m_data + write_pos; write_pos += __size.  A swap in between may
\* leave ptr past the end of the array.
Place(w) ==
    /\ \/ /\ pc[w] = "data" /\ Goto(w, "place")
          /\ num' = [num EXCEPT ![w] = field["front"]["data"]]
          /\ UNCHANGED <<ptr, field>>
       \/ /\ pc[w] = "place" /\ Goto(w, "loadpos")
          /\ ptr' = [ptr EXCEPT ![w] = <<num[w], field["front"]["pos"]>>]
          /\ num' = [num EXCEPT ![w] = 0]
          /\ UNCHANGED field
       \/ /\ pc[w] = "loadpos" /\ Goto(w, "storepos")
          /\ num' = [num EXCEPT ![w] = field["front"]["pos"]]
          /\ UNCHANGED <<ptr, field>>
       \/ /\ pc[w] = "storepos" /\ Goto(w, "construct")
          /\ field' = [field EXCEPT !["front"]["pos"] = num[w] + 1]
          /\ num' = [num EXCEPT ![w] = 0]
          /\ UNCHANGED ptr
    /\ UNCHANGED <<status, mtx, sw, memory, header, item, elem, reg, flusher,
                   output>>

\* Mutant: the header is filled in before the record.
Construct_Later(w) ==
    /\ pc[w] = "construct"
    /\ Goto(w, "index")
    /\ UNCHANGED <<ring, own, reg, flusher, output>>

Construct(w) ==
    /\ pc[w] = "construct"
    /\ memory' = memory \cup {ptr[w]}
    /\ Goto(w, "index")
    /\ UNCHANGED <<status, mtx, field, sw, header, own, reg, flusher, output>>

\* m_index++ under RingBufferHeader::m_mtx.
GetIndex(w) ==
    /\ \/ /\ pc[w] = "index" /\ \A v \in Writers : pc[v] # "storeindex"
          /\ num' = [num EXCEPT ![w] = field["front"]["index"]]
          /\ Goto(w, "storeindex")
          /\ UNCHANGED field
       \/ /\ pc[w] = "storeindex"
          /\ field' = [field EXCEPT !["front"]["index"] = num[w] + 1]
          /\ Goto(w, "element")
          /\ UNCHANGED num
    /\ UNCHANGED <<status, mtx, sw, memory, header, item, ptr, elem, reg,
                   flusher, output>>

\* m_header.at(id) = header, under no mutex.
StoreHeader(w) ==
    /\ \/ /\ pc[w] = "element" /\ Goto(w, "header")
          /\ elem' = [elem EXCEPT ![w] = <<field["front"]["header"], num[w]>>]
          /\ num' = [num EXCEPT ![w] = 0]
          /\ UNCHANGED <<header, item, ptr>>
       \/ /\ pc[w] = "header" /\ Returned(w)
          /\ header' = [e \in DOMAIN header \cup {elem[w]} |->
                           IF e = elem[w] THEN ptr[w] ELSE header[e]]
          /\ elem' = [elem EXCEPT ![w] = <<0, 0>>]
          /\ ptr' = [ptr EXCEPT ![w] = <<0, 0>>]
          /\ UNCHANGED num
    /\ UNCHANGED <<status, mtx, field, sw, memory, reg, flusher, output>>

-----------------------------------------------------------------------------
\* RingBuffer::overflow, by a writer that found the bank full or by main.

Lock(t) ==
    /\ pc[t] = "lock" /\ mtx = NoThread
    /\ mtx' = t
    /\ Goto(t, "check")
    /\ UNCHANGED <<status, banks, own, reg, flusher, output>>

\* The predicate of m_cv.wait; busy, it still holds the mutex.
Check(t) ==
    /\ pc[t] = "check"
    /\ Goto(t, IF status = {} THEN "swap" ELSE "armed")
    /\ UNCHANGED <<ring, own, reg, flusher, output>>

Sleep(t) ==
    /\ pc[t] = "armed"
    /\ mtx' = NoThread
    /\ Goto(t, "asleep")
    /\ UNCHANGED <<status, banks, own, reg, flusher, output>>

WakeSpuriously(t) ==
    /\ pc[t] = "asleep"
    /\ Goto(t, "lock")
    /\ UNCHANGED <<ring, own, reg, flusher, output>>

\* std::swap of one field after the other, each by two loads and two stores.
Swap(t) ==
    /\ pc[t] = "swap"
    /\ LET f == Exchanged[sw.field] IN
       \/ /\ sw.access = "mine"
          /\ sw' = [sw EXCEPT !.access = "other", !.mine = field["front"][f]]
          /\ UNCHANGED <<field, pc>>
       \/ /\ sw.access = "other"
          /\ sw' = [sw EXCEPT !.access = "first", !.other = field["back"][f]]
          /\ UNCHANGED <<field, pc>>
       \/ /\ sw.access = "first"
          /\ field' = [field EXCEPT !["front"][f] = sw.other]
          /\ sw' = [sw EXCEPT !.access = "last", !.other = 0]
          /\ UNCHANGED pc
       \/ /\ sw.access = "last"
          /\ field' = [field EXCEPT !["back"][f] = sw.mine]
          /\ \/ /\ sw.field < Len(Exchanged)
                /\ sw' = [SwapStart EXCEPT !.field = sw.field + 1]
                /\ UNCHANGED pc
             \/ /\ sw.field = Len(Exchanged)
                /\ sw' = SwapStart
                /\ Goto(t, "load")
    /\ UNCHANGED <<status, mtx, memory, header, own, reg, flusher, output>>

\* status |= B_SCHE
LoadStatus(t) ==
    /\ pc[t] = "load"
    /\ reg' = [reg EXCEPT ![t] = status]
    /\ Goto(t, "store")
    /\ UNCHANGED <<ring, own, flusher, output>>

StoreStatus(t) ==
    /\ pc[t] = "store"
    /\ status' = reg[t] \cup {"SCHE"}
    /\ reg' = [reg EXCEPT ![t] = {}]
    /\ Goto(t, "push")
    /\ UNCHANGED <<mtx, banks, own, flusher, output>>

\* The flush thread holds its m_mtx except while it waits or flushes.
FlushMutexFree == fpc \notin {"next", "clear", "clearing", "sync", "syncing",
                              "finishing", "notify"}

\* Mutant: no request while the flush thread is at work anyway.
Push_WhenIdle(t) ==
    /\ pc[t] = "push" /\ FlushMutexFree
    /\ queue' = IF fpc = "top" THEN queue + 1 ELSE queue
    /\ mtx' = NoThread
    /\ Goto(t, IF t = Main THEN "poll" ELSE "retry")
    /\ UNCHANGED <<status, banks, own, reg, fpc, turn, taken, running, exited,
                   output>>

\* request_flush; a writer then leaves overflow, main waits for the status.
Push(t) ==
    /\ pc[t] = "push" /\ FlushMutexFree
    /\ queue' = queue + 1
    /\ mtx' = NoThread
    /\ Goto(t, IF t = Main THEN "poll" ELSE "retry")
    /\ UNCHANGED <<status, banks, own, reg, fpc, turn, taken, running, exited,
                   output>>

-----------------------------------------------------------------------------
\* The flush thread.

\* The wait has a predicate and both notifiers hold the mutex.
Top ==
    /\ fpc = "top"
    /\ queue > 0 \/ ~running
    /\ \/ /\ queue > 0
          /\ taken' = queue /\ queue' = 0 /\ fpc' = "next"
          /\ UNCHANGED exited
       \/ /\ queue = 0
          /\ fpc' = "end" /\ exited' = TRUE
          /\ UNCHANGED <<queue, taken>>
    /\ UNCHANGED <<ring, local, turn, running, output>>

NextRequest ==
    /\ fpc = "next"
    /\ \/ /\ taken > 0
          /\ taken' = taken - 1
          /\ fpc' = IF "SCHE" \in status THEN "clear" ELSE "next"
          /\ UNCHANGED exited
       \/ /\ taken = 0
          /\ fpc' = IF running THEN "top" ELSE "end"
          /\ exited' = ~running
          /\ UNCHANGED taken
    /\ UNCHANGED <<ring, local, turn, queue, running, output>>

\* status &= ~B_SCHE; status |= B_SYNC; and after the flush status &= ~B_SYNC
Load ==
    /\ fpc \in {"clear", "sync", "relock"}
    /\ freg' = status
    /\ fpc' = CASE fpc = "clear" -> "clearing"
                [] fpc = "sync" -> "syncing"
                [] fpc = "relock" -> "finishing"
    /\ UNCHANGED <<ring, local, fi, fptr, fslot, queue, taken, running, exited,
                   output>>

\* Mutant: B_SYNC is not cleared after the flush.
Store_KeepSync ==
    /\ fpc \in {"clearing", "syncing", "finishing"}
    /\ status' = IF fpc = "clearing" THEN freg \ {"SCHE"} ELSE freg \cup {"SYNC"}
    /\ fpc' = CASE fpc = "clearing" -> "sync"
                [] fpc = "syncing" -> "flush"
                [] fpc = "finishing" -> "notify"
    /\ freg' = {} /\ fi' = 0
    /\ UNCHANGED <<mtx, banks, local, fptr, fslot, queue, taken, running,
                   exited, output>>

Store ==
    /\ \/ fpc = "clearing" /\ status' = freg \ {"SCHE"} /\ fpc' = "sync"
       \/ fpc = "syncing" /\ status' = freg \cup {"SYNC"} /\ fpc' = "flush"
       \/ fpc = "finishing" /\ status' = freg \ {"SYNC"} /\ fpc' = "notify"
    /\ freg' = {} /\ fi' = 0
    /\ UNCHANGED <<mtx, banks, local, fptr, fslot, queue, taken, running,
                   exited, output>>

\* RingBufferHeader::flush of m_swap_buffer.  One turn of the loop takes the
\* element of the header array, then the place it points to, if any, and
\* get_file_buffer registers the file buffer the first time.
FlushOne ==
    /\ \/ /\ fpc = "flush"
          /\ fpc' = IF fi < field["back"]["index"] THEN "element" ELSE "reset"
          /\ UNCHANGED <<fi, fptr, registered, todo>>
       \/ /\ fpc = "element" /\ fpc' = "payload"
          /\ fptr' = <<field["back"]["header"], fi>>
          /\ UNCHANGED <<fi, registered, todo>>
       \/ /\ fpc = "payload" /\ fptr \in DOMAIN header
          /\ fpc' = "write" /\ fptr' = header[fptr]
          /\ registered' = TRUE
          /\ todo' = IF registered THEN todo ELSE Append(todo, "file")
          /\ UNCHANGED fi
       \/ /\ fpc = "payload" /\ fptr \notin DOMAIN header
          /\ fpc' = "flush" /\ fi' = fi + 1 /\ fptr' = <<0, 0>>
          /\ UNCHANGED <<registered, todo>>
    /\ UNCHANGED <<ring, local, freg, fslot, queue, taken, running, exited,
                   filePos, fileMemory>>

\* FileBuffer::write: a place under the mutex of the file buffer, after a full
\* buffer has been written to the file, and the copy under no mutex.
WriteToFileBuffer ==
    /\ \/ /\ fpc = "write" /\ filePos < FileCap
          /\ fslot' = filePos /\ filePos' = filePos + 1 /\ fpc' = "copy"
          /\ UNCHANGED <<fi, fptr, fileMemory>>
       \/ /\ fpc = "write" /\ filePos >= FileCap
          /\ filePos' = 0
          /\ UNCHANGED <<fpc, fi, fptr, fslot, fileMemory>>
       \/ /\ fpc = "copy" /\ fpc' = "flush"
          /\ fileMemory' = IF fptr \in memory THEN fileMemory \cup {fslot}
                                           ELSE fileMemory \ {fslot}
          /\ fi' = fi + 1 /\ fptr' = <<0, 0>> /\ fslot' = 0
          /\ UNCHANGED filePos
    /\ UNCHANGED <<ring, local, freg, queue, taken, running, exited,
                   registered, todo>>

FlushEnd ==
    /\ \/ /\ fpc = "reset" /\ fpc' = "reindex"
          /\ field' = [field EXCEPT !["back"]["pos"] = 0]
       \/ /\ fpc = "reindex" /\ fpc' = "relock"
          /\ field' = [field EXCEPT !["back"]["index"] = 0]
    /\ fi' = 0
    /\ UNCHANGED <<status, mtx, sw, memory, header, local, freg, fptr, fslot,
                   queue, taken, running, exited, output>>

\* m_cv.notify_one, without RingBuffer::m_mtx.
Notify ==
    /\ fpc = "notify"
    /\ fpc' = "next"
    /\ \/ \E t \in Threads : pc[t] = "asleep" /\ Goto(t, "lock")
       \/ (\A t \in Threads : pc[t] # "asleep") /\ UNCHANGED pc
    /\ UNCHANGED <<ring, own, reg, turn, queue, taken, running, exited, output>>

-----------------------------------------------------------------------------
\* main: join the writers, overflow every registered buffer (the file buffer
\* comes last, and may be registered meanwhile), stop the flush thread.

Join ==
    /\ pc[Main] = "join" /\ \A w \in Writers : pc[w] = "end"
    /\ Goto(Main, "drain")
    /\ UNCHANGED <<ring, own, reg, flusher, output>>

Drain ==
    /\ pc[Main] = "drain"
    /\ \/ /\ todo # <<>>
          /\ todo' = Tail(todo)
          /\ IF Head(todo) = "ring"
             THEN Goto(Main, "lock") /\ UNCHANGED filePos
             ELSE filePos' = 0 /\ UNCHANGED pc
          /\ UNCHANGED running
       \/ /\ todo = <<>> /\ FlushMutexFree
          /\ running' = FALSE
          /\ Goto(Main, "stop")
          /\ UNCHANGED <<todo, filePos>>
    /\ UNCHANGED <<ring, own, reg, fpc, turn, queue, taken, exited, registered,
                   fileMemory>>

\* wait_status on the status of the ring, then on m_exit.
Poll ==
    /\ pc[Main] = "poll" /\ mtx = NoThread /\ status = {}
    /\ Goto(Main, "drain")
    /\ UNCHANGED <<ring, own, reg, flusher, output>>

Stopped ==
    /\ pc[Main] = "stop" /\ exited
    /\ Goto(Main, "end")
    /\ UNCHANGED <<ring, own, reg, flusher, output>>

-----------------------------------------------------------------------------
Emplace(w) ==
    Request(w) \/ Place(w) \/ Construct(w) \/ GetIndex(w) \/ StoreHeader(w)
Overflow(t) ==
    Check(t) \/ Sleep(t) \/ Swap(t) \/ LoadStatus(t) \/ StoreStatus(t)
Flush == FlushOne \/ WriteToFileBuffer \/ FlushEnd
Flusher == Top \/ NextRequest \/ Load \/ Store \/ Flush \/ Notify
MainStep == Join \/ Drain \/ Poll \/ Stopped

Next ==
    \/ \E w \in Writers : Emplace(w)
    \/ \E t \in Threads : Overflow(t) \/ Lock(t) \/ Push(t) \/ WakeSpuriously(t)
    \/ Flusher
    \/ MainStep

Spec == Init /\ [][Next]_vars

\* The flush thread and main run; the writers need not.
FairSpec == Spec /\ WF_vars(Flusher) /\ WF_vars(MainStep)

-----------------------------------------------------------------------------
\* A ring marked B_SCHE has a request on its way: in the list, in the flush
\* thread's local list, being served, or about to be pushed.
ScheduledIsQueued ==
    "SCHE" \in status =>
        \/ queue + taken > 0
        \/ fpc \in {"clear", "clearing"}
        \/ \E t \in Threads : pc[t] = "push"

\* However an exchange overlaps writers and flush, the flush thread copies only
\* places a record was constructed in: of the file buffer up to its write_pos
\* only the place it is about to fill may hold no record.
FlushedWasConstructed ==
    \A s \in 0 .. filePos - 1 :
        \/ fpc = "copy" /\ s = fslot
        \/ s \in fileMemory

\* Once main has asked for its flush (or stopped the flush thread), its wait
\* for the status (or for m_exit) ends.  Whether overflow(1) gets that far is
\* not said: it may sleep in m_cv.wait and miss the notify.
PollsEnd == pc[Main] \in {"poll", "stop"} ~> pc[Main] \in {"drain", "end"}
=============================================================================
