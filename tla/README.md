# Verification of linux-cpp

`linux-cpp` is a collection of independent programs about threads, locks, queues and
kernel-like data structures; they share no code, so each one that has logic of its
own is a component with modules of its own here.  This directory holds the TLA+
modules, the TLC configurations that check them on small instances, and the proofs
that TLAPS checks for every value of the constants.  `PROJECT.json` maps each
definition to the lines it stands for and lists the hazards the properties are
aimed at.

## Inventory

| component | source | state it keeps | operations | what is hard about it |
|---|---|---|---|---|
| blocking queue | `block_queue/block_queue.h` | `_data`, one mutex, two condition variables | put, get | wakeups that reach the wrong thread or nobody |
| thread team | `async-thread-manager/async.h` | one status for the round, an entry with status, ready and exited flags per thread | SetUp, Start, Wait, Exit, Reset, the worker loop | a state that is read under one acquisition of the mutex and used under the next |
| thread pool | `thread_pool/thread_pool.h` | bounded task queue, stop flag, threads | producer, workers, start, stop | the flag is changed and notified without the mutex |
| task work pool | `task_work_pool/test.cpp` | list of idle workers whose nodes live on their stacks, a job per worker | worker, operation, growth and shrinking | a wait without predicate, a notify without mutex, an unlocked counter |
| start/stop barrier | `barrier/__barrier.h`, `barrier/test.cpp` | count of waiting children, two pthread barriers | wait_start, wait_stop, start, stop | rounds must not overlap although waits have no predicate |
| multi-process lock | `multi_process_lock/multi_process_lock.h` | a named semaphore | constructor, destructor | unlinking while others wait; processes that die |
| watch dog | `watch-dog/invoker.h` | running flag, time stamps, counters | worker, toucher, watcher | unlocked flag, predicate-less wait, an uninitialised stamp |
| asynchronous ring buffer | `async-ring-buffer/` | two banks per ring, a status word, request list, file buffer | emplace_back, overflow, swap, the flush thread, drain and stop | one word changed under two mutexes, banks exchanged field by field between the steps of a write |
| slab cache | `cache/cache.h` | slabs on three lists, free chains, an array of objects, counters | kmem_alloc, kmem_free, grow, shrink, destruction | when to destroy a slab, after a long sequence of calls |
| concurrent object list | `list-obj-concurrent/test.cpp` | a list of reference-counted objects, a mutex for the list and one per object | read, write, delete, walk, walk of a snapshot | the walk lets go of the list; the deleter puts a reference it never took |
| locked ring buffer | `ringbuf/ringbuf.h`, `ringbuf/spin_lock.h`, `ringbuf/test.cpp` | bytes, two pointers, a size | read, write | items that wrap, a size tested without the lock |
| timer wheel | `timer-wheel/test.cpp` | slots of three wheels, the tick | add_timer, cascade, the loop that calls | distances and expiries, turns of a wheel |
| page table map | `page-table-map/test.cpp` | three levels of tables | remap_range | ranges that straddle tables |
| block allocation | `filesystem-block-manager/test.cpp` | bitmaps, inode pointers, pointer blocks, page buffers and their flags | find_next_bit, get_block, get_blocks, read_block, write_block, write_inode | word-wise search, several allocations in one append, partial blocks read back or not |
| directory entries | `dynamic-entry-length/test.cpp` | pages of entries of different lengths | write_inode, find_entry | holes at the ends of pages |
| dentry travel | `dentry-travel/test.cpp` | a tree of directories | stats_dentry, remove_dentry | walks without a stack, over what is being freed |

Components do not call one another.  What interacts is inside each: threads through
mutexes and condition variables, processes through a named semaphore, threads through
atomics, loops through the pointers they leave behind.

### Not modelled

- *Thread synchronisation demo*: five threads and main hand rounds to each other by waits
  without predicates and notifies without the mutex.  A lost notify stops the program for
  good and nothing in it says otherwise, so there is no promise to check.
- *Virtual memory areas*: nothing is ever freed, so each area follows the last one and
  disjointness holds by construction.  (`kernel-vma-map/test.cpp` does not compile.)
- *Singleton*, *memory order demo*: what can go wrong is a question of the memory model,
  which interleavings of atomic steps do not answer.
- *Lists, trees, mvector, algorithms, JSON values*: sequential templates without
  shared state, left for last (see the plan).
- Vendored JSON libraries and option parsers, generated wrappers, `linux_kernel_api`
  (samples that call one function of the Linux kernel each), build material and
  demonstrations of single language features: third-party code, or no state to follow.
  They are most of the repository's lines.  `PROJECT.json` lists every component with its
  reason.

## Modules

| module | models | abstract specification | proofs |
|---|---|---|---|
| `BlockQueue` | the monitor: one action per stretch of code under `_mtx` | `BoundedFifo` | `BlockQueueProofs` |
| `ParallelWork` | worker loop and client calls, split where `_M_mtx` is released | `ForkJoin` | `ParallelWorkProofs` |
| `ThreadPool` | producer, workers, owner; the predicate of a wait and its sleep are two actions | | `ThreadPoolProofs` |
| `TaskWorkPool` | workers and `operation()`; every read and every write of `nr_threads` is an action | | `TaskWorkPoolProofs` |
| `SyncBarrier` | children and owner around two pthread barriers | | `SyncProofs` |
| `MultiLock` | processes, the name, and every semaphore it ever stood for | | `SyncProofs` |
| `WatchDog` | three threads, the ages of the time stamps and of the clock readings that threads still hold | | `SyncProofs` |
| `AsyncRingBuffer` (`MCAsyncRingBuffer`) | writers, main, the flush thread; each access to `status` and to the fields that `swap()` exchanges is an action | | `AsyncRingBufferProofs` |
| `KmemCache` | the cache as a sequential object, driven by any sequence of calls | `ObjectPool` | `KernelProofs` |
| `ObjList` | readers, writers, the walker and the deleter; one action per stretch of code under `list_mutex` | | `KernelProofs` |
| `RingBuf` | writer and reader; a write that wraps and the test before the lock are steps of their own | | `KernelProofs` |
| `TimerWheel` | timers in slots; a tick with its cascades is one action | | `KernelProofs` |
| `PageTable` | a call of remap_range with its three loops is one action | | `KernelProofs` |
| `DirEntries` | writes of entries; the search is an operator | | `FileSystemProofs` |
| `DentryWalk` | one action per turn of a loop | | `FileSystemProofs` |
| `FileBlocks` | appends to several inodes, one action per page; the tree, the bitmaps, the page buffers and the disk | | `FileSystemProofs` |

How state corresponds to the code: the comments at VARIABLES name the field behind
every variable, and a `pc` names the point of the code where a thread can be seen by
others.  A thread that holds a mutex over a whole stretch is one action, if whatever the
stretch accesses is accessed under that mutex only; where it is not (`nr_threads`, the
watcher's round, `swap()`, the status of a ring) each access is one, and the value it
read is in a variable until it is used.  Where the
code notifies **without** the mutex of the wait (thread pool, watch dog, ring buffer,
task work pool) the test of the predicate and the sleep are separate states, so the
notify can fall between them.  A waiting thread may wake without a notify wherever
the wait has no predicate, or re-tests one that others change.  `pthread_barrier_wait`
and process death are modelled from their use and marked external.

`MCKernel` and `MCFileSystem` put structures that have no variable in common into one
run: `part` says which of them moves, the others rest in their initial state.

Data is abstracted: values, tasks, records and jobs are model values or numbers, a
time is an age, a byte is a unit named by its inode and position, lists are sequences.

Abstract specifications: `BoundedFifo` (atomic Put and Get on a bounded sequence),
`ForkJoin` (rounds that call each worker with a function once and do not overlap), `ObjectPool`
(objects in use are distinct and backed by memory).  The detailed modules instantiate
them (`FifoSpec`, `ForkJoinSpec`, `PoolSpec`) and the runs check the refinement.

Operators named `Definition_Suffix` are mutants: plausible bugs put in the place of a
definition, to see that the property they are listed with notices.

## Runs

| run | instance | shows |
|---|---|---|
| `block_queue` | 2 producers, 2 consumers, 2 values, capacity 2 | no sleeper that could proceed (`NoLostWakeup`), atomic FIFO behaviour (`FifoSpec`), the queue never stays full or empty for good (`KeepsMoving`) |
| `parallel_work` | 3 threads, with a function or without, 1 client | a round reported over is over, resets find no thread, Start finds everyone ready, refinement of `ForkJoin`, operations return except for a round with an entry that has no function |
| `thread_pool` | 2 workers, queue of 1, 4 tasks, 2 start/stop cycles | tasks run once or are the one dropped per stop (`TasksSettled`), no lost wakeup while up, stored tasks are run |
| `thread_pool_stop` | the same | **violated**: `stop()` may never return |
| `task_work_pool` | 3 threads of which 2 start, 3 jobs | nodes on the list belong to waiting workers (`ListSound`), a job that found a worker is run at most once and not overwritten (`TakenJobKept`), the unlocked counter never wraps although each test of it is a read of its own (`CountNeverWraps`) |
| `sync_barrier` | 3 children | start() counts its own round, rounds do not overlap |
| `multi_lock` | 3 processes, 2 locks each, crashes | at most one process per semaphore; without crashes a waiter gets in |
| `multi_lock_three` | 3 processes, 1 lock each | **violated**: two processes inside at once |
| `watch_dog` | timeout 2, toucher silent after 2 touches | silence stops the program, the threads end, a stamped worker is reported hung only for a silence that exceeds the timeout together with the watcher's own delay |
| `async_ring_buffer` | 2 writers, 3 records, banks of 1, file buffer of 1 | a marked ring has a request on its way, nothing unconstructed is copied to the file buffer, main's polls end (`PollsEnd`) |
| `kernel_structures` | `slabs`: 3 slabs of 3 objects, array of 2 | every object in one place (`OnePlaceEach`), lists and counters agree (`SlabsAccounted`), refinement of `ObjectPool` (`PoolSpec`) |
| | `pages`: 8 pages in tables of 2, 2 calls | exactly the range is mapped (`RemapsExactly`) |
| | `timers`: 2 timers, wheels of 4, 2 and 2 slots, expiries past the last wheel | every timer is called once and at its tick (`FiresOnTime`) |
| | `list`: 3 objects, 2 readers, the walker, up to 2 deletions each | only an object deleted twice is freed in use, a walk reads all that is left, readers and walker return |
| | `ring`: 12 items of 3 bytes in 7 | items are read whole and in order (`ReadsInOrder`) |
| `file_system` | `blocks`: 2 inodes, 3 groups of 9 blocks (words of 3 bits), pages of 2 blocks of 2 units, appends of up to 5 units, both values of the undefined shift | no block has two owners and the bitmaps are exact, appended data stays on disk, the word-wise search is the first clear bit of those it sees |
| | `entries`: 3 names of lengths 3, 4 and 6, 3 pages of 10 bytes | a name is found where it was first written (`FoundWhereWritten`) |
| | `tree`: every tree of 6 directories | the walk is the recursive one (`WalksPreorder`); children are freed before parents, each once (`FreesChildrenFirst`) |

**Bounds.**  They are chosen so that the interesting case happens and its neighbours do
too.  Two threads per side of a queue are needed for a notify to reach the wrong one;
three workers for one that is ahead, one that is behind and one that leaves; two
start/stop cycles for leftovers of the first to meet the second; three processes for a
holder, a waiter on an unlinked semaphore and a newcomer; banks of one record make every
second write overflow; a group of 9 blocks in words of 3 bits ends with a word, as the
source's 256 in words of 64 do, and 7 blocks per inode reach both entries of the index
block.  A ring of 7 bytes and items of 3 wrap at every place inside an item.  Two
deletions of an object are what it takes to free it in use, one is what the property says
does not.  Timers expire at every tick of two turns of the last wheel; the module was also
checked once with the source's wheels of 8, 8 and 4 slots and one timer.  Two tables of
two entries on each level have ranges that start, end and straddle everywhere; an empty
range is not an input (the loops are do-while).  `NrEntries` of 6 gives trees with
brothers on three levels.  `MaxTasks`, `MaxJobs`, `MaxLocks`, `MaxStarts`, `Items`,
`Slots`, `Slabs` and `MaxLen` bound what clients do or how many objects exist, not the
code; ages of times saturate just beyond the timeout, where the code no longer tells them
apart.

**Deadlock** is checked except where the modelled program really stops: the pool after
its last stop, the job list when main has no more jobs, the processes that are done
with their locks, the stopped watch dog and ring buffer, the full disk and pages, the
walks that are over, and an object list in which freed memory would be used next.

**Fairness.**  Threads that can run do run (WF), and a mutex that is released again and
again is eventually given to a thread that keeps asking (SF); both are what the
scheduler and the mutexes of the platform provide.  Nothing is assumed of what the code
does not force: a sleeper is never assumed to wake without a notify, a client is not
assumed to call anything that its test does not call in a loop (the blocking queue's
producers and consumers do).  In the watch
dog, seconds pass and the watcher's poke is strongly fair, since it needs the mutex that
the toucher releases in each wait.  In the ring buffer only the flush thread and main
have to run: the writers may stop anywhere.  The multi-process lock assumes that a process goes
on with its constructor and destructor and that `sem_wait` is not starved.  In the object
list the mutexes of list and objects are given to whoever keeps asking (SF on the actions
that lock an object); nothing is assumed of the deleter.

## Proofs

| theorem | module | for every |
|---|---|---|
| `TypeCorrect`, `NoWakeupIsLost`, `ImplementsFifo` | `BlockQueueProofs` | set of producers, consumers and values, capacity |
| `TypeCorrect`, `RoundComplete`, `NoWakeupIsLost`, `SafeReset`, `StartFindsAllReady`, `ImplementsForkJoin` | `ParallelWorkProofs` | set of threads, with one client (`OneClient`), with functions or without |
| `PoolInvariant`, `NoWakeupIsLost`, `TasksAreSettled` | `ThreadPoolProofs` | set of workers, queue size, number of tasks and of starts |
| `CountSafe`, `ListStaysSound`, `NoJobIsLost` | `TaskWorkPoolProofs` | number of threads and of jobs, limits of the pool |
| `BarrierTypes`, `CountsOwnRound`, `RoundsDoNotOverlap` | `SyncProofs` | finite set of children |
| `LockTypes`, `SemaphoreExcludes` | `SyncProofs` | set of processes, number of locks, with or without crashes |
| `DogInvariant`, `HungOnlyWhenSilent` | `SyncProofs` | timeout and touch limit, delays between reading the clock and using it |
| `NoRequestForgotten`, `OnlyRecordsFlushed` | `AsyncRingBufferProofs` | set of writers, number of records, sizes of the banks and of the file buffer |
| `ObjectsAreInOnePlace`, `ListsAndCountersAgree`, `CacheIsPool` | `KernelProofs` | number of slabs, objects of a slab, size of the array |
| `CountsAreReferences`, `FreedInUse`, `WalkIsComplete` | `KernelProofs` | number of objects, of readers, of calls and of deletions |
| `InOrder` | `KernelProofs` | capacity, item size and number of items |
| `TimersFireOnTime` | `KernelProofs` | set of timers, sizes of the three wheels, expiries |
| `RemapIsExactly` | `KernelProofs` | sizes of the three tables and of a page, ranges and addresses |
| `SearchFindsFirst`, `BlocksAreAccounted`, `FilesAreOnDisk` | `FileSystemProofs` | set of inodes, sizes of words, groups, blocks, pages and of the tree, lengths of appends, values of the undefined shift and of new buffers' flags |
| `NamesAreFound` | `FileSystemProofs` | set of names, their lengths, size and number of pages |
| `WalkIsPreorder`, `TreeIsFreed` | `FileSystemProofs` | tree of directories |

Each proof goes by an inductive invariant `Inv`: it holds initially, every action keeps
it (one lemma per action or group of like actions), and it implies the property.

- *Blocking queue.*  The properties are nearly inductive; `Pending` adds that a producer
  inside put() holds a value to store.  The refinement maps a step that stores or takes
  to Put or Get, all others to stuttering.
- *Thread team.*  `ThreadInv` says where a thread can be in each value of `_M_status`,
  `ClientInv` what `_M_status` can be at each point of the client.  The crucial part is
  that a ready flag outside a round means that its thread sleeps in `_M_start_cv`.
  With two clients that no longer holds: one may Start between the other's WaitReady
  and its own Start.  `OneClient` is therefore an assumption of the theorems; it is how
  the source's own test uses the class.
- *Multi-process lock.*  `UnitTaken`: the semaphore of a process inside has value 0.
  Without it, a post could raise a value to 2.
- *Barrier.*  A barrier lets everybody go in one step, so all threads are before
  `barrier_stop` (`EarlyInv`, where `nwait` is the number of counted children) or all
  are between the barriers (`LateInv`, where the owner's reset of `nwait` is not
  disturbed by an arrival).

- *Thread pool.*  `PoolInv` says where every task is: `TasksAccounted` puts each task made
  into the queue, into one thread's hand, among those run or among those dropped, and
  into one of the first three at most; `HeldWhere` and `PhasesAgree` tie that to where
  threads and owner are.  A drop is counted before it happens: `DropsBounded` adds one to
  the dropped tasks as long as the producer of this round may drop another, which is what
  makes "one per start" inductive.
- *Watch dog.*  `StampNotOlder`: the stamp is no older than the last round that was
  noticed, unless a newer one waits to be noticed, but for `lag`, the age that the time
  stored there had when it was stored.  `GapNotWider`: what the watcher compares was the
  stamp's age when it read the clock, and the stamp has only got older since.
- *Object list.*  `CountIsReferences` is an equation between a counter and the number of
  threads that refer to an object; `HoldersCount` says how that number changes when one
  thread changes what it refers to.  The theorem on freed objects follows: a reference to
  an object of count 0 leaves two deletions as the only way.  The walk needs
  `WalkedSoFar`, that all before the object it stands on was read.  That a set of ids
  that is not empty has a greatest element (`GreatestIn`) comes from the well-foundedness
  of the strict subset order.
- *Ring buffer.*  `StoredInOrder` is the content of the ring as a stretch of the stream of
  bytes, `SizeCounts` and `PointersAgree` what the fields say of it in the middle of a
  write, and `TestHolds` that what the reader saw without the lock remains true.

- *Task work pool.*  `ListSound` is inductive only together with who owns a job
  (`JobsOwned`: a busy worker has one job that was not run, and no two have the same).
  The counter is safe because of `LeaversCounted`: a worker that has found the count above
  the minimum keeps `list_mutex` alone until it is gone.  The count it has tested is not
  0, and whatever a thread that counts itself stores after that, an old value or not, is
  one more than a number; so it is not 0 when the leaver reads it again and stores that
  less one.
- *Asynchronous ring buffer.*  A store of the status may write back what it loaded long
  before, so the invariant speaks of the registers: `StoredBack` says that a `B_SCHE` in
  the flush thread's register comes with a request.  For what is flushed,
  `RecordsBehindHeaders` says that a header is set only for a place where a record was
  constructed, and that the flush thread takes its places from headers.  Neither depends
  on which place, index or array an overlapped exchange gives a writer.
- *Slab cache.*  `CacheInv(c, out)` is a predicate of a cache and of the objects its
  client has, so that the operators that `kmem_alloc`, `kmem_free` and the destruction
  compose can be followed one by one: each object of a live slab is in its slab's chain,
  in the array or out (`SlabOK`), a slab is on the list its use says (`ListsOK`), and
  `nfree` is the number of objects in chains (`CountOK`).  The refinement of `ObjectPool`
  reads off what each step changes.
- *Timer wheel.*  `Hangs`: a timer hangs where it is called or spread before it is due.
  On the first wheel that is its own tick, less than a turn away (`OnFirst`); on the
  others its slot is spread at a tick that is not yet over and not after its expiry
  (`OnSecond`, `OnThird`).
- *Page table.*  A call writes, on each level, the straight map of its part of the range
  (`Straight`): the parts of a table's loop cover the range without a gap, and each part
  starts at the physical address that lies as far into the range (`StraightJoined`).
- *Block allocation.*  `FsInv(f)` is a predicate of the file system in the middle of
  get_blocks: every pointer that is set refers to a block of its own (`OneReference`),
  the bitmaps are the targets of the pointers and the reserved blocks
  (`BitsAreTargets`), only index blocks hold pointers (`OnlyIndexPoints`), and buffers
  are mapped as the tree says (`MappedAsTree`).  Taking a block and storing it in an
  empty pointer keeps it (`Filled`); pointers that are set stay (`Grows`), and a failure
  is remembered.  The invariant `BlocksInv` adds that a file's blocks are mapped and hold
  its units (`FileMapped`, `OnDisk`), that what is left to write is part of the file
  (`RestFits`), and `PagesHold`: a page with units of the file holds them too, and the
  buffers they lie in are up to date.  Without it a block that is kept in its page and
  written back, or read over what the page holds, might lose units (`PageCovers`).
- *Directory entries.*  `Sound`: entries do not reach over the end of a page
  (`WithinPage`), each starts where another ends or at the start of a page (`NoHoles`),
  and a name's first place is kept.  A search then walks from entry to entry until it is
  there (`WalkFindsName`, `WalkFindsFirst`).
- *Dentry travel.*  For the removal `TreeInv`: an entry is linked below its parent until
  it is freed, and what is freed has nothing linked below it.  For the walk `ShowInv`:
  what was shown, followed by what the recursive walk shows from the entry the loop stands
  on, followed by what is left of the ancestors (`Remains`), is the whole.

The theorems rest on the ASSUMEs of the modules only (sizes are natural numbers, the one
special thread is none of the others, sets of threads are finite), and those on
`ParallelWork` on `OneClient`.

The library's induction theorems take an operator as a parameter and cannot be used.
Induction over numbers is done by sets instead: `LeastOne`, that a set of numbers that is
not empty has a least one, and `UpTo`, that a set which holds 0 and with each number
below n the next one holds n, follow from theorems on well-founded relations.  From
them comes what loops and recursive functions compute: that the function of a recursive
definition exists (`Recursion`) and lists what it should (`WalkIs`, `WalksExist`,
`AfterExists`).  For that purpose the modules write recursion as recursive functions,
and loops whose result a theorem needs without folds over an operator.

Only model-checked: the liveness properties (`KeepsMoving`, `OperationsReturn`,
`StoredTasksRun`, `WaitersEnter`, `SilenceIsNoticed`, `ThreadsEnd`, `PollsEnd`,
`ReadersReturn`), since fairness and ENABLED are out of the provers' reach.  Every
invariant, action property and refinement that a run checks is a theorem.

## What the code does against its own words

- `thread_pool_stop`: `_M_stop` clears the flag and notifies without `_M_mutex`; a thread
  that has just found its predicate false misses the notify and is joined for ever.
- `multi_lock_three`: the destructor unlinks the name under the waiters, so a newcomer
  creates a second semaphore and enters beside the next waiter.

Behaviour of the same kind that the models contain and that no property denies.  The
properties are stated so that they hold in its presence, and the hazards say where:

- task work pool: `operation()` may notify before the worker waits, and the job then
  stays with a sleeping worker; several workers may each start a thread at the limit;
  `nr_threads++` (line 128) is made without `list_mutex`, so a count may be lost, and an
  old count stored between the tests of lines 157 and 163 and the decrement of line 169;
- object list: `func_delete` puts a reference it never took, so two deletions of one object
  free it under a reader; the model ends there, and where a deletion or a walk would read
  the freed node's `next` or `id`, it reads what the allocator left of them;
- start/stop barrier: a child counts itself before it waits, so start() may notify too
  early and the round never starts;
- thread team: Start accepts an entry without a function (`async.h:161` calls nothing and
  leaves it running), and then nobody ends the round: Wait never returns, and neither does
  Start or Exit after it.  `OperationsReturn` excepts the rounds that have such an entry;
- watch dog: a toucher caught between its test and its wait misses the last notify; the
  first age of the worker is measured from an uninitialised stamp, so `HungIsReal` is
  stated for a worker that has been stamped; and a watcher that is held up between
  reading the clock (`invoker.h:73`) and storing what it read (line 92) stamps the worker
  with an old time and may later find a live one hung, so `HungIsReal` adds that delay
  (`lag`) to the worker's silence;
- asynchronous ring buffer: the flush thread clears `B_SYNC` and notifies without the
  mutex of the wait, so a writer can sleep until another asks for a flush, and main can
  miss the notify of `overflow(1)` (`ring-buffer.cpp:110`) and sleep for good: `PollsEnd`
  speaks of main's polls only.  `swap()` holds a mutex that writers and flush thread do
  not: a stale status or an exchange in the middle of a write or a flush gives records
  that are written twice or dropped, and places past the end of an array.  When main goes
  on between the two stores that end a flush (`ring-buffer-flush.cpp:28` and 29), the file
  buffer is handed on while a place in it is being filled.  What holds is that of
  the file buffer's records only the one that is being filled may be unconstructed;
- block allocation: when a group's blocks fill whole words, `find_next_bit` shifts by the
  width of the word (line 396), which is undefined.  Both outcomes are modelled
  (`fs.shifted`, `MaskIsZero`): 0, which makes the mask whole, and 1, as an unoptimised x86-64 program computes, which
  hides the last word: of the source's 256 bits, 192 to 255 are never found.  No property
  denies the second; `SearchIsFirstClear` speaks of the bits that the search sees.

Abstractions worth knowing.  *Ring buffer:* of a record only whether one was constructed
at its place is kept, so what a reader gets that copies a record while it is overwritten
is not modelled; `at()` on an array whose `vector` is half exchanged is taken to find its
place in the array that the first pointer names; and the manager's loop that removes the
element it stands on (`ring-buffer-manager.cpp:12-17`) is taken to leave the file buffer
last.  *Block allocation:* the model ends when a disk is full, where the code would use -1
as a block number.  *Thread team:* the client calls SetUp between rounds only.
*Multi-process lock:* a `sem_wait` that a signal interrupts, which the constructor would
take for the lock, is left out.  *Dentry travel:* the directory that is removed is not
empty; for an empty one `remove_dentry` frees the directory itself.

## Plan

Done, in this order: the waits and notifies (blocking queue, thread team, thread pool,
barrier), the pools and locks (task work pool, multi-process lock, watch dog), the ring
buffers and the slab cache, then the object list and the sequential structures.

What is left:

1. *Proofs.*  The refinement of `ForkJoin` and the thread team's other theorems for two
   clients that take turns, in place of `OneClient`; what `RecordsBehindHeaders` says of
   the records that are written twice or dropped, as an abstract specification of the
   asynchronous ring buffer.
2. *Models.*  The sequential templates (`list/`, `mvector/`, `stl_algo/`) against sequences,
   over bounded inputs.
