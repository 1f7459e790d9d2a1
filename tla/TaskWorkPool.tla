---------------------------- MODULE TaskWorkPool ----------------------------
(***************************************************************************)
(* task_work_pool/test.cpp: idle workers put the list node of their        *)
(* work_struct on work_list and sleep; operation() takes the first one off *)
(* the list, gives it a job and notifies it.                               *)
(*                                                                         *)
(* A worker releases list_mutex before it sleeps (pc "added") and          *)
(* operation() does not take work.mtx, so the notify may come before the   *)
(* sleep.  Waking up without a notify is possible at any time; the code    *)
(* tells the two apart by whether its node is still on the list.           *)
(* Elapsed times are left open: a worker may or may not have slept for     *)
(* more than 5 seconds, and from some moment on (late) the program is more *)
(* than 10 seconds old.                                                    *)
(***************************************************************************)
EXTENDS Naturals, Sequences, SequencesExt, FiniteSets

CONSTANTS Slots,        \* threads that may ever be started (a bound)
          Started,      \* those that main starts
          MinThreads, MaxThreads,
          MaxJobs       \* bound: jobs main hands out

ASSUME TWPAssumption == /\ Started \subseteq Slots
                        /\ {MinThreads, MaxThreads, MaxJobs} \subseteq Nat

VARIABLES workList,  \* work_list: the owners of the nodes, first to last
          func,      \* work.func of each worker: a job, or 0 for nullptr
          pc,        \* where each worker is
          nr,        \* nr_threads
          reg,       \* what a worker has read of nr_threads to change it
          late,      \* more than 10 seconds since last_empty_time
          given,     \* jobs handed to operation() so far
          taken,     \* those that a worker was found for
          ran        \* how often each job was run

vars == <<workList, func, pc, nr, reg, late, given, taken, ran>>

Jobs == 1 .. MaxJobs
Listed(w) == w \in ToSet(workList)

Init ==
    /\ workList = << >>
    /\ func = [w \in Slots |-> 0]
    /\ pc = [w \in Slots |-> IF w \in Started THEN "born" ELSE "unborn"]
    /\ nr = 0
    /\ reg = [w \in Slots |-> 0]
    /\ late = FALSE
    /\ given = 0
    /\ taken = {}
    /\ ran = [j \in Jobs |-> 0]

\* list_mutex is held across actions by a worker between its tests after a job
\* and its end, or its next turn.
ListFree == \A w \in Slots : pc[w] \notin {"testing", "leaving", "discounting"}

\* list_move of w's node to the head of work_list.
Moved(w) == <<w>> \o RemoveFirst(workList, w)

-----------------------------------------------------------------------------
(* work_thread_func. *)

\* nr_threads++ is a read and a write that no mutex makes one.
LoadNr(w) ==
    /\ pc[w] = "born"
    /\ reg' = [reg EXCEPT ![w] = nr]
    /\ pc' = [pc EXCEPT ![w] = "counting"]
    /\ UNCHANGED <<workList, func, nr, late, given, taken, ran>>

StoreNr(w) ==
    /\ pc[w] = "counting"
    /\ nr' = reg[w] + 1
    /\ pc' = [pc EXCEPT ![w] = "enter"]
    /\ UNCHANGED <<workList, func, reg, late, given, taken, ran>>

\* The first pass through the top of the loop.
Enlist(w) ==
    /\ pc[w] = "enter" /\ ListFree
    /\ workList' = Moved(w)
    /\ pc' = [pc EXCEPT ![w] = "added"]
    /\ UNCHANGED <<func, nr, reg, late, given, taken, ran>>

Sleep(w) ==
    /\ pc[w] = "added"
    /\ pc' = [pc EXCEPT ![w] = "asleep"]
    /\ UNCHANGED <<workList, func, nr, reg, late, given, taken, ran>>

\* Mutant: any wakeup is taken for a job.
Woken_NoListTest(w) ==
    /\ pc[w] \in {"asleep", "awake"} /\ ListFree
    /\ pc' = [pc EXCEPT ![w] = "run"]
    /\ UNCHANGED <<workList, func, nr, reg, late, given, taken, ran>>

\* Awake: with its node still listed it goes back to the top of the loop.
Woken(w) ==
    /\ pc[w] \in {"asleep", "awake"} /\ ListFree
    /\ \/ /\ Listed(w)
          /\ func' = [func EXCEPT ![w] = 0]
          /\ workList' = Moved(w)
          /\ pc' = [pc EXCEPT ![w] = "added"]
       \/ /\ ~Listed(w)
          /\ pc' = [pc EXCEPT ![w] = "run"]
          /\ UNCHANGED <<workList, func>>
    /\ UNCHANGED <<nr, reg, late, given, taken, ran>>

RunJob(w) ==
    /\ pc[w] = "run"
    /\ ran' = IF func[w] = 0 THEN ran ELSE [ran EXCEPT ![func[w]] = @ + 1]
    /\ pc' = [pc EXCEPT ![w] = "after"]
    /\ UNCHANGED <<workList, func, nr, reg, late, given, taken>>

MaySpawn == workList = << >> /\ late /\ nr < MaxThreads

\* Mutant: the minimum number of threads is not kept.
MayLeave_Always(long) == long
MayLeave(long) == long /\ nr > MinThreads

\* After the job: perhaps start a thread.  This read of nr_threads, that of
\* MayLeave and that of nr_threads-- are three: all are made under list_mutex,
\* but a thread that counts itself stores between them without it.
AfterJob(w) ==
    /\ pc[w] = "after" /\ ListFree
    /\ \E born \in SUBSET Slots :
          /\ IF MaySpawn THEN \E u \in Slots : pc[u] = "unborn" /\ born = {u}
                         ELSE born = {}
          /\ pc' = [u \in Slots |-> IF u \in born THEN "born"
                                    ELSE IF u = w THEN "testing" ELSE pc[u]]
    /\ UNCHANGED <<workList, func, nr, reg, late, given, taken, ran>>

\* Leave the loop, or go round again.
LeaveOrStay(w) ==
    /\ pc[w] = "testing"
    /\ \E long \in BOOLEAN :
          \/ /\ MayLeave(long)
             /\ pc' = [pc EXCEPT ![w] = "leaving"]
             /\ UNCHANGED workList
          \/ /\ ~MayLeave(long)
             /\ pc' = [pc EXCEPT ![w] = "added"]
             /\ workList' = Moved(w)
    /\ UNCHANGED <<func, nr, reg, late, given, taken, ran>>

\* The read and the write of nr_threads--, and the end of the thread.
LoadLeaver(w) ==
    /\ pc[w] = "leaving"
    /\ reg' = [reg EXCEPT ![w] = nr]
    /\ pc' = [pc EXCEPT ![w] = "discounting"]
    /\ UNCHANGED <<workList, func, nr, late, given, taken, ran>>

StoreLeaver(w) ==
    /\ pc[w] = "discounting"
    /\ nr' = reg[w] - 1
    /\ pc' = [pc EXCEPT ![w] = "dead"]
    /\ UNCHANGED <<workList, func, reg, late, given, taken, ran>>

-----------------------------------------------------------------------------
(* operation(), called by main. *)

\* The first worker on the list is taken off it and gets the job.
GiveJob ==
    /\ given < MaxJobs /\ ListFree /\ workList # << >>
    /\ given' = given + 1
    /\ taken' = taken \cup {given'}
    /\ workList' = Tail(workList)
    /\ func' = [func EXCEPT ![Head(workList)] = given']
    /\ pc' = [pc EXCEPT ![Head(workList)] = IF @ = "asleep" THEN "awake" ELSE @]
    /\ UNCHANGED <<nr, reg, late, ran>>

\* With nobody on the list the job is refused (and no thread is started).
RefuseJob ==
    /\ given < MaxJobs /\ ListFree /\ workList = << >>
    /\ given' = given + 1
    /\ UNCHANGED <<workList, func, pc, nr, reg, late, taken, ran>>

TimePasses == ~late /\ late' = TRUE /\ UNCHANGED <<workList, func, pc, nr, reg, given, taken, ran>>

-----------------------------------------------------------------------------
Worker(w) == \/ LoadNr(w) \/ StoreNr(w) \/ Enlist(w) \/ Sleep(w) \/ Woken(w)
             \/ RunJob(w) \/ AfterJob(w) \/ LeaveOrStay(w)
             \/ LoadLeaver(w) \/ StoreLeaver(w)

Next == (\E w \in Slots : Worker(w)) \/ GiveJob \/ RefuseJob \/ TimePasses

Spec == Init /\ [][Next]_vars

-----------------------------------------------------------------------------
\* work_list holds nodes of waiting workers only, each once: a node lives on
\* the stack of its worker, so one that stayed on the list while its worker
\* runs, leaves or is gone would be used after it ceased to exist.
ListSound ==
    /\ IsInjective(workList)
    /\ \A w \in ToSet(workList) : pc[w] \in {"added", "asleep", "awake"}

\* A job that found a worker is run once, or not yet and still with its
\* worker: no other job takes its place, and no wakeup clears it or runs it
\* again, although func keeps it after it was run.
TakenJobKept ==
    /\ \A j \in Jobs : ran[j] <= 1
    /\ \A j \in taken :
        \/ ran[j] = 1
        \/ \E w \in Slots : /\ func[w] = j /\ ~Listed(w)
                            /\ pc[w] \in {"added", "asleep", "awake", "run"}

\* nr_threads, an unsigned number, never wraps below zero, although it is
\* incremented without list_mutex: an increment may be lost, and an old value
\* may be stored between a leaver's test of the count and its own decrement.
CountNeverWraps == nr \in Nat
=============================================================================
