----------------------------- MODULE ThreadPool -----------------------------
(***************************************************************************)
(* thread_pool/thread_pool.h: a bounded task queue filled by one producer  *)
(* thread and emptied by worker threads, and the owner that starts the     *)
(* pool and stops it.                                                      *)
(*                                                                         *)
(* _M_stop clears _M_flag and notifies without holding _M_mutex, so the    *)
(* model keeps apart the moment a thread finds its predicate false         *)
(* ("tested": it holds _M_mutex) and the moment it blocks on the condition *)
(* variable and releases _M_mutex ("asleep").                              *)
(***************************************************************************)
EXTENDS Naturals, Sequences, FiniteSets

CONSTANTS Workers, Producer,
          QueueSize,   \* _M_task_queue_sz
          MaxTasks,    \* bound: tasks the producer makes
          MaxStarts    \* bound: times the owner starts the pool

ASSUME TPAssumption == /\ QueueSize \in Nat /\ MaxTasks \in Nat /\ MaxStarts \in Nat
                       /\ Producer \notin Workers

VARIABLES flag,    \* _M_flag
          tasks,   \* _M_tasks
          pc,      \* where each thread of the pool is
          held,    \* the task a worker runs or the producer adds; 0: none
          owner,   \* where the thread that owns the pool is
          made,    \* tasks made so far: __id, they are 1 .. made
          ran,     \* how often each task was run
          lost,    \* tasks that _M_add_task returned without storing
          starts   \* calls of _M_start

vars == <<flag, tasks, pc, held, owner, made, ran, lost, starts>>

Pool == Workers \cup {Producer}
Tasks == 1 .. MaxTasks

Init ==
    /\ flag = FALSE
    /\ tasks = << >>
    /\ pc = [t \in Pool |-> "exited"]
    /\ held = [t \in Pool |-> 0]
    /\ owner = "stopped"
    /\ made = 0
    /\ ran = [t \in Tasks |-> 0]
    /\ lost = {}
    /\ starts = 0

\* Nobody holds _M_mutex.
MutexFree == \A t \in Pool : pc[t] # "tested"

\* f after a notify_all on the condition variable the threads of cv wait on.
Notified(f, cv) == [t \in Pool |-> IF t \in cv /\ f[t] = "asleep" THEN "awake" ELSE f[t]]

Full == Len(tasks) = QueueSize

\* cond_wait blocks: the thread sleeps and _M_mutex is free.
Block(t) ==
    /\ pc[t] = "tested"
    /\ pc' = [pc EXCEPT ![t] = "asleep"]
    /\ UNCHANGED <<flag, tasks, held, owner, made, ran, lost, starts>>

-----------------------------------------------------------------------------
(* _M_produce and _M_add_task. *)

Produce ==
    /\ pc[Producer] = "loop"
    /\ \/ /\ ~flag
          /\ pc' = [pc EXCEPT ![Producer] = "exited"]
          /\ UNCHANGED <<held, made>>
       \/ /\ flag /\ made < MaxTasks
          /\ made' = made + 1
          /\ held' = [held EXCEPT ![Producer] = made + 1]
          /\ pc' = [pc EXCEPT ![Producer] = "enter"]
    /\ UNCHANGED <<flag, tasks, owner, ran, lost, starts>>

\* Mutant: the task is stored but nobody is notified.
AddTask_NoNotify ==
    /\ pc[Producer] \in {"enter", "asleep", "awake"} /\ MutexFree
    /\ flag /\ ~Full
    /\ tasks' = Append(tasks, held[Producer])
    /\ held' = [held EXCEPT ![Producer] = 0]
    /\ pc' = [pc EXCEPT ![Producer] = "loop"]
    /\ UNCHANGED <<flag, owner, made, ran, lost, starts>>

\* The producer, with _M_mutex, tests its predicate: on entry or woken.
AddTask ==
    /\ pc[Producer] \in {"enter", "asleep", "awake"} /\ MutexFree
    /\ \/ /\ ~flag
          /\ lost' = lost \cup {held[Producer]}
          /\ held' = [held EXCEPT ![Producer] = 0]
          /\ pc' = [pc EXCEPT ![Producer] = "loop"]
          /\ UNCHANGED tasks
       \/ /\ flag /\ ~Full
          /\ tasks' = Append(tasks, held[Producer])
          /\ held' = [held EXCEPT ![Producer] = 0]
          /\ pc' = [Notified(pc, Workers) EXCEPT ![Producer] = "loop"]
          /\ UNCHANGED lost
       \/ /\ flag /\ Full
          /\ pc' = [pc EXCEPT ![Producer] = "tested"]
          /\ UNCHANGED <<tasks, held, lost>>
    /\ UNCHANGED <<flag, owner, made, ran, starts>>

-----------------------------------------------------------------------------
(* _M_work and _M_get_task. *)

TestFlag(w) ==
    /\ pc[w] = "loop"
    /\ pc' = [pc EXCEPT ![w] = IF flag THEN "enter" ELSE "exited"]
    /\ UNCHANGED <<flag, tasks, held, owner, made, ran, lost, starts>>

\* Mutant: the front task is returned but stays in the queue.
GetTask_NoPop(w) ==
    /\ pc[w] \in {"enter", "asleep", "awake"} /\ MutexFree
    /\ flag /\ tasks # << >>
    /\ held' = [held EXCEPT ![w] = Head(tasks)]
    /\ pc' = [Notified(pc, {Producer}) EXCEPT ![w] = "run"]
    /\ UNCHANGED <<flag, tasks, owner, made, ran, lost, starts>>

\* A worker, with _M_mutex, tests its predicate: on entry or woken.
GetTask(w) ==
    /\ pc[w] \in {"enter", "asleep", "awake"} /\ MutexFree
    /\ \/ /\ ~flag
          /\ pc' = [pc EXCEPT ![w] = "exited"]
          /\ UNCHANGED <<tasks, held>>
       \/ /\ flag /\ tasks # << >>
          /\ tasks' = Tail(tasks)
          /\ held' = [held EXCEPT ![w] = Head(tasks)]
          /\ pc' = [Notified(pc, {Producer}) EXCEPT ![w] = "run"]
       \/ /\ flag /\ tasks = << >>
          /\ pc' = [pc EXCEPT ![w] = "tested"]
          /\ UNCHANGED <<tasks, held>>
    /\ UNCHANGED <<flag, owner, made, ran, lost, starts>>

\* Run and _M_destroy_task, then back to the loop.
Run(w) ==
    /\ pc[w] = "run"
    /\ ran' = [ran EXCEPT ![held[w]] = @ + 1]
    /\ held' = [held EXCEPT ![w] = 0]
    /\ pc' = [pc EXCEPT ![w] = "loop"]
    /\ UNCHANGED <<flag, tasks, owner, made, lost, starts>>

-----------------------------------------------------------------------------
(* _M_start and _M_stop, in the thread that owns the pool. *)

Start ==
    /\ owner = "stopped" /\ starts < MaxStarts
    /\ flag' = TRUE
    /\ pc' = [t \in Pool |-> "loop"]
    /\ owner' = "up"
    /\ starts' = starts + 1
    /\ UNCHANGED <<tasks, held, made, ran, lost>>

ClearFlag ==
    /\ owner = "up"
    /\ flag' = FALSE
    /\ owner' = "notify_empty"
    /\ UNCHANGED <<tasks, pc, held, made, ran, lost, starts>>

\* The two notifies of _M_notify_all.
NotifyEmpty ==
    /\ owner = "notify_empty"
    /\ pc' = Notified(pc, Workers)
    /\ owner' = "notify_full"
    /\ UNCHANGED <<flag, tasks, held, made, ran, lost, starts>>

NotifyFull ==
    /\ owner = "notify_full"
    /\ pc' = Notified(pc, {Producer})
    /\ owner' = "join"
    /\ UNCHANGED <<flag, tasks, held, made, ran, lost, starts>>

Join ==
    /\ owner = "join"
    /\ \A t \in Pool : pc[t] = "exited"
    /\ owner' = "clean"
    /\ UNCHANGED <<flag, tasks, pc, held, made, ran, lost, starts>>

\* _M_clean_task runs what is left over, without _M_mutex.
CleanTask ==
    /\ owner = "clean"
    /\ \/ /\ tasks # << >>
          /\ tasks' = Tail(tasks)
          /\ ran' = [ran EXCEPT ![Head(tasks)] = @ + 1]
          /\ UNCHANGED owner
       \/ /\ tasks = << >>
          /\ owner' = "stopped"
          /\ UNCHANGED <<tasks, ran>>
    /\ UNCHANGED <<flag, pc, held, made, lost, starts>>

-----------------------------------------------------------------------------
WorkerStep(w) == TestFlag(w) \/ GetTask(w) \/ Run(w)
OwnerStep == NotifyEmpty \/ NotifyFull \/ Join \/ CleanTask

Next == \/ Start \/ ClearFlag \/ OwnerStep \/ Produce \/ AddTask
        \/ \E w \in Workers : WorkerStep(w)
        \/ \E t \in Pool : Block(t)

Spec == Init /\ [][Next]_vars

\* Threads run; _M_mutex is not withheld for ever from a thread that keeps
\* asking for it (SF: it is free again and again); stop() goes on once called.
\* Nothing wakes a sleeper that is not notified.
Fairness ==
    /\ \A t \in Pool : WF_vars(Block(t))
    /\ \A w \in Workers : /\ WF_vars(TestFlag(w)) /\ WF_vars(Run(w))
                          /\ SF_vars(pc[w] # "asleep" /\ GetTask(w))
    /\ WF_vars(Produce)
    /\ SF_vars(pc[Producer] # "asleep" /\ AddTask)
    /\ WF_vars(OwnerStep)

FairSpec == Spec /\ Fairness

-----------------------------------------------------------------------------
\* Every variable has its type; the queue keeps within its size.
TypeOK ==
    /\ flag \in BOOLEAN
    /\ tasks \in Seq(Tasks) /\ Len(tasks) <= QueueSize
    /\ pc \in [Pool -> {"loop", "enter", "tested", "asleep", "awake", "run", "exited"}]
    /\ held \in [Pool -> 0 .. MaxTasks]
    /\ owner \in {"stopped", "up", "notify_empty", "notify_full", "join", "clean"}
    /\ made \in 0 .. MaxTasks
    /\ ran \in [Tasks -> Nat]
    /\ lost \subseteq Tasks
    /\ starts \in 0 .. MaxStarts

\* While the pool is up no wakeup is lost: a worker sleeps only on an empty
\* queue and the producer only on a full one.
NoLostWakeup ==
    owner = "up" =>
        /\ \A w \in Workers : pc[w] \in {"tested", "asleep"} => tasks = << >>
        /\ pc[Producer] \in {"tested", "asleep"} => Full

\* No task is run twice, whether by two workers or by a worker and stop(),
\* whose _M_clean_task takes no mutex; and when stop() has returned every task made has been run, by a worker or by
\* _M_clean_task, but for at most one per stop: the one the producer was
\* adding, which _M_add_task drops (and leaks) when it finds _M_flag cleared.
TasksSettled ==
    /\ \A t \in Tasks : ran[t] <= 1
    /\ owner = "stopped" =>
          /\ \A t \in 1 .. made : ran[t] = 1 \/ t \in lost
          /\ Cardinality(lost) <= starts

\* A stored task is run unless the pool is stopped first.
StoredTasksRun ==
    \A t \in Tasks :
        (\E i \in DOMAIN tasks : tasks[i] = t) ~> (ran[t] = 1 \/ owner # "up")

\* stop() returns.
StopReturns == owner = "notify_empty" ~> owner = "stopped"
=============================================================================
