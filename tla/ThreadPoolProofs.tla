-------------------------- MODULE ThreadPoolProofs --------------------------
(***************************************************************************)
(* Proofs about ThreadPool for any workers, queue size, number of tasks    *)
(* and of starts: types, that no wakeup is lost while the pool is up, and  *)
(* what has become of every task when stop() has returned.                 *)
(***************************************************************************)
EXTENDS ThreadPool, FiniteSetTheorems, TLAPS

\* The flag is set from _M_start to _M_stop; a pool that was joined has no
\* thread, and one that was stopped no task either.
PhasesAgree ==
    /\ flag <=> owner = "up"
    /\ owner \in {"stopped", "clean"} => \A t \in Pool : pc[t] = "exited"
    /\ owner = "stopped" => tasks = << >>

\* Who has a task in hand.
HeldWhere ==
    /\ \A w \in Workers : held[w] # 0 <=> pc[w] = "run"
    /\ held[Producer] # 0 <=> pc[Producer] \in {"enter", "tested", "asleep", "awake"}
    /\ pc[Producer] # "run"

Queued(s, t) == \E i \in 1 .. Len(s) : s[i] = t
NoneTwice(s) == \A i, j \in 1 .. Len(s) : s[i] = s[j] => i = j

\* Every task made is queued, or in one thread's hand, or was run once, or
\* was dropped, and it is in no two of the first three places.
TasksAccounted ==
    /\ NoneTwice(tasks)
    /\ \A a, b \in Pool : held[a] # 0 /\ held[a] = held[b] => a = b
    /\ \A a \in Pool : held[a] # 0 =>
          held[a] <= made /\ ~Queued(tasks, held[a]) /\ ran[held[a]] = 0
    /\ \A t \in Tasks : Queued(tasks, t) => t <= made /\ ran[t] = 0
    /\ \A t \in Tasks : ran[t] <= 1 /\ (t > made => ran[t] = 0)
    /\ \A t \in 1 .. made :
          Queued(tasks, t) \/ ran[t] = 1 \/ t \in lost \/ \E a \in Pool : held[a] = t

\* The producer may yet drop a task before it ends.
MayDrop == pc[Producer] # "exited" /\ (flag \/ pc[Producer] # "loop")
DropsBounded == Cardinality(lost) + (IF MayDrop THEN 1 ELSE 0) <= starts

PoolInv == /\ TypeOK /\ PhasesAgree /\ HeldWhere
           /\ NoLostWakeup /\ TasksAccounted /\ DropsBounded

-----------------------------------------------------------------------------
LEMMA QueueAppend ==
  ASSUME tasks \in Seq(Tasks), NoneTwice(tasks), NEW x \in Tasks, ~Queued(tasks, x),
         tasks' = Append(tasks, x)
  PROVE  /\ tasks' \in Seq(Tasks) /\ Len(tasks') = Len(tasks) + 1
         /\ NoneTwice(tasks')
         /\ \A t \in Tasks : Queued(tasks', t) <=> Queued(tasks, t) \/ t = x
  <1>1. /\ tasks' \in Seq(Tasks) /\ Len(tasks') = Len(tasks) + 1 /\ Len(tasks) \in Nat
        /\ \A i \in 1 .. Len(tasks) : tasks'[i] = tasks[i]
        /\ tasks'[Len(tasks) + 1] = x
    OBVIOUS
  <1>2. NoneTwice(tasks')
    BY <1>1 DEF NoneTwice, Queued
  <1>3. ASSUME NEW t \in Tasks PROVE Queued(tasks', t) <=> Queued(tasks, t) \/ t = x
    <2>1. ASSUME Queued(tasks, t) PROVE Queued(tasks', t)
      <3>1. PICK i \in 1 .. Len(tasks) : tasks[i] = t
        BY <2>1 DEF Queued
      <3>2. i \in 1 .. Len(tasks') /\ tasks'[i] = t
        BY <1>1, <3>1
      <3> QED BY <3>2 DEF Queued
    <2>2. t = x => Queued(tasks', t)
      <3>1. Len(tasks) + 1 \in 1 .. Len(tasks')
        BY <1>1
      <3> QED BY <1>1, <3>1 DEF Queued
    <2>3. Queued(tasks', t) => Queued(tasks, t) \/ t = x
      BY <1>1 DEF Queued
    <2> QED BY <2>1, <2>2, <2>3
  <1> QED BY <1>1, <1>2, <1>3

LEMMA QueueTail ==
  ASSUME tasks \in Seq(Tasks), NoneTwice(tasks), tasks # << >>, tasks' = Tail(tasks)
  PROVE  /\ tasks' \in Seq(Tasks) /\ Len(tasks') = Len(tasks) - 1
         /\ Head(tasks) \in Tasks /\ Queued(tasks, Head(tasks))
         /\ NoneTwice(tasks')
         /\ \A t \in Tasks : Queued(tasks', t) <=> Queued(tasks, t) /\ t # Head(tasks)
  <1>1. /\ tasks' \in Seq(Tasks) /\ Len(tasks') = Len(tasks) - 1 /\ Len(tasks) \in Nat \ {0}
        /\ Head(tasks) = tasks[1] /\ Head(tasks) \in Tasks
        /\ \A i \in 1 .. Len(tasks') : tasks'[i] = tasks[i + 1]
    OBVIOUS
  <1>2. NoneTwice(tasks')
    BY <1>1 DEF NoneTwice
  <1>3. Queued(tasks, Head(tasks))
    BY <1>1 DEF Queued
  <1>4. ASSUME NEW t \in Tasks PROVE Queued(tasks', t) <=> Queued(tasks, t) /\ t # Head(tasks)
    <2>1. ASSUME Queued(tasks', t) PROVE Queued(tasks, t) /\ t # Head(tasks)
      <3>1. PICK i \in 1 .. Len(tasks') : tasks'[i] = t
        BY <2>1 DEF Queued
      <3>2. i + 1 \in 1 .. Len(tasks) /\ tasks[i + 1] = t /\ i + 1 # 1 /\ 1 \in 1 .. Len(tasks)
        BY <1>1, <3>1
      <3> QED BY <1>1, <3>2 DEF Queued, NoneTwice
    <2>2. ASSUME Queued(tasks, t), t # Head(tasks) PROVE Queued(tasks', t)
      <3>1. PICK i \in 1 .. Len(tasks) : tasks[i] = t
        BY <2>2 DEF Queued
      <3>2. i - 1 \in 1 .. Len(tasks') /\ tasks'[i - 1] = t
        BY <1>1, <2>2, <3>1
      <3> QED BY <3>2 DEF Queued
    <2> QED BY <2>1, <2>2
  <1> QED BY <1>1, <1>2, <1>3, <1>4

LEMMA PoolInitInv == Init => PoolInv
  <1> SUFFICES ASSUME Init PROVE PoolInv
    OBVIOUS
  <1>1. Len(tasks) = 0 /\ tasks \in Seq(Tasks)
    BY DEF Init
  <1>2. TypeOK
    <2>1. /\ Len(tasks) <= QueueSize /\ made \in 0 .. MaxTasks /\ starts \in 0 .. MaxStarts
          /\ held \in [Pool -> 0 .. MaxTasks] /\ ran \in [Tasks -> Nat]
      BY <1>1, TPAssumption DEF Init
    <2> QED BY <1>1, <2>1 DEF Init, TypeOK
  <1>3. PhasesAgree /\ HeldWhere /\ NoLostWakeup
    BY DEF Init, PhasesAgree, HeldWhere, NoLostWakeup, Pool
  <1>4. TasksAccounted
    BY <1>1 DEF Init, TasksAccounted, NoneTwice, Queued, Tasks
  <1>5. DropsBounded
    BY FS_EmptySet DEF Init, DropsBounded, MayDrop, Pool
  <1> QED BY <1>2, <1>3, <1>4, <1>5 DEF PoolInv
-----------------------------------------------------------------------------
\* Steps that move no task.
LEMMA TasksStay ==
  ASSUME TasksAccounted, UNCHANGED <<tasks, held, made, ran, lost>>
  PROVE  TasksAccounted'
  BY DEF TasksAccounted, NoneTwice, Queued

LEMMA LostCount ==
  ASSUME TypeOK
  PROVE  /\ IsFiniteSet(lost) /\ Cardinality(lost) \in Nat
         /\ \A t : Cardinality(lost \cup {t}) <= Cardinality(lost) + 1
  <1>1. IsFiniteSet(Tasks)
    BY TPAssumption, FS_Interval DEF Tasks
  <1>2. IsFiniteSet(lost) /\ Cardinality(lost) \in Nat
    BY <1>1, FS_Subset, FS_CardinalityType DEF TypeOK
  <1>3. ASSUME NEW t PROVE Cardinality(lost \cup {t}) <= Cardinality(lost) + 1
    <2>1. Cardinality(lost \cup {t}) = IF t \in lost THEN Cardinality(lost) ELSE Cardinality(lost) + 1
      BY <1>2, FS_AddElement
    <2> QED BY <1>2, <2>1
  <1> QED BY <1>2, <1>3

LEMMA LostCountNext == TypeOK' => Cardinality(lost') \in Nat
  <1> SUFFICES ASSUME lost' \subseteq Tasks PROVE Cardinality(lost') \in Nat
    BY DEF TypeOK
  <1>1. IsFiniteSet(Tasks)
    BY TPAssumption, FS_Interval DEF Tasks
  <1>2. IsFiniteSet(lost')
    BY <1>1, FS_Subset
  <1> QED BY <1>2, FS_CardinalityType

\* Steps that drop no task, and begin no round in which one may be dropped.
LEMMA NothingDropped ==
  ASSUME TypeOK, DropsBounded, UNCHANGED <<lost, starts>>, MayDrop' => MayDrop
  PROVE  DropsBounded'
  BY LostCount DEF DropsBounded, TypeOK

\* Steps of one thread that only move that thread.
LEMMA ThreadMoves ==
  ASSUME PoolInv, NEW t \in Pool,
         NEW place \in {"loop", "enter", "tested", "asleep", "exited"},
         pc' = [pc EXCEPT ![t] = place],
         pc[t] \in {"loop", "enter", "tested", "asleep", "awake"},
         place \in {"tested", "asleep"} /\ flag =>
             (IF t = Producer THEN Full ELSE tasks = << >>),
         t = Producer => (place \in {"loop", "exited"} <=> pc[t] = "loop"),
         place = "exited" /\ t = Producer => ~flag,
         UNCHANGED <<flag, tasks, held, owner, made, ran, lost, starts>>
  PROVE  PoolInv'
  <1>1. TypeOK'
    BY DEF PoolInv, TypeOK
  <1>2. PhasesAgree'
    BY DEF PoolInv, PhasesAgree, TypeOK
  <1>3. HeldWhere'
    BY TPAssumption DEF PoolInv, HeldWhere, TypeOK, Pool
  <1>4. NoLostWakeup'
    BY TPAssumption DEF PoolInv, PhasesAgree, NoLostWakeup, TypeOK, Pool, Full
  <1>5. DropsBounded'
    <2>1. MayDrop' => MayDrop
      BY DEF MayDrop, PoolInv, TypeOK, Pool
    <2> QED BY <2>1, NothingDropped DEF PoolInv
  <1> QED BY <1>1, <1>2, <1>3, <1>4, <1>5, TasksStay DEF PoolInv
\* Threads that sleep on one condition variable are woken.
LEMMA NotifyInv ==
  ASSUME PoolInv, NEW cv \in SUBSET Pool, pc' = Notified(pc, cv),
         UNCHANGED <<flag, tasks, held, made, ran, lost, starts>>,
         owner' \in {"notify_full", "join"}, owner \in {"notify_empty", "notify_full"}
  PROVE  PoolInv'
  <1>1. TypeOK'
    BY DEF PoolInv, TypeOK, Notified
  <1>2. PhasesAgree' /\ NoLostWakeup'
    BY DEF PoolInv, PhasesAgree, NoLostWakeup
  <1>3. HeldWhere'
    BY DEF PoolInv, HeldWhere, TypeOK, Pool, Notified
  <1>4. DropsBounded'
    <2>1. MayDrop' => MayDrop
      BY DEF MayDrop, PoolInv, TypeOK, Pool, Notified
    <2> QED BY <2>1, NothingDropped DEF PoolInv
  <1> QED BY <1>1, <1>2, <1>3, <1>4, TasksStay DEF PoolInv

LEMMA MakeInv ==
  ASSUME PoolInv, Produce, flag
  PROVE  PoolInv'
  <1>0. /\ pc[Producer] = "loop" /\ made < MaxTasks /\ made' = made + 1
        /\ held' = [held EXCEPT ![Producer] = made + 1]
        /\ pc' = [pc EXCEPT ![Producer] = "enter"]
        /\ UNCHANGED <<flag, tasks, owner, ran, lost, starts>>
    BY DEF Produce
  <1>1. made \in Nat /\ made + 1 \in Tasks /\ Producer \in Pool /\ held[Producer] = 0
    BY <1>0, TPAssumption DEF PoolInv, TypeOK, HeldWhere, Tasks, Pool
  <1>2. TypeOK'
    <2>1. made' \in 0 .. MaxTasks /\ held' \in [Pool -> 0 .. MaxTasks]
      BY <1>0, <1>1, TPAssumption DEF PoolInv, TypeOK, Tasks
    <2> QED BY <1>0, <2>1 DEF PoolInv, TypeOK
  <1>3. PhasesAgree' /\ NoLostWakeup'
    BY <1>0, <1>1, TPAssumption DEF PoolInv, PhasesAgree, NoLostWakeup, TypeOK, Pool
  <1>4. HeldWhere'
    BY <1>0, <1>1, TPAssumption DEF PoolInv, HeldWhere, TypeOK, Pool
  <1>5. TasksAccounted'
    <2>1. NoneTwice(tasks') /\ \A t : Queued(tasks', t) <=> Queued(tasks, t)
      BY <1>0 DEF PoolInv, TasksAccounted, NoneTwice, Queued
    <2>2. ran[made + 1] = 0 /\ ~Queued(tasks, made + 1)
      BY <1>1 DEF PoolInv, TasksAccounted, TypeOK, Tasks
    <2>3. \A a \in Pool : held'[a] = IF a = Producer THEN made + 1 ELSE held[a]
      BY <1>0 DEF PoolInv, TypeOK
    <2>4. \A a \in Pool : held[a] \in Nat /\ (held[a] # 0 => held[a] <= made)
      BY DEF PoolInv, TypeOK, TasksAccounted
    <2>5. \A a, b \in Pool : held'[a] # 0 /\ held'[a] = held'[b] => a = b
      BY <1>1, <2>3, <2>4 DEF PoolInv, TasksAccounted
    <2>6. \A a \in Pool : held'[a] # 0 =>
             held'[a] <= made' /\ ~Queued(tasks', held'[a]) /\ ran'[held'[a]] = 0
      BY <1>0, <1>1, <2>1, <2>2, <2>3, <2>4 DEF PoolInv, TasksAccounted
    <2>7. \A t \in Tasks : /\ Queued(tasks', t) => t <= made' /\ ran'[t] = 0
                           /\ ran'[t] <= 1 /\ (t > made' => ran'[t] = 0)
      BY <1>0, <1>1, <2>1 DEF PoolInv, TasksAccounted, Tasks
    <2>8. \A t \in 1 .. made' : \/ Queued(tasks', t) \/ ran'[t] = 1 \/ t \in lost'
                                \/ \E a \in Pool : held'[a] = t
      <3> SUFFICES ASSUME NEW t \in 1 .. made'
                   PROVE  \/ Queued(tasks', t) \/ ran'[t] = 1 \/ t \in lost'
                          \/ \E a \in Pool : held'[a] = t
        OBVIOUS
      <3>1. CASE t = made + 1
        BY <1>1, <2>3, <3>1
      <3>2. CASE t \in 1 .. made
        <4>1. ASSUME NEW a \in Pool, held[a] = t PROVE held'[a] = t
          BY <1>1, <2>3, <3>2, <4>1
        <4> QED BY <1>0, <2>1, <3>2, <4>1 DEF PoolInv, TasksAccounted
      <3> QED BY <1>0, <1>1, <3>1, <3>2
    <2> QED BY <2>1, <2>5, <2>6, <2>7, <2>8 DEF TasksAccounted
  <1>6. DropsBounded'
    BY <1>0, <1>1, NothingDropped DEF MayDrop, PoolInv
  <1> QED BY <1>2, <1>3, <1>4, <1>5, <1>6 DEF PoolInv
\* _M_add_task finds the flag cleared and drops the task.
LEMMA DropInv ==
  ASSUME PoolInv, AddTask, ~flag
  PROVE  PoolInv'
  <1>0. /\ pc[Producer] \in {"enter", "asleep", "awake"}
        /\ lost' = lost \cup {held[Producer]}
        /\ held' = [held EXCEPT ![Producer] = 0]
        /\ pc' = [pc EXCEPT ![Producer] = "loop"]
        /\ UNCHANGED <<flag, tasks, owner, made, ran, starts>>
    BY DEF AddTask
  <1>1. Producer \in Pool /\ held[Producer] \in Tasks
    BY <1>0, TPAssumption DEF PoolInv, TypeOK, HeldWhere, Pool, Tasks
  <1>2. TypeOK'
    <2>1. 0 \in 0 .. MaxTasks
      BY TPAssumption
    <2> QED BY <1>0, <1>1, <2>1 DEF PoolInv, TypeOK
  <1>3. PhasesAgree' /\ NoLostWakeup'
    BY <1>0, <1>1, TPAssumption DEF PoolInv, PhasesAgree, NoLostWakeup, TypeOK, Pool
  <1>4. HeldWhere'
    BY <1>0, <1>1, TPAssumption DEF PoolInv, HeldWhere, TypeOK, Pool
  <1>5. TasksAccounted'
    <2>1. \A a \in Pool : held'[a] = IF a = Producer THEN 0 ELSE held[a]
      BY <1>0 DEF PoolInv, TypeOK
    <2>2. ASSUME NEW t \in 1 .. made', NEW a \in Pool, held[a] = t
          PROVE  t \in lost' \/ held'[a] = t
      BY <1>0, <2>1, <2>2
    <2> QED BY <1>0, <2>1, <2>2 DEF PoolInv, TasksAccounted
  <1>6. DropsBounded'
    <2>1. MayDrop /\ ~MayDrop'
      BY <1>0, <1>1 DEF MayDrop, PoolInv, TypeOK
    <2>2. Cardinality(lost') <= Cardinality(lost) + 1 /\ Cardinality(lost') \in Nat
      BY <1>0, <1>2, LostCount, LostCountNext DEF PoolInv
    <2> QED BY <1>0, <2>1, <2>2, LostCount DEF DropsBounded, PoolInv, TypeOK
  <1> QED BY <1>2, <1>3, <1>4, <1>5, <1>6 DEF PoolInv

\* It stores the task and notifies the workers.
LEMMA StoreInv ==
  ASSUME PoolInv, AddTask, flag, ~Full
  PROVE  PoolInv'
  <1> DEFINE x == held[Producer]
  <1>0. /\ pc[Producer] \in {"enter", "asleep", "awake"} /\ MutexFree
        /\ tasks' = Append(tasks, x)
        /\ held' = [held EXCEPT ![Producer] = 0]
        /\ pc' = [Notified(pc, Workers) EXCEPT ![Producer] = "loop"]
        /\ UNCHANGED <<flag, owner, made, ran, lost, starts>>
    BY DEF AddTask
  <1>1. Producer \in Pool /\ x \in Tasks /\ x # 0
    BY <1>0, TPAssumption DEF PoolInv, TypeOK, HeldWhere, Pool, Tasks
  <1>2. /\ tasks' \in Seq(Tasks) /\ Len(tasks') = Len(tasks) + 1 /\ NoneTwice(tasks')
        /\ \A t \in Tasks : Queued(tasks', t) <=> Queued(tasks, t) \/ t = x
    <2>1. tasks \in Seq(Tasks) /\ NoneTwice(tasks) /\ ~Queued(tasks, x)
      BY <1>1 DEF PoolInv, TypeOK, TasksAccounted
    <2> QED BY <1>0, <1>1, <2>1, QueueAppend
  <1>3. \A t \in Pool : pc'[t] = IF t = Producer THEN "loop"
                                 ELSE IF pc[t] = "asleep" THEN "awake" ELSE pc[t]
    BY <1>0, TPAssumption DEF Notified, Pool
  <1> HIDE DEF x
  <1>4. TypeOK'
    <2>1. Len(tasks) \in Nat /\ Len(tasks') <= QueueSize /\ 0 \in 0 .. MaxTasks
      BY <1>2, TPAssumption DEF PoolInv, TypeOK, Full
    <2>2. pc' \in [Pool -> {"loop", "enter", "tested", "asleep", "awake", "run", "exited"}]
      BY <1>0, <1>1 DEF PoolInv, TypeOK, Notified
    <2>3. held' \in [Pool -> 0 .. MaxTasks]
      BY <1>0, <2>1 DEF PoolInv, TypeOK
    <2> QED BY <1>0, <1>2, <2>1, <2>2, <2>3 DEF PoolInv, TypeOK
  <1>5. PhasesAgree'
    BY <1>0 DEF PoolInv, PhasesAgree, AddTask
  <1>6. HeldWhere'
    BY <1>0, <1>1, <1>3, TPAssumption DEF PoolInv, HeldWhere, TypeOK, Pool
  <1>7. NoLostWakeup'
    BY <1>0, <1>1, <1>3, TPAssumption DEF NoLostWakeup, MutexFree, Pool
  <1>8. TasksAccounted'
    <2>1. \A a \in Pool : held'[a] = IF a = Producer THEN 0 ELSE held[a]
      BY <1>0 DEF PoolInv, TypeOK
    <2>2. \A a \in Pool : held'[a] # 0 => held'[a] \in Tasks /\ held'[a] # x
      BY <1>1, <2>1 DEF PoolInv, TypeOK, TasksAccounted, Tasks, x
    <2>3. x <= made /\ ran[x] = 0
      BY <1>1 DEF PoolInv, TasksAccounted, x
    <2>4. \A a, b \in Pool : held'[a] # 0 /\ held'[a] = held'[b] => a = b
      BY <2>1 DEF PoolInv, TasksAccounted
    <2>5. \A a \in Pool : held'[a] # 0 =>
             held'[a] <= made' /\ ~Queued(tasks', held'[a]) /\ ran'[held'[a]] = 0
      BY <1>0, <1>2, <2>1, <2>2 DEF PoolInv, TasksAccounted
    <2>6. \A t \in Tasks : /\ Queued(tasks', t) => t <= made' /\ ran'[t] = 0
                           /\ ran'[t] <= 1 /\ (t > made' => ran'[t] = 0)
      BY <1>0, <1>2, <2>3 DEF PoolInv, TasksAccounted
    <2>7. \A t \in 1 .. made' : \/ Queued(tasks', t) \/ ran'[t] = 1 \/ t \in lost'
                                \/ \E a \in Pool : held'[a] = t
      <3> SUFFICES ASSUME NEW t \in 1 .. made, ~Queued(tasks', t), ran[t] # 1, t \notin lost
                   PROVE  \E a \in Pool : held'[a] = t
        BY <1>0
      <3>1. t \in Tasks
        <4>1. made \in 0 .. MaxTasks
          BY DEF PoolInv, TypeOK
        <4> QED BY <4>1, TPAssumption DEF Tasks
      <3>2. PICK a \in Pool : held[a] = t
        BY <1>2, <3>1 DEF PoolInv, TasksAccounted
      <3>3. a # Producer
        BY <1>2, <3>1, <3>2 DEF x
      <3> QED BY <2>1, <3>2, <3>3
    <2> QED BY <1>2, <2>4, <2>5, <2>6, <2>7 DEF TasksAccounted
  <1>9. DropsBounded'
    <2>1. MayDrop
      BY <1>0 DEF MayDrop
    <2> QED BY <1>0, <2>1, NothingDropped DEF PoolInv
  <1> QED BY <1>4, <1>5, <1>6, <1>7, <1>8, <1>9 DEF PoolInv

\* A worker takes the front task and notifies the producer.
LEMMA TakeInv ==
  ASSUME PoolInv, NEW w \in Workers, GetTask(w), flag, tasks # << >>
  PROVE  PoolInv'
  <1> DEFINE x == Head(tasks)
  <1>0. /\ pc[w] \in {"enter", "asleep", "awake"} /\ MutexFree
        /\ tasks' = Tail(tasks)
        /\ held' = [held EXCEPT ![w] = x]
        /\ pc' = [Notified(pc, {Producer}) EXCEPT ![w] = "run"]
        /\ UNCHANGED <<flag, owner, made, ran, lost, starts>>
    BY DEF GetTask
  <1>1. w \in Pool /\ w # Producer /\ Producer \in Pool /\ held[w] = 0
    BY <1>0, TPAssumption DEF PoolInv, HeldWhere, Pool
  <1>2. /\ tasks' \in Seq(Tasks) /\ Len(tasks') = Len(tasks) - 1 /\ NoneTwice(tasks')
        /\ x \in Tasks /\ x # 0 /\ Queued(tasks, x)
        /\ \A t \in Tasks : Queued(tasks', t) <=> Queued(tasks, t) /\ t # x
    <2>1. tasks \in Seq(Tasks) /\ NoneTwice(tasks)
      BY DEF PoolInv, TypeOK, TasksAccounted
    <2>2. \A t \in Tasks : t # 0
      BY DEF Tasks
    <2> QED BY <1>0, <2>1, <2>2, QueueTail
  <1> HIDE DEF x
  <1>3. \A t \in Pool : pc'[t] = IF t = w THEN "run"
                                 ELSE IF t = Producer /\ pc[t] = "asleep" THEN "awake" ELSE pc[t]
    BY <1>0, <1>1 DEF Notified
  <1>4. TypeOK'
    <2>1. Len(tasks) \in Nat /\ Len(tasks') <= QueueSize /\ x \in 0 .. MaxTasks
      BY <1>2, TPAssumption DEF PoolInv, TypeOK, Tasks
    <2>2. pc' \in [Pool -> {"loop", "enter", "tested", "asleep", "awake", "run", "exited"}]
      BY <1>0, <1>1 DEF PoolInv, TypeOK, Notified
    <2>3. held' \in [Pool -> 0 .. MaxTasks]
      BY <1>0, <2>1 DEF PoolInv, TypeOK
    <2> QED BY <1>0, <1>2, <2>1, <2>2, <2>3 DEF PoolInv, TypeOK
  <1>5. PhasesAgree'
    BY <1>0 DEF PoolInv, PhasesAgree
  <1>6. HeldWhere'
    <2>1. \A a \in Pool : held'[a] = IF a = w THEN x ELSE held[a]
      BY <1>0 DEF PoolInv, TypeOK
    <2> QED BY <1>1, <1>2, <1>3, <2>1 DEF PoolInv, HeldWhere, Pool
  <1>7. NoLostWakeup'
    <2>1. ASSUME owner = "up", NEW v \in Workers PROVE pc'[v] \notin {"tested", "asleep"}
      <3>1. v \in Pool /\ v # Producer /\ pc[v] \notin {"tested", "asleep"}
        BY <2>1, TPAssumption DEF PoolInv, NoLostWakeup, Pool
      <3> QED BY <1>3, <3>1
    <2>2. pc'[Producer] \notin {"tested", "asleep"}
      <3>1. pc[Producer] # "tested"
        BY <1>0, <1>1 DEF MutexFree
      <3>2. pc'[Producer] = IF pc[Producer] = "asleep" THEN "awake" ELSE pc[Producer]
        BY <1>1, <1>3
      <3> QED BY <3>1, <3>2
    <2> QED BY <1>0, <2>1, <2>2 DEF NoLostWakeup
  <1>8. TasksAccounted'
    <2>1. \A a \in Pool : held'[a] = IF a = w THEN x ELSE held[a]
      BY <1>0 DEF PoolInv, TypeOK
    <2>2. \A a \in Pool : held[a] # 0 => held[a] \in Tasks /\ held[a] # x
      BY <1>2 DEF PoolInv, TypeOK, TasksAccounted, Tasks
    <2>3. x <= made /\ ran[x] = 0
      BY <1>2 DEF PoolInv, TasksAccounted
    <2>4. \A a, b \in Pool : held'[a] # 0 /\ held'[a] = held'[b] => a = b
      BY <1>2, <2>1, <2>2 DEF PoolInv, TasksAccounted
    <2>5. \A a \in Pool : held'[a] # 0 =>
             held'[a] <= made' /\ ~Queued(tasks', held'[a]) /\ ran'[held'[a]] = 0
      BY <1>0, <1>2, <2>1, <2>2, <2>3 DEF PoolInv, TasksAccounted
    <2>6. \A t \in Tasks : /\ Queued(tasks', t) => t <= made' /\ ran'[t] = 0
                           /\ ran'[t] <= 1 /\ (t > made' => ran'[t] = 0)
      BY <1>0, <1>2 DEF PoolInv, TasksAccounted
    <2>7. \A t \in 1 .. made' : \/ Queued(tasks', t) \/ ran'[t] = 1 \/ t \in lost'
                                \/ \E a \in Pool : held'[a] = t
      <3> SUFFICES ASSUME NEW t \in 1 .. made, ~Queued(tasks', t), ran[t] # 1, t \notin lost
                   PROVE  \E a \in Pool : held'[a] = t
        BY <1>0
      <3>1. t \in Tasks /\ t # 0
        <4>1. made \in 0 .. MaxTasks
          BY DEF PoolInv, TypeOK
        <4> QED BY <4>1, TPAssumption DEF Tasks
      <3>2. CASE t = x
        BY <1>1, <2>1, <3>2
      <3>3. CASE t # x
        <4>1. PICK a \in Pool : held[a] = t
          BY <1>2, <3>1, <3>3 DEF PoolInv, TasksAccounted
        <4>2. a # w
          BY <1>1, <3>1, <4>1
        <4> QED BY <2>1, <4>1, <4>2
      <3> QED BY <3>2, <3>3
    <2> QED BY <1>2, <2>4, <2>5, <2>6, <2>7 DEF TasksAccounted
  <1>9. DropsBounded'
    <2>1. MayDrop' => MayDrop
      BY <1>0, <1>1, <1>3 DEF MayDrop
    <2> QED BY <1>0, <2>1, NothingDropped DEF PoolInv
  <1> QED BY <1>4, <1>5, <1>6, <1>7, <1>8, <1>9 DEF PoolInv

\* A worker runs the task it holds.
LEMMA RunInv ==
  ASSUME PoolInv, NEW w \in Workers, Run(w)
  PROVE  PoolInv'
  <1> DEFINE x == held[w]
  <1>0. /\ pc[w] = "run"
        /\ ran' = [ran EXCEPT ![x] = @ + 1]
        /\ held' = [held EXCEPT ![w] = 0]
        /\ pc' = [pc EXCEPT ![w] = "loop"]
        /\ UNCHANGED <<flag, tasks, owner, made, lost, starts>>
    BY DEF Run
  <1>1. w \in Pool /\ w # Producer /\ x \in Tasks /\ x # 0
    BY <1>0, TPAssumption DEF PoolInv, TypeOK, HeldWhere, Pool, Tasks
  <1>2. x <= made /\ ~Queued(tasks, x) /\ ran[x] = 0
    BY <1>1 DEF PoolInv, TasksAccounted
  <1>3. \A t \in Tasks : ran[t] \in Nat /\ ran'[t] = IF t = x THEN 1 ELSE ran[t]
    BY <1>0, <1>2 DEF PoolInv, TypeOK
  <1>4. \A a \in Pool : held'[a] = IF a = w THEN 0 ELSE held[a]
    BY <1>0 DEF PoolInv, TypeOK
  <1>5. TypeOK'
    <2>1. 0 \in 0 .. MaxTasks
      BY TPAssumption
    <2>2. ran' \in [Tasks -> Nat]
      BY <1>0, <1>1 DEF PoolInv, TypeOK
    <2> QED BY <1>0, <1>1, <2>1, <2>2 DEF PoolInv, TypeOK
  <1>6. PhasesAgree' /\ NoLostWakeup'
    BY <1>0, <1>1, TPAssumption DEF PoolInv, PhasesAgree, NoLostWakeup, TypeOK, Pool, Full
  <1>7. HeldWhere'
    BY <1>0, <1>1, <1>4 DEF PoolInv, HeldWhere, TypeOK, Pool
  <1>8. TasksAccounted'
    <2>1. NoneTwice(tasks') /\ \A t : Queued(tasks', t) <=> Queued(tasks, t)
      BY <1>0 DEF PoolInv, TasksAccounted, NoneTwice, Queued
    <2>2. \A a \in Pool : held'[a] # 0 => a # w /\ held'[a] = held[a] /\ held[a] # x
      BY <1>1, <1>4 DEF PoolInv, TasksAccounted, x
    <2>3. \A a \in Pool : held[a] # 0 => held[a] \in Tasks
      BY DEF PoolInv, TypeOK, Tasks
    <2> HIDE DEF x
    <2>4. \A a, b \in Pool : held'[a] # 0 /\ held'[a] = held'[b] => a = b
      BY <2>2 DEF PoolInv, TasksAccounted
    <2>5. \A a \in Pool : held'[a] # 0 =>
             held'[a] <= made' /\ ~Queued(tasks', held'[a]) /\ ran'[held'[a]] = 0
      BY <1>0, <1>3, <2>1, <2>2, <2>3 DEF PoolInv, TasksAccounted
    <2>6. \A t \in Tasks : /\ Queued(tasks', t) => t <= made' /\ ran'[t] = 0
                           /\ ran'[t] <= 1 /\ (t > made' => ran'[t] = 0)
      <3> SUFFICES ASSUME NEW t \in Tasks
                   PROVE  /\ Queued(tasks, t) => t <= made /\ ran'[t] = 0
                          /\ ran'[t] <= 1 /\ (t > made => ran'[t] = 0)
        BY <1>0, <2>1
      <3>1. CASE t = x
        <4>1. ran'[t] = 1 /\ ~(t > made)
          BY <1>2, <1>3, <3>1, TPAssumption DEF PoolInv, TypeOK, Tasks
        <4> QED BY <1>2, <3>1, <4>1
      <3>2. CASE t # x
        BY <1>3, <3>2 DEF PoolInv, TasksAccounted
      <3> QED BY <3>1, <3>2
    <2>7. \A t \in 1 .. made' : \/ Queued(tasks', t) \/ ran'[t] = 1 \/ t \in lost'
                                \/ \E a \in Pool : held'[a] = t
      <3> SUFFICES ASSUME NEW t \in 1 .. made, ~Queued(tasks, t), ran'[t] # 1, t \notin lost
                   PROVE  \E a \in Pool : held'[a] = t
        BY <1>0, <2>1
      <3>1. t \in Tasks /\ t # 0
        <4>1. made \in 0 .. MaxTasks
          BY DEF PoolInv, TypeOK
        <4> QED BY <4>1, TPAssumption DEF Tasks
      <3>2. t # x /\ ran[t] # 1
        BY <1>3, <3>1
      <3>3. PICK a \in Pool : held[a] = t
        BY <3>2 DEF PoolInv, TasksAccounted
      <3>4. a # w
        BY <3>2, <3>3 DEF x
      <3> QED BY <1>4, <3>3, <3>4
    <2> QED BY <2>1, <2>4, <2>5, <2>6, <2>7 DEF TasksAccounted
  <1>9. DropsBounded'
    <2>1. MayDrop' => MayDrop
      BY <1>0, <1>1 DEF MayDrop, PoolInv, TypeOK, Pool
    <2> QED BY <1>0, <2>1, NothingDropped DEF PoolInv
  <1> QED BY <1>5, <1>6, <1>7, <1>8, <1>9 DEF PoolInv
-----------------------------------------------------------------------------
(* The owner. *)

\* No thread of a stopped pool could drop a task, so the new round may.
LEMMA StartInv ==
  ASSUME PoolInv, Start
  PROVE  PoolInv'
  <1>0. /\ owner = "stopped" /\ starts < MaxStarts /\ flag' = TRUE
        /\ pc' = [t \in Pool |-> "loop"] /\ owner' = "up" /\ starts' = starts + 1
        /\ UNCHANGED <<tasks, held, made, ran, lost>>
    BY DEF Start
  <1>1. Producer \in Pool /\ \A t \in Pool : pc[t] = "exited" /\ held[t] = 0
    BY <1>0 DEF PoolInv, PhasesAgree, HeldWhere, Pool
  <1>2. TypeOK'
    <2>1. starts' \in 0 .. MaxStarts
      BY <1>0, TPAssumption DEF PoolInv, TypeOK
    <2> QED BY <1>0, <2>1 DEF PoolInv, TypeOK
  <1>3. PhasesAgree' /\ HeldWhere' /\ NoLostWakeup'
    BY <1>0, <1>1 DEF PhasesAgree, HeldWhere, NoLostWakeup, Pool
  <1>4. DropsBounded'
    <2>1. ~MayDrop /\ MayDrop'
      BY <1>0, <1>1 DEF MayDrop
    <2> QED BY <1>0, <2>1, LostCount DEF DropsBounded, PoolInv, TypeOK
  <1> QED BY <1>0, <1>2, <1>3, <1>4, TasksStay DEF PoolInv

LEMMA ClearFlagInv ==
  ASSUME PoolInv, ClearFlag
  PROVE  PoolInv'
  <1>0. /\ owner = "up" /\ flag' = FALSE /\ owner' = "notify_empty"
        /\ UNCHANGED <<tasks, pc, held, made, ran, lost, starts>>
    BY DEF ClearFlag
  <1>1. TypeOK' /\ PhasesAgree' /\ HeldWhere' /\ NoLostWakeup'
    BY <1>0 DEF PoolInv, TypeOK, PhasesAgree, HeldWhere, NoLostWakeup
  <1>2. DropsBounded'
    <2>1. MayDrop' => MayDrop
      BY <1>0 DEF MayDrop
    <2> QED BY <1>0, <2>1, NothingDropped DEF PoolInv
  <1> QED BY <1>0, <1>1, <1>2, TasksStay DEF PoolInv

LEMMA JoinInv ==
  ASSUME PoolInv, Join
  PROVE  PoolInv'
  <1>0. /\ owner = "join" /\ owner' = "clean" /\ \A t \in Pool : pc[t] = "exited"
        /\ UNCHANGED <<flag, tasks, pc, held, made, ran, lost, starts>>
    BY DEF Join
  <1>1. TypeOK' /\ PhasesAgree' /\ HeldWhere' /\ NoLostWakeup'
    BY <1>0 DEF PoolInv, TypeOK, PhasesAgree, HeldWhere, NoLostWakeup
  <1>2. DropsBounded'
    <2>1. MayDrop' => MayDrop
      BY <1>0 DEF MayDrop
    <2> QED BY <1>0, <2>1, NothingDropped DEF PoolInv
  <1> QED BY <1>0, <1>1, <1>2, TasksStay DEF PoolInv

\* The threads are gone, so nobody else has the task _M_clean_task runs.
LEMMA CleanTaskInv ==
  ASSUME PoolInv, CleanTask
  PROVE  PoolInv'
  <1>0. owner = "clean" /\ UNCHANGED <<flag, pc, held, made, lost, starts>>
    BY DEF CleanTask
  <1>1. ~flag /\ \A t \in Pool : pc[t] = "exited" /\ held[t] = 0
    BY <1>0 DEF PoolInv, PhasesAgree, HeldWhere, Pool
  <1>2. DropsBounded'
    <2>1. MayDrop' => MayDrop
      BY <1>0 DEF MayDrop
    <2> QED BY <1>0, <2>1, NothingDropped DEF PoolInv
  <1>3. CASE tasks = << >>
    <2>0. owner' = "stopped" /\ UNCHANGED <<tasks, ran>>
      BY <1>3 DEF CleanTask
    <2>1. TypeOK' /\ PhasesAgree' /\ HeldWhere' /\ NoLostWakeup'
      BY <1>0, <1>1, <1>3, <2>0 DEF PoolInv, TypeOK, PhasesAgree, HeldWhere, NoLostWakeup
    <2> QED BY <1>0, <1>2, <2>0, <2>1, TasksStay DEF PoolInv
  <1>4. CASE tasks # << >>
    <2> DEFINE x == Head(tasks)
    <2>0. tasks' = Tail(tasks) /\ ran' = [ran EXCEPT ![x] = @ + 1] /\ UNCHANGED owner
      BY <1>4 DEF CleanTask
    <2>1. /\ tasks' \in Seq(Tasks) /\ Len(tasks') = Len(tasks) - 1 /\ NoneTwice(tasks')
          /\ x \in Tasks /\ Queued(tasks, x)
          /\ \A t \in Tasks : Queued(tasks', t) <=> Queued(tasks, t) /\ t # x
      <3>1. tasks \in Seq(Tasks) /\ NoneTwice(tasks)
        BY DEF PoolInv, TypeOK, TasksAccounted
      <3> QED BY <1>4, <2>0, <3>1, QueueTail
    <2> HIDE DEF x
    <2>2. x <= made /\ ran[x] = 0
      BY <2>1 DEF PoolInv, TasksAccounted
    <2>3. \A t \in Tasks : ran[t] \in Nat /\ ran'[t] = IF t = x THEN 1 ELSE ran[t]
      BY <2>0, <2>2 DEF PoolInv, TypeOK
    <2>4. TypeOK'
      <3>1. Len(tasks) \in Nat /\ Len(tasks') <= QueueSize
        BY <2>1, TPAssumption DEF PoolInv, TypeOK
      <3>2. ran' \in [Tasks -> Nat]
        BY <2>0, <2>1 DEF PoolInv, TypeOK
      <3> QED BY <1>0, <2>0, <2>1, <3>1, <3>2 DEF PoolInv, TypeOK
    <2>5. PhasesAgree' /\ HeldWhere' /\ NoLostWakeup'
      BY <1>0, <2>0 DEF PoolInv, PhasesAgree, HeldWhere, NoLostWakeup
    <2>6. TasksAccounted'
      <3>1. \A t \in Tasks : /\ Queued(tasks', t) => t <= made' /\ ran'[t] = 0
                             /\ ran'[t] <= 1 /\ (t > made' => ran'[t] = 0)
        <4> SUFFICES ASSUME NEW t \in Tasks
                     PROVE  /\ Queued(tasks', t) => t <= made /\ ran'[t] = 0
                            /\ ran'[t] <= 1 /\ (t > made => ran'[t] = 0)
          BY <1>0
        <4>1. CASE t = x
          <5>1. ran'[t] = 1 /\ ~(t > made)
            BY <2>2, <2>3, <4>1, TPAssumption DEF PoolInv, TypeOK, Tasks
          <5> QED BY <2>1, <4>1, <5>1
        <4>2. CASE t # x
          BY <2>1, <2>3, <4>2 DEF PoolInv, TasksAccounted
        <4> QED BY <4>1, <4>2
      <3>2. ASSUME NEW t \in 1 .. made, ~Queued(tasks', t), ran'[t] # 1
            PROVE  t \in lost
        <4>1. t \in Tasks /\ t # 0
          <5>1. made \in 0 .. MaxTasks
            BY DEF PoolInv, TypeOK
          <5> QED BY <5>1, TPAssumption DEF Tasks
        <4>2. t # x /\ ran[t] # 1
          BY <2>3, <3>2, <4>1
        <4>3. ~Queued(tasks, t)
          BY <2>1, <3>2, <4>1, <4>2
        <4> QED BY <1>1, <4>1, <4>2, <4>3 DEF PoolInv, TasksAccounted
      <3> QED BY <1>0, <1>1, <2>1, <3>1, <3>2 DEF TasksAccounted
    <2> QED BY <1>2, <2>4, <2>5, <2>6 DEF PoolInv
  <1> QED BY <1>3, <1>4
-----------------------------------------------------------------------------
LEMMA WorkerInv ==
  ASSUME PoolInv, NEW w \in Workers, WorkerStep(w)
  PROVE  PoolInv'
  <1>0. w \in Pool /\ w # Producer
    BY TPAssumption DEF Pool
  <1>1. CASE TestFlag(w)
    <2>1. CASE flag
      BY <1>0, <1>1, <2>1, ThreadMoves DEF TestFlag
    <2>2. CASE ~flag
      BY <1>0, <1>1, <2>2, ThreadMoves DEF TestFlag
    <2> QED BY <2>1, <2>2
  <1>2. CASE GetTask(w)
    <2>1. CASE ~flag
      BY <1>0, <1>2, <2>1, ThreadMoves DEF GetTask
    <2>2. CASE flag /\ tasks = << >>
      BY <1>0, <1>2, <2>2, ThreadMoves DEF GetTask
    <2>3. CASE flag /\ tasks # << >>
      BY <1>2, <2>3, TakeInv
    <2> QED BY <2>1, <2>2, <2>3
  <1>3. CASE Run(w)
    BY <1>3, RunInv
  <1> QED BY <1>1, <1>2, <1>3 DEF WorkerStep

LEMMA ProducerInv ==
  ASSUME PoolInv, Produce \/ AddTask
  PROVE  PoolInv'
  <1>0. Producer \in Pool
    BY DEF Pool
  <1>1. CASE Produce
    <2>1. CASE ~flag
      BY <1>0, <1>1, <2>1, ThreadMoves DEF Produce
    <2> QED BY <1>1, <2>1, MakeInv
  <1>2. CASE AddTask
    <2>1. CASE flag /\ Full
      BY <1>0, <1>2, <2>1, ThreadMoves DEF AddTask
    <2> QED BY <1>2, <2>1, DropInv, StoreInv
  <1> QED BY <1>1, <1>2

LEMMA BlockInv ==
  ASSUME PoolInv, NEW t \in Pool, Block(t)
  PROVE  PoolInv'
  <1>1. flag => (IF t = Producer THEN Full ELSE tasks = << >>)
    BY DEF Block, PoolInv, PhasesAgree, NoLostWakeup, Pool
  <1> QED BY <1>1, ThreadMoves DEF Block

\* The inductive step.
LEMMA NextInv == PoolInv /\ [Next]_vars => PoolInv'
  <1> SUFFICES ASSUME PoolInv, [Next]_vars PROVE PoolInv'
    OBVIOUS
  <1>1. CASE Start BY <1>1, StartInv
  <1>2. CASE ClearFlag BY <1>2, ClearFlagInv
  <1>3. CASE NotifyEmpty
    BY <1>3, NotifyInv DEF NotifyEmpty, Pool
  <1>4. CASE NotifyFull
    BY <1>4, NotifyInv DEF NotifyFull, Pool
  <1>5. CASE Join BY <1>5, JoinInv
  <1>6. CASE CleanTask BY <1>6, CleanTaskInv
  <1>7. CASE Produce \/ AddTask BY <1>7, ProducerInv
  <1>8. CASE \E w \in Workers : WorkerStep(w) BY <1>8, WorkerInv
  <1>9. CASE \E t \in Pool : Block(t) BY <1>9, BlockInv
  <1>10. CASE UNCHANGED vars
    BY <1>10 DEF vars, PoolInv, TypeOK, PhasesAgree, HeldWhere, NoLostWakeup, Full,
                 TasksAccounted, NoneTwice, Queued, DropsBounded, MayDrop
  <1> QED BY <1>1, <1>2, <1>3, <1>4, <1>5, <1>6, <1>7, <1>8, <1>9, <1>10 DEF Next, OwnerStep

\* The invariant that carries the theorems below: types, the phases of the
\* pool, who holds a task, where every task is, and how many may be dropped.
THEOREM PoolInvariant == Spec => []PoolInv
  BY PoolInitInv, NextInv, PTL DEF Spec

\* _M_add_task and _M_get_task test and sleep under _M_mutex and notify_all
\* after every change of the queue: while the pool is up nobody sleeps on a
\* predicate that became true.
THEOREM NoWakeupIsLost == Spec => []NoLostWakeup
  <1>1. PoolInv => NoLostWakeup
    BY DEF PoolInv
  <1> QED BY <1>1, PoolInvariant, PTL

\* No task is run twice; when _M_stop has returned every task made has been
\* run or was dropped by _M_add_task, one at most for each _M_start.
THEOREM TasksAreSettled == Spec => []TasksSettled
  <1>1. PoolInv => TasksSettled
    <2> SUFFICES ASSUME PoolInv PROVE TasksSettled
      OBVIOUS
    <2>1. \A t \in Tasks : ran[t] <= 1
      BY DEF PoolInv, TasksAccounted
    <2>2. ASSUME owner = "stopped", NEW t \in 1 .. made PROVE ran[t] = 1 \/ t \in lost
      <3>1. ~Queued(tasks, t)
        BY <2>2 DEF PoolInv, PhasesAgree, Queued
      <3>2. \A a \in Pool : held[a] = 0
        BY <2>2 DEF PoolInv, PhasesAgree, HeldWhere, Pool
      <3>3. t # 0
        OBVIOUS
      <3> QED BY <3>1, <3>2, <3>3 DEF PoolInv, TasksAccounted
    <2>3. Cardinality(lost) <= starts
      BY LostCount DEF PoolInv, DropsBounded, TypeOK
    <2> QED BY <2>1, <2>2, <2>3 DEF TasksSettled
  <1> QED BY <1>1, PoolInvariant, PTL
=============================================================================
