----------------------------- MODULE MultiLock -----------------------------
(***************************************************************************)
(* multi_process_lock/multi_process_lock.h: a lock between processes made  *)
(* of a named POSIX semaphore.  The constructor opens or creates the       *)
(* semaphore and waits on it, the destructor posts, closes and unlinks it. *)
(* A semaphore that was unlinked lives on for the processes that have it   *)
(* open, and the next sem_open of the name creates another one.            *)
(***************************************************************************)
EXTENDS Naturals, Sequences

CONSTANTS Processes,
          MaxLocks,   \* bound: locks a process takes one after the other
          MayCrash    \* whether a process may die anywhere

ASSUME MLAssumption == MaxLocks \in Nat /\ MayCrash \in BOOLEAN

VARIABLES stage,      \* where each process is
          handle,  \* m_psem: the semaphore a process has open, 0 for none
          named,   \* the semaphore the name stands for, 0 for none
          value,   \* the values of the semaphores created so far
          locks    \* locks each process has begun to take

lockVars == <<stage, handle, named, value, locks>>

LockInit ==
    /\ stage = [p \in Processes |-> "out"]
    /\ handle = [p \in Processes |-> 0]
    /\ named = 0
    /\ value = << >>
    /\ locks = [p \in Processes |-> 0]

\* Mutant: a new semaphore lets two processes in.
InitialValue_Two == 2
\* The value sem_open gives a semaphore it creates.
InitialValue == 1

\* sem_open with O_CREAT: the semaphore of that name, or a new one.
Open(p) ==
    /\ stage[p] = "out" /\ locks[p] < MaxLocks
    /\ locks' = [locks EXCEPT ![p] = @ + 1]
    /\ \/ /\ named # 0
          /\ handle' = [handle EXCEPT ![p] = named]
          /\ UNCHANGED <<named, value>>
       \/ /\ named = 0
          /\ value' = Append(value, InitialValue)
          /\ named' = Len(value')
          /\ handle' = [handle EXCEPT ![p] = named']
    /\ stage' = [stage EXCEPT ![p] = "wait"]

\* sem_wait of the constructor.
Enter(p) ==
    /\ stage[p] = "wait" /\ value[handle[p]] > 0
    /\ value' = [value EXCEPT ![handle[p]] = @ - 1]
    /\ stage' = [stage EXCEPT ![p] = "in"]
    /\ UNCHANGED <<handle, named, locks>>

\* Mutant: the destructor forgets to post.
Post_Forgotten(p) ==
    /\ stage[p] = "in"
    /\ stage' = [stage EXCEPT ![p] = "close"]
    /\ UNCHANGED <<handle, named, value, locks>>

\* The destructor: sem_post, sem_close, sem_unlink.
Post(p) ==
    /\ stage[p] = "in"
    /\ value' = [value EXCEPT ![handle[p]] = @ + 1]
    /\ stage' = [stage EXCEPT ![p] = "close"]
    /\ UNCHANGED <<handle, named, locks>>

Close(p) ==
    /\ stage[p] = "close"
    /\ handle' = [handle EXCEPT ![p] = 0]
    /\ stage' = [stage EXCEPT ![p] = "unlink"]
    /\ UNCHANGED <<named, value, locks>>

Unlink(p) ==
    /\ stage[p] = "unlink"
    /\ named' = 0
    /\ stage' = [stage EXCEPT ![p] = "out"]
    /\ UNCHANGED <<handle, value, locks>>

\* The process dies: its semaphores are closed, nothing is posted.
Crash(p) ==
    /\ MayCrash /\ stage[p] \notin {"out", "dead"}
    /\ stage' = [stage EXCEPT ![p] = "dead"]
    /\ handle' = [handle EXCEPT ![p] = 0]
    /\ UNCHANGED <<named, value, locks>>

Step(p) == Open(p) \/ Enter(p) \/ Post(p) \/ Close(p) \/ Unlink(p)

LockNext == \E p \in Processes : Step(p) \/ Crash(p)

LockSpec == LockInit /\ [][LockNext]_lockVars

\* A process that has begun to take or release the lock goes on, and sem_wait
\* lets a waiter through when the semaphore is up again and again.
LockFairSpec == LockSpec /\ \A p \in Processes : SF_lockVars(Step(p))

-----------------------------------------------------------------------------
\* Every variable has its type; no semaphore ever lets in more than one.
LockTypeOK ==
    /\ stage \in [Processes -> {"out", "wait", "in", "close", "unlink", "dead"}]
    /\ value \in Seq({0, 1})
    /\ handle \in [Processes -> 0 .. Len(value)]
    /\ named \in 0 .. Len(value)
    /\ locks \in [Processes -> 0 .. MaxLocks]

\* The processes inside with the same semaphore: at most one, whatever crashes.
ExclusivePerSemaphore ==
    \A p, q \in Processes :
        stage[p] = "in" /\ stage[q] = "in" /\ handle[p] = handle[q] => p = q

\* The lock as its users mean it: one process at a time between constructor
\* and destructor.  It fails as soon as the name is unlinked under a waiter.
MutualExclusion == \A p, q \in Processes : stage[p] = "in" /\ stage[q] = "in" => p = q

\* Unless a process dies, one that waits for the lock gets it, also when the
\* semaphore it has open is unlinked under it.
NoneDies == [](\A p \in Processes : stage[p] # "dead")
WaitersEnter == NoneDies => \A p \in Processes : stage[p] = "wait" ~> stage[p] = "in"
=============================================================================
