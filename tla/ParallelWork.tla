---------------------------- MODULE ParallelWork ----------------------------
(***************************************************************************)
(* async-thread-manager/async.h: ParallelWork runs one function per worker *)
(* thread, round after round.  A client sets threads up, calls Start and   *)
(* Wait for each round and Exit at the end, as test.cpp does.              *)
(*                                                                         *)
(* One action is one stretch of code under _M_mtx, or one access made      *)
(* without it (SetUp, Reset, and the tests of lines 157 and 161).  The     *)
(* spinning loops WaitReady and WaitExit are guards: they release _M_mtx   *)
(* between two looks and proceed from the look that succeeds.              *)
(* An entry may be set up without a function: its thread goes round and     *)
(* round while the round lasts, and the round does not end (line 161).      *)
(***************************************************************************)
EXTENDS Naturals

CONSTANTS Threads,  \* the entries of _M_threads
          Clients,  \* the threads that call the public operations
          Funcs     \* what SetUp may be given: TRUE a function, FALSE nullptr

ASSUME PWAssumption == Funcs \subseteq BOOLEAN

VARIABLES mStatus,   \* _M_status: "init", "running", "done" or "exit"
          status,    \* status of each entry: "init", "running" or "done"
          ready,     \* ready of each entry
          exited,    \* exit of each entry
          call,      \* call of each entry: FALSE is nullptr
          pc,        \* where the thread of each entry is; "none": no thread
          cpc,       \* where each client is
          ran        \* entries whose function was called since the last Start

vars == <<mStatus, status, ready, exited, call, pc, cpc, ran>>
entries == <<status, ready, exited, call>>

Active == {t \in Threads : status[t] # "init"}

\* The answers of the three scans of _M_threads.
IsBusy  == \E t \in Active : status[t] = "running"
IsReady == \A t \in Active : ready[t]
IsExit  == \A t \in Active : exited[t]

Init ==
    /\ mStatus = "init"
    /\ status = [t \in Threads |-> "init"]
    /\ ready = [t \in Threads |-> FALSE]
    /\ exited = [t \in Threads |-> FALSE]
    /\ call = [t \in Threads |-> FALSE]
    /\ pc = [t \in Threads |-> "none"]
    /\ cpc = [c \in Clients |-> "idle"]
    /\ ran = {}

\* Mutant: the notify of a condition variable reaches nobody.
Notified_None(f, dom, asleep, awake) == f
\* f after the notify_all of a condition variable.
Notified(f, dom, asleep, awake) ==
    [x \in dom |-> IF f[x] = asleep THEN awake ELSE f[x]]

-----------------------------------------------------------------------------
(* The worker threads: the lambda of __CreateThread. *)

\* Top of the loop: announce readiness, then wait on _M_start_cv if need be.
GetReady(t) ==
    /\ pc[t] = "ready"
    /\ status' = [status EXCEPT ![t] = "running"]
    /\ ready' = [ready EXCEPT ![t] = TRUE]
    /\ pc' = [pc EXCEPT ![t] =
                 IF mStatus \in {"exit", "running"} THEN "check" ELSE "start_wait"]
    /\ UNCHANGED <<mStatus, exited, call, cpc, ran>>

\* A thread in _M_start_cv.wait tests the predicate again.
WakeToStart(t) ==
    /\ pc[t] \in {"start_wait", "start_wake"}
    /\ pc' = [pc EXCEPT ![t] =
                 IF mStatus \in {"exit", "running"} THEN "check" ELSE "start_wait"]
    /\ UNCHANGED <<mStatus, entries, cpc, ran>>

\* Lines 157 to 162, without _M_mtx: exit, go round again, or call.
CheckExit(t) ==
    /\ pc[t] = "check"
    /\ pc' = [pc EXCEPT ![t] = IF mStatus = "exit" THEN "exiting"
                               ELSE IF call[t] THEN "call" ELSE "ready"]
    /\ UNCHANGED <<mStatus, entries, cpc, ran>>

Call(t) ==
    /\ pc[t] = "call"
    /\ ran' = ran \cup {t}
    /\ pc' = [pc EXCEPT ![t] = "finish"]
    /\ UNCHANGED <<mStatus, entries, cpc>>

\* Mutant: the test for other busy threads is left out.
Finish_First(t) ==
    /\ pc[t] = "finish"
    /\ status' = [status EXCEPT ![t] = "done"]
    /\ mStatus' = "done"
    /\ pc' = [Notified(pc, Threads, "done_wait", "done_wake") EXCEPT ![t] = "ready"]
    /\ cpc' = Notified(cpc, Clients, "asleep", "awake")
    /\ UNCHANGED <<ready, exited, call, ran>>

\* After the call: the last thread to finish ends the round for all of them.
Finish(t) ==
    /\ pc[t] = "finish"
    /\ status' = [status EXCEPT ![t] = "done"]
    /\ \/ /\ IsBusy'
          /\ pc' = [pc EXCEPT ![t] = IF mStatus = "done" THEN "ready" ELSE "done_wait"]
          /\ UNCHANGED <<mStatus, cpc>>
       \/ /\ ~IsBusy'
          /\ mStatus' = "done"
          /\ pc' = [Notified(pc, Threads, "done_wait", "done_wake") EXCEPT ![t] = "ready"]
          /\ cpc' = Notified(cpc, Clients, "asleep", "awake")
    /\ UNCHANGED <<ready, exited, call, ran>>

\* A worker in _M_done_cv.wait tests the predicate again.
WakeFromDone(t) ==
    /\ pc[t] \in {"done_wait", "done_wake"}
    /\ pc' = [pc EXCEPT ![t] = IF mStatus = "done" THEN "ready" ELSE "done_wait"]
    /\ UNCHANGED <<mStatus, entries, cpc, ran>>

ExitThread(t) ==
    /\ pc[t] = "exiting"
    /\ exited' = [exited EXCEPT ![t] = TRUE]
    /\ pc' = [pc EXCEPT ![t] = "gone"]
    /\ UNCHANGED <<mStatus, status, ready, call, cpc, ran>>

-----------------------------------------------------------------------------
(* The client. *)

\* SetUp, while nobody is in a round: fills the entry and creates its thread
\* if it has none.
SetUp(t) ==
    /\ \A c \in Clients : cpc[c] = "idle"
    /\ \E f \in Funcs : call' = [call EXCEPT ![t] = f]
    /\ status' = [status EXCEPT ![t] = "running"]
    /\ pc' = [pc EXCEPT ![t] = IF @ = "none" THEN "ready" ELSE @]
    /\ UNCHANGED <<mStatus, ready, exited, cpc, ran>>

Goto(c, from, to) == cpc[c] \in from /\ cpc' = [cpc EXCEPT ![c] = to]

\* Start: the client enters WaitReady; callers have set up some thread.
CallStart(c) ==
    /\ Active # {}
    /\ Goto(c, {"idle", "run"}, "start")
    /\ UNCHANGED <<mStatus, entries, pc, ran>>

\* Mutant: Start does not wait for the threads to be ready.
StartReady_NoWait(c) ==
    Goto(c, {"start"}, "begin") /\ UNCHANGED <<mStatus, entries, pc, ran>>

\* WaitReady has seen every thread ready and has released _M_mtx.
StartReady(c) ==
    /\ IsReady
    /\ Goto(c, {"start"}, "begin")
    /\ UNCHANGED <<mStatus, entries, pc, ran>>

\* Mutant: Start does not clear the ready flags.
Begin_KeepReady(c) ==
    /\ Goto(c, {"begin"}, "run")
    /\ mStatus' = "running"
    /\ pc' = Notified(pc, Threads, "start_wait", "start_wake")
    /\ ran' = {}
    /\ UNCHANGED <<status, ready, exited, call>>

\* The rest of Start, under _M_mtx.
Begin(c) ==
    /\ Goto(c, {"begin"}, "run")
    /\ mStatus' = "running"
    /\ ready' = [t \in Threads |-> FALSE]
    /\ pc' = Notified(pc, Threads, "start_wait", "start_wake")
    /\ ran' = {}
    /\ UNCHANGED <<status, exited, call>>

\* Wait: the client tests the predicate, first on entry and then when woken.
Wait(c) ==
    /\ cpc[c] \in {"run", "asleep", "awake"}
    /\ cpc' = [cpc EXCEPT ![c] = IF mStatus = "done" THEN "idle" ELSE "asleep"]
    /\ UNCHANGED <<mStatus, entries, pc, ran>>

CallExit(c) ==
    /\ Goto(c, {"idle", "run"}, "exit")
    /\ UNCHANGED <<mStatus, entries, pc, ran>>

\* Exit: WaitReady, SetExit, WakeUp, WaitExit, Reset.
ExitReady(c) ==
    /\ IsReady
    /\ Goto(c, {"exit"}, "set_exit")
    /\ UNCHANGED <<mStatus, entries, pc, ran>>

SetExit(c) ==
    /\ Goto(c, {"set_exit"}, "wake_up")
    /\ mStatus' = "exit"
    /\ UNCHANGED <<entries, pc, ran>>

WakeUp(c) ==
    /\ Goto(c, {"wake_up"}, "wait_exit")
    /\ pc' = Notified(pc, Threads, "start_wait", "start_wake")
    /\ UNCHANGED <<mStatus, entries, ran>>

\* Mutant: Exit does not wait for the threads to leave.
WaitExit_NoWait(c) ==
    Goto(c, {"wait_exit"}, "reset") /\ UNCHANGED <<mStatus, entries, pc, ran>>

WaitExit(c) ==
    /\ IsExit
    /\ Goto(c, {"wait_exit"}, "reset")
    /\ UNCHANGED <<mStatus, entries, pc, ran>>

\* Reset, without _M_mtx: every entry in use is emptied, its thread forgotten.
Reset(c) ==
    /\ Goto(c, {"reset"}, "idle")
    /\ mStatus' = "init"
    /\ status' = [t \in Threads |-> "init"]
    /\ ready' = [t \in Threads |-> IF t \in Active THEN FALSE ELSE ready[t]]
    /\ exited' = [t \in Threads |-> IF t \in Active THEN FALSE ELSE exited[t]]
    /\ call' = [t \in Threads |-> IF t \in Active THEN FALSE ELSE call[t]]
    /\ pc' = [t \in Threads |-> IF t \in Active THEN "none" ELSE pc[t]]
    /\ ran' = {}

-----------------------------------------------------------------------------
Worker(t) == \/ GetReady(t) \/ WakeToStart(t) \/ CheckExit(t) \/ Call(t)
             \/ Finish(t) \/ WakeFromDone(t) \/ ExitThread(t)

\* What a client inside an operation does next.
Proceed(c) == \/ StartReady(c) \/ Begin(c) \/ Wait(c) \/ ExitReady(c)
              \/ SetExit(c) \/ WakeUp(c) \/ WaitExit(c) \/ Reset(c)

Next == \/ \E t \in Threads : Worker(t) \/ SetUp(t)
        \/ \E c \in Clients : Proceed(c) \/ CallStart(c) \/ CallExit(c)

Spec == Init /\ [][Next]_vars

\* Threads run, mutexes are granted, and a client inside Start, Wait or Exit
\* goes on with it.  A sleeper is not assumed to wake without a notify, and a
\* client is not assumed to call anything.
Fairness ==
    /\ \A t \in Threads :
          WF_vars(pc[t] \notin {"start_wait", "done_wait"} /\ Worker(t))
    /\ \A c \in Clients :
          WF_vars(cpc[c] \notin {"run", "asleep"} /\ Proceed(c))

FairSpec == Spec /\ Fairness

-----------------------------------------------------------------------------
\* Every variable has its type, and an entry is in use iff it has a thread.
TypeOK ==
    /\ mStatus \in {"init", "running", "done", "exit"}
    /\ status \in [Threads -> {"init", "running", "done"}]
    /\ ready \in [Threads -> BOOLEAN]
    /\ exited \in [Threads -> BOOLEAN]
    /\ call \in [Threads -> BOOLEAN]
    /\ pc \in [Threads -> {"none", "ready", "start_wait", "start_wake", "check",
                           "call", "finish", "done_wait", "done_wake",
                           "exiting", "gone"}]
    /\ cpc \in [Clients -> {"idle", "start", "begin", "run", "asleep", "awake",
                            "exit", "set_exit", "wake_up", "wait_exit", "reset"}]
    /\ ran \subseteq Threads
    /\ \A t \in Threads : status[t] = "init" <=> pc[t] = "none"

\* A round that Wait may report as over is over: while the client has not
\* begun anything else, _M_status = e_done only when the function of every
\* entry that was set up has been called and no thread is inside one.
DoneMeansAllRan ==
    \A c \in Clients :
        cpc[c] \in {"run", "asleep", "awake"} /\ mStatus = "done" =>
            /\ Active \subseteq ran
            /\ \A t \in Threads : pc[t] \notin {"check", "call", "finish"}

\* No wakeup of a round is lost: a thread sleeps in _M_start_cv only while no
\* round runs, and in _M_done_cv (worker or client) only until one is done;
\* between SetExit and WakeUp the sleepers have a notify coming.
NoLostWakeup ==
    /\ \A t \in Threads :
          /\ pc[t] = "start_wait" =>
                \/ mStatus \in {"init", "done"}
                \/ mStatus = "exit" /\ \E c \in Clients : cpc[c] = "wake_up"
          /\ pc[t] = "done_wait" => mStatus = "running"
    /\ \A c \in Clients : cpc[c] = "asleep" => mStatus = "running"

\* Exit empties an entry only when its thread will not touch it again.
ResetLeavesNoThread ==
    (\E c \in Clients : cpc[c] = "reset") => \A t \in Threads : pc[t] \in {"none", "gone"}

\* Line 149: all threads are ready when Start starts them, although WaitReady
\* has released _M_mtx by then.
ReadyBeforeStart ==
    [][\A c \in Clients : cpc[c] = "begin" /\ cpc'[c] = "run" => IsReady]_vars

\* Rounds, calls and the team, those entries in use that have a function,
\* behave as ForkJoin says.
Team == {t \in Active : call[t]}
Rounds == INSTANCE ForkJoin WITH Workers <- Threads, team <- Team,
                                 open <- mStatus = "running", called <- ran
ForkJoinSpec == Rounds!Spec

\* Start and Exit return, and so does Wait, unless they wait for a round with an
\* entry that has no function: that entry stays busy, and the round open.
OperationsReturn ==
    \A c \in Clients :
        /\ cpc[c] = "start" /\ (mStatus # "running" \/ Team = Active) ~> cpc[c] = "run"
        /\ cpc[c] \in {"asleep", "awake"} /\ Team = Active ~> cpc[c] = "idle"
        /\ cpc[c] = "exit" /\ (mStatus # "running" \/ Team = Active) ~> cpc[c] = "idle"
=============================================================================
