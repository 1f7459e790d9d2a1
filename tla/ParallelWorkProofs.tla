------------------------- MODULE ParallelWorkProofs -------------------------
(***************************************************************************)
(* Proofs about ParallelWork used by one client: for any set of threads,   *)
(* and whether or not some entries hold a null function.                   *)
(***************************************************************************)
EXTENDS ParallelWork, TLAPS

OneClient == \E c : Clients = {c}

-----------------------------------------------------------------------------
(* The inductive invariant.  It says where a thread can be in each value of *)
(* _M_status, and what _M_status can be at each point of the client.        *)

\* ready[t] is a promise only outside a round: then it means that the thread
\* sleeps in _M_start_cv.  In a round it is FALSE for every callable entry.
ThreadInv(t) ==
    /\ exited[t] <=> pc[t] = "gone"
    /\ pc[t] = "none" => ~ready[t]
    /\ pc[t] \in {"start_wait", "start_wake", "check", "call", "finish"} =>
          status[t] = "running"
    /\ mStatus = "init" => pc[t] \in {"none", "ready", "start_wait"}
    /\ mStatus = "done" => pc[t] \in {"none", "ready", "start_wait", "done_wake"}
    /\ mStatus \in {"init", "done"} /\ ready[t] => pc[t] = "start_wait"
    /\ mStatus = "running" =>
          /\ pc[t] \in {"none", "ready", "start_wake", "check",
                        "call", "finish", "done_wait"}
          /\ t \in ran <=> pc[t] \in {"finish", "done_wait"}
          /\ status[t] = "done" <=> pc[t] = "done_wait"
          /\ pc[t] \in {"call", "finish", "done_wait"} => call[t]
          /\ call[t] /\ pc[t] # "none" => pc[t] # "ready" /\ ~ready[t]
    /\ mStatus = "exit" =>
          pc[t] \in {"none", "ready", "start_wait", "start_wake", "check",
                     "exiting", "gone"}

ClientInv(c) ==
    /\ cpc[c] = "idle" => mStatus \in {"init", "done"}
    /\ cpc[c] = "run" => mStatus \in {"running", "done"}
    /\ cpc[c] = "asleep" => mStatus = "running"
    /\ cpc[c] = "awake" => mStatus = "done"
    /\ cpc[c] \in {"run", "awake"} /\ mStatus = "done" => Active \subseteq ran
    /\ cpc[c] \in {"start", "begin", "exit", "set_exit"} => mStatus # "exit"
    /\ cpc[c] \in {"begin", "set_exit"} => IsReady
    /\ cpc[c] \in {"wake_up", "wait_exit", "reset"} => mStatus = "exit"
    /\ cpc[c] \in {"wait_exit", "reset"} => \A t \in Threads : pc[t] # "start_wait"
    /\ cpc[c] = "reset" => IsExit

Inv == /\ TypeOK
       /\ \A t \in Threads : ThreadInv(t)
       /\ \A c \in Clients : ClientInv(c)

LEMMA InitInv == Init => Inv
  BY DEF Init, Inv, TypeOK, ThreadInv, ClientInv, Active, IsReady, IsExit

-----------------------------------------------------------------------------
(* Steps of a worker. *)

LEMMA GetReadyInv ==
  ASSUME Inv, NEW t \in Threads, GetReady(t)
  PROVE  Inv'
  <1> USE DEF Inv
  <1>1. TypeOK'
    BY DEF GetReady, TypeOK
  <1>2. ASSUME NEW u \in Threads PROVE ThreadInv(u)'
    BY DEF GetReady, TypeOK, ThreadInv
  <1>3. ASSUME NEW c \in Clients PROVE ClientInv(c)'
    BY DEF GetReady, TypeOK, ThreadInv, ClientInv, Active, IsReady, IsExit
  <1> QED BY <1>1, <1>2, <1>3

LEMMA WakeToStartInv ==
  ASSUME Inv, NEW t \in Threads, WakeToStart(t)
  PROVE  Inv'
  <1> USE DEF Inv
  <1>1. TypeOK'
    BY DEF WakeToStart, TypeOK, entries
  <1>2. ASSUME NEW u \in Threads PROVE ThreadInv(u)'
    BY DEF WakeToStart, TypeOK, ThreadInv, entries
  <1>3. ASSUME NEW c \in Clients PROVE ClientInv(c)'
    BY DEF WakeToStart, TypeOK, ThreadInv, ClientInv, Active, IsReady, IsExit, entries
  <1> QED BY <1>1, <1>2, <1>3

LEMMA CheckExitInv ==
  ASSUME Inv, NEW t \in Threads, CheckExit(t)
  PROVE  Inv'
  <1> USE DEF Inv
  <1>1. TypeOK'
    BY DEF CheckExit, TypeOK, entries
  <1>2. ASSUME NEW u \in Threads PROVE ThreadInv(u)'
    BY DEF CheckExit, TypeOK, ThreadInv, entries
  <1>3. ASSUME NEW c \in Clients PROVE ClientInv(c)'
    BY DEF CheckExit, TypeOK, ThreadInv, ClientInv, Active, IsReady, IsExit, entries
  <1> QED BY <1>1, <1>2, <1>3

LEMMA CallInv ==
  ASSUME Inv, NEW t \in Threads, Call(t)
  PROVE  Inv'
  <1> USE DEF Inv
  <1>1. TypeOK'
    BY DEF Call, TypeOK, entries
  <1>2. ASSUME NEW u \in Threads PROVE ThreadInv(u)'
    BY DEF Call, TypeOK, ThreadInv, entries
  <1>3. ASSUME NEW c \in Clients PROVE ClientInv(c)'
    BY DEF Call, TypeOK, ThreadInv, ClientInv, Active, IsReady, IsExit, entries
  <1> QED BY <1>1, <1>2, <1>3

LEMMA FinishInv ==
  ASSUME Inv, NEW t \in Threads, Finish(t)
  PROVE  Inv'
  <1> USE DEF Inv
  <1>0. mStatus = "running" /\ pc[t] = "finish" /\ status' = [status EXCEPT ![t] = "done"]
    BY DEF Finish, ThreadInv, TypeOK
  <1>1. CASE /\ IsBusy' /\ UNCHANGED <<mStatus, cpc, ready, exited, call, ran>>
             /\ pc' = [pc EXCEPT ![t] = "done_wait"]
    <2>1. TypeOK'
      BY <1>0, <1>1 DEF TypeOK
    <2>2. ASSUME NEW u \in Threads PROVE ThreadInv(u)'
      BY <1>0, <1>1 DEF TypeOK, ThreadInv
    <2>3. ASSUME NEW c \in Clients PROVE ClientInv(c)'
      BY <1>0, <1>1 DEF TypeOK, ThreadInv, ClientInv, Active, IsReady, IsExit
    <2> QED BY <2>1, <2>2, <2>3
  <1>2. CASE /\ ~IsBusy' /\ UNCHANGED <<ready, exited, call, ran>>
             /\ mStatus' = "done"
             /\ pc' = [Notified(pc, Threads, "done_wait", "done_wake")
                          EXCEPT ![t] = "ready"]
             /\ cpc' = Notified(cpc, Clients, "asleep", "awake")
    <2>1. TypeOK'
      BY <1>0, <1>2 DEF TypeOK, Notified
    <2>2. \A u \in Threads : pc[u] \in {"none", "finish", "done_wait"}
                             /\ (pc[u] = "finish" => u = t)
      BY <1>0, <1>2 DEF TypeOK, ThreadInv, IsBusy, Active
    <2>3. ASSUME NEW u \in Threads PROVE ThreadInv(u)'
      BY <1>0, <1>2, <2>2 DEF TypeOK, ThreadInv, Notified
    <2>4. Active' \subseteq ran'
      BY <1>0, <1>2, <2>2 DEF TypeOK, ThreadInv, Active
    <2>5. ASSUME NEW c \in Clients PROVE ClientInv(c)'
      <3>1. cpc[c] \notin {"idle", "wake_up", "wait_exit", "reset"}
        BY <1>0 DEF ClientInv
      <3>2. IsReady => IsReady'
        BY <1>0, <1>2 DEF TypeOK, IsReady, Active
      <3> QED BY <1>0, <1>2, <2>4, <3>1, <3>2 DEF TypeOK, ClientInv, Notified
    <2> QED BY <2>1, <2>3, <2>5
  <1> QED BY <1>0, <1>1, <1>2 DEF Finish

LEMMA WakeFromDoneInv ==
  ASSUME Inv, NEW t \in Threads, WakeFromDone(t)
  PROVE  Inv'
  <1> USE DEF Inv
  <1>1. TypeOK'
    BY DEF WakeFromDone, TypeOK, entries
  <1>2. ASSUME NEW u \in Threads PROVE ThreadInv(u)'
    BY DEF WakeFromDone, TypeOK, ThreadInv, entries
  <1>3. ASSUME NEW c \in Clients PROVE ClientInv(c)'
    BY DEF WakeFromDone, TypeOK, ThreadInv, ClientInv, Active, IsReady, IsExit, entries
  <1> QED BY <1>1, <1>2, <1>3

LEMMA ExitThreadInv ==
  ASSUME Inv, NEW t \in Threads, ExitThread(t)
  PROVE  Inv'
  <1> USE DEF Inv
  <1>1. TypeOK'
    BY DEF ExitThread, TypeOK
  <1>2. ASSUME NEW u \in Threads PROVE ThreadInv(u)'
    BY DEF ExitThread, TypeOK, ThreadInv
  <1>3. ASSUME NEW c \in Clients PROVE ClientInv(c)'
    BY DEF ExitThread, TypeOK, ThreadInv, ClientInv, Active, IsReady, IsExit
  <1> QED BY <1>1, <1>2, <1>3

-----------------------------------------------------------------------------
(* Steps of the client.  With one client, "every other client" is nobody.  *)

LEMMA SetUpInv ==
  ASSUME OneClient, Inv, NEW t \in Threads, SetUp(t)
  PROVE  Inv'
  <1> USE PWAssumption DEF Inv
  <1>1. mStatus \in {"init", "done"}
    BY DEF SetUp, ClientInv, OneClient
  <1>2. TypeOK'
    BY DEF SetUp, TypeOK
  <1>3. ASSUME NEW u \in Threads PROVE ThreadInv(u)'
    BY <1>1 DEF SetUp, TypeOK, ThreadInv
  <1>4. ASSUME NEW c \in Clients PROVE ClientInv(c)'
    BY <1>1 DEF SetUp, ClientInv
  <1> QED BY <1>2, <1>3, <1>4

\* The steps of the client that only move it from one point to the next.
LEMMA MoveInv ==
  ASSUME OneClient, Inv, NEW c \in Clients,
         CallStart(c) \/ StartReady(c) \/ CallExit(c) \/ ExitReady(c) \/ WaitExit(c)
  PROVE  Inv'
  <1> USE DEF Inv, Goto
  <1>1. UNCHANGED <<mStatus, entries, pc, ran>> /\ UNCHANGED <<Active, IsReady, IsExit>>
    BY DEF CallStart, StartReady, CallExit, ExitReady, WaitExit, entries,
           Active, IsReady, IsExit
  <1>2. TypeOK'
    BY <1>1 DEF CallStart, StartReady, CallExit, ExitReady, WaitExit, TypeOK, entries
  <1>3. ASSUME NEW u \in Threads PROVE ThreadInv(u)'
    BY <1>1 DEF ThreadInv, entries
  <1>4. ClientInv(c)'
    <2>1. CASE CallStart(c) \/ CallExit(c)
      BY <1>1, <2>1 DEF CallStart, CallExit, TypeOK, ClientInv
    <2>2. CASE StartReady(c) \/ ExitReady(c)
      BY <1>1, <2>2 DEF StartReady, ExitReady, TypeOK, ClientInv
    <2>3. CASE WaitExit(c)
      BY <1>1, <2>3 DEF WaitExit, TypeOK, ClientInv
    <2> QED BY <2>1, <2>2, <2>3
  <1> QED BY <1>2, <1>3, <1>4 DEF OneClient

LEMMA BeginInv ==
  ASSUME OneClient, Inv, NEW c \in Clients, Begin(c)
  PROVE  Inv'
  <1> USE DEF Inv, Goto
  <1>1. mStatus # "exit" /\ IsReady /\ cpc[c] = "begin"
    BY DEF Begin, ClientInv
  <1>2. TypeOK'
    BY DEF Begin, TypeOK, Notified
  <1>3. ASSUME NEW u \in Threads PROVE ThreadInv(u)'
    BY <1>1 DEF Begin, TypeOK, ThreadInv, Notified, IsReady, Active
  <1>4. ClientInv(c)'
    BY <1>1 DEF Begin, TypeOK, ClientInv
  <1> QED BY <1>2, <1>3, <1>4 DEF OneClient

LEMMA WaitInv ==
  ASSUME OneClient, Inv, NEW c \in Clients, Wait(c)
  PROVE  Inv'
  <1> USE DEF Inv, entries
  <1>1. TypeOK'
    BY DEF Wait, TypeOK
  <1>2. ASSUME NEW u \in Threads PROVE ThreadInv(u)'
    BY DEF Wait, ThreadInv
  <1>3. ClientInv(c)'
    BY DEF Wait, TypeOK, ClientInv
  <1> QED BY <1>1, <1>2, <1>3 DEF OneClient

LEMMA SetExitInv ==
  ASSUME OneClient, Inv, NEW c \in Clients, SetExit(c)
  PROVE  Inv'
  <1> USE DEF Inv, Goto, entries
  <1>1. mStatus # "exit" /\ IsReady /\ cpc[c] = "set_exit"
    BY DEF SetExit, ClientInv
  <1>2. TypeOK'
    BY DEF SetExit, TypeOK
  <1>3. ASSUME NEW u \in Threads PROVE ThreadInv(u)'
    BY <1>1 DEF SetExit, TypeOK, ThreadInv, IsReady, Active
  <1>4. ClientInv(c)'
    BY <1>1 DEF SetExit, TypeOK, ClientInv
  <1> QED BY <1>2, <1>3, <1>4 DEF OneClient

LEMMA WakeUpInv ==
  ASSUME OneClient, Inv, NEW c \in Clients, WakeUp(c)
  PROVE  Inv'
  <1> USE DEF Inv, Goto, entries
  <1>1. mStatus = "exit"
    BY DEF WakeUp, ClientInv
  <1>2. TypeOK'
    BY DEF WakeUp, TypeOK, Notified
  <1>3. ASSUME NEW u \in Threads PROVE ThreadInv(u)'
    BY <1>1 DEF WakeUp, TypeOK, ThreadInv, Notified
  <1>4. ClientInv(c)'
    BY <1>1 DEF WakeUp, TypeOK, ClientInv, Notified
  <1> QED BY <1>2, <1>3, <1>4 DEF OneClient

LEMMA ResetInv ==
  ASSUME OneClient, Inv, NEW c \in Clients, Reset(c)
  PROVE  Inv'
  <1> USE DEF Inv, Goto
  <1>1. mStatus = "exit" /\ IsExit
    BY DEF Reset, ClientInv
  <1>2. TypeOK'
    BY DEF Reset, TypeOK, Active
  <1>3. ASSUME NEW u \in Threads PROVE ThreadInv(u)'
    BY <1>1 DEF Reset, TypeOK, ThreadInv, Active
  <1>4. ClientInv(c)'
    BY <1>1 DEF Reset, TypeOK, ClientInv
  <1> QED BY <1>2, <1>3, <1>4 DEF OneClient

-----------------------------------------------------------------------------
LEMMA NextInv == OneClient /\ Inv /\ [Next]_vars => Inv'
  <1> SUFFICES ASSUME OneClient, Inv, [Next]_vars PROVE Inv'
    OBVIOUS
  <1>1. ASSUME NEW t \in Threads, Worker(t) PROVE Inv'
    BY <1>1, GetReadyInv, WakeToStartInv, CheckExitInv, CallInv, FinishInv,
       WakeFromDoneInv, ExitThreadInv DEF Worker
  <1>2. ASSUME NEW t \in Threads, SetUp(t) PROVE Inv'
    BY <1>2, SetUpInv
  <1>3. ASSUME NEW c \in Clients, Proceed(c) \/ CallStart(c) \/ CallExit(c) PROVE Inv'
    BY <1>3, MoveInv, BeginInv, WaitInv, SetExitInv, WakeUpInv, ResetInv DEF Proceed
  <1>4. CASE UNCHANGED vars
    BY <1>4 DEF vars, entries, Inv, TypeOK, ThreadInv, ClientInv, Active, IsReady, IsExit
  <1> QED BY <1>1, <1>2, <1>3, <1>4 DEF Next

\* The inductive invariant holds in every state one client can reach.
THEOREM Invariance == ASSUME OneClient PROVE Spec => []Inv
  BY InitInv, NextInv, PTL DEF Spec

\* Type correctness; an entry is in use exactly when it has a thread.
THEOREM TypeCorrect == ASSUME OneClient PROVE Spec => []TypeOK
  <1>1. Inv => TypeOK
    BY DEF Inv
  <1> QED BY <1>1, Invariance, PTL

\* When Wait can report a round as over, every function of it has been called.
THEOREM RoundComplete == ASSUME OneClient PROVE Spec => []DoneMeansAllRan
  <1>1. Inv => DoneMeansAllRan
    BY DEF Inv, DoneMeansAllRan, ClientInv, ThreadInv
  <1> QED BY <1>1, Invariance, PTL

\* No thread of a round and no client in Wait sleeps through its wakeup.
THEOREM NoWakeupIsLost == ASSUME OneClient PROVE Spec => []NoLostWakeup
  <1>1. ASSUME OneClient, Inv PROVE NoLostWakeup
    BY <1>1 DEF Inv, NoLostWakeup, ThreadInv, ClientInv, TypeOK, OneClient
  <1> QED BY <1>1, Invariance, PTL

\* Exit resets the entries only when no thread uses them any more.
THEOREM SafeReset == ASSUME OneClient PROVE Spec => []ResetLeavesNoThread
  <1>1. Inv => ResetLeavesNoThread
    BY DEF Inv, ResetLeavesNoThread, ThreadInv, ClientInv, TypeOK, IsExit, Active
  <1> QED BY <1>1, Invariance, PTL

\* Start starts threads that are all ready, although WaitReady let go of the
\* mutex before: with one client nobody can take a ready flag back.
THEOREM StartFindsAllReady == ASSUME OneClient PROVE Spec => ReadyBeforeStart
  <1>1. Inv => (\A c \in Clients : cpc[c] = "begin" /\ cpc'[c] = "run" => IsReady)
    BY DEF Inv, ClientInv
  <1> QED BY <1>1, Invariance, PTL DEF ReadyBeforeStart

-----------------------------------------------------------------------------
(* ParallelWork implements ForkJoin for the entries that have a function.   *)

\* While a round runs, an entry with a function is in it and is not ready; so
\* when all are ready, nobody has a function and nobody was called.
LEMMA RunningNotReady ==
  ASSUME Inv, mStatus = "running", IsReady
  PROVE  Team = {} /\ ran = {}
  <1>1. \A t \in Active : ~call[t]
    BY DEF Inv, TypeOK, ThreadInv, IsReady, Active
  <1>2. ASSUME NEW t \in ran PROVE FALSE
    <2>1. t \in Threads /\ pc[t] \in {"finish", "done_wait"}
      BY DEF Inv, TypeOK, ThreadInv
    <2>2. call[t] /\ t \in Active
      BY <2>1 DEF Inv, TypeOK, ThreadInv, Active
    <2> QED BY <2>2, <1>1
  <1> QED BY <1>1, <1>2 DEF Team

LEMMA StepRefines ==
  ASSUME OneClient, Inv, [Next]_vars
  PROVE  [Rounds!Next]_<<Team, mStatus = "running", ran>>
  <1> USE DEF Inv
  <1>1. ASSUME NEW t \in Threads, Worker(t)
        PROVE  [Rounds!Next]_<<Team, mStatus = "running", ran>>
    <2>1. CASE GetReady(t)
      BY <2>1 DEF GetReady, TypeOK, Active, Team
    <2>2. CASE WakeToStart(t) \/ CheckExit(t) \/ WakeFromDone(t) \/ ExitThread(t)
      BY <2>2 DEF WakeToStart, CheckExit, WakeFromDone, ExitThread, entries, Active, Team
    <2>3. CASE Call(t)
      <3>1. mStatus = "running" /\ t \in Active /\ call[t] /\ t \notin ran
        BY <2>3 DEF Call, TypeOK, ThreadInv, Active
      <3>2. UNCHANGED <<Team, mStatus>> /\ ran' = ran \cup {t}
        BY <2>3 DEF Call, entries, Active, Team
      <3> QED BY <3>1, <3>2 DEF Team, Rounds!Next, Rounds!Call
    <2>4. CASE Finish(t)
      <3>1. /\ mStatus = "running" /\ pc[t] = "finish" /\ Active' = Active
            /\ Team' = Team /\ ran' = ran
        BY <2>4 DEF Finish, TypeOK, ThreadInv, Active, Team
      <3>2. CASE UNCHANGED mStatus
        BY <3>1, <3>2
      <3>3. CASE mStatus' = "done" /\ ~IsBusy'
        <4>1. Team \subseteq ran
          BY <2>4, <3>1, <3>3 DEF Finish, TypeOK, ThreadInv, Active, IsBusy, Team
        <4> QED BY <3>1, <3>3, <4>1 DEF Rounds!Next, Rounds!End
      <3> QED BY <2>4, <3>2, <3>3 DEF Finish
    <2> QED BY <1>1, <2>1, <2>2, <2>3, <2>4 DEF Worker
  <1>2. ASSUME NEW t \in Threads, SetUp(t)
        PROVE  [Rounds!Next]_<<Team, mStatus = "running", ran>>
    <2>1. mStatus # "running" /\ mStatus' = mStatus /\ ran' = ran
      BY <1>2 DEF SetUp, ClientInv, OneClient
    <2>2. PICK f \in BOOLEAN : call' = [call EXCEPT ![t] = f]
      BY <1>2, PWAssumption DEF SetUp
    <2>3. Team' = Team \cup {t} \/ Team' = Team \ {t}
      BY <1>2, <2>2 DEF SetUp, Active, Team, TypeOK
    <2> QED BY <2>1, <2>3 DEF Rounds!Next, Rounds!Hire, Rounds!Release
  <1>3. ASSUME NEW c \in Clients, Begin(c)
        PROVE  [Rounds!Next]_<<Team, mStatus = "running", ran>>
    <2>1. IsReady /\ mStatus' = "running" /\ ran' = {} /\ Team' = Team
      BY <1>3 DEF Begin, Goto, ClientInv, Active, Team
    <2>2. CASE mStatus # "running"
      BY <2>1, <2>2 DEF Rounds!Next, Rounds!Begin
    <2>3. CASE mStatus = "running"
      BY <2>1, <2>3, RunningNotReady
    <2> QED BY <2>2, <2>3
  <1>4. ASSUME NEW c \in Clients, SetExit(c)
        PROVE  [Rounds!Next]_<<Team, mStatus = "running", ran>>
    <2>1. IsReady /\ mStatus' = "exit" /\ ran' = ran /\ Team' = Team
      BY <1>4 DEF SetExit, Goto, ClientInv, Active, Team, entries
    <2>2. CASE mStatus = "running"
      BY <2>1, <2>2, RunningNotReady DEF Rounds!Next, Rounds!End
    <2> QED BY <2>1, <2>2
  <1>5. ASSUME NEW c \in Clients, Reset(c)
        PROVE  [Rounds!Next]_<<Team, mStatus = "running", ran>>
    <2>1. mStatus = "exit" /\ mStatus' = "init" /\ ran' = {} /\ Team' = {}
      BY <1>5 DEF Reset, Goto, ClientInv, Active, Team
    <2> QED BY <2>1 DEF Rounds!Next, Rounds!Dismiss
  <1>6. ASSUME NEW c \in Clients,
               \/ CallStart(c) \/ CallExit(c) \/ StartReady(c) \/ Wait(c)
               \/ ExitReady(c) \/ WakeUp(c) \/ WaitExit(c)
        PROVE  UNCHANGED <<Team, mStatus = "running", ran>>
    BY <1>6 DEF CallStart, CallExit, StartReady, Wait, ExitReady, WakeUp, WaitExit,
                entries, Active, Team
  <1>7. CASE UNCHANGED vars
    BY <1>7 DEF vars, entries, Active, Team
  <1> QED BY <1>1, <1>2, <1>3, <1>4, <1>5, <1>6, <1>7 DEF Next, Proceed

\* Rounds never overlap, call each function exactly once and end complete,
\* whichever entries have a function.
THEOREM ImplementsForkJoin == ASSUME OneClient PROVE Spec => ForkJoinSpec
  <1>1. Init => Rounds!Init
    BY DEF Init, Rounds!Init, Active, Team
  <1> QED BY <1>1, StepRefines, Invariance, PTL DEF Spec, ForkJoinSpec, Rounds!Spec
=============================================================================
