---------------------------- MODULE SyncBarrier ----------------------------
(***************************************************************************)
(* barrier/__barrier.h and the loops of barrier/test.cpp: an owner thread  *)
(* starts rounds of work of its children and waits for their end.  Two     *)
(* pthread barriers of all threads end a round; a counter (nwait) and a    *)
(* condition variable without a predicate begin one.                       *)
(***************************************************************************)
EXTENDS Naturals, FiniteSets

CONSTANTS Children, Owner

ASSUME SBAssumption == IsFiniteSet(Children) /\ Owner \notin Children

VARIABLES pc,      \* where each thread is
          nwait,   \* children that have announced themselves to start()
          worked   \* children that have worked since the last round ended

vars == <<pc, nwait, worked>>

All == Children \cup {Owner}

Init == /\ pc = [t \in All |-> IF t = Owner THEN "poll" ELSE "enter"]
        /\ nwait = 0
        /\ worked = {}

\* pthread_barrier_wait: t waits at b until all threads do, and then all
\* of them go on to next.
Arrive(t, b, next) ==
    IF \A u \in All \ {t} : pc[u] = b
    THEN pc' = [u \in All |-> IF u = t \/ pc[u] = b THEN next ELSE pc[u]]
    ELSE pc' = [pc EXCEPT ![t] = b]

-----------------------------------------------------------------------------
\* wait_start of a child: __inc_wait, and later cv_start.wait.
IncWait(c) ==
    /\ pc[c] = "enter"
    /\ nwait' = nwait + 1
    /\ pc' = [pc EXCEPT ![c] = "counted"]
    /\ UNCHANGED worked

WaitStart(c) ==
    /\ pc[c] = "counted"
    /\ pc' = [pc EXCEPT ![c] = "asleep"]
    /\ UNCHANGED <<nwait, worked>>

\* cv_start.wait has no predicate: a spurious wakeup starts the child too.
WakeSpuriously(c) ==
    /\ pc[c] = "asleep"
    /\ pc' = [pc EXCEPT ![c] = "work"]
    /\ UNCHANGED <<nwait, worked>>

Work(c) ==
    /\ pc[c] = "work"
    /\ worked' = worked \cup {c}
    /\ pc' = [pc EXCEPT ![c] = "stop"]
    /\ UNCHANGED nwait

\* start() of the owner, once its polling sees every child counted: it
\* notifies those that sleep.
Start ==
    /\ pc[Owner] = "poll" /\ nwait >= Cardinality(Children)
    /\ pc' = [t \in All |-> IF t = Owner THEN "stop"
                            ELSE IF pc[t] = "asleep" THEN "work" ELSE pc[t]]
    /\ UNCHANGED <<nwait, worked>>

\* Mutant: wait_stop does not wait at barrier_stop.
WaitStop_NoBarrier(t) ==
    /\ pc[t] = "stop"
    /\ pc' = [pc EXCEPT ![t] = "reset"]
    /\ UNCHANGED <<nwait, worked>>

\* wait_stop, up to the end of barrier_stop.
WaitStop(t) ==
    /\ pc[t] = "stop"
    /\ Arrive(t, "at_stop", "reset")
    /\ UNCHANGED <<nwait, worked>>

\* Mutant: nwait keeps its value from one round to the next.
Reset_KeepCount(t) ==
    /\ pc[t] = "reset"
    /\ pc' = [pc EXCEPT ![t] = "prepare"]
    /\ UNCHANGED <<nwait, worked>>

\* __reset_barrier and __reset_nwait, which only the owner's call performs; the
\* barrier that is initialised again has no waiters then.
Reset(t) ==
    /\ pc[t] = "reset"
    /\ nwait' = IF t = Owner THEN 0 ELSE nwait
    /\ pc' = [pc EXCEPT ![t] = "prepare"]
    /\ UNCHANGED worked

\* barrier_prepare: its release ends the round.
WaitPrepare(t) ==
    /\ pc[t] = "prepare"
    /\ Arrive(t, "at_prepare", "over")
    /\ worked' = IF \A u \in All : pc'[u] = "over" THEN {} ELSE worked
    /\ UNCHANGED nwait

\* The loops of the test call again.
Again(t) ==
    /\ pc[t] = "over"
    /\ pc' = [pc EXCEPT ![t] = IF t = Owner THEN "poll" ELSE "enter"]
    /\ UNCHANGED <<nwait, worked>>

Child(c) == IncWait(c) \/ WaitStart(c) \/ Work(c)
Both(t)  == WaitStop(t) \/ Reset(t) \/ WaitPrepare(t) \/ Again(t)

Next == \/ Start
        \/ \E c \in Children : Child(c) \/ WakeSpuriously(c)
        \/ \E t \in All : Both(t)

Spec == Init /\ [][Next]_vars

-----------------------------------------------------------------------------
\* Every variable has its type; nwait never exceeds child_nthread.
TypeOK ==
    /\ pc \in [All -> {"poll", "enter", "counted", "asleep", "work", "stop", "at_stop",
                       "reset", "prepare", "at_prepare", "over"}]
    /\ nwait \in 0 .. Cardinality(Children)
    /\ worked \subseteq Children

\* When start() looks at nwait it counts the children of this round and no
\* arrival of an earlier one: otherwise it would not wait for them at all.
CountIsOfThisRound ==
    pc[Owner] \in {"over", "poll"} =>
        nwait = Cardinality({c \in Children :
                                pc[c] \in {"counted", "asleep", "work", "stop", "at_stop"}})

\* Rounds do not overlap: nobody leaves barrier_stop before every child has
\* worked, and no child works twice in a round, even when woken spuriously.
RoundsAligned ==
    /\ (\E t \in All : pc[t] \in {"reset", "prepare", "at_prepare"}) => worked = Children
    /\ \A c \in worked : pc[c] \in {"stop", "at_stop", "reset", "prepare", "at_prepare"}
=============================================================================
