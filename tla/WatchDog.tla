------------------------------ MODULE WatchDog ------------------------------
(***************************************************************************)
(* watch-dog/invoker.h: a worker counts its rounds, a toucher stamps the   *)
(* time each time it is poked, and a watcher pokes it every second and     *)
(* stops the program when the toucher or the worker falls silent.          *)
(*                                                                         *)
(* Times are ages in seconds, saturated just beyond TIMEOUT.  A thread that *)
(* has read the clock may be held up before it uses or stores what it read: *)
(* nowAge and stampAge are the ages of those readings, gap is what separates*)
(* the watcher's reading from the stamps.  The toucher waits without a      *)
(* predicate, and the watcher clears running and notifies without the      *)
(* mutex, so the toucher between its last test and its wait ("stamping",    *)
(* "armed": it holds the mutex) is in states of its own.                    *)
(***************************************************************************)
EXTENDS Integers

CONSTANTS Timeout,     \* TIMEOUT
          TouchLimit   \* touches after which the toucher stops touching (15)

ASSUME WDAssumption == Timeout \in Nat \ {0} /\ TouchLimit \in Nat

VARIABLES running,
          toucher,    \* "test", "stamping", "armed", "asleep", "awake", "ended"
          worker,     \* "up" or "ended"
          watcher,    \* "sleep", "check", "first", "store", "look", "compare",
                      \* "silent", "hung", "notify" or "ended"
          touched,    \* _M_touch_ts is set
          touchAge,   \* the age of _M_touch_ts
          stampAge,   \* the age of the time the toucher is about to store there
          count,      \* wakeups of the toucher, up to TouchLimit + 1
          fresh,      \* _M_sched_count # _M_last_count
          schedAge,   \* the age of _M_last_sched_ts; -1: a stamp in the future
          nowAge,     \* the age of the watcher's now
          gap,        \* now less: _M_touch_ts, what the toucher is about to
                      \* store there (0: it is later than now), _M_last_sched_ts
          stamped,    \* _M_last_sched_ts was written
          lag,        \* the age of the time it was last stamped with
          quiet       \* seconds since the worker last counted, or the start

touchVars == <<touched, touchAge, stampAge, count>>
checkVars == <<fresh, schedAge, stamped, lag>>
nowVars == <<nowAge, gap>>
dogVars == <<running, toucher, worker, watcher, touchVars, checkVars, nowVars, quiet>>

Ages == 0 .. Timeout + 1
Older(a) == IF a \in 0 .. Timeout THEN a + 1 ELSE a

NoGap == [touch |-> 0, next |-> 0, sched |-> 0]

\* _M_last_sched_ts is not initialised: it may hold anything.
DogInit ==
    /\ running = TRUE
    /\ toucher = "test" /\ worker = "up" /\ watcher = "sleep"
    /\ touched = FALSE /\ touchAge = 0 /\ stampAge = 0
    /\ count = 0
    /\ fresh = FALSE /\ schedAge \in Ages \cup {-1}
    /\ nowAge = 0 /\ gap = NoGap
    /\ stamped = FALSE /\ lag = 0
    /\ quiet = 0

MutexFree == toucher \notin {"stamping", "armed"}

\* The readings of the clock age with the stamps.
Second ==
    /\ touchAge' = Older(touchAge)
    /\ schedAge' = Older(schedAge)
    /\ quiet' = Older(quiet)
    /\ stampAge' = IF toucher = "stamping" THEN Older(stampAge) ELSE 0
    /\ nowAge' = IF watcher \in {"store", "look", "compare"} THEN Older(nowAge) ELSE 0
    /\ UNCHANGED <<running, toucher, worker, watcher, touched, count, fresh,
                   gap, stamped, lag>>

-----------------------------------------------------------------------------
\* work(): another round, or the end.
DogWork ==
    /\ worker = "up"
    /\ \/ /\ running
          /\ fresh' = TRUE /\ quiet' = 0
          /\ UNCHANGED worker
       \/ /\ ~running
          /\ worker' = "ended"
          /\ UNCHANGED <<fresh, quiet>>
    /\ UNCHANGED <<running, toucher, watcher, touchVars, schedAge, stamped, lag, nowVars>>

\* touch(): top of the loop; with the mutex it reads the time.
Touch ==
    /\ toucher = "test"
    /\ \/ /\ running
          /\ stampAge' = 0 /\ gap' = [gap EXCEPT !.next = 0]
          /\ toucher' = "stamping"
       \/ /\ ~running
          /\ toucher' = "ended"
          /\ UNCHANGED <<stampAge, gap>>
    /\ UNCHANGED <<running, worker, watcher, touched, touchAge, count, checkVars, nowAge, quiet>>

\* It stores what it read, however long ago.
Stamp ==
    /\ toucher = "stamping"
    /\ touched' = TRUE /\ touchAge' = stampAge /\ stampAge' = 0
    /\ gap' = [gap EXCEPT !.touch = gap.next]
    /\ toucher' = "armed"
    /\ UNCHANGED <<running, worker, watcher, count, checkVars, nowAge, quiet>>

Sleep ==
    /\ toucher = "armed"
    /\ toucher' = "asleep"
    /\ UNCHANGED <<running, worker, watcher, touchVars, checkVars, nowVars, quiet>>

\* Mutant: the inner loop does not test running.
Wake_IgnoreRunning ==
    /\ toucher \in {"asleep", "awake"}
    /\ count' = IF count > TouchLimit THEN count ELSE count + 1
    /\ toucher' = IF count' > TouchLimit THEN "armed" ELSE "test"
    /\ UNCHANGED <<running, worker, watcher, touched, touchAge, stampAge, checkVars,
                   nowVars, quiet>>

\* Awake, by a notify or spuriously: beyond the limit it waits again at once.
Wake ==
    /\ toucher \in {"asleep", "awake"}
    /\ count' = IF count > TouchLimit THEN count ELSE count + 1
    /\ toucher' = IF count' > TouchLimit /\ running THEN "armed" ELSE "test"
    /\ UNCHANGED <<running, worker, watcher, touched, touchAge, stampAge, checkVars,
                   nowVars, quiet>>

-----------------------------------------------------------------------------
Poked == IF toucher = "asleep" THEN "awake" ELSE toucher

\* watch(): a second later it pokes the toucher, with the mutex.
Poke ==
    /\ watcher = "sleep"
    /\ \/ /\ running /\ MutexFree
          /\ toucher' = Poked
          /\ watcher' = "check"
       \/ /\ ~running
          /\ watcher' = "ended"
          /\ UNCHANGED toucher
    /\ UNCHANGED <<running, worker, touchVars, checkVars, nowVars, quiet>>

\* now: from here on time passes between the reading and its use.
ReadNow ==
    /\ nowAge' = 0
    /\ gap' = [touch |-> touchAge, next |-> stampAge, sched |-> schedAge]

\* The rest of a round holds no mutex.  Nothing is touched yet, or now is read.
Check ==
    /\ watcher = "check"
    /\ \/ ~touched /\ watcher' = "first" /\ UNCHANGED nowVars
       \/ touched /\ watcher' = "look" /\ ReadNow
    /\ UNCHANGED <<running, toucher, worker, touchVars, checkVars, quiet>>

\* The watcher stamps the first touch itself: it reads the time, and stores it.
First ==
    /\ watcher = "first" /\ watcher' = "store" /\ ReadNow
    /\ UNCHANGED <<running, toucher, worker, touchVars, checkVars, quiet>>

EndRound(next) == watcher' = next /\ nowAge' = 0 /\ gap' = NoGap

StoreFirst ==
    /\ watcher = "store" /\ EndRound("sleep")
    /\ touched' = TRUE /\ touchAge' = nowAge
    /\ UNCHANGED <<running, toucher, worker, stampAge, count, checkVars, quiet>>

\* Mutant: the toucher's silence is not acted upon.
Look_NoTimeout ==
    /\ watcher = "look" /\ watcher' = "compare" /\ UNCHANGED nowVars
    /\ UNCHANGED <<running, toucher, worker, touchVars, checkVars, quiet>>

Look ==
    /\ watcher = "look"
    /\ \/ gap.touch > Timeout /\ EndRound("silent")
       \/ gap.touch <= Timeout /\ watcher' = "compare" /\ UNCHANGED nowVars
    /\ UNCHANGED <<running, toucher, worker, touchVars, checkVars, quiet>>

\* Mutant: a new count is noticed without stamping its time.
CheckHungTask_NoStamp ==
    /\ watcher = "compare"
    /\ \/ /\ fresh
          /\ fresh' = FALSE /\ stamped' = TRUE /\ lag' = nowAge
          /\ EndRound("sleep")
          /\ UNCHANGED schedAge
       \/ /\ ~fresh
          /\ EndRound(IF gap.sched > Timeout THEN "hung" ELSE "sleep")
          /\ UNCHANGED checkVars
    /\ UNCHANGED <<running, toucher, worker, touchVars, quiet>>

\* check_hung_task: a new count is stamped with now; without one the last stamp
\* is compared with now.
CheckHungTask ==
    /\ watcher = "compare"
    /\ \/ /\ fresh
          /\ fresh' = FALSE
          /\ schedAge' = nowAge /\ stamped' = TRUE /\ lag' = nowAge
          /\ EndRound("sleep")
       \/ /\ ~fresh
          /\ EndRound(IF gap.sched > Timeout THEN "hung" ELSE "sleep")
          /\ UNCHANGED checkVars
    /\ UNCHANGED <<running, toucher, worker, touchVars, quiet>>

\* The toucher or the worker is given up: running is cleared, then the toucher
\* is notified, and with running cleared the watcher's loop is at its end.
Stop ==
    /\ watcher \in {"silent", "hung"}
    /\ running' = FALSE /\ watcher' = "notify"
    /\ UNCHANGED <<toucher, worker, touchVars, checkVars, nowVars, quiet>>

Notify ==
    /\ watcher = "notify"
    /\ toucher' = Poked /\ watcher' = "ended"
    /\ UNCHANGED <<running, worker, touchVars, checkVars, nowVars, quiet>>

-----------------------------------------------------------------------------
Toucher == Touch \/ Stamp \/ Sleep \/ Wake
Round == Check \/ First \/ StoreFirst \/ Look \/ CheckHungTask \/ Stop \/ Notify

DogNext == Second \/ DogWork \/ Toucher \/ Poke \/ Round

DogSpec == DogInit /\ [][DogNext]_dogVars

\* Time passes and the threads run; a poke is needed to wake the toucher.
DogFairSpec ==
    /\ DogSpec /\ WF_dogVars(Second) /\ WF_dogVars(DogWork) /\ WF_dogVars(Round)
    /\ SF_dogVars(Poke)
    /\ WF_dogVars(toucher # "asleep" /\ Toucher)

-----------------------------------------------------------------------------
\* Types; a toucher that waits has left a stamp for the watcher to read.
DogTypeOK ==
    /\ running \in BOOLEAN /\ touched \in BOOLEAN /\ fresh \in BOOLEAN
    /\ stamped \in BOOLEAN
    /\ toucher \in {"test", "stamping", "armed", "asleep", "awake", "ended"}
    /\ worker \in {"up", "ended"}
    /\ watcher \in {"sleep", "check", "first", "store", "look", "compare",
                    "silent", "hung", "notify", "ended"}
    /\ {touchAge, stampAge, nowAge, lag, quiet} \subseteq Ages
    /\ schedAge \in Ages \cup {-1}
    /\ gap \in [touch : Ages, next : Ages, sched : Ages \cup {-1}]
    /\ count \in 0 .. TouchLimit + 1
    /\ toucher \in {"armed", "asleep", "awake"} => touched

\* A toucher that has stopped touching is noticed: the program is stopped.
SilenceIsNoticed == count > TouchLimit ~> ~running

\* Once the program is stopped the worker and the watcher end, and so does a
\* toucher that was woken or is at the top of its loop; one that has passed the
\* test there and not gone to wait yet ("stamping", "armed") misses the notify.
ThreadsEnd ==
    /\ ~running ~> worker = "ended" /\ watcher = "ended"
    /\ ~running /\ toucher \in {"awake", "test"} ~> toucher = "ended"

\* Line 86: once the watcher has stamped a worker at least one time, it takes
\* it for hung only when the worker's silence, with the time the watcher was
\* itself held up between reading the clock and stamping, exceeds TIMEOUT.
HungIsReal ==
    [][watcher = "compare" /\ watcher' = "hung" /\ stamped
          => quiet + lag > Timeout]_dogVars
=============================================================================
