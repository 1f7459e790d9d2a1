----------------------------- MODULE TimerWheel -----------------------------
(***************************************************************************)
(* timer-wheel/test.cpp: timers hang in the slots of three wheels, one per *)
(* tick, per turn of the first, and per turn of the second wheel.  When a  *)
(* wheel has turned, the next slot of the wheel above is spread over the   *)
(* wheels below.  main adds all timers at time 0, then starts the clock at *)
(* some tick of the first turn.                                            *)
(*                                                                         *)
(* A mask is a remainder and a shift a quotient, the sizes being powers of *)
(* two.  The order within a slot is that of the callbacks of one tick, and *)
(* is left out.                                                            *)
(***************************************************************************)
EXTENDS Integers

CONSTANTS Timers,
          N_TV, N_TV1, N_TV2   \* slots of the wheels

ASSUME TWAssumption == {N_TV, N_TV1, N_TV2} \subseteq Nat \ {0}

VARIABLES expires,   \* [Timers -> tick or Never, for a timer not yet added]
          slot,      \* where a timer hangs: <<wheel, index>>, or Nowhere
          start, jeffies,   \* the first tick, the next one; Never before
          firedAt    \* history: the tick a timer's function was called

wheelVars == <<expires, slot, start, jeffies, firedAt>>

TV_SIZE == N_TV
TV1_SIZE == N_TV * N_TV1
MAX_TV_SIZE == TV1_SIZE * N_TV2

Never == -1
Nowhere == <<"none", 0>>

WheelInit ==
    /\ expires = [t \in Timers |-> Never]
    /\ slot = [t \in Timers |-> Nowhere]
    /\ firedAt = [t \in Timers |-> Never]
    /\ start = Never /\ jeffies = Never

\* The wheel for a timer that is distance ticks away, its slot by the ticks
\* of when.  A distance below zero is a large unsigned number.
SlotOf(distance, when) ==
    IF distance \in 0 .. TV_SIZE - 1 THEN <<"tv", when % N_TV>>
    ELSE IF distance \in 0 .. TV1_SIZE - 1 THEN <<"tv1", (when \div N_TV) % N_TV1>>
    ELSE <<"tv2", (when \div TV1_SIZE) % N_TV2>>

\* add_timer goes by the distance; main adds at time 0.
Add(t) ==
    /\ start = Never /\ expires[t] = Never
    /\ \E e \in 0 .. 2 * MAX_TV_SIZE - 1 :
          /\ expires' = [expires EXCEPT ![t] = e]
          /\ slot' = [slot EXCEPT ![t] = SlotOf(e - 0, e - 0)]
    /\ UNCHANGED <<start, jeffies, firedAt>>

Start ==
    /\ start = Never /\ Never \notin {expires[t] : t \in Timers}
    /\ start' \in 0 .. N_TV - 1
    /\ jeffies' = start'
    /\ UNCHANGED <<expires, slot, firedAt>>

\* Mutant: the distance is taken from time 0, as when the timer was added.
Cascaded_FromZero(slots, wheel, index) ==
    [t \in Timers |-> IF slots[t] = <<wheel, index>>
                      THEN SlotOf(expires[t] - 0, expires[t])
                      ELSE slots[t]]

\* cascade: the timers of one slot are hung up again, by their expiry.
Cascaded(slots, wheel, index) ==
    [t \in Timers |-> IF slots[t] = <<wheel, index>>
                      THEN SlotOf(expires[t] - jeffies, expires[t])
                      ELSE slots[t]]

\* The slots after the cascades of this tick.
Turned ==
    LET index1 == (jeffies \div N_TV) % N_TV1
        slots1 == Cascaded(slot, "tv1", index1)
    IN  IF jeffies % N_TV # 0 THEN slot
        ELSE IF index1 # 0 THEN slots1
        ELSE Cascaded(slots1, "tv2", (jeffies \div TV1_SIZE) % N_TV2)

\* One turn of main's loop: all timers of the tick's slot are called and freed.
Tick ==
    LET due == {t \in Timers : Turned[t] = <<"tv", jeffies % N_TV>>}
    IN  /\ start # Never /\ jeffies < start + 2 * MAX_TV_SIZE
        /\ slot' = [t \in Timers |-> IF t \in due THEN Nowhere ELSE Turned[t]]
        /\ firedAt' = [t \in Timers |-> IF t \in due THEN jeffies ELSE firedAt[t]]
        /\ jeffies' = jeffies + 1
        /\ UNCHANGED <<expires, start>>

WheelNext == Start \/ Tick \/ \E t \in Timers : Add(t)

WheelSpec == WheelInit /\ [][WheelNext]_wheelVars

-----------------------------------------------------------------------------
\* A timer's function is called once, at the tick it expires, wherever it
\* hung first and however often it was moved; when it had expired before the
\* clock was started, a turn of the first wheel later.
DueAt(t) == IF expires[t] >= start THEN expires[t] ELSE expires[t] + N_TV
FiresOnTime ==
    start # Never =>
        \A t \in Timers : firedAt[t] = (IF DueAt(t) < jeffies THEN DueAt(t) ELSE Never)
=============================================================================
