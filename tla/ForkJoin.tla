------------------------------ MODULE ForkJoin ------------------------------
(***************************************************************************)
(* What a team of parallel workers promises its client: rounds do not      *)
(* overlap, a round calls the function of a worker at most once, and it    *)
(* ends only when every worker of the team has been called in it.          *)
(***************************************************************************)
EXTENDS FiniteSets

CONSTANT Workers

VARIABLES team,    \* the workers that have been set up
          open,    \* a round is in progress
          called   \* the workers called since the last round began

Init == team = {} /\ open = FALSE /\ called = {}

Hire(w) == ~open /\ team' = team \cup {w} /\ UNCHANGED <<open, called>>

Release(w) == ~open /\ team' = team \ {w} /\ UNCHANGED <<open, called>>

Dismiss == ~open /\ team' = {} /\ called' = {} /\ UNCHANGED open

Begin == ~open /\ open' = TRUE /\ called' = {} /\ UNCHANGED team

Call(w) == /\ open /\ w \in team \ called
           /\ called' = called \cup {w}
           /\ UNCHANGED <<team, open>>

End == /\ open /\ team \subseteq called
       /\ open' = FALSE
       /\ UNCHANGED <<team, called>>

Next == Dismiss \/ Begin \/ End \/ \E w \in Workers : Hire(w) \/ Release(w) \/ Call(w)

Spec == Init /\ [][Next]_<<team, open, called>>
=============================================================================
