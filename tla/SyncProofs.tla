----------------------------- MODULE SyncProofs -----------------------------
(***************************************************************************)
(* Proofs about the means by which threads and processes wait for each     *)
(* other: SyncBarrier for any finite set of children (start() counts the   *)
(* arrivals of its own round, rounds never overlap, spurious wakeups       *)
(* included), MultiLock for any processes and locks, with and without      *)
(* crashes (types, with the bound of 1 on every semaphore, and exclusion   *)
(* among the processes that share a semaphore), and WatchDog for any       *)
(* timeout (a worker that was stamped once is reported hung only when it   *)
(* is).                                                                    *)
(***************************************************************************)
EXTENDS SyncBarrier, MultiLock, WatchDog, FiniteSetTheorems, TLAPS

-----------------------------------------------------------------------------
(* The inductive invariant.  A barrier lets everybody go in one step, so    *)
(* at any time either all threads are before barrier_stop (some may not     *)
(* have left the previous call yet), or all are between the two barriers.   *)

Counted == {c \in Children : pc[c] \in {"counted", "asleep", "work", "stop", "at_stop"}}

ChildEarly == {"over", "enter", "counted", "asleep", "work", "stop", "at_stop"}
OwnerEarly == {"over", "poll", "stop", "at_stop"}
Late == {"reset", "prepare", "at_prepare"}

\* Before barrier_stop: nwait counts the children that announced themselves,
\* worked holds those that are done working.
EarlyInv ==
    /\ \A c \in Children : pc[c] \in ChildEarly
    /\ pc[Owner] \in OwnerEarly
    /\ nwait = Cardinality(Counted)
    /\ \A c \in Children : c \in worked <=> pc[c] \in {"stop", "at_stop"}

\* Between the barriers: everybody has worked, and once the owner has reset
\* nwait nobody counts itself until the next round.
LateInv ==
    /\ \A t \in All : pc[t] \in Late
    /\ worked = Children
    /\ pc[Owner] # "reset" => nwait = 0

Inv == TypeOK /\ (EarlyInv \/ LateInv)

\* The children that were counted are finitely many, and all of Children at
\* most.
LEMMA CountedFinite ==
  /\ IsFiniteSet(Counted)
  /\ Cardinality(Counted) \in 0 .. Cardinality(Children)
  <1>1. Counted \subseteq Children
    BY DEF Counted
  <1>2. /\ IsFiniteSet(Counted)
        /\ Cardinality(Counted) <= Cardinality(Children)
    BY <1>1, SBAssumption, FS_Subset
  <1>3. Cardinality(Counted) \in Nat /\ Cardinality(Children) \in Nat
    BY <1>2, SBAssumption, FS_CardinalityType
  <1> QED BY <1>2, <1>3

LEMMA InitInv == Init => Inv
  <1> SUFFICES ASSUME Init PROVE Inv
    OBVIOUS
  <1>1. Counted = {}
    BY SBAssumption DEF Init, Counted, All
  <1>2. Cardinality(Counted) = 0
    BY <1>1, FS_EmptySet
  <1>3. Cardinality(Children) \in Nat
    BY SBAssumption, FS_CardinalityType
  <1>4. TypeOK
    BY <1>3 DEF Init, TypeOK, All
  <1>5. EarlyInv
    BY <1>2, SBAssumption DEF Init, EarlyInv, ChildEarly, OwnerEarly, All
  <1> QED BY <1>4, <1>5 DEF Inv

\* A step that keeps nwait and does not count anybody keeps the equation.
LEMMA CountKept ==
  ASSUME EarlyInv, UNCHANGED nwait,
         \A c \in Children : c \in Counted <=> c \in Counted'
  PROVE  nwait' = Cardinality(Counted')
  <1>1. Counted' = Counted
    BY DEF Counted
  <1> QED BY <1>1 DEF EarlyInv

-----------------------------------------------------------------------------
(* Steps before barrier_stop. *)

LEMMA IncWaitInv ==
  ASSUME Inv, NEW c \in Children, IncWait(c)
  PROVE  Inv'
  <1>1. EarlyInv
    BY DEF Inv, IncWait, LateInv, Late, All
  <1>2. pc \in [All -> {"poll", "enter", "counted", "asleep", "work", "stop",
                        "at_stop", "reset", "prepare", "at_prepare", "over"}]
    BY DEF Inv, TypeOK
  <1>3. pc' = [pc EXCEPT ![c] = "counted"] /\ c \in All /\ c # Owner
    BY SBAssumption DEF IncWait, All
  <1>4. c \notin Counted /\ Counted' = Counted \cup {c}
    BY <1>2, <1>3 DEF Counted, IncWait, All
  <1>5. Cardinality(Counted') = Cardinality(Counted) + 1
    BY <1>4, CountedFinite, FS_AddElement
  <1>6. nwait' = Cardinality(Counted')
    BY <1>1, <1>5 DEF EarlyInv, IncWait
  <1>7. Cardinality(Counted') \in 0 .. Cardinality(Children)
    <2>1. IsFiniteSet(Counted') /\ Counted' \subseteq Children
      BY <1>4, CountedFinite, FS_AddElement DEF Counted
    <2> QED BY <2>1, SBAssumption, FS_Subset, FS_CardinalityType
  <1>8. TypeOK'
    BY <1>2, <1>3, <1>6, <1>7 DEF Inv, TypeOK, IncWait
  <1>9. EarlyInv'
    BY <1>1, <1>2, <1>3, <1>6 DEF EarlyInv, IncWait, ChildEarly, OwnerEarly, All
  <1> QED BY <1>8, <1>9 DEF Inv

\* The other steps of a child before wait_stop move it among the counted.
LEMMA ChildInv ==
  ASSUME Inv, NEW c \in Children, WaitStart(c) \/ WakeSpuriously(c) \/ Work(c)
  PROVE  Inv'
  <1>1. EarlyInv
    BY DEF Inv, WaitStart, WakeSpuriously, Work, LateInv, Late, All
  <1>2. TypeOK'
    BY DEF Inv, TypeOK, WaitStart, WakeSpuriously, Work
  <1>3. c \in All /\ c # Owner
    BY SBAssumption DEF All
  <1>4. /\ \A u \in All \ {c} : pc'[u] = pc[u]
        /\ pc[c] \in {"counted", "asleep", "work"}
        /\ pc'[c] \in {"asleep", "work", "stop"}
        /\ nwait' = nwait
        /\ worked' = IF pc'[c] = "stop" THEN worked \cup {c} ELSE worked
    BY <1>3 DEF Inv, TypeOK, WaitStart, WakeSpuriously, Work
  <1>5. nwait' = Cardinality(Counted')
    BY <1>1, <1>4, CountKept DEF Counted, All
  <1>6. EarlyInv'
    BY <1>1, <1>3, <1>4, <1>5 DEF EarlyInv, ChildEarly, OwnerEarly, All
  <1> QED BY <1>2, <1>6 DEF Inv

LEMMA StartInv ==
  ASSUME Inv, Start
  PROVE  Inv'
  <1>1. EarlyInv
    BY DEF Inv, Start, LateInv, Late, All
  <1>2. TypeOK'
    BY DEF Inv, TypeOK, Start
  <1>3. /\ pc'[Owner] = "stop"
        /\ \A c \in Children : \/ pc'[c] = pc[c]
                               \/ pc[c] = "asleep" /\ pc'[c] = "work"
        /\ nwait' = nwait /\ worked' = worked
    BY SBAssumption DEF Start, All
  <1>4. nwait' = Cardinality(Counted')
    BY <1>1, <1>3, CountKept DEF Counted
  <1>5. EarlyInv'
    BY <1>1, <1>3, <1>4 DEF EarlyInv, ChildEarly, OwnerEarly
  <1> QED BY <1>2, <1>5 DEF Inv

-----------------------------------------------------------------------------
(* The barriers. *)

\* The last thread to arrive at barrier_stop finds that every child worked.
LEMMA WaitStopInv ==
  ASSUME Inv, NEW t \in All, WaitStop(t)
  PROVE  Inv'
  <1>1. EarlyInv
    BY DEF Inv, WaitStop, LateInv, Late
  <1>2. Owner \in All /\ Children \subseteq All /\ Owner \notin Children
    BY SBAssumption DEF All
  <1>3. nwait' = nwait /\ worked' = worked /\ pc[t] = "stop"
    BY DEF WaitStop
  <1>4. CASE \A u \in All \ {t} : pc[u] = "at_stop"
    <2>1. pc' = [u \in All |-> "reset"]
      BY <1>4 DEF WaitStop, Arrive
    <2>2. TypeOK'
      BY <2>1, <1>3 DEF Inv, TypeOK
    <2>3. worked = Children
      BY <1>1, <1>2, <1>3, <1>4 DEF Inv, TypeOK, EarlyInv
    <2>4. LateInv'
      BY <2>1, <2>3, <1>2, <1>3 DEF LateInv, Late
    <2> QED BY <2>2, <2>4 DEF Inv
  <1>5. CASE ~ \A u \in All \ {t} : pc[u] = "at_stop"
    <2>1. pc' = [pc EXCEPT ![t] = "at_stop"]
      BY <1>5 DEF WaitStop, Arrive
    <2>2. TypeOK'
      BY <2>1, <1>3 DEF Inv, TypeOK
    <2>3. /\ pc'[t] = "at_stop"
          /\ \A u \in All \ {t} : pc'[u] = pc[u]
      BY <2>1 DEF Inv, TypeOK
    <2>4. nwait' = Cardinality(Counted')
      BY <1>1, <1>2, <1>3, <2>3, CountKept DEF Counted
    <2>5. EarlyInv'
      BY <1>1, <1>2, <1>3, <2>3, <2>4 DEF EarlyInv, ChildEarly, OwnerEarly
    <2> QED BY <2>2, <2>5 DEF Inv
  <1> QED BY <1>4, <1>5

LEMMA ResetInv ==
  ASSUME Inv, NEW t \in All, Reset(t)
  PROVE  Inv'
  <1>1. LateInv
    BY SBAssumption DEF Inv, Reset, EarlyInv, ChildEarly, OwnerEarly, All
  <1>2. Cardinality(Children) \in Nat
    BY SBAssumption, FS_CardinalityType
  <1>3. Owner \in All
    BY DEF All
  <1>4. TypeOK'
    BY <1>2 DEF Inv, TypeOK, Reset
  <1>5. LateInv'
    BY <1>1, <1>3 DEF Inv, TypeOK, LateInv, Late, Reset
  <1> QED BY <1>4, <1>5 DEF Inv

\* The last thread to arrive at barrier_prepare starts the next round: the
\* owner has reset nwait before it arrived.
LEMMA WaitPrepareInv ==
  ASSUME Inv, NEW t \in All, WaitPrepare(t)
  PROVE  Inv'
  <1>1. LateInv
    BY SBAssumption DEF Inv, WaitPrepare, EarlyInv, ChildEarly, OwnerEarly, All
  <1>2. Owner \in All /\ Children \subseteq All /\ Owner \notin Children
    BY SBAssumption DEF All
  <1>3. nwait' = nwait /\ pc[t] = "prepare"
    BY DEF WaitPrepare
  <1>4. CASE \A u \in All \ {t} : pc[u] = "at_prepare"
    <2>1. pc' = [u \in All |-> "over"]
      BY <1>4 DEF WaitPrepare, Arrive
    <2>2. worked' = {} /\ nwait' = 0
      BY <2>1, <1>1, <1>2, <1>3, <1>4 DEF WaitPrepare, LateInv
    <2>3. Counted' = {}
      BY <2>1, <1>2 DEF Counted
    <2>4. Cardinality(Counted') = 0
      BY <2>3, FS_EmptySet
    <2>5. TypeOK'
      BY <2>1, <2>2, <1>3 DEF Inv, TypeOK
    <2>6. EarlyInv'
      BY <2>1, <2>2, <2>4, <1>2 DEF EarlyInv, ChildEarly, OwnerEarly
    <2> QED BY <2>5, <2>6 DEF Inv
  <1>5. CASE ~ \A u \in All \ {t} : pc[u] = "at_prepare"
    <2>1. pc' = [pc EXCEPT ![t] = "at_prepare"]
      BY <1>5 DEF WaitPrepare, Arrive
    <2>2. worked' = worked
      BY <2>1, <1>3 DEF WaitPrepare, Inv, TypeOK
    <2>3. TypeOK'
      BY <2>1, <2>2, <1>3 DEF Inv, TypeOK
    <2>4. LateInv'
      BY <2>1, <2>2, <1>1, <1>2, <1>3 DEF Inv, TypeOK, LateInv, Late
    <2> QED BY <2>3, <2>4 DEF Inv
  <1> QED BY <1>4, <1>5

LEMMA AgainInv ==
  ASSUME Inv, NEW t \in All, Again(t)
  PROVE  Inv'
  <1>1. EarlyInv
    BY DEF Inv, Again, LateInv, Late
  <1>2. Owner \in All /\ Children \subseteq All /\ Owner \notin Children
    BY SBAssumption DEF All
  <1>3. TypeOK'
    BY DEF Inv, TypeOK, Again
  <1>4. /\ pc[t] = "over" /\ pc'[t] = IF t = Owner THEN "poll" ELSE "enter"
        /\ \A u \in All \ {t} : pc'[u] = pc[u]
        /\ nwait' = nwait /\ worked' = worked
    BY DEF Inv, TypeOK, Again
  <1>5. nwait' = Cardinality(Counted')
    BY <1>1, <1>2, <1>4, CountKept DEF Counted
  <1>6. EarlyInv'
    BY <1>1, <1>2, <1>4, <1>5 DEF EarlyInv, ChildEarly, OwnerEarly
  <1> QED BY <1>3, <1>6 DEF Inv

-----------------------------------------------------------------------------
LEMMA NextInv == Inv /\ [Next]_vars => Inv'
  <1> SUFFICES ASSUME Inv, [Next]_vars PROVE Inv'
    OBVIOUS
  <1>1. CASE UNCHANGED vars
    BY <1>1 DEF vars, Inv, TypeOK, EarlyInv, LateInv, Counted
  <1>2. CASE Start
    BY <1>2, StartInv
  <1>3. ASSUME NEW c \in Children, Child(c) \/ WakeSpuriously(c) PROVE Inv'
    BY <1>3, IncWaitInv, ChildInv DEF Child
  <1>4. ASSUME NEW t \in All, Both(t) PROVE Inv'
    BY <1>4, WaitStopInv, ResetInv, WaitPrepareInv, AgainInv DEF Both
  <1> QED BY <1>1, <1>2, <1>3, <1>4 DEF Next

LEMMA Invariance == Spec => []Inv
  BY InitInv, NextInv, PTL DEF Spec

\* Types, and nwait never exceeds child_nthread.
THEOREM BarrierTypes == Spec => []TypeOK
  <1>1. Inv => TypeOK
    BY DEF Inv
  <1> QED BY <1>1, Invariance, PTL

\* When start() looks at nwait it sees the arrivals of its own round only.
THEOREM CountsOwnRound == Spec => []CountIsOfThisRound
  <1>1. Inv => CountIsOfThisRound
    BY DEF Inv, EarlyInv, LateInv, Late, All, Counted, CountIsOfThisRound
  <1> QED BY <1>1, Invariance, PTL

\* Nobody leaves barrier_stop before every child has worked, and no child
\* works twice in a round.
THEOREM RoundsDoNotOverlap == Spec => []RoundsAligned
  <1>1. Inv => RoundsAligned
    BY SBAssumption DEF Inv, TypeOK, EarlyInv, LateInv, ChildEarly, OwnerEarly,
                        Late, All, RoundsAligned
  <1> QED BY <1>1, Invariance, PTL

-----------------------------------------------------------------------------
(* MultiLock.                                                               *)

\* A process inside has the unit of its semaphore, and one that waits has a
\* semaphore to wait on: what keeps a post from raising a value above 1.
UnitTaken ==
    \A p \in Processes :
        /\ stage[p] \in {"wait", "in"} => handle[p] # 0
        /\ stage[p] = "in" => value[handle[p]] = 0

LockInv == LockTypeOK /\ ExclusivePerSemaphore /\ UnitTaken

LEMMA LockInitInv == LockInit => LockInv
  BY MLAssumption DEF LockInit, LockInv, LockTypeOK, ExclusivePerSemaphore, UnitTaken

\* The handle of a process that waits or is inside names a semaphore.
LEMMA HandleInDomain ==
  ASSUME LockInv, NEW p \in Processes, stage[p] \in {"wait", "in"}
  PROVE  /\ handle[p] \in 1 .. Len(value)
         /\ value[handle[p]] \in {0, 1}
  BY DEF LockInv, LockTypeOK, UnitTaken

LEMMA OpenInv ==
  ASSUME LockInv, NEW p \in Processes, Open(p)
  PROVE  LockInv'
  <1> USE DEF LockInv
  <1>1. CASE named # 0 /\ handle' = [handle EXCEPT ![p] = named]
             /\ UNCHANGED <<named, value>>
    BY <1>1, MLAssumption DEF Open, LockTypeOK, ExclusivePerSemaphore, UnitTaken
  <1>2. CASE /\ named = 0
             /\ value' = Append(value, InitialValue)
             /\ named' = Len(value')
             /\ handle' = [handle EXCEPT ![p] = named']
    <2>1. /\ value' \in Seq({0, 1})
          /\ Len(value') = Len(value) + 1
          /\ \A o \in 1 .. Len(value) : value'[o] = value[o]
      BY <1>2 DEF LockTypeOK, InitialValue
    <2>2. LockTypeOK'
      BY <1>2, <2>1, MLAssumption DEF Open, LockTypeOK
    <2>3. ExclusivePerSemaphore'
      BY <1>2 DEF Open, LockTypeOK, ExclusivePerSemaphore
    <2>4. UnitTaken'
      <3> SUFFICES ASSUME NEW q \in Processes
                   PROVE  /\ stage'[q] \in {"wait", "in"} => handle'[q] # 0
                          /\ stage'[q] = "in" => value'[handle'[q]] = 0
        BY DEF UnitTaken
      <3>1. CASE q = p
        BY <3>1, <1>2, <2>1 DEF Open, LockTypeOK
      <3>2. CASE q # p
        BY <3>2, <1>2, <2>1, HandleInDomain DEF Open, LockTypeOK, UnitTaken
      <3> QED BY <3>1, <3>2
    <2> QED BY <2>2, <2>3, <2>4
  <1> QED BY <1>1, <1>2 DEF Open

\* A waiter gets in only when the value is 1, so nobody with its semaphore is
\* inside, and the unit is then taken.
LEMMA EnterInv ==
  ASSUME LockInv, NEW p \in Processes, Enter(p)
  PROVE  LockInv'
  <1>1. /\ handle[p] \in 1 .. Len(value) /\ value[handle[p]] = 1
        /\ value' = [value EXCEPT ![handle[p]] = 0]
    <2>1. stage[p] \in {"wait", "in"} /\ value[handle[p]] > 0
      BY DEF Enter
    <2>2. handle[p] \in 1 .. Len(value) /\ value[handle[p]] \in {0, 1}
      BY <2>1, HandleInDomain
    <2>3. value[handle[p]] = 1
      BY <2>1, <2>2
    <2> QED BY <2>2, <2>3 DEF Enter
  <1>2. value' \in Seq({0, 1}) /\ Len(value') = Len(value)
    BY <1>1 DEF LockInv, LockTypeOK
  <1>3. LockTypeOK'
    BY <1>2 DEF LockInv, Enter, LockTypeOK
  <1>4. \A q \in Processes : stage[q] = "in" => handle[q] # handle[p]
    BY <1>1 DEF LockInv, UnitTaken
  <1>5. ExclusivePerSemaphore'
    BY <1>4 DEF LockInv, Enter, LockTypeOK, ExclusivePerSemaphore
  <1>6. UnitTaken'
    <2> SUFFICES ASSUME NEW q \in Processes
                 PROVE  /\ stage'[q] \in {"wait", "in"} => handle'[q] # 0
                        /\ stage'[q] = "in" => value'[handle'[q]] = 0
      BY DEF UnitTaken
    <2>1. CASE q = p
      BY <2>1, <1>1 DEF LockInv, Enter, LockTypeOK
    <2>2. CASE q # p
      BY <2>2, <1>1, <1>4, HandleInDomain DEF LockInv, Enter, LockTypeOK, UnitTaken
    <2> QED BY <2>1, <2>2
  <1> QED BY <1>3, <1>5, <1>6 DEF LockInv

\* A post gives back the unit that the process took, and nobody else inside
\* has the same semaphore.
LEMMA PostInv ==
  ASSUME LockInv, NEW p \in Processes, Post(p)
  PROVE  LockInv'
  <1>1. /\ handle[p] \in 1 .. Len(value)
        /\ value' = [value EXCEPT ![handle[p]] = 1]
    <2>1. stage[p] \in {"wait", "in"} /\ value[handle[p]] = 0
      BY DEF LockInv, UnitTaken, Post
    <2>2. handle[p] \in 1 .. Len(value)
      BY <2>1, HandleInDomain
    <2> QED BY <2>1, <2>2 DEF Post
  <1>2. value' \in Seq({0, 1}) /\ Len(value') = Len(value)
    BY <1>1 DEF LockInv, LockTypeOK
  <1>3. LockTypeOK'
    BY <1>2 DEF LockInv, Post, LockTypeOK
  <1>4. \A q \in Processes : stage[q] = "in" /\ q # p => handle[q] # handle[p]
    BY DEF LockInv, Post, ExclusivePerSemaphore
  <1>5. ExclusivePerSemaphore'
    BY DEF LockInv, Post, LockTypeOK, ExclusivePerSemaphore
  <1>6. UnitTaken'
    <2> SUFFICES ASSUME NEW q \in Processes
                 PROVE  /\ stage'[q] \in {"wait", "in"} => handle'[q] # 0
                        /\ stage'[q] = "in" => value'[handle'[q]] = 0
      BY DEF UnitTaken
    <2>1. CASE q = p
      BY <2>1 DEF LockInv, Post, LockTypeOK
    <2>2. CASE q # p
      BY <2>2, <1>1, <1>4, HandleInDomain DEF LockInv, Post, LockTypeOK, UnitTaken
    <2> QED BY <2>1, <2>2
  <1> QED BY <1>3, <1>5, <1>6 DEF LockInv

\* Closing, unlinking and dying take a process away from its semaphore, or
\* the name from it; nobody comes in and no value changes.
LEMMA LeaveInv ==
  ASSUME LockInv, NEW p \in Processes, Close(p) \/ Unlink(p) \/ Crash(p)
  PROVE  LockInv'
  <1> USE DEF LockInv
  <1>1. LockTypeOK'
    <2>1. Len(value) \in Nat
      BY DEF LockTypeOK
    <2>2. CASE Close(p)
      BY <2>1, <2>2 DEF LockTypeOK, Close
    <2>3. CASE Unlink(p)
      BY <2>1, <2>3 DEF LockTypeOK, Unlink
    <2>4. CASE Crash(p)
      BY <2>1, <2>4 DEF LockTypeOK, Crash
    <2> QED BY <2>2, <2>3, <2>4
  <1>2. /\ \A q \in Processes \ {p} : stage'[q] = stage[q] /\ handle'[q] = handle[q]
        /\ stage'[p] \notin {"wait", "in"}
        /\ value' = value
    BY DEF LockTypeOK, Close, Unlink, Crash
  <1>3. ExclusivePerSemaphore' /\ UnitTaken'
    BY <1>2 DEF ExclusivePerSemaphore, UnitTaken
  <1> QED BY <1>1, <1>3

LEMMA LockNextInv == LockInv /\ [LockNext]_lockVars => LockInv'
  <1> SUFFICES ASSUME LockInv, [LockNext]_lockVars PROVE LockInv'
    OBVIOUS
  <1>1. CASE UNCHANGED lockVars
    BY <1>1 DEF lockVars, LockInv, LockTypeOK, ExclusivePerSemaphore, UnitTaken
  <1>2. ASSUME NEW p \in Processes, Step(p) \/ Crash(p) PROVE LockInv'
    BY <1>2, OpenInv, EnterInv, PostInv, LeaveInv DEF Step
  <1> QED BY <1>1, <1>2 DEF LockNext

LEMMA LockInvariance == LockSpec => []LockInv
  BY LockInitInv, LockNextInv, PTL DEF LockSpec

\* Types; and whatever is unlinked, crashes or posts, the value of every
\* semaphore the constructor created stays 0 or 1.
THEOREM LockTypes == LockSpec => []LockTypeOK
  <1>1. LockInv => LockTypeOK
    BY DEF LockInv
  <1> QED BY <1>1, LockInvariance, PTL

\* Two processes between constructor and destructor never share a semaphore.
THEOREM SemaphoreExcludes == LockSpec => []ExclusivePerSemaphore
  <1>1. LockInv => ExclusivePerSemaphore
    BY DEF LockInv
  <1> QED BY <1>1, LockInvariance, PTL

-----------------------------------------------------------------------------
(* WatchDog.                                                                *)

\* The last stamp is no older than the count it was made for, less what the
\* watcher was held up, unless a newer count waits to be noticed.
StampNotOlder ==
    stamped => schedAge \in Ages /\ (fresh \/ schedAge <= quiet + lag)

\* While the watcher holds its reading of the clock the stamp it will compare
\* with it only gets older.
GapNotWider == watcher = "compare" \/ watcher = "look" => gap.sched <= schedAge

DogInv == DogTypeOK /\ StampNotOlder /\ GapNotWider

LEMMA OlderMonotone ==
  ASSUME NEW a \in Ages \cup {-1}, NEW b \in Ages, NEW c \in Ages
  PROVE  /\ Older(a) \in Ages \cup {-1} /\ Older(b) \in Ages
         /\ a \in Ages => Older(a) \in Ages
         /\ a <= Older(a)
         /\ a <= b + c => Older(a) <= Older(b) + c
  BY WDAssumption DEF Ages, Older

LEMMA ZeroIsAge == 0 \in Ages /\ \A a \in Ages : 0 <= a
  BY WDAssumption DEF Ages

LEMMA DogInitInv == DogInit => DogInv
  <1> SUFFICES ASSUME DogInit PROVE DogInv
    OBVIOUS
  <1>1. count \in 0 .. TouchLimit + 1
    BY WDAssumption DEF DogInit
  <1>2. DogTypeOK
    BY <1>1, ZeroIsAge DEF DogInit, DogTypeOK, NoGap
  <1> QED BY <1>2 DEF DogInit, DogInv, StampNotOlder, GapNotWider

\* What a step that is none of the watcher's nor of time has to keep.
LEMMA DogStep ==
  ASSUME DogInv, DogTypeOK', UNCHANGED <<watcher, schedAge, stamped, lag>>,
         gap'.sched = gap.sched, fresh' \/ UNCHANGED <<fresh, quiet>>
  PROVE  DogInv'
  BY DEF DogInv, StampNotOlder, GapNotWider

LEMMA DogRoundInv == ASSUME DogInv, Poke \/ Round PROVE DogInv'
  <1>1. CASE Poke
    <2>1. DogTypeOK'
      BY <1>1 DEF Poke, Poked, DogInv, DogTypeOK, touchVars, checkVars, nowVars
    <2> QED BY <1>1, <2>1 DEF Poke, DogInv, StampNotOlder, GapNotWider, touchVars, checkVars, nowVars
  <1>2. CASE Check
    <2>1. schedAge <= schedAge
      BY WDAssumption DEF DogInv, DogTypeOK, Ages
    <2>2. nowAge' \in Ages /\ gap' \in [touch : Ages, next : Ages, sched : Ages \cup {-1}]
      BY <1>2, ZeroIsAge DEF Check, ReadNow, DogInv, DogTypeOK, nowVars
    <2>3. DogTypeOK'
      BY <1>2, <2>2 DEF Check, DogInv, DogTypeOK, touchVars, checkVars
    <2> QED BY <1>2, <2>1, <2>3 DEF Check, ReadNow, DogInv, StampNotOlder, GapNotWider, touchVars, checkVars, nowVars
  <1>3. CASE First
    <2>1. nowAge' \in Ages /\ gap' \in [touch : Ages, next : Ages, sched : Ages \cup {-1}]
      BY <1>3, ZeroIsAge DEF First, ReadNow, DogInv, DogTypeOK
    <2>2. DogTypeOK'
      BY <1>3, <2>1 DEF First, DogInv, DogTypeOK, touchVars, checkVars
    <2> QED BY <1>3, <2>2 DEF First, DogInv, StampNotOlder, GapNotWider, touchVars, checkVars
  <1>4. CASE StoreFirst
    <2>1. DogTypeOK'
      BY <1>4, ZeroIsAge DEF StoreFirst, EndRound, NoGap, DogInv, DogTypeOK, checkVars
    <2> QED BY <1>4, <2>1 DEF StoreFirst, EndRound, DogInv, StampNotOlder, GapNotWider, checkVars
  <1>5. CASE Look
    <2>1. nowAge' \in Ages /\ gap' \in [touch : Ages, next : Ages, sched : Ages \cup {-1}]
      BY <1>5, ZeroIsAge DEF Look, EndRound, NoGap, DogInv, DogTypeOK, nowVars
    <2>2. DogTypeOK'
      BY <1>5, <2>1 DEF Look, EndRound, DogInv, DogTypeOK, touchVars, checkVars
    <2> QED BY <1>5, <2>2 DEF Look, EndRound, DogInv, StampNotOlder, GapNotWider, touchVars, checkVars, nowVars
  <1>6. CASE CheckHungTask
    <2>1. nowAge' \in Ages /\ gap' \in [touch : Ages, next : Ages, sched : Ages \cup {-1}]
      BY <1>6, ZeroIsAge DEF CheckHungTask, EndRound, NoGap
    <2>2. DogTypeOK'
      BY <1>6, <2>1 DEF CheckHungTask, EndRound, DogInv, DogTypeOK, touchVars, checkVars
    <2>3. ASSUME fresh PROVE schedAge' \in Ages /\ schedAge' <= quiet' + lag'
      <3>1. schedAge' = nowAge /\ lag' = nowAge /\ quiet' = quiet
        BY <1>6, <2>3 DEF CheckHungTask
      <3>2. nowAge \in Ages /\ quiet \in Ages
        BY DEF DogInv, DogTypeOK
      <3>3. nowAge <= quiet + nowAge
        BY <3>2, WDAssumption DEF Ages
      <3> QED BY <3>1, <3>2, <3>3
    <2>4. StampNotOlder'
      BY <1>6, <2>3 DEF CheckHungTask, DogInv, StampNotOlder, checkVars
    <2> QED BY <1>6, <2>2, <2>4 DEF CheckHungTask, EndRound, DogInv, GapNotWider
  <1>7. CASE Stop
    <2>1. DogTypeOK'
      BY <1>7 DEF Stop, DogInv, DogTypeOK, touchVars, checkVars, nowVars
    <2> QED BY <1>7, <2>1 DEF Stop, DogInv, StampNotOlder, GapNotWider, touchVars, checkVars, nowVars
  <1>8. CASE Notify
    <2>1. DogTypeOK'
      BY <1>8 DEF Notify, Poked, DogInv, DogTypeOK, touchVars, checkVars, nowVars
    <2> QED BY <1>8, <2>1 DEF Notify, DogInv, StampNotOlder, GapNotWider, touchVars, checkVars, nowVars
  <1> QED
    BY <1>1, <1>2, <1>3, <1>4, <1>5, <1>6, <1>7, <1>8 DEF Round

LEMMA DogNextInv == DogInv /\ [DogNext]_dogVars => DogInv'
  <1> SUFFICES ASSUME DogInv, [DogNext]_dogVars PROVE DogInv'
    OBVIOUS
  <1>1. CASE Second
    <2>1. DogTypeOK'
      BY <1>1, OlderMonotone, ZeroIsAge DEF Second, DogInv, DogTypeOK
    <2>2. StampNotOlder'
      BY <1>1, OlderMonotone DEF Second, DogInv, DogTypeOK, StampNotOlder
    <2>3. gap.sched \in Ages \cup {-1} /\ schedAge \in Ages \cup {-1} /\ quiet \in Ages
      BY DEF DogInv, DogTypeOK
    <2>4. schedAge <= schedAge' /\ schedAge' \in Ages \cup {-1}
      BY <1>1, <2>3, OlderMonotone DEF Second
    <2>5. gap.sched <= schedAge => gap.sched <= schedAge'
      BY <2>3, <2>4, WDAssumption DEF Ages
    <2>6. GapNotWider'
      BY <1>1, <2>5 DEF Second, DogInv, GapNotWider
    <2> QED BY <2>1, <2>2, <2>6 DEF DogInv
  <1>2. CASE DogWork
    <2>1. DogTypeOK'
      BY <1>2, ZeroIsAge DEF DogWork, DogInv, DogTypeOK, touchVars, nowVars
    <2> QED BY <1>2, <2>1, DogStep DEF DogWork, nowVars
  <1>3. CASE Touch
    <2>1. gap' \in [touch : Ages, next : Ages, sched : Ages \cup {-1}] /\ gap'.sched = gap.sched
      BY <1>3, ZeroIsAge DEF Touch, DogInv, DogTypeOK
    <2>2. DogTypeOK'
      BY <1>3, <2>1, ZeroIsAge DEF Touch, DogInv, DogTypeOK, checkVars
    <2> QED BY <1>3, <2>1, <2>2, DogStep DEF Touch, checkVars
  <1>4. CASE Stamp
    <2>1. gap' \in [touch : Ages, next : Ages, sched : Ages \cup {-1}] /\ gap'.sched = gap.sched
      BY <1>4 DEF Stamp, DogInv, DogTypeOK
    <2>2. DogTypeOK'
      BY <1>4, <2>1, ZeroIsAge DEF Stamp, DogInv, DogTypeOK, checkVars
    <2> QED BY <1>4, <2>1, <2>2, DogStep DEF Stamp, checkVars
  <1>5. CASE Sleep
    <2>1. DogTypeOK'
      BY <1>5 DEF Sleep, DogInv, DogTypeOK, touchVars, checkVars, nowVars
    <2> QED BY <1>5, <2>1, DogStep DEF Sleep, checkVars, nowVars
  <1>6. CASE Wake
    <2>1. count' \in 0 .. TouchLimit + 1
      BY <1>6, WDAssumption DEF Wake, DogInv, DogTypeOK
    <2>2. toucher' \in {"armed", "test"} /\ touched
      BY <1>6 DEF Wake, DogInv, DogTypeOK
    <2>3. DogTypeOK'
      BY <1>6, <2>1, <2>2 DEF Wake, DogInv, DogTypeOK, checkVars, nowVars
    <2> QED BY <1>6, <2>3, DogStep DEF Wake, checkVars, nowVars
  <1>7. CASE Poke \/ Round
    BY <1>7, DogRoundInv
  <1>8. CASE UNCHANGED dogVars
    <2>1. DogTypeOK'
      BY <1>8 DEF dogVars, DogInv, DogTypeOK, touchVars, checkVars, nowVars
    <2> QED BY <1>8, <2>1, DogStep DEF dogVars, checkVars, nowVars
  <1> QED
    BY <1>1, <1>2, <1>3, <1>4, <1>5, <1>6, <1>7, <1>8 DEF DogNext, Toucher

THEOREM DogInvariant == DogSpec => []DogInv
  BY DogInitInv, DogNextInv, PTL DEF DogSpec

\* Line 86: check_hung_task takes a worker that was stamped at least once for
\* hung only when its silence and the watcher's own delay exceed TIMEOUT.
THEOREM HungOnlyWhenSilent == DogSpec => HungIsReal
  <1>1. ASSUME DogInv, [DogNext]_dogVars, watcher = "compare", watcher' = "hung", stamped
        PROVE  quiet + lag > Timeout
    <2>1. CheckHungTask
      BY <1>1 DEF DogNext, Second, DogWork, Toucher, Touch, Stamp, Sleep, Wake, Poke, Round,
                  Check, First, StoreFirst, Look, Stop, Notify, dogVars
    <2>2. ~fresh /\ gap.sched > Timeout
      BY <1>1, <2>1 DEF CheckHungTask, EndRound
    <2>3. gap.sched <= schedAge /\ schedAge <= quiet + lag
      BY <1>1, <2>2 DEF DogInv, StampNotOlder, GapNotWider
    <2>4. /\ gap.sched \in Int /\ schedAge \in Int /\ quiet \in Int /\ lag \in Int
          /\ Timeout \in Int
      BY <1>1, WDAssumption DEF DogInv, DogTypeOK, Ages
    <2>5. PICK g \in Int, a \in Int : g = gap.sched /\ a = schedAge
      BY <2>4
    <2> QED BY <2>2, <2>3, <2>4, <2>5
  <1>2. DogInv /\ [DogNext]_dogVars
          => [watcher = "compare" /\ watcher' = "hung" /\ stamped
                => quiet + lag > Timeout]_dogVars
    BY <1>1
  <1> QED BY <1>2, DogInvariant, PTL DEF DogSpec, HungIsReal
=============================================================================
