------------------------- MODULE TaskWorkPoolProofs -------------------------
(* The work list of the task work pool is sound and no job it takes is lost  *)
(* or run twice, for any number of workers and jobs.                         *)
EXTENDS TaskWorkPool, SequenceTheorems, TLAPS

Waiting == {"added", "asleep", "awake"}

TypeOK ==
    /\ workList \in Seq(Slots)
    /\ func \in [Slots -> 0 .. MaxJobs]
    /\ pc \in [Slots -> {"unborn", "born", "counting", "enter", "run", "after",
                         "testing", "leaving", "discounting", "dead"} \cup Waiting]
    /\ nr \in Nat /\ reg \in [Slots -> Nat] /\ late \in BOOLEAN
    /\ given \in 0 .. MaxJobs /\ taken \in SUBSET (1 .. given)
    /\ ran \in [Jobs -> Nat]

\* The worker keeps list_mutex from one step to the next.
Holds(w) == pc[w] \in {"testing", "leaving", "discounting"}

\* A worker about to leave holds list_mutex alone; the count it tested is above
\* zero and stays so, whatever an uncounted thread stores, until it has read it
\* again and stores one less.
LeaversCounted ==
    /\ \A w, u \in Slots : Holds(w) /\ Holds(u) => w = u
    /\ \A w \in Slots : pc[w] = "leaving" => nr > 0
    /\ \A w \in Slots : pc[w] = "discounting" => reg[w] > 0

\* The worker holds a job it has still to run.
Busy(w) == pc[w] = "run" \/ (pc[w] \in Waiting /\ ~Listed(w))

\* Each job given belongs to one worker; a busy worker has one that was not
\* run, and no job is run that was not taken.
JobsOwned ==
    /\ \A w \in Slots : func[w] # 0 => func[w] \in taken
    /\ \A w, u \in Slots : func[w] # 0 /\ func[w] = func[u] => w = u
    /\ \A w \in Slots : Busy(w) => func[w] # 0 /\ ran[func[w]] = 0
    /\ \A j \in Jobs : ran[j] # 0 => ran[j] = 1 /\ j \in taken
    /\ \A j \in taken : ran[j] = 1 \/ \E w \in Slots : func[w] = j /\ Busy(w)

Inv == TypeOK /\ LeaversCounted /\ ListSound /\ JobsOwned

-----------------------------------------------------------------------------
\* Taking an element out of a sequence without repetitions leaves the others,
\* once each: what list_del does to a list.
LEMMA RemovedOnce ==
    ASSUME NEW S, NEW s \in Seq(S), IsInjective(s), NEW e
    PROVE  /\ RemoveFirst(s, e) \in Seq(S)
           /\ IsInjective(RemoveFirst(s, e))
           /\ ToSet(RemoveFirst(s, e)) = ToSet(s) \ {e}
<1> DEFINE r == RemoveFirst(s, e)
<1>0. \A i, j \in 1 .. Len(s) : s[i] = s[j] => i = j
    BY DEF IsInjective
<1>1. CASE \A i \in 1 .. Len(s) : s[i] # e
    <2>1. r = s
        BY <1>1 DEF RemoveFirst
    <2>2. e \notin ToSet(s)
        BY <1>1 DEF ToSet
    <2>3. QED
        BY <2>1, <2>2
<1>2. CASE \E i \in 1 .. Len(s) : s[i] = e
    <2>1. PICK i \in 1 .. Len(s) : s[i] = e
        BY <1>2
    <2>2. SelectInSeq(s, LAMBDA v : v = e) = i
        <3>1. {j \in 1 .. Len(s) : s[j] = e} = {i}
            BY <2>1, <1>0
        <3>2. Min({i}) = i
            BY DEF Min
        <3>3. QED
            BY <3>1, <3>2 DEF SelectInSeq
    <2>3. r = SubSeq(s, 1, i - 1) \o SubSeq(s, i + 1, Len(s))
        BY <2>1, <2>2 DEF RemoveFirst, RemoveAt
    <2>4. /\ r \in Seq(S) /\ Len(r) = Len(s) - 1
          /\ \A j \in 1 .. Len(s) - 1 : r[j] = IF j < i THEN s[j] ELSE s[j + 1]
        <3> DEFINE a == SubSeq(s, 1, i - 1)
                   b == SubSeq(s, i + 1, Len(s))
        <3>1. a \in Seq(S) /\ Len(a) = i - 1 /\ \A j \in 1 .. i - 1 : a[j] = s[j]
            OBVIOUS
        <3>2. /\ b \in Seq(S) /\ Len(b) = Len(s) - i
              /\ \A j \in 1 .. Len(s) - i : b[j] = s[j + i]
            OBVIOUS
        <3>3. r = a \o b
            BY <2>3
        <3> HIDE DEF a, b, r
        <3>4. /\ r \in Seq(S) /\ Len(r) = Len(a) + Len(b)
              /\ \A j \in 1 .. Len(a) + Len(b) :
                    r[j] = IF j <= Len(a) THEN a[j] ELSE b[j - Len(a)]
            BY <3>1, <3>2, <3>3, ConcatProperties
        <3>5. ASSUME NEW j \in 1 .. Len(s) - 1
              PROVE  r[j] = IF j < i THEN s[j] ELSE s[j + 1]
            <4>1. CASE j < i
                <5>1. j \in 1 .. i - 1 /\ j <= Len(a) /\ j \in 1 .. Len(a) + Len(b)
                    BY <4>1, <3>1, <3>2
                <5>2. r[j] = a[j]
                    BY <5>1, <3>4
                <5>3. QED
                    BY <5>1, <5>2, <4>1, <3>1
            <4>2. CASE ~(j < i)
                <5>1. r[j] = b[j - (i - 1)]
                    <6>1. ~(j <= Len(a)) /\ j \in 1 .. Len(a) + Len(b) /\ Len(a) = i - 1
                        BY <4>2, <3>1, <3>2
                    <6>2. r[j] = b[j - Len(a)]
                        BY <6>1, <3>4
                    <6>3. QED
                        BY <6>1, <6>2
                <5>2. j - (i - 1) \in 1 .. Len(s) - i /\ (j - (i - 1)) + i = j + 1
                    BY <4>2
                <5>3. QED
                    BY <5>1, <5>2, <4>2, <3>2
            <4>3. QED
                BY <4>1, <4>2
        <3>6. QED
            BY <3>1, <3>2, <3>4, <3>5
    <2>5. IsInjective(r)
        BY <2>4, <1>0 DEF IsInjective
    <2>6. ToSet(r) \subseteq ToSet(s) \ {e}
        BY <2>1, <2>4, <1>0 DEF ToSet
    <2>7. ASSUME NEW x \in ToSet(s), x # e
          PROVE  x \in ToSet(r)
        <3>1. PICK j \in 1 .. Len(s) : s[j] = x
            BY DEF ToSet
        <3>2. CASE j < i
            BY <3>1, <3>2, <2>4 DEF ToSet
        <3>3. CASE j > i
            <4>1. j - 1 \in 1 .. Len(s) - 1 /\ r[j - 1] = x
                BY <3>1, <3>3, <2>4
            <4>2. QED
                BY <4>1, <2>4 DEF ToSet
        <3>4. QED
            BY <3>1, <3>2, <3>3, <2>1, <2>7
    <2>8. QED
        BY <2>4, <2>5, <2>6, <2>7
<1>3. QED
    BY <1>1, <1>2

\* A new element at the head.
LEMMA ConsedOnce ==
    ASSUME NEW S, NEW s \in Seq(S), IsInjective(s), NEW e \in S, e \notin ToSet(s)
    PROVE  /\ <<e>> \o s \in Seq(S)
           /\ IsInjective(<<e>> \o s)
           /\ ToSet(<<e>> \o s) = ToSet(s) \cup {e}
<1> DEFINE r == <<e>> \o s
<1>1. /\ r \in Seq(S) /\ Len(r) = Len(s) + 1
      /\ \A j \in 1 .. Len(s) + 1 : r[j] = IF j = 1 THEN e ELSE s[j - 1]
    OBVIOUS
<1>2. IsInjective(r)
    BY <1>1 DEF IsInjective, ToSet
<1>3. ToSet(r) \subseteq ToSet(s) \cup {e}
    BY <1>1 DEF ToSet
<1>4. e \in ToSet(r)
    BY <1>1 DEF ToSet
<1>5. ASSUME NEW x \in ToSet(s)
      PROVE  x \in ToSet(r)
    <2>1. PICK j \in 1 .. Len(s) : s[j] = x
        BY DEF ToSet
    <2>2. j + 1 \in 1 .. Len(r) /\ r[j + 1] = x
        BY <2>1, <1>1
    <2> HIDE DEF r
    <2>3. r \in Seq(S)
        BY <1>1
    <2>4. QED
        BY <2>2, <2>3 DEF ToSet
<1>6. QED
    BY <1>1, <1>2, <1>3, <1>4, <1>5

\* The tail of a sequence without repetitions.
LEMMA TailOnce ==
    ASSUME NEW S, NEW s \in Seq(S), IsInjective(s), s # << >>
    PROVE  /\ Tail(s) \in Seq(S) /\ Head(s) \in S
           /\ IsInjective(Tail(s))
           /\ ToSet(Tail(s)) = ToSet(s) \ {Head(s)}
           /\ Head(s) \in ToSet(s)
<1> DEFINE r == Tail(s)
<1>1. /\ r \in Seq(S) /\ Len(r) = Len(s) - 1 /\ Len(s) > 0
      /\ \A j \in 1 .. Len(s) - 1 : r[j] = s[j + 1]
      /\ Head(s) = s[1]
    OBVIOUS
<1>2. \A i, j \in 1 .. Len(s) : s[i] = s[j] => i = j
    BY DEF IsInjective
<1>3. IsInjective(r)
    BY <1>1, <1>2 DEF IsInjective
<1>4. ToSet(r) \subseteq ToSet(s) \ {Head(s)}
    BY <1>1, <1>2 DEF ToSet
<1>5. ASSUME NEW x \in ToSet(s), x # Head(s)
      PROVE  x \in ToSet(r)
    <2>1. PICK j \in 1 .. Len(s) : s[j] = x
        BY DEF ToSet
    <2>2. j - 1 \in 1 .. Len(r) /\ r[j - 1] = x
        BY <2>1, <1>1, <1>5
    <2> HIDE DEF r
    <2>3. r \in Seq(S)
        BY <1>1
    <2>4. QED
        BY <2>2, <2>3 DEF ToSet
<1>6. Head(s) \in ToSet(s)
    BY <1>1 DEF ToSet
<1>7. QED
    BY <1>1, <1>3, <1>4, <1>5, <1>6

\* list_move: the node is at the head, and the other nodes stay listed.
LEMMA MovedOnce ==
    ASSUME TypeOK, ListSound, NEW w \in Slots
    PROVE  /\ Moved(w) \in Seq(Slots)
           /\ IsInjective(Moved(w))
           /\ ToSet(Moved(w)) = ToSet(workList) \cup {w}
<1> DEFINE r == RemoveFirst(workList, w)
<1>1. r \in Seq(Slots) /\ IsInjective(r) /\ ToSet(r) = ToSet(workList) \ {w}
    BY RemovedOnce DEF TypeOK, ListSound
<1> HIDE DEF r
<1>2. w \notin ToSet(r)
    BY <1>1
<1>3. /\ <<w>> \o r \in Seq(Slots) /\ IsInjective(<<w>> \o r)
      /\ ToSet(<<w>> \o r) = ToSet(r) \cup {w}
    BY <1>1, <1>2, ConsedOnce
<1>4. QED
    BY <1>1, <1>3 DEF r, Moved

\* What the list holds is what its range is.
LEMMA ListedInRange ==
    ASSUME TypeOK PROVE ToSet(workList) \subseteq Slots
BY DEF TypeOK, ToSet

-----------------------------------------------------------------------------
LEMMA InitInv == Init => Inv
<1> SUFFICES ASSUME Init PROVE Inv
    OBVIOUS
<1>1. TypeOK
    <2>1. MaxJobs \in Nat
        BY TWPAssumption
    <2>2. workList \in Seq(Slots)
        BY DEF Init
    <2>3. pc \in [Slots -> {"unborn", "born"}]
        BY DEF Init
    <2>4. late \in BOOLEAN
        BY Zenon DEF Init
    <2>5. /\ func \in [Slots -> 0 .. MaxJobs] /\ reg \in [Slots -> Nat] /\ nr \in Nat
          /\ given \in 0 .. MaxJobs /\ taken \in SUBSET (1 .. given)
          /\ ran \in [Jobs -> Nat]
        BY <2>1 DEF Init
    <2>6. QED
        BY <2>2, <2>3, <2>4, <2>5 DEF TypeOK
<1>2. ToSet(workList) = {}
    BY DEF Init, ToSet
<1>3. ListSound
    BY <1>2 DEF Init, ListSound, IsInjective
<1>4. LeaversCounted
    BY DEF Init, LeaversCounted, Holds
<1>5. JobsOwned
    BY DEF Init, JobsOwned, Busy, Waiting, Jobs
<1>6. QED
    BY <1>1, <1>3, <1>4, <1>5 DEF Inv

\* A step that touches neither the list nor a job keeps what they mean, if
\* it moves its worker between places where it is equally busy.
LEMMA PlaceOnly ==
    ASSUME Inv, NEW w \in Slots, NEW l,
           pc' = [pc EXCEPT ![w] = l],
           UNCHANGED <<workList, func, taken, ran>>,
           pc[w] \in Waiting => l \in Waiting \/ (l = "run" /\ ~Listed(w)),
           l \in Waiting => pc[w] \in Waiting,
           l = "run" => Busy(w),
           pc[w] # "run"
    PROVE  ListSound' /\ JobsOwned'
<1> USE DEF Inv, TypeOK
<1>1. \A u \in Slots : pc'[u] = IF u = w THEN l ELSE pc[u]
    OBVIOUS
<1>2. \A u \in Slots : Listed(u)' <=> Listed(u)
    BY DEF Listed
<1>3. ListSound'
    <2>1. ToSet(workList') = ToSet(workList) /\ ToSet(workList) \subseteq Slots
        BY ListedInRange
    <2>2. \A u \in ToSet(workList) : pc'[u] \in Waiting
        BY <1>1, <2>1 DEF ListSound, Waiting, Listed
    <2>3. QED
        BY <2>1, <2>2 DEF ListSound, Waiting
<1>4. \A u \in Slots : Busy(u)' <=> Busy(u)
    <2>1. ASSUME NEW u \in Slots PROVE Busy(u)' <=> Busy(u)
        <3>1. "run" \notin Waiting
            BY DEF Waiting
        <3>2. QED
            BY <1>1, <1>2, <3>1 DEF Busy
    <2>2. QED
        BY <2>1
<1>5. JobsOwned'
    BY <1>4 DEF JobsOwned
<1>6. QED
    BY <1>3, <1>5

LEMMA LoadNrInv == ASSUME Inv, NEW w \in Slots, LoadNr(w) PROVE Inv'
<1>1. ListSound' /\ JobsOwned'
    BY PlaceOnly, Zenon DEF LoadNr, Waiting
<1>2. TypeOK' /\ LeaversCounted'
    BY DEF Inv, TypeOK, LeaversCounted, Holds, LoadNr
<1>3. QED
    BY <1>1, <1>2 DEF Inv

LEMMA StoreNrInv == ASSUME Inv, NEW w \in Slots, StoreNr(w) PROVE Inv'
<1>1. ListSound' /\ JobsOwned'
    BY PlaceOnly DEF StoreNr, Waiting
<1>2. TypeOK' /\ LeaversCounted'
    BY DEF Inv, TypeOK, LeaversCounted, Holds, StoreNr
<1>3. QED
    BY <1>1, <1>2 DEF Inv

LEMMA SleepInv == ASSUME Inv, NEW w \in Slots, Sleep(w) PROVE Inv'
<1>1. ListSound' /\ JobsOwned'
    BY PlaceOnly DEF Sleep, Waiting
<1>2. TypeOK' /\ LeaversCounted'
    BY DEF Inv, TypeOK, LeaversCounted, Holds, Sleep, Waiting
<1>3. QED
    BY <1>1, <1>2 DEF Inv

\* The count a leaver reads is at least 1: it tested it under the mutex, and the
\* threads that store without the mutex store more than zero.
LEMMA LoadLeaverInv == ASSUME Inv, NEW w \in Slots, LoadLeaver(w) PROVE Inv'
<1>1. ListSound' /\ JobsOwned'
    BY PlaceOnly DEF LoadLeaver, Waiting
<1>2. TypeOK' /\ LeaversCounted'
    BY DEF Inv, TypeOK, LeaversCounted, Holds, LoadLeaver
<1>3. QED
    BY <1>1, <1>2 DEF Inv

\* Writing back one less than it has read does not go below zero, and no other
\* worker is past its test.
LEMMA StoreLeaverInv == ASSUME Inv, NEW w \in Slots, StoreLeaver(w) PROVE Inv'
<1>1. ListSound' /\ JobsOwned'
    BY PlaceOnly DEF StoreLeaver, Waiting
<1>2. TypeOK'
    BY DEF Inv, TypeOK, LeaversCounted, StoreLeaver
<1>3. \A u \in Slots : pc'[u] = IF u = w THEN "dead" ELSE pc[u]
    BY DEF Inv, TypeOK, StoreLeaver
<1>4. \A u \in Slots : ~(Holds(u)')
    BY <1>3 DEF Inv, LeaversCounted, Holds, StoreLeaver
<1>5. LeaversCounted'
    BY <1>4 DEF LeaversCounted, Holds
<1>6. QED
    BY <1>1, <1>2, <1>5 DEF Inv

LEMMA QuietInv == ASSUME Inv, RefuseJob \/ TimePasses \/ UNCHANGED vars PROVE Inv'
<1>1. UNCHANGED <<workList, func, pc, nr, reg, taken, ran>>
    BY DEF RefuseJob, TimePasses, vars
<1>2. given' \in 0 .. MaxJobs /\ given <= given' /\ late' \in BOOLEAN
    <2>1. MaxJobs \in Nat
        BY TWPAssumption
    <2>2. CASE RefuseJob
        BY <2>1, <2>2 DEF Inv, TypeOK, RefuseJob
    <2>3. CASE TimePasses \/ UNCHANGED vars
        <3>1. given' = given /\ (late' = TRUE \/ late' = late)
            BY <2>3 DEF TimePasses, vars
        <3>2. late' \in BOOLEAN
            BY <3>1, Zenon DEF Inv, TypeOK
        <3>3. given' \in 0 .. MaxJobs /\ given <= given'
            BY <3>1 DEF Inv, TypeOK
        <3>4. QED
            BY <3>2, <3>3
    <2>4. QED
        BY <2>2, <2>3
<1>3. TypeOK'
    <2>1. given \in Int /\ given' \in Int
        BY <1>2 DEF Inv, TypeOK
    <2>2. 1 .. given \subseteq 1 .. given'
        BY <2>1, <1>2
    <2>3. QED
        BY <2>2, <1>1, <1>2 DEF Inv, TypeOK
<1>4. LeaversCounted' /\ ListSound'
    BY <1>1 DEF Inv, LeaversCounted, Holds, ListSound
<1>5. JobsOwned'
    BY <1>1 DEF Inv, JobsOwned, Busy, Listed
<1>6. QED
    BY <1>3, <1>4, <1>5 DEF Inv

LEMMA EnlistInv == ASSUME Inv, NEW w \in Slots, Enlist(w) PROVE Inv'
<1> USE DEF Inv, TypeOK
<1>1. \A u \in Slots : pc'[u] = IF u = w THEN "added" ELSE pc[u]
    BY DEF Enlist
<1>2. /\ workList' \in Seq(Slots) /\ IsInjective(workList')
      /\ ToSet(workList') = ToSet(workList) \cup {w}
    BY MovedOnce DEF Enlist
<1>3. TypeOK' /\ LeaversCounted'
    BY <1>1, <1>2 DEF LeaversCounted, Holds, Enlist, Waiting
<1>4. ListSound'
    BY <1>1, <1>2, ListedInRange DEF ListSound
<1>5. \A u \in Slots : Busy(u)' => Busy(u) /\ u # w
    BY <1>1, <1>2 DEF Busy, Listed, Waiting
<1>6. \A u \in Slots : Busy(u) => Busy(u)'
    BY <1>1, <1>2 DEF Busy, Listed, Enlist, Waiting
<1>7. JobsOwned'
    BY <1>5, <1>6 DEF JobsOwned, Enlist
<1>8. QED
    BY <1>3, <1>4, <1>7

LEMMA WokenInv == ASSUME Inv, NEW w \in Slots, Woken(w) PROVE Inv'
<1>0. /\ Moved(w) \in Seq(Slots) /\ IsInjective(Moved(w))
      /\ ToSet(Moved(w)) = ToSet(workList) \cup {w}
    BY MovedOnce DEF Inv
<1> USE DEF Inv, TypeOK
<1>1. CASE ~Listed(w)
    <2>1. /\ pc[w] \in {"asleep", "awake"} /\ pc' = [pc EXCEPT ![w] = "run"]
          /\ UNCHANGED <<workList, func, nr, reg, late, given, taken, ran>>
        BY <1>1 DEF Woken
    <2>2. ListSound' /\ JobsOwned'
        BY <1>1, <2>1, PlaceOnly DEF Busy, Waiting
    <2>3. TypeOK' /\ LeaversCounted'
        BY <2>1 DEF LeaversCounted, Holds
    <2>4. QED
        BY <2>2, <2>3
<1>2. CASE Listed(w)
    <2>1. /\ pc[w] \in {"asleep", "awake"} /\ pc' = [pc EXCEPT ![w] = "added"]
          /\ func' = [func EXCEPT ![w] = 0] /\ workList' = Moved(w)
          /\ UNCHANGED <<nr, reg, late, given, taken, ran>>
        BY <1>2 DEF Woken
    <2>2. /\ workList' \in Seq(Slots) /\ IsInjective(workList')
          /\ ToSet(workList') = ToSet(workList)
        <3>1. workList' = Moved(w) /\ w \in ToSet(workList)
            BY <1>2, <2>1 DEF Listed
        <3>2. ToSet(Moved(w)) = ToSet(workList)
            BY <1>0, <3>1, Zenon
        <3>3. QED
            BY <1>0, <3>1, <3>2, Zenon
    <2>3. 0 \in 0 .. MaxJobs
        BY TWPAssumption
    <2>4. TypeOK' /\ LeaversCounted'
        BY <2>1, <2>2, <2>3 DEF LeaversCounted, Holds, Waiting
    <2>5. \A u \in Slots : pc'[u] = IF u = w THEN "added" ELSE pc[u]
        BY <2>1
    <2>6. ListSound'
        BY <2>2, <2>5, ListedInRange DEF ListSound
    <2>7. \A u \in Slots : Busy(u)' <=> Busy(u)
        BY <1>2, <2>1, <2>2, <2>5 DEF Busy, Listed, Waiting
    <2>8. ~Busy(w)
        BY <1>2, <2>1 DEF Busy
    <2>9. \A u \in Slots : func'[u] = IF u = w THEN 0 ELSE func[u]
        BY <2>1
    <2>10. JobsOwned'
        BY <2>1, <2>7, <2>8, <2>9 DEF JobsOwned
    <2>11. QED
        BY <2>4, <2>6, <2>10
<1>3. QED
    BY <1>1, <1>2

LEMMA RunJobInv == ASSUME Inv, NEW w \in Slots, RunJob(w) PROVE Inv'
<1> USE DEF Inv, TypeOK
<1>1. Busy(w) /\ func[w] \in Jobs /\ func[w] \in taken
    BY TWPAssumption DEF RunJob, Busy, JobsOwned, Jobs
<1>2. /\ ran' = [ran EXCEPT ![func[w]] = @ + 1] /\ ran[func[w]] = 0
      /\ UNCHANGED <<workList, func, nr, reg, late, given, taken>>
    BY <1>1 DEF RunJob, JobsOwned
<1>3. \A u \in Slots : pc'[u] = IF u = w THEN "after" ELSE pc[u]
    BY DEF RunJob
<1>4. \A j \in Jobs : ran'[j] = IF j = func[w] THEN 1 ELSE ran[j]
    BY <1>1, <1>2
<1>5. TypeOK' /\ LeaversCounted'
    BY <1>1, <1>2, <1>3 DEF LeaversCounted, Holds, RunJob
<1>6. ListSound'
    <2>1. w \notin ToSet(workList)
        BY DEF ListSound, RunJob
    <2>2. QED
        BY <1>2, <1>3, <2>1, ListedInRange DEF ListSound
<1>7. \A u \in Slots : Busy(u)' <=> Busy(u) /\ u # w
    BY <1>2, <1>3 DEF Busy, Listed, Waiting
<1>8. taken \subseteq Jobs
    BY TWPAssumption DEF Jobs
<1>9. JobsOwned'
    <2>1. \A u \in Slots : Busy(u)' => func'[u] # 0 /\ ran'[func'[u]] = 0
        <3>1. ASSUME NEW u \in Slots, Busy(u)'
              PROVE  func'[u] # 0 /\ ran'[func'[u]] = 0
            <4>1. u # w /\ Busy(u)
                BY <3>1, <1>7
            <4>2. func[u] # 0 /\ ran[func[u]] = 0 /\ func[u] \in Jobs
                BY <4>1, <1>8 DEF JobsOwned
            <4>3. func[u] # func[w]
                BY <4>1, <4>2 DEF JobsOwned
            <4>4. QED
                BY <4>2, <4>3, <1>2, <1>4
        <3>2. QED
            BY <3>1
    <2>2. \A j \in Jobs : ran'[j] # 0 => ran'[j] = 1 /\ j \in taken'
        BY <1>1, <1>2, <1>4 DEF JobsOwned
    <2>3. \A j \in taken' : ran'[j] = 1 \/ \E u \in Slots : func'[u] = j /\ Busy(u)'
        BY <1>2, <1>4, <1>7, <1>8 DEF JobsOwned
    <2>4. QED
        BY <2>1, <2>2, <2>3, <1>2 DEF JobsOwned
<1>10. QED
    BY <1>5, <1>6, <1>9

LEMMA AfterJobInv == ASSUME Inv, NEW w \in Slots, AfterJob(w) PROVE Inv'
<1> USE DEF Inv, TypeOK
<1>1. PICK born \in SUBSET Slots :
          /\ \A u \in born : pc[u] = "unborn"
          /\ pc' = [u \in Slots |-> IF u \in born THEN "born"
                                    ELSE IF u = w THEN "testing" ELSE pc[u]]
    BY DEF AfterJob
<1>2. /\ pc[w] = "after" /\ ListFree
      /\ UNCHANGED <<workList, func, nr, reg, late, given, taken, ran>>
    BY DEF AfterJob
<1>3. w \notin born /\ w \notin ToSet(workList) /\ ~Busy(w)
    BY <1>1, <1>2 DEF ListSound, Busy, Waiting
<1>4. \A u \in Slots : pc'[u] = IF u \in born THEN "born"
                                ELSE IF u = w THEN "testing" ELSE pc[u]
    BY <1>1
<1>5. TypeOK'
    <2>1. pc' \in [Slots -> {"unborn", "born", "counting", "enter", "run", "after",
                             "testing", "leaving", "discounting", "dead"} \cup Waiting]
        BY <1>1 DEF Waiting
    <2>2. QED
        BY <2>1, <1>2
<1>6. LeaversCounted'
    <2>1. \A u \in Slots : ~Holds(u)
        BY <1>2 DEF ListFree, Holds
    <2>2. \A u \in Slots : Holds(u)' => u = w
        BY <1>4, <2>1 DEF Holds
    <2>3. \A u \in Slots : pc'[u] \notin {"leaving", "discounting"}
        BY <1>4, <2>1 DEF Holds
    <2>4. QED
        BY <2>2, <2>3 DEF LeaversCounted
<1>7. ListSound'
    <2>1. \A u \in ToSet(workList) : u \notin born
        BY <1>1 DEF ListSound
    <2>2. QED
        BY <2>1, <1>2, <1>3, <1>4, ListedInRange DEF ListSound
<1>8. \A u \in Slots : Busy(u)' <=> Busy(u)
    <2>1. ASSUME NEW u \in Slots, u # w PROVE Busy(u)' <=> Busy(u)
        <3>1. CASE u \in born
            BY <3>1, <1>1, <1>4 DEF Busy, Waiting
        <3>2. CASE u \notin born
            BY <3>2, <2>1, <1>2, <1>4 DEF Busy, Listed
        <3>3. QED
            BY <3>1, <3>2
    <2>2. ~Busy(w)'
        BY <1>3, <1>4 DEF Busy, Listed, Waiting
    <2>3. QED
        BY <2>1, <2>2, <1>3
<1>9. JobsOwned'
    BY <1>2, <1>8 DEF JobsOwned
<1>10. QED
    BY <1>5, <1>6, <1>7, <1>9

LEMMA LeaveOrStayInv == ASSUME Inv, NEW w \in Slots, LeaveOrStay(w) PROVE Inv'
<1> USE DEF Inv, TypeOK
<1>0. /\ pc[w] = "testing"
      /\ UNCHANGED <<func, nr, reg, late, given, taken, ran>>
    BY DEF LeaveOrStay
<1>1. CASE pc' = [pc EXCEPT ![w] = "leaving"] /\ UNCHANGED workList /\ nr > MinThreads
    <2>1. ListSound' /\ JobsOwned'
        BY <1>0, <1>1, PlaceOnly DEF Waiting
    <2>2. nr > 0
        BY <1>1, TWPAssumption
    <2>3. TypeOK' /\ LeaversCounted'
        BY <1>0, <1>1, <2>2 DEF LeaversCounted, Holds
    <2>4. QED
        BY <2>1, <2>3
<1>2. CASE pc' = [pc EXCEPT ![w] = "added"] /\ workList' = Moved(w)
    <2>1. \A u \in Slots : pc'[u] = IF u = w THEN "added" ELSE pc[u]
        BY <1>2
    <2>2. /\ workList' \in Seq(Slots) /\ IsInjective(workList')
          /\ ToSet(workList') = ToSet(workList) \cup {w}
        BY <1>2, MovedOnce
    <2>3. w \notin ToSet(workList) /\ ~Busy(w)
        BY <1>0 DEF ListSound, Busy, Waiting
    <2>4. TypeOK' /\ LeaversCounted'
        BY <1>0, <1>2, <2>1, <2>2 DEF LeaversCounted, Holds, Waiting
    <2>5. ListSound'
        BY <2>1, <2>2, ListedInRange DEF ListSound
    <2>6. \A u \in Slots : Busy(u)' => Busy(u) /\ u # w
        BY <2>1, <2>2 DEF Busy, Listed, Waiting
    <2>7. \A u \in Slots : Busy(u) => Busy(u)'
        BY <2>1, <2>2, <2>3 DEF Busy, Listed, Waiting
    <2>8. JobsOwned'
        BY <1>0, <2>6, <2>7 DEF JobsOwned
    <2>9. QED
        BY <2>4, <2>5, <2>8
<1>3. QED
    BY <1>1, <1>2 DEF LeaveOrStay, MayLeave

LEMMA GiveJobInv == ASSUME Inv, GiveJob PROVE Inv'
<1> USE DEF Inv, TypeOK
<1>0. PICK h \in Slots, j \in Jobs : h = Head(workList) /\ j = given + 1
    <2>1. Head(workList) \in Slots
        BY TailOnce DEF GiveJob, ListSound
    <2>2. given + 1 \in Jobs
        BY TWPAssumption DEF GiveJob, Jobs
    <2>3. QED
        BY <2>1, <2>2
<1>1. /\ Listed(h)
      /\ Tail(workList) \in Seq(Slots) /\ IsInjective(Tail(workList))
      /\ ToSet(Tail(workList)) = ToSet(workList) \ {h}
    BY <1>0, TailOnce DEF GiveJob, ListSound, Listed
<1>2. /\ given < MaxJobs /\ given' = j /\ taken' = taken \cup {j}
      /\ workList' = Tail(workList)
      /\ func' = [func EXCEPT ![h] = j]
      /\ pc' = [pc EXCEPT ![h] = IF @ = "asleep" THEN "awake" ELSE @]
      /\ UNCHANGED <<nr, reg, late, ran>>
    BY <1>0 DEF GiveJob
<1>3. j \in Jobs /\ j \notin taken /\ taken \subseteq Jobs /\ MaxJobs \in Nat
    BY <1>0, <1>2, TWPAssumption DEF Jobs
<1>4. pc[h] \in Waiting
    BY <1>1 DEF ListSound, Waiting, Listed
<1>5. \A u \in Slots : pc'[u] = IF u = h /\ pc[u] = "asleep" THEN "awake" ELSE pc[u]
    BY <1>1, <1>2
<1>6. \A u \in Slots : func'[u] = IF u = h THEN j ELSE func[u]
    BY <1>1, <1>2
<1>7. TypeOK'
    <2>1. pc' \in [Slots -> {"unborn", "born", "counting", "enter", "run", "after",
                             "testing", "leaving", "discounting", "dead"} \cup Waiting]
        BY <1>2 DEF Waiting
    <2>2. func' \in [Slots -> 0 .. MaxJobs]
        <3>1. j \in 0 .. MaxJobs
            BY <1>3 DEF Jobs
        <3>2. QED
            BY <3>1, <1>2
    <2>3. given' \in 0 .. MaxJobs /\ taken' \in SUBSET (1 .. given')
        <3>1. given' = given + 1
            BY <1>0, <1>2
        <3>2. taken' \subseteq 1 .. given + 1
            BY <1>0, <1>2
        <3>3. QED
            BY <3>1, <3>2, <1>2, <1>3
    <2>4. QED
        BY <2>1, <2>2, <2>3, <1>1, <1>2
<1>8. LeaversCounted'
    BY <1>2, <1>5 DEF LeaversCounted, Holds
<1>9. ListSound'
    BY <1>1, <1>2, <1>5, ListedInRange DEF ListSound
<1>10. \A u \in Slots : Busy(u)' <=> Busy(u) \/ u = h
    BY <1>1, <1>2, <1>4, <1>5 DEF Busy, Listed, Waiting
<1>11. ~Busy(h)
    BY <1>1, <1>4 DEF Busy, Waiting, ListSound, Listed
<1>12. ran[j] = 0
    BY <1>3 DEF JobsOwned
<1>13. JobsOwned'
    <2>1. \A u \in Slots : func'[u] # 0 => func'[u] \in taken'
        BY <1>2, <1>6 DEF JobsOwned
    <2>2. \A v, u \in Slots : func'[v] # 0 /\ func'[v] = func'[u] => v = u
        <3>1. \A u \in Slots : func[u] # j
            BY <1>3, TWPAssumption DEF JobsOwned, Jobs
        <3>2. \A v, u \in Slots : func[v] # 0 /\ func[v] = func[u] => v = u
            BY DEF JobsOwned
        <3>3. QED
            BY <3>1, <3>2, <1>1, <1>6, Zenon
    <2>3. \A u \in Slots : Busy(u)' => func'[u] # 0 /\ ran'[func'[u]] = 0
        <3>1. j # 0
            BY <1>3 DEF Jobs
        <3>2. QED
            BY <3>1, <1>2, <1>6, <1>10, <1>12 DEF JobsOwned
    <2>4. \A i \in Jobs : ran'[i] # 0 => ran'[i] = 1 /\ i \in taken'
        BY <1>2 DEF JobsOwned
    <2>5. \A i \in taken' : ran'[i] = 1 \/ \E u \in Slots : func'[u] = i /\ Busy(u)'
        <3>1. func'[h] = j /\ Busy(h)'
            BY <1>1, <1>6, <1>10
        <3>2. ASSUME NEW i \in taken
              PROVE  ran'[i] = 1 \/ \E u \in Slots : func'[u] = i /\ Busy(u)'
            <4>1. CASE ran[i] = 1
                BY <4>1, <1>2
            <4>2. CASE \E u \in Slots : func[u] = i /\ Busy(u)
                <5>1. PICK u \in Slots : func[u] = i /\ Busy(u)
                    BY <4>2
                <5>2. u # h
                    BY <5>1, <1>11
                <5>3. QED
                    BY <5>1, <5>2, <1>6, <1>10
            <4>3. QED
                BY <4>1, <4>2 DEF JobsOwned
        <3>3. QED
            BY <3>1, <3>2, <1>1, <1>2
    <2>6. QED
        BY <2>1, <2>2, <2>3, <2>4, <2>5 DEF JobsOwned
<1>14. QED
    BY <1>7, <1>8, <1>9, <1>13

\* Every step keeps the invariant.
LEMMA NextInv == Inv /\ [Next]_vars => Inv'
<1> SUFFICES ASSUME Inv, [Next]_vars PROVE Inv'
    OBVIOUS
<1>1. ASSUME NEW w \in Slots, Worker(w) PROVE Inv'
    BY <1>1, LoadNrInv, StoreNrInv, EnlistInv, SleepInv, WokenInv, RunJobInv,
       AfterJobInv, LeaveOrStayInv, LoadLeaverInv, StoreLeaverInv DEF Worker
<1>2. QED
    BY <1>1, GiveJobInv, QuietInv DEF Next

LEMMA Invariance == Spec => []Inv
BY InitInv, NextInv, PTL DEF Spec

-----------------------------------------------------------------------------
\* nr_threads never wraps, although its increments race with its decrements.
THEOREM CountSafe == Spec => []CountNeverWraps
<1>1. Inv => CountNeverWraps
    BY DEF Inv, TypeOK, CountNeverWraps
<1>2. QED
    BY <1>1, Invariance, PTL

\* work_list never holds the node of a worker that runs, leaves or is gone.
THEOREM ListStaysSound == Spec => []ListSound
<1>1. Inv => ListSound
    BY DEF Inv
<1>2. QED
    BY <1>1, Invariance, PTL

\* A job operation() found a worker for is run once or is still with it.
THEOREM NoJobIsLost == Spec => []TakenJobKept
<1>1. Inv => TakenJobKept
    <2> SUFFICES ASSUME Inv PROVE TakenJobKept
        OBVIOUS
    <2>1. \A i \in Jobs : ran[i] <= 1
        BY DEF Inv, TypeOK, JobsOwned
    <2>2. ASSUME NEW w \in Slots, Busy(w)
          PROVE  ~Listed(w) /\ pc[w] \in {"added", "asleep", "awake", "run"}
        BY <2>2 DEF Inv, Busy, Waiting, ListSound, Listed
    <2>3. QED
        BY <2>1, <2>2 DEF Inv, JobsOwned, TakenJobKept
<1>2. QED
    BY <1>1, Invariance, PTL
=============================================================================
