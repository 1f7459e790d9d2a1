---------------------------- MODULE KernelProofs ----------------------------
(***************************************************************************)
(* Proofs about the structures of a kernel rebuilt in user space:          *)
(* KmemCache for any slabs, objects of a slab and size of the array (no    *)
(* object is lost or in two places, the lists and counters agree, and the  *)
(* cache is an object pool), ObjList for any objects, threads, calls and   *)
(* deletions (what the reference counts count, that only an object deleted *)
(* twice is freed in use, and that a walk leaves out no object), RingBuf   *)
(* for any capacity, item size and number of items (the reader gets the    *)
(* items whole and in order), TimerWheel for any timers and sizes of the   *)
(* wheels (every timer fires on time), and PageTable for any sizes of the  *)
(* tables and the page (a range is mapped exactly).                        *)
(***************************************************************************)
EXTENDS KmemCache, ObjList, RingBuf, TimerWheel, PageTable,
        FiniteSetTheorems, SequenceTheorems, WellFoundedInduction, TLAPS

-----------------------------------------------------------------------------
(* Lists and chains without repetitions. *)

\* Taking an element out of a sequence without repetitions leaves the others,
\* once each: what list_del does to a list.
LEMMA RemovedOnce ==
    ASSUME NEW S, NEW s \in Seq(S), IsInjective(s), NEW e
    PROVE  /\ RemoveFirst(s, e) \in Seq(S)
           /\ IsInjective(RemoveFirst(s, e))
           /\ ToSet(RemoveFirst(s, e)) = ToSet(s) \ {e}
           /\ Len(RemoveFirst(s, e)) = IF e \in ToSet(s) THEN Len(s) - 1 ELSE Len(s)
<1> DEFINE r == RemoveFirst(s, e)
<1>0. \A i, j \in 1 .. Len(s) : s[i] = s[j] => i = j
    BY DEF IsInjective
<1>1. CASE \A i \in 1 .. Len(s) : s[i] # e
    <2>1. r = s
        BY <1>1 DEF RemoveFirst
    <2>2. e \notin ToSet(s)
        BY <1>1 DEF ToSet
    <2>3. QED
        BY <2>1, <2>2
<1>2. CASE \E i \in 1 .. Len(s) : s[i] = e
    <2>1. PICK i \in 1 .. Len(s) : s[i] = e
        BY <1>2
    <2>2. SelectInSeq(s, LAMBDA v : v = e) = i
        <3>1. {j \in 1 .. Len(s) : s[j] = e} = {i}
            BY <2>1, <1>0
        <3>2. Min({i}) = i
            BY DEF Min
        <3>3. QED
            BY <3>1, <3>2 DEF SelectInSeq
    <2>3. r = SubSeq(s, 1, i - 1) \o SubSeq(s, i + 1, Len(s))
        BY <2>1, <2>2 DEF RemoveFirst, RemoveAt
    <2>4. /\ r \in Seq(S) /\ Len(r) = Len(s) - 1
          /\ \A j \in 1 .. Len(s) - 1 : r[j] = IF j < i THEN s[j] ELSE s[j + 1]
        <3> DEFINE a == SubSeq(s, 1, i - 1)
                   b == SubSeq(s, i + 1, Len(s))
        <3>1. a \in Seq(S) /\ Len(a) = i - 1 /\ \A j \in 1 .. i - 1 : a[j] = s[j]
            OBVIOUS
        <3>2. /\ b \in Seq(S) /\ Len(b) = Len(s) - i
              /\ \A j \in 1 .. Len(s) - i : b[j] = s[j + i]
            OBVIOUS
        <3>3. r = a \o b
            BY <2>3
        <3> HIDE DEF a, b, r
        <3>4. /\ r \in Seq(S) /\ Len(r) = Len(a) + Len(b)
              /\ \A j \in 1 .. Len(a) + Len(b) :
                    r[j] = IF j <= Len(a) THEN a[j] ELSE b[j - Len(a)]
            BY <3>1, <3>2, <3>3, ConcatProperties
        <3>5. ASSUME NEW j \in 1 .. Len(s) - 1
              PROVE  r[j] = IF j < i THEN s[j] ELSE s[j + 1]
            <4>1. CASE j < i
                <5>1. j \in 1 .. Len(a) + Len(b) /\ j <= Len(a)
                    BY <4>1, <3>1, <3>2
                <5>2. r[j] = a[j]
                    BY <5>1, <3>4
                <5>3. QED
                    BY <5>2, <4>1, <3>1
            <4>2. CASE ~(j < i)
                <5>1. j \in 1 .. Len(a) + Len(b) /\ ~(j <= Len(a))
                    BY <4>2, <3>1, <3>2
                <5>2. r[j] = b[j - (i - 1)]
                    BY <5>1, <3>1, <3>4
                <5>3. j - (i - 1) \in 1 .. Len(s) - i /\ (j - (i - 1)) + i = j + 1
                    BY <4>2
                <5>4. QED
                    BY <5>2, <5>3, <4>2, <3>2
            <4>3. QED
                BY <4>1, <4>2
        <3>6. QED
            BY <3>1, <3>2, <3>4, <3>5
    <2>5. IsInjective(r)
        BY <2>4, <1>0 DEF IsInjective
    <2>6. ToSet(r) \subseteq ToSet(s) \ {e}
        BY <2>1, <2>4, <1>0 DEF ToSet
    <2>7. ASSUME NEW x \in ToSet(s), x # e
          PROVE  x \in ToSet(r)
        <3>1. PICK j \in 1 .. Len(s) : s[j] = x
            BY DEF ToSet
        <3>2. CASE j < i
            BY <3>1, <3>2, <2>4 DEF ToSet
        <3>3. CASE j > i
            <4>1. j - 1 \in 1 .. Len(s) - 1 /\ r[j - 1] = x
                BY <3>1, <3>3, <2>4
            <4>2. QED
                BY <4>1, <2>4 DEF ToSet
        <3>4. QED
            BY <3>1, <3>2, <3>3, <2>1, <2>7
    <2>8. e \in ToSet(s)
        BY <2>1 DEF ToSet
    <2>9. QED
        BY <2>4, <2>5, <2>6, <2>7, <2>8
<1>3. QED
    BY <1>1, <1>2

\* A new element at the head.
LEMMA ConsedOnce ==
    ASSUME NEW S, NEW s \in Seq(S), IsInjective(s), NEW e \in S, e \notin ToSet(s)
    PROVE  /\ <<e>> \o s \in Seq(S)
           /\ IsInjective(<<e>> \o s)
           /\ ToSet(<<e>> \o s) = ToSet(s) \cup {e}
           /\ Len(<<e>> \o s) = Len(s) + 1
<1> DEFINE r == <<e>> \o s
<1>1. /\ r \in Seq(S) /\ Len(r) = Len(s) + 1
      /\ \A j \in 1 .. Len(s) + 1 : r[j] = IF j = 1 THEN e ELSE s[j - 1]
    OBVIOUS
<1>2. IsInjective(r)
    BY <1>1 DEF IsInjective, ToSet
<1>3. ToSet(r) \subseteq ToSet(s) \cup {e}
    BY <1>1 DEF ToSet
<1>4. e \in ToSet(r)
    BY <1>1 DEF ToSet
<1>5. ASSUME NEW x \in ToSet(s)
      PROVE  x \in ToSet(r)
    <2>1. PICK j \in 1 .. Len(s) : s[j] = x
        BY DEF ToSet
    <2>2. j + 1 \in 1 .. Len(r) /\ r[j + 1] = x
        BY <2>1, <1>1
    <2> HIDE DEF r
    <2>3. r \in Seq(S)
        BY <1>1
    <2>4. QED
        BY <2>2, <2>3 DEF ToSet
<1>6. QED
    BY <1>1, <1>2, <1>3, <1>4, <1>5

\* A new element at the tail.
LEMMA AppendedOnce ==
    ASSUME NEW S, NEW s \in Seq(S), IsInjective(s), NEW e \in S, e \notin ToSet(s)
    PROVE  /\ Append(s, e) \in Seq(S)
           /\ IsInjective(Append(s, e))
           /\ ToSet(Append(s, e)) = ToSet(s) \cup {e}
           /\ Len(Append(s, e)) = Len(s) + 1
<1> DEFINE r == Append(s, e)
<1>1. /\ r \in Seq(S) /\ Len(r) = Len(s) + 1
      /\ \A j \in 1 .. Len(s) + 1 : r[j] = IF j = Len(s) + 1 THEN e ELSE s[j]
    OBVIOUS
<1> HIDE DEF r
<1>2. IsInjective(r)
    BY <1>1 DEF IsInjective, ToSet
<1>3. ToSet(r) \subseteq ToSet(s) \cup {e}
    BY <1>1 DEF ToSet
<1>4. e \in ToSet(r)
    BY <1>1 DEF ToSet
<1>5. ToSet(s) \subseteq ToSet(r)
    BY <1>1 DEF ToSet
<1>6. QED
    BY <1>1, <1>2, <1>3, <1>4, <1>5 DEF r

\* A sequence without repetitions is as long as its range is large.
LEMMA LengthIsCount ==
    ASSUME NEW S, NEW s \in Seq(S), IsInjective(s)
    PROVE  IsFiniteSet(ToSet(s)) /\ Cardinality(ToSet(s)) = Len(s)
<1>1. s \in Surjection(1 .. Len(s), ToSet(s))
    BY DEF ToSet, Surjection
<1>2. s \in Injection(1 .. Len(s), ToSet(s))
    BY DEF ToSet, Injection, IsInjective
<1>3. Len(s) \in Nat
    OBVIOUS
<1>4. IsFiniteSet(1 .. Len(s)) /\ Cardinality(1 .. Len(s)) = Len(s)
    BY <1>3, FS_Interval
<1>5. QED
    BY <1>1, <1>2, <1>4, FS_Surjection

\* A sequence without repetitions falls into its first k elements and the rest.
LEMMA CutOnce ==
    ASSUME NEW S, NEW s \in Seq(S), IsInjective(s), NEW k \in 0 .. Len(s)
    PROVE  LET a == SubSeq(s, 1, k)
               b == SubSeq(s, k + 1, Len(s))
           IN  /\ a \in Seq(S) /\ IsInjective(a) /\ Len(a) = k
               /\ b \in Seq(S) /\ IsInjective(b) /\ Len(b) = Len(s) - k
               /\ ToSet(a) \cup ToSet(b) = ToSet(s)
               /\ ToSet(a) \cap ToSet(b) = {}
<1> DEFINE a == SubSeq(s, 1, k)
           b == SubSeq(s, k + 1, Len(s))
<1>0. \A i, j \in 1 .. Len(s) : s[i] = s[j] => i = j
    BY DEF IsInjective
<1>1. a \in Seq(S) /\ Len(a) = k /\ \A j \in 1 .. k : a[j] = s[j]
    OBVIOUS
<1>2. b \in Seq(S) /\ Len(b) = Len(s) - k /\ \A j \in 1 .. Len(s) - k : b[j] = s[j + k]
    OBVIOUS
<1> HIDE DEF a, b
<1>3. IsInjective(a)
    BY <1>0, <1>1 DEF IsInjective
<1>4. IsInjective(b)
    BY <1>0, <1>2 DEF IsInjective
<1>5. /\ ToSet(a) = {a[j] : j \in 1 .. k}
      /\ ToSet(b) = {b[j] : j \in 1 .. Len(s) - k}
      /\ ToSet(s) = {s[j] : j \in 1 .. Len(s)}
    <2>1. DOMAIN a = 1 .. k /\ DOMAIN b = 1 .. Len(s) - k /\ DOMAIN s = 1 .. Len(s)
        BY <1>1, <1>2
    <2>2. QED
        BY <2>1, Zenon DEF ToSet
<1>6. ToSet(a) \cup ToSet(b) \subseteq ToSet(s)
    <2>1. ToSet(a) \subseteq ToSet(s)
        BY <1>1, <1>5
    <2>2. ToSet(b) \subseteq ToSet(s)
        BY <1>2, <1>5
    <2>3. QED
        BY <2>1, <2>2
<1>7. ASSUME NEW x \in ToSet(s) PROVE x \in ToSet(a) \cup ToSet(b)
    <2>1. PICK j \in 1 .. Len(s) : s[j] = x
        BY <1>5
    <2>2. CASE j <= k
        BY <1>1, <1>5, <2>1, <2>2
    <2>3. CASE j > k
        <3>1. j - k \in 1 .. Len(s) - k /\ b[j - k] = x
            BY <1>2, <2>1, <2>3
        <3>2. QED
            BY <1>5, <3>1
    <2>4. QED
        BY <2>2, <2>3
<1>8. ToSet(a) \cap ToSet(b) = {}
    BY <1>0, <1>1, <1>2, <1>5
<1>9. QED
    BY <1>1, <1>2, <1>3, <1>4, <1>6, <1>7, <1>8 DEF a, b

-----------------------------------------------------------------------------
(* The invariant, of a cache record c with the objects out outside of its    *)
(* chains.                                                                   *)

Indices == 0 .. num - 1
Of(s) == {s} \X Indices
Chained(c) == UNION {ToSet(c.chain[s]) : s \in Slabs}

CacheType(c) ==
    c \in [full : Seq(Slabs), partial : Seq(Slabs), free : Seq(Slabs),
           chain : [Slabs -> Seq(Objects)], inuse : [Slabs -> Int],
           nfree : Int, ntotal : Int, nslab : Int]

\* nlimit is 0, so the list of free slabs stays empty.
ListsOK(c) ==
    /\ IsInjective(c.full) /\ IsInjective(c.partial) /\ c.free = <<>>
    /\ ToSet(c.full) \cap ToSet(c.partial) = {}
    /\ \A s \in ToSet(c.full) : c.inuse[s] = num
    /\ \A s \in ToSet(c.partial) : c.inuse[s] \in 1 .. num - 1
    /\ c.nslab = Len(c.full) + Len(c.partial)
    /\ c.ntotal = num * c.nslab

\* A slab has its own objects only in its chain, each once, and those that
\* are not there are outside; one that is gone has none anywhere.
SlabOK(c, out, s) ==
    /\ IsInjective(c.chain[s]) /\ ToSet(c.chain[s]) \subseteq Of(s)
    /\ ToSet(c.chain[s]) \cap out = {}
    /\ s \in Live(c) => /\ Len(c.chain[s]) = num - c.inuse[s]
                        /\ Of(s) \subseteq ToSet(c.chain[s]) \cup out
    /\ s \notin Live(c) => c.chain[s] = <<>> /\ Of(s) \cap out = {}

CountOK(c) ==
    IsFiniteSet(Chained(c)) /\ c.nfree = Cardinality(Chained(c))

CacheInv(c, out) ==
    /\ CacheType(c) /\ ListsOK(c) /\ CountOK(c)
    /\ out \subseteq Objects
    /\ \A s \in Slabs : SlabOK(c, out, s)

Inv == /\ CacheInv(slabs, held \cup ToSet(entry))
       /\ entry \in Seq(Objects) /\ IsInjective(entry)
       /\ held \cap ToSet(entry) = {} /\ Len(entry) <= batchcount

LEMMA LiveIs ==
    ASSUME NEW c, CacheType(c), ListsOK(c)
    PROVE  Live(c) = ToSet(c.full) \cup ToSet(c.partial) /\ Live(c) \subseteq Slabs
<1>1. ToSet(c.free) = {}
    BY DEF ListsOK, ToSet
<1>2. c.full \in Seq(Slabs) /\ c.partial \in Seq(Slabs)
    BY DEF CacheType
<1>3. ToSet(c.full) \subseteq Slabs /\ ToSet(c.partial) \subseteq Slabs
    BY <1>2 DEF ToSet
<1>4. QED
    BY <1>1, <1>3 DEF Live

LEMMA SlabSize ==
    ASSUME NEW s PROVE IsFiniteSet(Of(s)) /\ Cardinality(Of(s)) = num
<1>0. num \in Nat /\ num > 0
    BY KCAssumption
<1>1. IsFiniteSet(Indices) /\ Cardinality(Indices) = num
    <2>1. IsFiniteSet(0 .. num - 1)
        BY <1>0, FS_Interval
    <2>2. Cardinality(0 .. num - 1) = num
        BY <1>0, FS_Interval
    <2>3. QED
        BY <2>1, <2>2 DEF Indices
<1>2. IsFiniteSet({s}) /\ Cardinality({s}) = 1
    BY FS_Singleton
<1>3. IsFiniteSet(Of(s)) /\ Cardinality(Of(s)) = 1 * num
    BY <1>1, <1>2, FS_Product DEF Of
<1>4. QED
    BY <1>0, <1>3

\* A chain as long as a slab has room holds all of its objects.
LEMMA FullChain ==
    ASSUME NEW s, NEW q \in Seq(Objects), IsInjective(q), ToSet(q) \subseteq Of(s)
    PROVE  Len(q) <= num /\ (Len(q) = num => ToSet(q) = Of(s))
<1>1. IsFiniteSet(Of(s)) /\ Cardinality(Of(s)) = num
    BY SlabSize
<1>2. IsFiniteSet(ToSet(q)) /\ Cardinality(ToSet(q)) = Len(q)
    BY LengthIsCount
<1>3. QED
    BY <1>1, <1>2, FS_Subset

\* Only one chain is changed: the free objects change by its lengths.
LEMMA ChainCounted ==
    ASSUME NEW c, NEW d, NEW out, NEW s \in Slabs, CacheInv(c, out),
           NEW q \in Seq(Objects), IsInjective(q), ToSet(q) \subseteq Of(s),
           d.chain = [c.chain EXCEPT ![s] = q],
           d.nfree = c.nfree - Len(c.chain[s]) + Len(q)
    PROVE  CountOK(d)
<1> DEFINE old == ToSet(c.chain[s])
           others == Chained(c) \ old
<1>0. /\ c.chain \in [Slabs -> Seq(Objects)]
      /\ IsFiniteSet(Chained(c)) /\ c.nfree = Cardinality(Chained(c))
      /\ c.chain[s] \in Seq(Objects) /\ IsInjective(c.chain[s])
    BY DEF CacheInv, CacheType, CountOK, SlabOK
<1>1. \A t \in Slabs : ToSet(c.chain[t]) \subseteq Of(t)
    BY DEF CacheInv, SlabOK
<1>2. old \subseteq Chained(c)
    BY DEF Chained
<1>3. \A t \in Slabs : t # s => Of(t) \cap Of(s) = {}
    BY DEF Of
<1>4. others \cap Of(s) = {}
    BY <1>1, <1>3 DEF Chained
<1>5. Chained(d) = others \cup ToSet(q)
    <2>1. \A t \in Slabs : d.chain[t] = IF t = s THEN q ELSE c.chain[t]
        BY <1>0
    <2>2. Chained(d) \subseteq others \cup ToSet(q)
        <3>1. ASSUME NEW t \in Slabs, t # s PROVE ToSet(c.chain[t]) \subseteq others
            BY <1>1, <1>3, <3>1 DEF Chained
        <3>2. QED
            BY <2>1, <3>1 DEF Chained
    <2>3. others \subseteq Chained(d)
        <3>1. ASSUME NEW x \in others PROVE x \in Chained(d)
            <4>1. PICK t \in Slabs : x \in ToSet(c.chain[t])
                BY DEF Chained
            <4>2. t # s
                BY <4>1
            <4>3. QED
                BY <2>1, <4>1, <4>2 DEF Chained
        <3>2. QED
            BY <3>1
    <2>4. ToSet(q) \subseteq Chained(d)
        BY <2>1 DEF Chained
    <2>5. QED
        BY <2>2, <2>3, <2>4
<1>6. /\ IsFiniteSet(old) /\ Cardinality(old) = Len(c.chain[s])
      /\ IsFiniteSet(ToSet(q)) /\ Cardinality(ToSet(q)) = Len(q)
    BY <1>0, LengthIsCount
<1>7. IsFiniteSet(others) /\ Cardinality(others) = Cardinality(Chained(c)) - Cardinality(old)
    <2>1. Chained(c) \cap old = old
        BY <1>2
    <2>2. IsFiniteSet(others)
        BY <1>0, FS_Subset
    <2>3. Cardinality(others) = Cardinality(Chained(c)) - Cardinality(Chained(c) \cap old)
        BY <1>0, <1>6, FS_Difference
    <2>4. QED
        BY <2>1, <2>2, <2>3
<1>8. /\ IsFiniteSet(others \cup ToSet(q))
      /\ Cardinality(others \cup ToSet(q)) = Cardinality(others) + Cardinality(ToSet(q))
    <2>1. others \cap ToSet(q) = {}
        BY <1>4
    <2>2. IsFiniteSet(others \cup ToSet(q))
        BY <1>6, <1>7, FS_Union
    <2>3. Cardinality(others \cup ToSet(q)) = Cardinality(others) + Cardinality(ToSet(q))
                                            - Cardinality(others \cap ToSet(q))
        BY <1>6, <1>7, FS_Union
    <2>4. Cardinality(others) \in Int /\ Cardinality(ToSet(q)) \in Int
        BY <1>6, <1>7, FS_CardinalityType
    <2>5. Cardinality(others \cap ToSet(q)) = 0
        BY <2>1, FS_EmptySet
    <2> HIDE DEF others
    <2>6. QED
        BY <2>2, <2>3, <2>4, <2>5
<1>9. Cardinality(Chained(c)) \in Int /\ Len(c.chain[s]) \in Int /\ Len(q) \in Int
    BY <1>0, FS_CardinalityType
<1> HIDE DEF old, others
<1>10. QED
    BY <1>0, <1>5, <1>6, <1>7, <1>8, <1>9 DEF CountOK

\* A step that changes one slab s keeps the invariant if s is right afterwards.
LEMMA SlabChanged ==
    ASSUME NEW c, NEW d, NEW out, NEW out2, NEW s \in Slabs, CacheInv(c, out),
           CacheType(d), ListsOK(d),
           NEW q \in Seq(Objects), IsInjective(q), ToSet(q) \subseteq Of(s),
           d.chain = [c.chain EXCEPT ![s] = q],
           d.nfree = c.nfree - Len(c.chain[s]) + Len(q),
           \A t \in Slabs : t # s => /\ d.inuse[t] = c.inuse[t]
                                     /\ t \in Live(d) <=> t \in Live(c),
           out2 \subseteq Objects,
           \A x \in Objects : x \notin Of(s) => (x \in out2 <=> x \in out),
           SlabOK(d, out2, s)
    PROVE  CacheInv(d, out2)
<1>1. CountOK(d)
    BY ChainCounted
<1>2. ASSUME NEW t \in Slabs, t # s PROVE SlabOK(d, out2, t)
    <2>1. d.chain[t] = c.chain[t]
        BY <1>2 DEF CacheInv, CacheType
    <2>2. \A x \in Of(t) : x \in Objects /\ x \notin Of(s)
        BY <1>2 DEF Of, Objects, Indices
    <2>3. SlabOK(c, out, t)
        BY DEF CacheInv
    <2>4. QED
        BY <1>2, <2>1, <2>2, <2>3 DEF SlabOK
<1>3. QED
    BY <1>1, <1>2 DEF CacheInv

\* Taking a slab off its list.
LEMMA Unlinked1 ==
    ASSUME NEW c, NEW s \in Slabs, CacheType(c), ListsOK(c), s \in Live(c)
    PROVE  LET d == ListDel(c, s)
           IN  /\ CacheType(d)
               /\ d.chain = c.chain /\ d.inuse = c.inuse
               /\ d.nfree = c.nfree /\ d.ntotal = c.ntotal /\ d.nslab = c.nslab
               /\ IsInjective(d.full) /\ IsInjective(d.partial) /\ d.free = <<>>
               /\ ToSet(d.full) = ToSet(c.full) \ {s}
               /\ ToSet(d.partial) = ToSet(c.partial) \ {s}
               /\ Len(d.full) + Len(d.partial) = c.nslab - 1
<1> DEFINE d == ListDel(c, s)
<1>0. c.full \in Seq(Slabs) /\ c.partial \in Seq(Slabs) /\ c.free = <<>>
    BY DEF CacheType, ListsOK
<1>1. RemoveFirst(<<>>, s) = <<>>
    BY DEF RemoveFirst
<1>2. /\ d.full = RemoveFirst(c.full, s) /\ d.partial = RemoveFirst(c.partial, s)
      /\ d.free = <<>>
      /\ d.chain = c.chain /\ d.inuse = c.inuse
      /\ d.nfree = c.nfree /\ d.ntotal = c.ntotal /\ d.nslab = c.nslab
    BY <1>0, <1>1 DEF ListDel, CacheType
<1>3. /\ RemoveFirst(c.full, s) \in Seq(Slabs)
      /\ IsInjective(RemoveFirst(c.full, s))
      /\ ToSet(RemoveFirst(c.full, s)) = ToSet(c.full) \ {s}
      /\ Len(RemoveFirst(c.full, s)) = IF s \in ToSet(c.full) THEN Len(c.full) - 1
                                                              ELSE Len(c.full)
    BY <1>0, RemovedOnce DEF ListsOK
<1>4. /\ RemoveFirst(c.partial, s) \in Seq(Slabs)
      /\ IsInjective(RemoveFirst(c.partial, s))
      /\ ToSet(RemoveFirst(c.partial, s)) = ToSet(c.partial) \ {s}
      /\ Len(RemoveFirst(c.partial, s)) = IF s \in ToSet(c.partial) THEN Len(c.partial) - 1
                                                              ELSE Len(c.partial)
    BY <1>0, RemovedOnce DEF ListsOK
<1>5. CacheType(d)
    BY <1>1, <1>3, <1>4, <1>0 DEF ListDel, CacheType
<1>6. Len(d.full) + Len(d.partial) = c.nslab - 1
    <2>1. /\ s \in ToSet(c.full) \/ s \in ToSet(c.partial)
          /\ ~(s \in ToSet(c.full) /\ s \in ToSet(c.partial))
        BY LiveIs DEF ListsOK
    <2>2. Len(c.full) \in Int /\ Len(c.partial) \in Int
        BY <1>0
    <2>3. c.nslab = Len(c.full) + Len(c.partial)
        BY DEF ListsOK
    <2>4. /\ Len(d.full) = IF s \in ToSet(c.full) THEN Len(c.full) - 1 ELSE Len(c.full)
          /\ Len(d.partial) = IF s \in ToSet(c.partial) THEN Len(c.partial) - 1
                                                        ELSE Len(c.partial)
        BY <1>2, <1>3, <1>4
    <2> HIDE DEF d
    <2>5. CASE s \in ToSet(c.full)
        <3>1. Len(d.full) = Len(c.full) - 1 /\ Len(d.partial) = Len(c.partial)
            BY <2>1, <2>4, <2>5
        <3>2. QED
            BY <2>2, <2>3, <3>1
    <2>6. CASE s \in ToSet(c.partial)
        <3>1. Len(d.full) = Len(c.full) /\ Len(d.partial) = Len(c.partial) - 1
            BY <2>1, <2>4, <2>6
        <3>2. QED
            BY <2>2, <2>3, <3>1
    <2>7. QED
        BY <2>1, <2>5, <2>6
<1>7. QED
    BY <1>2, <1>3, <1>4, <1>5, <1>6

\* What put_obj does to an object o of slab s that is outside, once s is off
\* its list: d is the cache then, q the chain of s.
AfterPut(c, out, o, s, d, q) ==
    /\ d = PutObj(ListDel(c, s), o)
    /\ s \in Slabs /\ o \in Of(s) /\ s \in Live(c)
    /\ c.inuse[s] \in 1 .. num /\ Len(c.chain[s]) = num - c.inuse[s]
    /\ q \in Seq(Objects) /\ IsInjective(q) /\ ToSet(q) \subseteq Of(s)
    /\ ToSet(q) = ToSet(c.chain[s]) \cup {o} /\ Len(q) = Len(c.chain[s]) + 1
    /\ Of(s) \subseteq ToSet(q) \cup (out \ {o})
    /\ CacheType(d)
    /\ d.chain = [c.chain EXCEPT ![s] = q]
    /\ d.inuse = [c.inuse EXCEPT ![s] = c.inuse[s] - 1]
    /\ d.nfree = c.nfree + 1 /\ d.ntotal = c.ntotal /\ d.nslab = c.nslab
    /\ IsInjective(d.full) /\ IsInjective(d.partial) /\ d.free = <<>>
    /\ ToSet(d.full) = ToSet(c.full) \ {s}
    /\ ToSet(d.partial) = ToSet(c.partial) \ {s}
    /\ Len(d.full) + Len(d.partial) = c.nslab - 1

\* put_obj, of an object that is outside: its slab is live and in use.
LEMMA PutObjFacts ==
    ASSUME NEW c, NEW out, CacheInv(c, out), NEW o \in out
    PROVE  \E d, q : AfterPut(c, out, o, slabOf(o), d, q)
<1>s. PICK s : s = slabOf(o)
    OBVIOUS
<1> DEFINE e == ListDel(c, s)
           d == PutObj(e, o)
           q == <<o>> \o c.chain[s]
<1>0. slabOf(o) = s
    BY <1>s
<1>1. s \in Slabs /\ o \in Of(s) /\ o \in Objects
    <2>1. o \in Slabs \X (0 .. num - 1)
        BY DEF CacheInv, Objects
    <2>2. PICK u \in Slabs, i \in 0 .. num - 1 : o = <<u, i>>
        BY <2>1
    <2>3. s = u
        BY <1>0, <2>2 DEF slabOf
    <2>4. QED
        BY <2>2, <2>3 DEF Objects, Of, Indices
<1>2. SlabOK(c, out, s) /\ CacheType(c) /\ ListsOK(c)
    BY <1>1 DEF CacheInv
<1>3. s \in Live(c)
    BY <1>1, <1>2 DEF SlabOK
<1>4. c.chain[s] \in Seq(Objects) /\ c.inuse[s] \in Int
    BY <1>1, <1>2 DEF CacheType
<1>5. o \notin ToSet(c.chain[s])
    BY <1>2 DEF SlabOK
<1>6. Len(c.chain[s]) = num - c.inuse[s] /\ IsInjective(c.chain[s])
      /\ ToSet(c.chain[s]) \subseteq Of(s) /\ Of(s) \subseteq ToSet(c.chain[s]) \cup out
    BY <1>2, <1>3 DEF SlabOK
<1>7. c.inuse[s] \in 1 .. num
    <2>1. Len(c.chain[s]) <= num /\ Len(c.chain[s]) # num
        BY <1>1, <1>4, <1>5, <1>6, FullChain
    <2>2. Len(c.chain[s]) \in Nat /\ num \in Int
        BY <1>4, KCAssumption
    <2>3. QED
        BY <1>4, <1>6, <2>1, <2>2
<1>8. /\ q \in Seq(Objects) /\ IsInjective(q)
      /\ ToSet(q) = ToSet(c.chain[s]) \cup {o} /\ Len(q) = Len(c.chain[s]) + 1
    BY <1>1, <1>4, <1>5, <1>6, ConsedOnce
<1>9. /\ CacheType(e)
      /\ e.chain = c.chain /\ e.inuse = c.inuse
      /\ e.nfree = c.nfree /\ e.ntotal = c.ntotal /\ e.nslab = c.nslab
      /\ IsInjective(e.full) /\ IsInjective(e.partial) /\ e.free = <<>>
      /\ ToSet(e.full) = ToSet(c.full) \ {s}
      /\ ToSet(e.partial) = ToSet(c.partial) \ {s}
      /\ Len(e.full) + Len(e.partial) = c.nslab - 1
    BY <1>1, <1>2, <1>3, Unlinked1
<1> HIDE DEF e
<1>10. /\ d.full = e.full /\ d.partial = e.partial /\ d.free = e.free
       /\ d.chain = [e.chain EXCEPT ![s] = <<o>> \o e.chain[s]]
       /\ d.inuse = [e.inuse EXCEPT ![s] = e.inuse[s] - 1]
       /\ d.nfree = e.nfree + 1 /\ d.ntotal = e.ntotal /\ d.nslab = e.nslab
    BY <1>0, <1>9 DEF PutObj, CacheType
<1>11. CacheType(d)
    <2> DEFINE x == [e.chain EXCEPT ![s] = <<o>> \o e.chain[s]]
               y == [e.inuse EXCEPT ![s] = e.inuse[s] - 1]
    <2>1. <<o>> \o e.chain[s] \in Seq(Objects) /\ e.inuse[s] - 1 \in Int
        BY <1>1, <1>4, <1>8, <1>9
    <2>2. x \in [Slabs -> Seq(Objects)] /\ y \in [Slabs -> Int]
        BY <1>9, <2>1 DEF CacheType
    <2>3. d = [e EXCEPT !.chain = x, !.inuse = y, !.nfree = e.nfree + 1]
        BY <1>0 DEF PutObj
    <2>4. e.nfree + 1 \in Int
        BY <1>9 DEF CacheType
    <2> HIDE DEF x, y, d
    <2>5. QED
        BY <1>9, <2>2, <2>3, <2>4 DEF CacheType
<1> HIDE DEF d, q
<1>12. d.chain = [c.chain EXCEPT ![s] = q]
    BY <1>9, <1>10 DEF q
<1>13. Of(s) \subseteq ToSet(q) \cup (out \ {o}) /\ ToSet(q) \subseteq Of(s)
    BY <1>1, <1>6, <1>8
<1>14. d = PutObj(ListDel(c, s), o)
    BY DEF d, e
<1>15. /\ d.inuse = [c.inuse EXCEPT ![s] = c.inuse[s] - 1]
       /\ d.nfree = c.nfree + 1 /\ d.ntotal = c.ntotal /\ d.nslab = c.nslab
       /\ IsInjective(d.full) /\ IsInjective(d.partial) /\ d.free = <<>>
       /\ ToSet(d.full) = ToSet(c.full) \ {s}
       /\ ToSet(d.partial) = ToSet(c.partial) \ {s}
       /\ Len(d.full) + Len(d.partial) = c.nslab - 1
    BY <1>9, <1>10
<1>16. AfterPut(c, out, o, s, d, q)
    BY <1>1, <1>3, <1>6, <1>7, <1>8, <1>11, <1>12, <1>13, <1>14, <1>15 DEF AfterPut
<1>17. QED
    BY <1>0, <1>16

\* An object put back is in its chain, or its slab is gone with all of them.
LEMMA PutInv ==
    ASSUME NEW c, NEW out, CacheInv(c, out), NEW o \in out
    PROVE  CacheInv(Put(c, o), out \ {o})
<1>0. PICK s : s = slabOf(o)
    OBVIOUS
<1>a. PICK d, q : AfterPut(c, out, o, s, d, q)
    BY <1>0, PutObjFacts
<1>1. /\ s \in Slabs /\ o \in Of(s) /\ s \in Live(c) /\ d = PutObj(ListDel(c, s), o)
      /\ c.inuse[s] \in 1 .. num /\ Len(c.chain[s]) = num - c.inuse[s]
      /\ q \in Seq(Objects) /\ IsInjective(q) /\ ToSet(q) \subseteq Of(s)
      /\ ToSet(q) = ToSet(c.chain[s]) \cup {o} /\ Len(q) = Len(c.chain[s]) + 1
      /\ Of(s) \subseteq ToSet(q) \cup (out \ {o})
    BY <1>a DEF AfterPut
<1>b. /\ Len(d.full) + Len(d.partial) = c.nslab - 1
      /\ Len(d.full) \in Int /\ Len(d.partial) \in Int /\ c.nslab \in Int
    <2>1. c.nslab \in Int
        BY DEF CacheInv, CacheType
    <2>2. d.full \in Seq(Slabs) /\ d.partial \in Seq(Slabs)
        BY <1>a DEF AfterPut, CacheType
    <2>3. Len(d.full) + Len(d.partial) = c.nslab - 1
        BY <1>a DEF AfterPut
    <2>4. Len(d.full) \in Int
        BY <2>2
    <2>5. Len(d.partial) \in Int
        BY <2>2
    <2>6. QED
        BY <2>1, <2>3, <2>4, <2>5
<1>c. /\ d.chain \in [Slabs -> Seq(Objects)]
      /\ d.nfree \in Int /\ d.ntotal \in Int /\ d.nslab \in Int
    BY <1>a DEF AfterPut, CacheType
<1> DEFINE p == Put(c, o)
<1>2. /\ CacheType(d)
      /\ d.chain = [c.chain EXCEPT ![s] = q]
      /\ d.inuse = [c.inuse EXCEPT ![s] = c.inuse[s] - 1]
      /\ d.nfree = c.nfree + 1 /\ d.ntotal = c.ntotal /\ d.nslab = c.nslab
      /\ IsInjective(d.full) /\ IsInjective(d.partial) /\ d.free = <<>>
      /\ ToSet(d.full) = ToSet(c.full) \ {s}
      /\ ToSet(d.partial) = ToSet(c.partial) \ {s}
      /\ Len(d.full) + Len(d.partial) = c.nslab - 1
    BY <1>a DEF AfterPut
<1>3. p = IF d.inuse[s] # 0 THEN [d EXCEPT !.partial = Append(d.partial, s)]
          ELSE IF d.nfree > nlimit
          THEN [d EXCEPT !.chain[s] = <<>>, !.nfree = d.nfree - num,
                         !.ntotal = d.ntotal - num, !.nslab = d.nslab - 1]
          ELSE [d EXCEPT !.free = Append(d.free, s)]
    BY <1>0, <1>1 DEF Put
<1> HIDE DEF p
<1>4. /\ c.chain \in [Slabs -> Seq(Objects)] /\ c.inuse \in [Slabs -> Int]
      /\ c.nfree \in Nat /\ c.nslab \in Int /\ num \in Nat /\ num > 0
      /\ c.ntotal = num * c.nslab /\ Len(c.chain[s]) \in Nat
      /\ ToSet(c.full) \cap ToSet(c.partial) = {} /\ ListsOK(c) /\ CacheType(c)
      /\ d.full \in Seq(Slabs) /\ d.partial \in Seq(Slabs)
    <2>1. c.nfree \in Nat
        BY FS_CardinalityType DEF CacheInv, CountOK
    <2>2. num \in Nat /\ num > 0
        BY KCAssumption
    <2>3. ListsOK(c) /\ CacheType(c)
        BY DEF CacheInv
    <2>4. /\ c.chain \in [Slabs -> Seq(Objects)] /\ c.inuse \in [Slabs -> Int]
          /\ c.nslab \in Int
        BY <2>3 DEF CacheType
    <2>5. Len(c.chain[s]) \in Nat
        BY <1>1, <2>4
    <2>6. ToSet(c.full) \cap ToSet(c.partial) = {} /\ c.ntotal = num * c.nslab
        BY <2>3 DEF ListsOK
    <2>7. d.full \in Seq(Slabs) /\ d.partial \in Seq(Slabs)
        BY <1>2 DEF CacheType
    <2>8. QED
        BY <2>1, <2>2, <2>3, <2>4, <2>5, <2>6, <2>7
<1>5. /\ d.inuse[s] = c.inuse[s] - 1
      /\ \A t \in Slabs : t # s => d.inuse[t] = c.inuse[t]
    BY <1>1, <1>2, <1>4
<1>6. Live(c) = ToSet(c.full) \cup ToSet(c.partial) /\ Live(c) \subseteq Slabs
    BY <1>4, LiveIs
<1>7. SlabOK(c, out, s) /\ out \subseteq Objects
    BY <1>1 DEF CacheInv
<1>8. CASE d.inuse[s] # 0
    <2>1. p = [d EXCEPT !.partial = Append(d.partial, s)]
        BY <1>3, <1>8
    <2>2. /\ Append(d.partial, s) \in Seq(Slabs) /\ IsInjective(Append(d.partial, s))
          /\ ToSet(Append(d.partial, s)) = ToSet(d.partial) \cup {s}
          /\ Len(Append(d.partial, s)) = Len(d.partial) + 1
        <3>1. /\ d.partial \in Seq(Slabs) /\ IsInjective(d.partial)
              /\ s \in Slabs /\ s \notin ToSet(d.partial)
            BY <1>1, <1>2, <1>4
        <3>2. QED
            BY <3>1, AppendedOnce
    <2>3. /\ p.full = d.full /\ p.partial = Append(d.partial, s) /\ p.free = <<>>
          /\ p.chain = d.chain /\ p.inuse = d.inuse
          /\ p.nfree = d.nfree /\ p.ntotal = d.ntotal /\ p.nslab = d.nslab
        BY <1>2, <2>1 DEF CacheType
    <2>4. CacheType(p)
        BY <1>2, <2>1, <2>2 DEF CacheType
    <2>5. /\ ToSet(p.full) = ToSet(c.full) \ {s}
          /\ ToSet(p.partial) = (ToSet(c.partial) \ {s}) \cup {s}
        BY <1>2, <2>2, <2>3
    <2>6. ListsOK(p)
        <3>1. Len(p.full) + Len(p.partial) = p.nslab
            <4>1. /\ Len(p.full) = Len(d.full) /\ Len(p.partial) = Len(d.partial) + 1
                  /\ p.nslab = c.nslab
                BY <1>2, <2>2, <2>3
            <4>2. PICK x \in Int, y \in Int, n \in Int :
                     x = Len(d.full) /\ y = Len(d.partial) /\ n = c.nslab
                BY <1>b, Zenon
            <4>3. x + y = n - 1
                BY <1>b, <4>2, Zenon
            <4>4. x + (y + 1) = n
                BY <4>3
            <4>5. Len(d.full) + (Len(d.partial) + 1) = c.nslab
                BY <4>2, <4>4
            <4>6. QED
                BY <4>1, <4>5
        <3>2. \A t \in ToSet(p.full) : p.inuse[t] = num
            BY <1>4, <1>5, <1>6, <2>3, <2>5 DEF ListsOK
        <3>3. p.inuse[s] \in 1 .. num - 1
            <4>1. p.inuse[s] = c.inuse[s] - 1 /\ c.inuse[s] - 1 # 0
                BY <1>5, <1>8, <2>3
            <4>2. c.inuse[s] \in 1 .. num /\ num \in Nat
                BY <1>1, <1>4
            <4>3. QED
                BY <4>1, <4>2
        <3>4. \A t \in ToSet(p.partial) : p.inuse[t] \in 1 .. num - 1
            BY <1>4, <1>5, <1>6, <2>3, <2>5, <3>3 DEF ListsOK
        <3>5. p.ntotal = num * p.nslab
            BY <1>2, <1>4, <2>3
        <3>6. QED
            BY <1>2, <1>4, <2>2, <2>3, <2>5, <3>1, <3>2, <3>4, <3>5 DEF ListsOK
    <2>7. \A t \in Slabs : t # s => p.inuse[t] = c.inuse[t] /\ (t \in Live(p) <=> t \in Live(c))
        BY <1>5, <1>6, <2>3, <2>4, <2>5, <2>6, LiveIs
    <2>8. p.chain = [c.chain EXCEPT ![s] = q] /\ p.nfree = c.nfree - Len(c.chain[s]) + Len(q)
        <3>1. p.chain = [c.chain EXCEPT ![s] = q] /\ p.nfree = c.nfree + 1
            BY <1>2, <2>3
        <3>2. PICK l \in Nat, n \in Nat : l = Len(c.chain[s]) /\ n = c.nfree
            BY <1>4
        <3>3. Len(q) = l + 1
            BY <1>1, <3>2
        <3>4. n - l + (l + 1) = n + 1
            OBVIOUS
        <3>5. QED
            BY <3>1, <3>2, <3>3, <3>4, Zenon
    <2>9. SlabOK(p, out \ {o}, s)
        <3>1. s \in Live(p)
            BY <2>4, <2>5, <2>6, LiveIs
        <3>2. p.chain[s] = q /\ p.inuse[s] = c.inuse[s] - 1
            BY <1>1, <1>4, <1>5, <2>3, <2>8
        <3>3. Len(q) = num - (c.inuse[s] - 1)
            BY <1>1, <1>4
        <3>4. ToSet(q) \cap (out \ {o}) = {}
            BY <1>1, <1>7 DEF SlabOK
        <3>5. QED
            BY <1>1, <3>1, <3>2, <3>3, <3>4 DEF SlabOK
    <2>10. \A x \in Objects : x \notin Of(s) => (x \in out \ {o} <=> x \in out)
        BY <1>1
    <2>11. CacheInv(p, out \ {o})
        <3>1. s \in Slabs /\ q \in Seq(Objects) /\ IsInjective(q) /\ ToSet(q) \subseteq Of(s)
            BY <1>1
        <3>2. out \ {o} \subseteq Objects
            BY <1>7
        <3>3. QED
            BY <2>4, <2>6, <2>7, <2>8, <2>9, <2>10, <3>1, <3>2, SlabChanged
    <2>12. QED
        BY <2>11 DEF p
<1>9. CASE d.inuse[s] = 0
    <2>1. p = [d EXCEPT !.chain[s] = <<>>, !.nfree = d.nfree - num,
                        !.ntotal = d.ntotal - num, !.nslab = d.nslab - 1]
        BY <1>2, <1>3, <1>4, <1>9 DEF nlimit
    <2>2. /\ p.full = d.full /\ p.partial = d.partial /\ p.free = <<>>
          /\ p.chain = [d.chain EXCEPT ![s] = <<>>] /\ p.inuse = d.inuse
          /\ p.nfree = d.nfree - num /\ p.ntotal = d.ntotal - num
          /\ p.nslab = d.nslab - 1
        BY <1>2, <2>1 DEF CacheType
    <2>3. CacheType(p)
        <3> DEFINE x == [d.chain EXCEPT ![s] = <<>>]
        <3>1. x \in [Slabs -> Seq(Objects)]
            <4>1. <<>> \in Seq(Objects)
                OBVIOUS
            <4>2. QED
                BY <1>c, <4>1
        <3>2. p = [d EXCEPT !.chain = x, !.nfree = d.nfree - num,
                            !.ntotal = d.ntotal - num, !.nslab = d.nslab - 1]
            BY <2>1
        <3>3. d.nfree - num \in Int /\ d.ntotal - num \in Int /\ d.nslab - 1 \in Int
            BY <1>c, KCAssumption
        <3> HIDE DEF x
        <3>4. QED
            BY <1>2, <3>1, <3>2, <3>3 DEF CacheType
    <2>4. c.inuse[s] = 1 /\ Len(c.chain[s]) = num - 1 /\ Len(q) = num
        BY <1>1, <1>4, <1>5, <1>9
    <2>5. ToSet(q) = Of(s)
        BY <1>1, <2>4, FullChain
    <2>6. ListsOK(p)
        <3>1. p.ntotal = num * p.nslab
            <4>1. p.ntotal = num * c.nslab - num /\ p.nslab = c.nslab - 1
                BY <1>2, <1>4, <2>2
            <4>2. num * c.nslab - num = num * (c.nslab - 1)
                BY <1>4
            <4>3. QED
                BY <4>1, <4>2
        <3>2. Len(p.full) + Len(p.partial) = p.nslab
            BY <1>2, <2>2
        <3>3. \A t \in ToSet(p.full) : p.inuse[t] = num
            BY <1>2, <1>4, <1>5, <1>6, <2>2 DEF ListsOK
        <3>4. \A t \in ToSet(p.partial) : p.inuse[t] \in 1 .. num - 1
            BY <1>2, <1>4, <1>5, <1>6, <2>2 DEF ListsOK
        <3>5. QED
            BY <1>2, <1>4, <2>2, <3>1, <3>2, <3>3, <3>4 DEF ListsOK
    <2>7. \A t \in Slabs : t # s => p.inuse[t] = c.inuse[t] /\ (t \in Live(p) <=> t \in Live(c))
        BY <1>2, <1>5, <1>6, <2>2, <2>3, <2>6, LiveIs
    <2>8. p.chain = [c.chain EXCEPT ![s] = <<>>]
        BY <1>1, <1>2, <1>4, <2>2
    <2>9. <<>> \in Seq(Objects) /\ IsInjective(<<>>) /\ ToSet(<<>>) \subseteq Of(s)
        BY DEF IsInjective, ToSet
    <2>10. p.nfree = c.nfree - Len(c.chain[s]) + Len(<<>>)
        BY <1>2, <1>4, <2>2, <2>4
    <2>11. SlabOK(p, out \ {o}, s)
        <3>1. s \notin Live(p)
            BY <1>2, <2>2, <2>3, <2>6, LiveIs
        <3>2. p.chain[s] = <<>>
            BY <1>1, <1>4, <2>8
        <3>3. Of(s) \cap (out \ {o}) = {}
            BY <1>1, <1>7, <2>5 DEF SlabOK
        <3>4. ToSet(<<>>) = {}
            BY DEF ToSet
        <3>5. QED
            BY <2>9, <3>1, <3>2, <3>3, <3>4 DEF SlabOK
    <2>12. \A x \in Objects : x \notin Of(s) => (x \in out \ {o} <=> x \in out)
        BY <1>1
    <2>13. CacheInv(p, out \ {o})
        <3>1. s \in Slabs /\ out \ {o} \subseteq Objects
            BY <1>1, <1>7
        <3>2. QED
            BY <2>3, <2>6, <2>7, <2>8, <2>9, <2>10, <2>11, <2>12, <3>1, SlabChanged
    <2>14. QED
        BY <2>13 DEF p
<1>10. QED
    BY <1>8, <1>9

-----------------------------------------------------------------------------
(* The loop of __shrink.                                                     *)

\* What holds of 0 and of the next number with each holds up to n.
LEMMA UpTo ==
    ASSUME NEW n \in Nat, NEW T, T \subseteq 0 .. n, 0 \in T,
           \A k \in T : k < n => k + 1 \in T
    PROVE  n \in T
<1> DEFINE Above(k) == k .. n
           D == {Above(k) : k \in T}
           R == StrictSubsetOrdering(0 .. n)
<1>1. IsFiniteSet(0 .. n)
    BY FS_Interval
<1>2. D \subseteq FiniteSubsetsOf(0 .. n)
    <2>1. ASSUME NEW k \in T PROVE Above(k) \in FiniteSubsetsOf(0 .. n)
        <3>1. Above(k) \subseteq 0 .. n
            OBVIOUS
        <3>2. QED
            BY <1>1, <3>1, FS_Subset DEF FiniteSubsetsOf
    <2>2. QED
        BY <2>1
<1>3. IsWellFoundedOn(R, FiniteSubsetsOf(0 .. n)) /\ D # {}
    BY <1>1, FS_StrictSubsetOrderingWellFounded
<1> HIDE DEF D, R
<1>4. PICK d \in D : \A e \in D : <<e, d>> \notin R
    BY <1>2, <1>3, WFMin
<1>5. PICK k \in T : d = Above(k)
    BY DEF D
<1>6. SUFFICES ASSUME k < n PROVE FALSE
    BY <1>5
<1>7. Above(k + 1) \in D
    BY <1>6 DEF D
<1>8. <<Above(k + 1), d>> \in R
    <2>1. Above(k + 1) \subseteq Above(k) /\ k \in Above(k) /\ k \notin Above(k + 1)
        BY <1>6
    <2>2. Above(k) \subseteq 0 .. n
        OBVIOUS
    <2> HIDE DEF Above
    <2>3. QED
        BY <1>5, <2>1, <2>2 DEF R, StrictSubsetOrdering
<1>9. QED
    BY <1>4, <1>7, <1>8

\* The first k turns.
Turns(c, objects, k, f) ==
    f = [i \in 0 .. k |-> IF i = 0 THEN c ELSE Put(f[i - 1], objects[i])]

LEMMA TurnsExist ==
    ASSUME NEW c, NEW objects, NEW n \in Nat
    PROVE  \E f : Turns(c, objects, n, f)
<1> DEFINE T == {k \in 0 .. n : \E f : Turns(c, objects, k, f)}
<1>1. 0 \in T
    <2> DEFINE f == [i \in 0 .. 0 |-> c]
    <2>1. f = [i \in 0 .. 0 |-> IF i = 0 THEN c ELSE Put(f[i - 1], objects[i])]
        OBVIOUS
    <2> HIDE DEF f
    <2>2. Turns(c, objects, 0, f)
        BY <2>1 DEF Turns
    <2>3. QED
        BY <2>2
<1>2. ASSUME NEW k \in T, k < n PROVE k + 1 \in T
    <2>1. PICK f : Turns(c, objects, k, f)
        OBVIOUS
    <2> DEFINE g == [i \in 0 .. k + 1 |-> IF i = k + 1 THEN Put(f[k], objects[k + 1])
                                                       ELSE f[i]]
    <2>2. ASSUME NEW i \in 0 .. k + 1
          PROVE  g[i] = IF i = 0 THEN c ELSE Put(g[i - 1], objects[i])
        <3>1. k \in Nat
            OBVIOUS
        <3>2. CASE i = k + 1
            <4>1. i # 0 /\ i - 1 = k /\ g[i - 1] = f[k]
                BY <3>1, <3>2
            <4>2. QED
                BY <3>2, <4>1
        <3>3. CASE i # k + 1
            <4>1. i \in 0 .. k /\ g[i] = f[i]
                BY <3>1, <3>3
            <4>2. f[i] = IF i = 0 THEN c ELSE Put(f[i - 1], objects[i])
                BY <2>1, <4>1 DEF Turns
            <4>3. i # 0 => g[i - 1] = f[i - 1]
                BY <3>1, <4>1
            <4>4. QED
                BY <4>1, <4>2, <4>3
        <3>4. QED
            BY <3>2, <3>3
    <2>3. g = [i \in 0 .. k + 1 |-> g[i]]
        OBVIOUS
    <2> HIDE DEF g
    <2>4. g = [i \in 0 .. k + 1 |-> IF i = 0 THEN c ELSE Put(g[i - 1], objects[i])]
        BY <2>2, <2>3
    <2>5. Turns(c, objects, k + 1, g)
        BY <2>4 DEF Turns
    <2>6. k + 1 \in 0 .. n
        BY <1>2
    <2>7. QED
        BY <2>5, <2>6
<1>3. T \subseteq 0 .. n
    OBVIOUS
<1> HIDE DEF T
<1>4. n \in T
    BY <1>1, <1>2, <1>3, UpTo
<1>5. QED
    BY <1>4 DEF T

\* __shrink is the last of the turns, one for each object of the array.
LEMMA ShrinkTurns ==
    ASSUME NEW c, NEW objects, Len(objects) \in Nat
    PROVE  \E f : Turns(c, objects, Len(objects), f) /\ Shrink(c, objects) = f[Len(objects)]
<1> DEFINE f == CHOOSE f : Turns(c, objects, Len(objects), f)
<1>1. Turns(c, objects, Len(objects), f)
    BY TurnsExist
<1>2. Shrink(c, objects) = f[Len(objects)]
    BY DEF Shrink, Turns
<1>3. QED
    BY <1>1, <1>2

\* __shrink puts back every object of the array, and no other.
LEMMA ShrinkInv ==
    ASSUME NEW c, NEW out, CacheInv(c, out),
           NEW objects \in Seq(Objects), IsInjective(objects), ToSet(objects) \subseteq out
    PROVE  CacheInv(Shrink(c, objects), out \ ToSet(objects))
<1> DEFINE n == Len(objects)
           First(k) == {objects[i] : i \in 1 .. k}
<1>1. n \in Nat
    OBVIOUS
<1>2. PICK f : Turns(c, objects, n, f) /\ Shrink(c, objects) = f[n]
    BY <1>1, ShrinkTurns
<1>3. \A i \in 0 .. n : f[i] = IF i = 0 THEN c ELSE Put(f[i - 1], objects[i])
    BY <1>2 DEF Turns
<1> DEFINE T == {k \in 0 .. n : CacheInv(f[k], out \ First(k))}
<1>4. 0 \in T
    <2>1. f[0] = c
        BY <1>1, <1>3
    <2>2. out \ First(0) = out
        OBVIOUS
    <2> HIDE DEF First
    <2>3. CacheInv(f[0], out \ First(0))
        BY <2>1, <2>2, Zenon
    <2>4. 0 \in 0 .. n
        BY <1>1
    <2>5. QED
        BY <2>3, <2>4
<1>5. ASSUME NEW k \in T, k < n PROVE k + 1 \in T
    <2>1. k \in Nat /\ k + 1 \in 1 .. n /\ k + 1 \in 0 .. n /\ (k + 1) - 1 = k /\ k + 1 # 0
        BY <1>1, <1>5
    <2>2. objects[k + 1] \in out \ First(k)
        <3>1. objects[k + 1] \in out
            BY <2>1 DEF ToSet
        <3>2. \A i \in 1 .. k : objects[i] # objects[k + 1]
            BY <2>1 DEF IsInjective
        <3>3. QED
            BY <3>1, <3>2
    <2>3. (out \ First(k)) \ {objects[k + 1]} = out \ First(k + 1)
        <3>1. First(k + 1) = First(k) \cup {objects[k + 1]}
            BY <2>1
        <3> HIDE DEF First
        <3>2. QED
            BY <3>1
    <2>4. f[k + 1] = Put(f[k], objects[k + 1])
        BY <1>3, <2>1
    <2> HIDE DEF First
    <2>5. CacheInv(f[k], out \ First(k))
        OBVIOUS
    <2>6. CacheInv(f[k + 1], (out \ First(k)) \ {objects[k + 1]})
        BY <2>2, <2>4, <2>5, PutInv
    <2>7. QED
        BY <2>1, <2>3, <2>6
<1>6. T \subseteq 0 .. n
    OBVIOUS
<1>7. n \in T
    <2> HIDE DEF T
    <2>1. QED
        BY <1>1, <1>4, <1>5, <1>6, UpTo
<1>8. First(n) = ToSet(objects)
    BY DEF ToSet
<1> HIDE DEF First
<1>9. QED
    BY <1>2, <1>7, <1>8

-----------------------------------------------------------------------------
(* __grow.                                                                   *)

\* c0 with slab s off its list, or new: d; what s has in its chain q is free.
AfterUnlink(c, out, s, d, q) ==
    /\ CacheType(d)
    /\ q \in Seq(Objects) /\ IsInjective(q) /\ ToSet(q) \subseteq Of(s)
    /\ q # <<>> /\ Len(q) = num - d.inuse[s]
    /\ ToSet(q) \cap out = {} /\ Of(s) \subseteq ToSet(q) \cup out
    /\ d.chain = [c.chain EXCEPT ![s] = q]
    /\ \A t \in Slabs : t # s => d.inuse[t] = c.inuse[t]
    /\ d.nfree = c.nfree - Len(c.chain[s]) + Len(q)
    /\ IsInjective(d.full) /\ IsInjective(d.partial) /\ d.free = <<>>
    /\ ToSet(d.full) = ToSet(c.full) \ {s}
    /\ ToSet(d.partial) = ToSet(c.partial) \ {s}
    /\ Len(d.full) + Len(d.partial) = d.nslab - 1
    /\ d.ntotal = num * d.nslab

\* A slab of the partial list is taken off it.
LEMMA TakenFacts ==
    ASSUME NEW c, NEW out, CacheInv(c, out), NEW s \in ToSet(c.partial)
    PROVE  AfterUnlink(c, out, s, ListDel(c, s), c.chain[s]) /\ s \in Live(c)
<1> DEFINE d == ListDel(c, s)
           q == c.chain[s]
<1>1. CacheType(c) /\ ListsOK(c)
    BY DEF CacheInv
<1>2. s \in Slabs /\ s \in Live(c)
    BY <1>1, LiveIs
<1>3. /\ CacheType(d)
      /\ d.chain = c.chain /\ d.inuse = c.inuse
      /\ d.nfree = c.nfree /\ d.ntotal = c.ntotal /\ d.nslab = c.nslab
      /\ IsInjective(d.full) /\ IsInjective(d.partial) /\ d.free = <<>>
      /\ ToSet(d.full) = ToSet(c.full) \ {s}
      /\ ToSet(d.partial) = ToSet(c.partial) \ {s}
      /\ Len(d.full) + Len(d.partial) = c.nslab - 1
    BY <1>1, <1>2, Unlinked1
<1> HIDE DEF d
<1>4. SlabOK(c, out, s)
    BY <1>2 DEF CacheInv
<1>5. q \in Seq(Objects) /\ d.chain = [c.chain EXCEPT ![s] = q]
    <2>1. c.chain \in [Slabs -> Seq(Objects)]
        BY <1>1 DEF CacheType
    <2>2. QED
        BY <1>2, <1>3, <2>1
<1>6. /\ IsInjective(q) /\ ToSet(q) \subseteq Of(s) /\ Len(q) = num - d.inuse[s]
      /\ ToSet(q) \cap out = {} /\ Of(s) \subseteq ToSet(q) \cup out
    BY <1>2, <1>3, <1>4 DEF SlabOK
<1>7. q # <<>>
    <2>1. c.inuse[s] \in 1 .. num - 1
        BY <1>1 DEF ListsOK
    <2>2. Len(q) # 0
        BY <1>3, <1>6, <2>1, KCAssumption
    <2>3. QED
        BY <1>5, <2>2
<1>8. d.nfree = c.nfree - Len(c.chain[s]) + Len(q)
    <2>1. c.nfree \in Int
        BY <1>1 DEF CacheType
    <2>2. Len(q) \in Int
        BY <1>5
    <2> HIDE DEF q
    <2>3. c.nfree = c.nfree - Len(q) + Len(q)
        BY <2>1, <2>2
    <2>4. QED
        BY <1>3, <2>3 DEF q
<1>9. d.ntotal = num * d.nslab
    BY <1>1, <1>3 DEF ListsOK
<1>10. QED
    BY <1>2, <1>3, <1>5, <1>6, <1>7, <1>8, <1>9 DEF AfterUnlink, d

\* A new slab: all of its objects are chained.
LEMMA AllocFacts ==
    ASSUME NEW c, NEW out, CacheInv(c, out), NEW s \in Slabs, s \notin Live(c)
    PROVE  AfterUnlink(c, out, s, AllocSlab(c, s), [i \in 1 .. num |-> <<s, i - 1>>])
<1> DEFINE d == AllocSlab(c, s)
           q == [i \in 1 .. num |-> <<s, i - 1>>]
<1>0. num \in Nat /\ num > 0
    BY KCAssumption
<1>1. CacheType(c) /\ ListsOK(c) /\ SlabOK(c, out, s)
    BY DEF CacheInv
<1>2. /\ q \in Seq(Objects) /\ Len(q) = num /\ DOMAIN q = 1 .. num
      /\ \A i \in 1 .. num : q[i] = <<s, i - 1>>
    <2>1. \A i \in 1 .. num : <<s, i - 1>> \in Objects
        BY <1>0 DEF Objects
    <2>2. q \in [1 .. num -> Objects]
        BY <2>1
    <2>3. QED
        BY <1>0, <2>2
<1> HIDE DEF q
<1>3. IsInjective(q)
    BY <1>0, <1>2 DEF IsInjective
<1>4. ToSet(q) = Of(s)
    <2>1. ToSet(q) \subseteq Of(s)
        <3>1. ASSUME NEW i \in 1 .. num PROVE q[i] \in Of(s)
            <4>1. i - 1 \in Indices
                BY <1>0 DEF Indices
            <4>2. <<s, i - 1>> \in Of(s)
                BY <4>1 DEF Of
            <4>3. QED
                BY <1>2, <4>2
        <3>2. QED
            BY <1>2, <3>1 DEF ToSet
    <2>2. ASSUME NEW x \in Of(s) PROVE x \in ToSet(q)
        <3>1. PICK i \in 0 .. num - 1 : x = <<s, i>>
            BY DEF Of, Indices
        <3>2. i + 1 \in 1 .. num /\ (i + 1) - 1 = i
            BY <1>0
        <3>3. q[i + 1] = x
            BY <1>2, <3>1, <3>2
        <3>4. QED
            BY <1>2, <3>2, <3>3 DEF ToSet
    <2>3. QED
        BY <2>1, <2>2
<1>5. c.chain[s] = <<>> /\ Of(s) \cap out = {}
    BY <1>1 DEF SlabOK
<1>6. /\ d.full = c.full /\ d.partial = c.partial /\ d.free = c.free
      /\ d.chain = [c.chain EXCEPT ![s] = q]
      /\ d.inuse = [c.inuse EXCEPT ![s] = 0]
      /\ d.nfree = c.nfree + num /\ d.ntotal = c.ntotal + num /\ d.nslab = c.nslab + 1
    BY <1>1 DEF AllocSlab, CacheType, q
<1>7. CacheType(d)
    <2> DEFINE x == [c.chain EXCEPT ![s] = q]
               y == [c.inuse EXCEPT ![s] = 0]
    <2>1. x \in [Slabs -> Seq(Objects)] /\ y \in [Slabs -> Int]
        BY <1>1, <1>2 DEF CacheType
    <2>2. d = [c EXCEPT !.chain = x, !.inuse = y, !.nfree = c.nfree + num,
                        !.ntotal = c.ntotal + num, !.nslab = c.nslab + 1]
        BY DEF AllocSlab, q
    <2>3. /\ c.nfree + num \in Int /\ c.ntotal + num \in Int /\ c.nslab + 1 \in Int
        BY <1>0, <1>1 DEF CacheType
    <2> HIDE DEF x, y, d
    <2>4. QED
        BY <1>1, <2>1, <2>2, <2>3 DEF CacheType
<1> HIDE DEF d
<1>8. d.inuse[s] = 0 /\ \A t \in Slabs : t # s => d.inuse[t] = c.inuse[t]
    BY <1>1, <1>6 DEF CacheType
<1>9. /\ ToSet(d.full) = ToSet(c.full) \ {s}
      /\ ToSet(d.partial) = ToSet(c.partial) \ {s}
    BY <1>1, <1>6, LiveIs
<1>10. /\ IsInjective(d.full) /\ IsInjective(d.partial) /\ d.free = <<>>
    BY <1>1, <1>6 DEF ListsOK
<1>11. /\ Len(d.full) + Len(d.partial) = d.nslab - 1
       /\ d.ntotal = num * d.nslab
    <2>1. c.nslab \in Int /\ c.nslab = Len(c.full) + Len(c.partial) /\ c.ntotal = num * c.nslab
        BY <1>1 DEF CacheType, ListsOK
    <2>2. \A n \in Int : num * n + num = num * (n + 1) /\ (n + 1) - 1 = n
        BY <1>0
    <2>3. num * c.nslab + num = num * (c.nslab + 1) /\ (c.nslab + 1) - 1 = c.nslab
        BY <2>1, <2>2
    <2>4. d.full = c.full /\ d.partial = c.partial
          /\ d.ntotal = c.ntotal + num /\ d.nslab = c.nslab + 1
        BY <1>6
    <2>5. d.ntotal = num * d.nslab
        BY <2>1, <2>3, <2>4, Zenon
    <2>6. Len(d.full) + Len(d.partial) = d.nslab - 1
        BY <2>1, <2>3, <2>4, Zenon
    <2>7. QED
        BY <2>5, <2>6
<1>12. d.nfree = c.nfree - Len(c.chain[s]) + Len(q)
    <2>1. c.nfree \in Int /\ Len(c.chain[s]) = 0
        BY <1>1, <1>5 DEF CacheType
    <2>2. QED
        BY <1>0, <1>2, <1>6, <2>1
<1>13. q # <<>> /\ Len(q) = num - d.inuse[s]
    BY <1>0, <1>2, <1>8
<1>14. QED
    BY <1>2, <1>3, <1>4, <1>5, <1>6, <1>7, <1>8, <1>9, <1>10, <1>11, <1>12, <1>13
       DEF AfterUnlink, d, q

\* k objects of the slab go out, and it goes to the list its use says.
LEMMA GetObjsInv ==
    ASSUME NEW c, NEW out, CacheInv(c, out), NEW s \in Slabs, NEW d, NEW q,
           AfterUnlink(c, out, s, d, q), NEW k \in 1 .. Len(q)
    PROVE  CacheInv(Relinked(GetObjs(d, s, k), s), out \cup ToSet(SubSeq(q, 1, k)))
<1> DEFINE a == SubSeq(q, 1, k)
           b == SubSeq(q, k + 1, Len(q))
           g == GetObjs(d, s, k)
           r == Relinked(g, s)
           out2 == out \cup ToSet(a)
<1>0. num \in Nat /\ num > 0
    BY KCAssumption
<1>1. CacheType(c) /\ ListsOK(c) /\ out \subseteq Objects
    BY DEF CacheInv
<1>2. /\ q \in Seq(Objects) /\ IsInjective(q) /\ ToSet(q) \subseteq Of(s)
      /\ Len(q) = num - d.inuse[s]
      /\ ToSet(q) \cap out = {} /\ Of(s) \subseteq ToSet(q) \cup out
      /\ d.chain = [c.chain EXCEPT ![s] = q]
      /\ \A t \in Slabs : t # s => d.inuse[t] = c.inuse[t]
    BY DEF AfterUnlink
<1>3. CacheType(d)
    BY DEF AfterUnlink
<1>4. /\ IsInjective(d.full) /\ IsInjective(d.partial) /\ d.free = <<>>
      /\ ToSet(d.full) = ToSet(c.full) \ {s}
      /\ ToSet(d.partial) = ToSet(c.partial) \ {s}
    BY DEF AfterUnlink
<1>5. /\ d.full \in Seq(Slabs) /\ d.partial \in Seq(Slabs)
      /\ d.chain \in [Slabs -> Seq(Objects)] /\ d.inuse \in [Slabs -> Int]
      /\ d.nfree \in Int /\ d.ntotal \in Int /\ d.nslab \in Int
    BY <1>3 DEF CacheType
<1>6. d.chain[s] = q
    BY <1>1, <1>2 DEF CacheType
<1>7. /\ a \in Seq(Objects) /\ IsInjective(a) /\ Len(a) = k
      /\ b \in Seq(Objects) /\ IsInjective(b) /\ Len(b) = Len(q) - k
      /\ ToSet(a) \cup ToSet(b) = ToSet(q)
      /\ ToSet(a) \cap ToSet(b) = {}
    <2>1. k \in 0 .. Len(q)
        BY <1>2
    <2>2. QED
        BY <1>2, <2>1, CutOnce
<1>8. d.inuse[s] \in Int /\ Len(q) \in Nat /\ k \in Nat /\ k >= 1 /\ k <= Len(q)
    BY <1>2, <1>5
<1>9. /\ g.full = d.full /\ g.partial = d.partial /\ g.free = d.free
      /\ g.chain = [d.chain EXCEPT ![s] = b]
      /\ g.inuse = [d.inuse EXCEPT ![s] = d.inuse[s] + k]
      /\ g.nfree = d.nfree - k /\ g.ntotal = d.ntotal /\ g.nslab = d.nslab
    BY <1>3, <1>6 DEF GetObjs, CacheType
<1>10. CacheType(g)
    <2> DEFINE x == [d.chain EXCEPT ![s] = b]
               y == [d.inuse EXCEPT ![s] = d.inuse[s] + k]
    <2>1. x \in [Slabs -> Seq(Objects)] /\ y \in [Slabs -> Int]
        BY <1>5, <1>7, <1>8
    <2>2. g = [d EXCEPT !.chain = x, !.inuse = y, !.nfree = d.nfree - k]
        BY <1>6 DEF GetObjs
    <2>3. d.nfree - k \in Int
        BY <1>5, <1>8
    <2> HIDE DEF x, y, g
    <2>4. QED
        BY <1>3, <2>1, <2>2, <2>3 DEF CacheType
<1> HIDE DEF g, a, b
<1>11. /\ g.inuse[s] = d.inuse[s] + k
       /\ \A t \in Slabs : t # s => g.inuse[t] = c.inuse[t]
    BY <1>2, <1>5, <1>9
<1>12. g.chain = [c.chain EXCEPT ![s] = b]
    BY <1>2, <1>5, <1>9
<1>13. g.nfree = c.nfree - Len(c.chain[s]) + Len(b)
    <2>1. d.nfree = c.nfree - Len(c.chain[s]) + Len(q)
        BY DEF AfterUnlink
    <2>2. c.nfree \in Int /\ Len(c.chain[s]) \in Int
        BY <1>1 DEF CacheType
    <2>3. \A x, y, z, u \in Int : (x - y + z) - u = x - y + (z - u)
        OBVIOUS
    <2>4. (c.nfree - Len(c.chain[s]) + Len(q)) - k = c.nfree - Len(c.chain[s]) + (Len(q) - k)
        BY <1>8, <2>2, <2>3
    <2>5. QED
        BY <1>7, <1>9, <2>1, <2>4
<1>14. g.ntotal = num * g.nslab /\ Len(g.full) + Len(g.partial) = g.nslab - 1
    BY <1>9 DEF AfterUnlink
<1>15. g.inuse[s] \in 1 .. num /\ Len(b) = num - g.inuse[s]
    <2>1. Len(q) <= num
        BY <1>2, FullChain
    <2>2. QED
        BY <1>0, <1>2, <1>7, <1>8, <1>11, <2>1
<1>16. SUFFICES CacheInv(r, out2)
    BY DEF a, g
<1>17. out2 \subseteq Objects
    <2>1. ToSet(q) \subseteq Objects
        BY <1>2 DEF ToSet
    <2>2. QED
        BY <1>1, <1>7, <2>1
<1>18. \A x \in Objects : x \notin Of(s) => (x \in out2 <=> x \in out)
    BY <1>2, <1>7
<1>19. ToSet(b) \subseteq Of(s) /\ ToSet(b) \cap out2 = {} /\ Of(s) \subseteq ToSet(b) \cup out2
    BY <1>2, <1>7
<1> HIDE DEF out2
<1>20. ToSet(c.full) \cap ToSet(c.partial) = {}
       /\ (\A t \in ToSet(c.full) : c.inuse[t] = num)
       /\ (\A t \in ToSet(c.partial) : c.inuse[t] \in 1 .. num - 1)
    BY <1>1 DEF ListsOK
<1>21. ToSet(c.full) \subseteq Slabs /\ ToSet(c.partial) \subseteq Slabs
    BY <1>1, LiveIs
<1>23. CASE g.inuse[s] = num
    <2>1. r = [g EXCEPT !.full = Append(g.full, s)]
        BY <1>23 DEF Relinked
    <2>2. /\ Append(d.full, s) \in Seq(Slabs) /\ IsInjective(Append(d.full, s))
          /\ ToSet(Append(d.full, s)) = ToSet(c.full) \cup {s}
          /\ Len(Append(d.full, s)) = Len(d.full) + 1
        <3>1. s \notin ToSet(d.full)
            BY <1>4
        <3>2. ToSet(d.full) \cup {s} = ToSet(c.full) \cup {s}
            BY <1>4
        <3>3. QED
            BY <1>4, <1>5, <3>1, <3>2, AppendedOnce
    <2>3. /\ r.full = Append(d.full, s) /\ r.partial = d.partial /\ r.free = <<>>
          /\ r.chain = g.chain /\ r.inuse = g.inuse
          /\ r.nfree = g.nfree /\ r.ntotal = g.ntotal /\ r.nslab = g.nslab
        BY <1>4, <1>9, <1>10, <2>1 DEF CacheType
    <2>4. CacheType(r)
        BY <1>9, <1>10, <2>1, <2>2 DEF CacheType
    <2> HIDE DEF r
    <2>5. ListsOK(r)
        <3>1. ToSet(r.full) \cap ToSet(r.partial) = {}
            BY <1>4, <1>20, <2>2, <2>3
        <3>2. \A t \in ToSet(r.full) : r.inuse[t] = num
            BY <1>11, <1>20, <1>21, <1>23, <2>2, <2>3
        <3>3. \A t \in ToSet(r.partial) : r.inuse[t] \in 1 .. num - 1
            BY <1>4, <1>11, <1>20, <1>21, <2>3
        <3>4. r.nslab = Len(r.full) + Len(r.partial)
            <4>1. Len(d.full) \in Int /\ Len(d.partial) \in Int /\ d.nslab \in Int
                BY <1>5
            <4>2. Len(d.full) + Len(d.partial) = d.nslab - 1
                BY <1>9, <1>14
            <4>3. (Len(d.full) + 1) + Len(d.partial) = d.nslab
                <5>1. PICK x \in Int, y \in Int, n \in Int :
                         x = Len(d.full) /\ y = Len(d.partial) /\ n = d.nslab
                    BY <4>1, Zenon
                <5>2. x + y = n - 1
                    BY <4>2, <5>1, Zenon
                <5>3. (x + 1) + y = n
                    BY <5>2
                <5>4. QED
                    BY <5>1, <5>3
            <4>4. r.nslab = d.nslab /\ Len(r.full) = Len(d.full) + 1 /\ r.partial = d.partial
                BY <1>9, <2>2, <2>3
            <4>5. Len(r.full) + Len(r.partial) = (Len(d.full) + 1) + Len(d.partial)
                BY <4>4
            <4>6. QED
                BY <4>3, <4>4, <4>5
        <3>5. r.ntotal = num * r.nslab
            BY <1>14, <2>3
        <3>6. IsInjective(r.full) /\ IsInjective(r.partial) /\ r.free = <<>>
            BY <1>4, <2>2, <2>3
        <3>7. QED
            BY <3>1, <3>2, <3>3, <3>4, <3>5, <3>6 DEF ListsOK
    <2>6. Live(r) = ToSet(c.full) \cup ToSet(c.partial) \cup {s}
        <3>1. Live(r) = ToSet(r.full) \cup ToSet(r.partial)
            BY <2>4, <2>5, LiveIs
        <3>2. QED
            BY <1>4, <2>2, <2>3, <3>1
    <2>7. SlabOK(r, out2, s)
        <3>1. r.chain[s] = b /\ r.inuse[s] = g.inuse[s]
            BY <1>1, <1>12, <2>3 DEF CacheType
        <3>2. QED
            BY <1>7, <1>15, <1>19, <2>6, <3>1 DEF SlabOK
    <2>8. \A t \in Slabs : t # s => r.inuse[t] = c.inuse[t] /\ (t \in Live(r) <=> t \in Live(c))
        <3>1. Live(c) = ToSet(c.full) \cup ToSet(c.partial)
            BY <1>1, LiveIs
        <3>2. QED
            BY <1>11, <2>3, <2>6, <3>1
    <2>9. r.chain = [c.chain EXCEPT ![s] = b] /\ r.nfree = c.nfree - Len(c.chain[s]) + Len(b)
        BY <1>12, <1>13, <2>3
    <2>10. QED
        BY <1>7, <1>17, <1>18, <1>19, <2>4, <2>5, <2>7, <2>8, <2>9, SlabChanged
<1>24. CASE g.inuse[s] # num
    <2>1. r = [g EXCEPT !.partial = Append(g.partial, s)]
        BY <1>24 DEF Relinked
    <2>2. /\ Append(d.partial, s) \in Seq(Slabs) /\ IsInjective(Append(d.partial, s))
          /\ ToSet(Append(d.partial, s)) = ToSet(c.partial) \cup {s}
          /\ Len(Append(d.partial, s)) = Len(d.partial) + 1
        <3>1. s \notin ToSet(d.partial)
            BY <1>4
        <3>2. ToSet(d.partial) \cup {s} = ToSet(c.partial) \cup {s}
            BY <1>4
        <3>3. QED
            BY <1>4, <1>5, <3>1, <3>2, AppendedOnce
    <2>3. /\ r.full = d.full /\ r.partial = Append(d.partial, s) /\ r.free = <<>>
          /\ r.chain = g.chain /\ r.inuse = g.inuse
          /\ r.nfree = g.nfree /\ r.ntotal = g.ntotal /\ r.nslab = g.nslab
        BY <1>4, <1>9, <1>10, <2>1 DEF CacheType
    <2>4. CacheType(r)
        BY <1>9, <1>10, <2>1, <2>2 DEF CacheType
    <2> HIDE DEF r
    <2>5. ListsOK(r)
        <3>1. ToSet(r.full) \cap ToSet(r.partial) = {}
            BY <1>4, <1>20, <2>2, <2>3
        <3>2. \A t \in ToSet(r.full) : r.inuse[t] = num
            BY <1>4, <1>11, <1>20, <1>21, <2>3
        <3>3. \A t \in ToSet(r.partial) : r.inuse[t] \in 1 .. num - 1
            <4>1. g.inuse[s] \in 1 .. num - 1
                BY <1>0, <1>15, <1>24
            <4>2. QED
                BY <1>11, <1>20, <1>21, <2>2, <2>3, <4>1
        <3>4. r.nslab = Len(r.full) + Len(r.partial)
            <4>1. Len(d.full) \in Int /\ Len(d.partial) \in Int /\ d.nslab \in Int
                BY <1>5
            <4>2. Len(d.full) + Len(d.partial) = d.nslab - 1
                BY <1>9, <1>14
            <4>3. Len(d.full) + (Len(d.partial) + 1) = d.nslab
                <5>1. PICK x \in Int, y \in Int, n \in Int :
                         x = Len(d.full) /\ y = Len(d.partial) /\ n = d.nslab
                    BY <4>1, Zenon
                <5>2. x + y = n - 1
                    BY <4>2, <5>1, Zenon
                <5>3. x + (y + 1) = n
                    BY <5>2
                <5>4. QED
                    BY <5>1, <5>3
            <4>4. r.nslab = d.nslab /\ Len(r.partial) = Len(d.partial) + 1 /\ r.full = d.full
                BY <1>9, <2>2, <2>3
            <4>5. Len(r.full) + Len(r.partial) = Len(d.full) + (Len(d.partial) + 1)
                BY <4>4
            <4>6. QED
                BY <4>3, <4>4, <4>5
        <3>5. r.ntotal = num * r.nslab
            BY <1>14, <2>3
        <3>6. IsInjective(r.full) /\ IsInjective(r.partial) /\ r.free = <<>>
            BY <1>4, <2>2, <2>3
        <3>7. QED
            BY <3>1, <3>2, <3>3, <3>4, <3>5, <3>6 DEF ListsOK
    <2>6. Live(r) = ToSet(c.full) \cup ToSet(c.partial) \cup {s}
        <3>1. Live(r) = ToSet(r.full) \cup ToSet(r.partial)
            BY <2>4, <2>5, LiveIs
        <3>2. QED
            BY <1>4, <2>2, <2>3, <3>1
    <2>7. SlabOK(r, out2, s)
        <3>1. r.chain[s] = b /\ r.inuse[s] = g.inuse[s]
            BY <1>1, <1>12, <2>3 DEF CacheType
        <3>2. QED
            BY <1>7, <1>15, <1>19, <2>6, <3>1 DEF SlabOK
    <2>8. \A t \in Slabs : t # s => r.inuse[t] = c.inuse[t] /\ (t \in Live(r) <=> t \in Live(c))
        <3>1. Live(c) = ToSet(c.full) \cup ToSet(c.partial)
            BY <1>1, LiveIs
        <3>2. QED
            BY <1>11, <2>3, <2>6, <3>1
    <2>9. r.chain = [c.chain EXCEPT ![s] = b] /\ r.nfree = c.nfree - Len(c.chain[s]) + Len(b)
        BY <1>12, <1>13, <2>3
    <2>10. QED
        BY <1>7, <1>17, <1>18, <1>19, <2>4, <2>5, <2>7, <2>8, <2>9, SlabChanged
<1>25. QED
    BY <1>23, <1>24

-----------------------------------------------------------------------------
(* Every step keeps the invariant.                                           *)

LEMMA SourceFacts ==
    ASSUME NEW c, NEW out, CacheInv(c, out), NEW new \in Slabs,
           c.partial # <<>> \/ c.free # <<>> \/ new \notin Live(c)
    PROVE  LET s == Source(c, new)
           IN  s \in Slabs /\ \E q : AfterUnlink(c, out, s, Unlinked(c, s), q)
<1>1. CacheType(c) /\ ListsOK(c)
    BY DEF CacheInv
<1>2. CASE c.partial # <<>>
    <2> DEFINE s == Head(c.partial)
    <2>1. c.partial \in Seq(Slabs)
        BY <1>1 DEF CacheType
    <2>2. Len(c.partial) >= 1 /\ s = c.partial[1] /\ 1 \in DOMAIN c.partial
        BY <1>2, <2>1
    <2>3. s \in ToSet(c.partial) /\ s \in Slabs
        BY <2>1, <2>2 DEF ToSet
    <2>4. Source(c, new) = s
        BY <1>2 DEF Source
    <2>5. AfterUnlink(c, out, s, ListDel(c, s), c.chain[s]) /\ s \in Live(c)
        BY <2>3, TakenFacts
    <2>6. Unlinked(c, s) = ListDel(c, s)
        BY <2>5 DEF Unlinked
    <2>7. QED
        BY <2>3, <2>4, <2>5, <2>6
<1>3. CASE c.partial = <<>>
    <2>1. c.free = <<>>
        BY <1>1 DEF ListsOK
    <2>2. Source(c, new) = new /\ new \notin Live(c)
        BY <1>3, <2>1 DEF Source
    <2>3. Unlinked(c, new) = AllocSlab(c, new)
        BY <2>2 DEF Unlinked
    <2>4. \E q : AfterUnlink(c, out, new, AllocSlab(c, new), q)
        BY <2>2, AllocFacts
    <2>5. QED
        BY <2>2, <2>3, <2>4
<1>4. QED
    BY <1>2, <1>3

\* __grow hands out one object nobody had and leaves others in the array.
LEMMA GrowInv ==
    ASSUME Inv, entry = <<>>, NEW new \in Slabs, Grow(new),
           slabs.partial # <<>> \/ slabs.free # <<>> \/ new \notin Live(slabs)
    PROVE  Inv' /\ \E o \in Objects \ held : held' = held \cup {o}
<1>0. num \in Nat /\ num > 0 /\ batchcount \in Nat /\ batchcount > 0
    BY KCAssumption
<1>1. CacheInv(slabs, held)
    <2>1. held \cup ToSet(entry) = held
        BY DEF ToSet
    <2>2. QED
        BY <2>1 DEF Inv
<1>2. PICK s : s = Source(slabs, new)
    OBVIOUS
<1>3. PICK d : d = Unlinked(slabs, s)
    OBVIOUS
<1>4. s \in Slabs /\ \E q : AfterUnlink(slabs, held, s, d, q)
    BY <1>1, <1>2, <1>3, SourceFacts
<1>5. PICK q : AfterUnlink(slabs, held, s, d, q)
    BY <1>4
<1>6. d.chain[s] = q
    BY <1>1, <1>4, <1>5 DEF AfterUnlink, CacheInv, CacheType
<1>7. PICK k : k = IF batchcount < num - d.inuse[s] THEN batchcount ELSE num - d.inuse[s]
    OBVIOUS
<1>8. /\ slabs' = Relinked(GetObjs(d, s, k), s)
      /\ entry' = SubSeq(q, 1, k - 1) /\ held' = held \cup {q[k]}
    BY <1>2, <1>3, <1>6, <1>7 DEF Grow
<1>9. /\ q \in Seq(Objects) /\ IsInjective(q) /\ q # <<>>
      /\ Len(q) = num - d.inuse[s] /\ ToSet(q) \cap held = {}
    BY <1>5 DEF AfterUnlink
<1>10. k \in 1 .. Len(q) /\ k <= batchcount
    <2>1. Len(q) \in Nat /\ Len(q) # 0
        BY <1>9
    <2>2. k = IF batchcount < Len(q) THEN batchcount ELSE Len(q)
        BY <1>7, <1>9
    <2>3. QED
        BY <1>0, <2>1, <2>2
<1>11. CacheInv(slabs', held \cup ToSet(SubSeq(q, 1, k)))
    BY <1>1, <1>4, <1>5, <1>8, <1>10, GetObjsInv
<1>12. /\ entry' \in Seq(Objects) /\ Len(entry') = k - 1
       /\ \A i \in 1 .. k - 1 : entry'[i] = q[i]
    BY <1>8, <1>9, <1>10
<1>13. \A i, j \in 1 .. Len(q) : q[i] = q[j] => i = j
    BY <1>9 DEF IsInjective
<1>14. IsInjective(entry')
    BY <1>10, <1>12, <1>13 DEF IsInjective
<1>15. ToSet(entry') = {q[i] : i \in 1 .. k - 1}
    <2>1. DOMAIN entry' = 1 .. k - 1
        BY <1>9, <1>10, <1>12
    <2>2. QED
        BY <1>12, <2>1 DEF ToSet
<1>16. ToSet(SubSeq(q, 1, k)) = {q[i] : i \in 1 .. k}
    <2>1. DOMAIN SubSeq(q, 1, k) = 1 .. k /\ \A i \in 1 .. k : SubSeq(q, 1, k)[i] = q[i]
        BY <1>9, <1>10
    <2>2. QED
        BY <2>1 DEF ToSet
<1>17. held \cup ToSet(SubSeq(q, 1, k)) = held' \cup ToSet(entry')
    BY <1>8, <1>10, <1>15, <1>16
<1>18. \A i \in 1 .. Len(q) : q[i] \in Objects /\ q[i] \notin held
    BY <1>9 DEF ToSet
<1>19. held' \cap ToSet(entry') = {}
    BY <1>8, <1>10, <1>13, <1>15, <1>18
<1>20. Len(entry') <= batchcount
    BY <1>0, <1>10, <1>12
<1>21. Inv'
    <2>1. CacheInv(slabs', held' \cup ToSet(entry'))
        BY <1>11, <1>17
    <2>2. QED
        BY <1>12, <1>14, <1>19, <1>20, <2>1 DEF Inv
<1>22. QED
    BY <1>8, <1>10, <1>18, <1>21

\* From the array, if there is something in it.
LEMMA AllocInv ==
    ASSUME Inv, Alloc
    PROVE  Inv' /\ \E o \in Objects \ held : held' = held \cup {o}
<1>1. CASE entry # <<>> /\ entry' = Front(entry) /\ held' = held \cup {Last(entry)}
           /\ UNCHANGED slabs
    <2> DEFINE n == Len(entry)
    <2>1. entry \in Seq(Objects) /\ n \in Nat /\ n >= 1
        BY <1>1 DEF Inv
    <2>2. /\ entry' \in Seq(Objects) /\ Len(entry') = n - 1
          /\ \A i \in 1 .. n - 1 : entry'[i] = entry[i]
        <3>1. entry' = SubSeq(entry, 1, n - 1)
            BY <1>1 DEF Front
        <3>2. \A m \in 0 .. Len(entry) :
                 /\ SubSeq(entry, 1, m) \in Seq(Objects) /\ Len(SubSeq(entry, 1, m)) = m
                 /\ \A i \in 1 .. m : SubSeq(entry, 1, m)[i] = entry[i]
            BY <2>1
        <3>3. n - 1 \in 0 .. Len(entry)
            BY <2>1
        <3> HIDE DEF n
        <3>4. /\ SubSeq(entry, 1, n - 1) \in Seq(Objects) /\ Len(SubSeq(entry, 1, n - 1)) = n - 1
              /\ \A i \in 1 .. n - 1 : SubSeq(entry, 1, n - 1)[i] = entry[i]
            BY <3>2, <3>3, Zenon
        <3>5. QED
            BY <3>1, <3>4
    <2>3. held' = held \cup {entry[n]} /\ slabs' = slabs
        BY <1>1 DEF Last
    <2>4. \A i, j \in 1 .. n : entry[i] = entry[j] => i = j
        BY DEF Inv, IsInjective
    <2>5. IsInjective(entry')
        BY <2>1, <2>2, <2>4 DEF IsInjective
    <2>6. ToSet(entry') = {entry[i] : i \in 1 .. n - 1} /\ ToSet(entry) = {entry[i] : i \in 1 .. n}
        <3>1. DOMAIN entry' = 1 .. n - 1 /\ DOMAIN entry = 1 .. n
            BY <2>1, <2>2
        <3>2. QED
            BY <2>2, <3>1 DEF ToSet
    <2>7. held' \cup ToSet(entry') = held \cup ToSet(entry)
        BY <2>1, <2>3, <2>6
    <2>8. held \cap ToSet(entry) = {}
        BY DEF Inv
    <2>9. held' \cap ToSet(entry') = {}
        BY <2>1, <2>3, <2>4, <2>6, <2>8
    <2>10. Len(entry') <= batchcount
        BY <2>1, <2>2, KCAssumption DEF Inv
    <2>11. CacheInv(slabs', held' \cup ToSet(entry'))
        BY <2>3, <2>7 DEF Inv
    <2>12. Inv'
        BY <2>2, <2>5, <2>9, <2>10, <2>11 DEF Inv
    <2>13. entry[n] \in Objects \ held
        BY <2>1, <2>6, <2>8
    <2>14. QED
        BY <2>3, <2>12, <2>13
<1>2. CASE entry = <<>> /\ \E new \in Slabs :
              /\ slabs.partial # <<>> \/ slabs.free # <<>> \/ new \notin Live(slabs)
              /\ Grow(new)
    BY <1>2, GrowInv
<1>3. QED
    BY <1>1, <1>2 DEF Alloc

\* Into the array, emptied first if it is full.
LEMMA FreeInv ==
    ASSUME Inv, NEW o \in held, Free(o)
    PROVE  Inv' /\ held' = held \ {o}
<1>0. held' = held \ {o}
    BY DEF Free
<1>1. /\ CacheInv(slabs, held \cup ToSet(entry))
      /\ entry \in Seq(Objects) /\ IsInjective(entry)
      /\ held \cap ToSet(entry) = {} /\ Len(entry) <= batchcount
    BY DEF Inv
<1>2. o \in Objects /\ o \notin ToSet(entry) /\ batchcount \in Nat /\ batchcount >= 1
    BY <1>1, KCAssumption DEF CacheInv
<1>3. CASE Len(entry) < batchcount /\ entry' = Append(entry, o) /\ UNCHANGED slabs
    <2> DEFINE n == Len(entry)
    <2>1. n \in Nat /\ n < batchcount
        BY <1>1, <1>3
    <2>2. /\ entry' \in Seq(Objects) /\ Len(entry') = n + 1 /\ entry'[n + 1] = o
          /\ \A i \in 1 .. n : entry'[i] = entry[i]
        BY <1>1, <1>2, <1>3
    <2>3. \A i, j \in 1 .. n : entry[i] = entry[j] => i = j
        BY <1>1 DEF IsInjective
    <2>4. ToSet(entry') = ToSet(entry) \cup {o}
        <3>1. DOMAIN entry' = 1 .. n + 1 /\ DOMAIN entry = 1 .. n
            BY <1>1, <2>2
        <3>2. ToSet(entry') = {entry'[i] : i \in 1 .. n + 1} /\ ToSet(entry) = {entry[i] : i \in 1 .. n}
            BY <3>1 DEF ToSet
        <3>3. QED
            BY <2>1, <2>2, <3>2
    <2>5. \A i \in 1 .. n : entry[i] # o
        BY <1>1, <1>2 DEF ToSet
    <2>6. IsInjective(entry')
        BY <2>1, <2>2, <2>3, <2>5 DEF IsInjective
    <2>7. held' \cap ToSet(entry') = {} /\ held' \cup ToSet(entry') = held \cup ToSet(entry)
        BY <1>0, <1>1, <2>4
    <2>8. CacheInv(slabs', held' \cup ToSet(entry'))
        BY <1>1, <1>3, <2>7
    <2>9. Len(entry') <= batchcount
        BY <1>2, <2>1, <2>2
    <2>10. QED
        BY <1>0, <2>2, <2>6, <2>7, <2>8, <2>9 DEF Inv
<1>4. CASE slabs' = Shrink(slabs, entry) /\ entry' = <<o>>
    <2>1. CacheInv(slabs', (held \cup ToSet(entry)) \ ToSet(entry))
        BY <1>1, <1>4, ShrinkInv
    <2>2. ToSet(entry') = {o}
        BY <1>4 DEF ToSet
    <2>3. (held \cup ToSet(entry)) \ ToSet(entry) = held' \cup ToSet(entry')
        BY <1>0, <1>1, <2>2
    <2>4. CacheInv(slabs', held' \cup ToSet(entry'))
        BY <2>1, <2>3
    <2>5. entry' \in Seq(Objects) /\ IsInjective(entry') /\ Len(entry') <= batchcount
        BY <1>2, <1>4 DEF IsInjective
    <2>6. held' \cap ToSet(entry') = {}
        BY <1>0, <2>2
    <2>7. QED
        BY <1>0, <2>4, <2>5, <2>6 DEF Inv
<1>5. QED
    BY <1>3, <1>4 DEF Free

LEMMA EmptyInv == CacheInv(Empty, {})
<1>1. num \in Int
    BY KCAssumption
<1>2. /\ Empty.full = <<>> /\ Empty.partial = <<>> /\ Empty.free = <<>>
      /\ Empty.chain = [s \in Slabs |-> <<>>] /\ Empty.inuse = [s \in Slabs |-> 0]
      /\ Empty.nfree = 0 /\ Empty.ntotal = 0 /\ Empty.nslab = 0
    BY DEF Empty
<1>3. CacheType(Empty)
    BY DEF Empty, CacheType
<1>4. ToSet(<<>>) = {} /\ IsInjective(<<>>) /\ Len(<<>>) = 0
    BY DEF ToSet, IsInjective
<1> HIDE DEF Empty
<1>5. ListsOK(Empty)
    BY <1>1, <1>2, <1>4 DEF ListsOK
<1>6. CountOK(Empty)
    <2>1. Chained(Empty) = {}
        BY <1>2, <1>4 DEF Chained
    <2>2. QED
        BY <1>2, <2>1, FS_EmptySet DEF CountOK
<1>7. Live(Empty) = {}
    BY <1>2, <1>4 DEF Live
<1>8. \A s \in Slabs : SlabOK(Empty, {}, s)
    BY <1>2, <1>4, <1>7 DEF SlabOK
<1>9. QED
    BY <1>3, <1>5, <1>6, <1>8 DEF CacheInv

LEMMA EmptyState ==
    ASSUME NEW c, NEW e, NEW h, c = Empty, e = <<>>, h = {}
    PROVE  /\ CacheInv(c, h \cup ToSet(e)) /\ e \in Seq(Objects) /\ IsInjective(e)
           /\ h \cap ToSet(e) = {} /\ Len(e) <= batchcount
<1>1. ToSet(<<>>) = {} /\ IsInjective(<<>>) /\ Len(<<>>) = 0 /\ batchcount >= 0
    BY KCAssumption DEF ToSet, IsInjective
<1>2. h \cup ToSet(e) = {}
    BY <1>1
<1>3. QED
    BY <1>1, <1>2, EmptyInv

LEMMA InitInv == Init => Inv
    BY EmptyState DEF Init, Inv

LEMMA NextInv == Inv /\ [Next]_vars => Inv'
<1> SUFFICES ASSUME Inv, [Next]_vars PROVE Inv'
    OBVIOUS
<1>1. CASE Alloc
    BY <1>1, AllocInv
<1>2. CASE Destroy
    BY <1>2, EmptyState DEF Destroy, Inv
<1>3. CASE \E o \in held : Free(o)
    BY <1>3, FreeInv
<1>4. CASE UNCHANGED vars
    BY <1>4 DEF vars, Inv
<1>5. QED
    BY <1>1, <1>2, <1>3, <1>4 DEF Next

LEMMA Invariance == Spec => []Inv
    BY InitInv, NextInv, PTL DEF Spec

-----------------------------------------------------------------------------
(* What the cache promises.                                                  *)

\* What is outside of the chains has a live slab under it.
LEMMA OutIsBacked ==
    ASSUME NEW c, NEW out, CacheInv(c, out)
    PROVE  out \subseteq Live(c) \X (0 .. num - 1)
<1>1. ASSUME NEW o \in out PROVE o \in Live(c) \X (0 .. num - 1)
    <2>1. PICK s \in Slabs, i \in 0 .. num - 1 : o = <<s, i>>
        BY DEF CacheInv, Objects
    <2>2. o \in Of(s)
        BY <2>1 DEF Of, Indices
    <2>3. SlabOK(c, out, s)
        BY DEF CacheInv
    <2>4. s \in Live(c)
        BY <2>2, <2>3 DEF SlabOK
    <2>5. QED
        BY <2>1, <2>4
<1>2. QED
    BY <1>1

\* An object of a live slab is in its chain, in the array or with the client,
\* never in two of them or twice in one, and no other object is in any: what
\* __grow, __shrink, kmem_alloc and kmem_free move is neither lost nor doubled.
THEOREM ObjectsAreInOnePlace == Spec => []OnePlaceEach
<1>1. Inv => OnePlaceEach
    <2> SUFFICES ASSUME Inv PROVE OnePlaceEach
        OBVIOUS
    <2> DEFINE out == held \cup ToSet(entry)
               backed == Live(slabs) \X (0 .. num - 1)
    <2>1. /\ CacheInv(slabs, out) /\ IsInjective(entry) /\ held \cap ToSet(entry) = {}
        BY DEF Inv
    <2>2. out \subseteq backed
        BY <2>1, OutIsBacked
    <2>3. CacheType(slabs) /\ ListsOK(slabs) /\ \A s \in Slabs : SlabOK(slabs, out, s)
        BY <2>1 DEF CacheInv
    <2>4. Live(slabs) \subseteq Slabs
        BY <2>3, LiveIs
    <2>5. Chained(slabs) \cap out = {}
        BY <2>3 DEF Chained, SlabOK
    <2>6. ASSUME NEW x \in Chained(slabs) PROVE x \in backed
        <3>1. PICK s \in Slabs : x \in ToSet(slabs.chain[s])
            BY DEF Chained
        <3>2. s \in Live(slabs)
            <4>1. slabs.chain[s] # <<>>
                BY <3>1 DEF ToSet
            <4>2. QED
                BY <2>3, <4>1 DEF SlabOK
        <3>3. x \in Of(s)
            BY <2>3, <3>1 DEF SlabOK
        <3>4. QED
            BY <3>2, <3>3 DEF Of, Indices
    <2>7. ASSUME NEW x \in backed PROVE x \in Chained(slabs) \cup out
        <3>1. PICK s \in Live(slabs), i \in 0 .. num - 1 : x = <<s, i>>
            OBVIOUS
        <3>2. x \in Of(s) /\ s \in Slabs
            BY <2>4, <3>1 DEF Of, Indices
        <3>3. x \in ToSet(slabs.chain[s]) \cup out
            BY <2>3, <3>2 DEF SlabOK
        <3>4. QED
            BY <3>2, <3>3 DEF Chained
    <2>8. Chained(slabs) \cup ToSet(entry) \cup held = backed
        BY <2>2, <2>6, <2>7
    <2>9. \A s \in Slabs : IsInjective(slabs.chain[s])
        BY <2>3 DEF SlabOK
    <2> HIDE DEF backed
    <2>10. QED
        BY <2>1, <2>5, <2>8, <2>9 DEF OnePlaceEach, Chained, backed
<1>2. QED
    BY <1>1, Invariance, PTL

\* Two lists without a slab in common, one behind the other.
LEMMA JoinedOnce ==
    ASSUME NEW S, NEW s \in Seq(S), NEW t \in Seq(S), IsInjective(s), IsInjective(t),
           ToSet(s) \cap ToSet(t) = {}
    PROVE  /\ s \o t \in Seq(S) /\ Len(s \o t) = Len(s) + Len(t)
           /\ IsInjective(s \o t) /\ ToSet(s \o t) = ToSet(s) \cup ToSet(t)
<1> DEFINE m == Len(s)
           n == Len(t)
           r == s \o t
<1>1. /\ r \in Seq(S) /\ Len(r) = m + n /\ m \in Nat /\ n \in Nat
      /\ \A i \in 1 .. m + n : r[i] = IF i <= m THEN s[i] ELSE t[i - m]
    OBVIOUS
<1>2. /\ \A i, j \in 1 .. m : s[i] = s[j] => i = j
      /\ \A i, j \in 1 .. n : t[i] = t[j] => i = j
    BY DEF IsInjective
<1>3. ToSet(s) = {s[i] : i \in 1 .. m} /\ ToSet(t) = {t[i] : i \in 1 .. n}
    BY DEF ToSet
<1>4. ToSet(r) = {r[i] : i \in 1 .. m + n}
    <2>1. DOMAIN r = 1 .. m + n
        BY <1>1
    <2>2. QED
        BY <2>1 DEF ToSet
<1> HIDE DEF r, m, n
<1>5. \A i \in 1 .. m : i \in 1 .. m + n /\ r[i] = s[i]
    BY <1>1
<1>6. \A i \in 1 .. n : m + i \in 1 .. m + n /\ r[m + i] = t[i]
    BY <1>1
<1>7. ToSet(r) = ToSet(s) \cup ToSet(t)
    <2>1. ToSet(r) \subseteq ToSet(s) \cup ToSet(t)
        <3>1. ASSUME NEW i \in 1 .. m + n PROVE r[i] \in ToSet(s) \cup ToSet(t)
            <4>1. CASE i <= m
                BY <1>1, <1>3, <4>1
            <4>2. CASE ~(i <= m)
                <5>1. i - m \in 1 .. n /\ r[i] = t[i - m]
                    BY <1>1, <4>2
                <5>2. QED
                    BY <1>3, <5>1
            <4>3. QED
                BY <4>1, <4>2
        <3>2. QED
            BY <1>4, <3>1
    <2>2. ToSet(s) \subseteq ToSet(r)
        BY <1>3, <1>4, <1>5
    <2>3. ToSet(t) \subseteq ToSet(r)
        BY <1>3, <1>4, <1>6
    <2>4. QED
        BY <2>1, <2>2, <2>3
<1>8. IsInjective(r)
    <2>1. ASSUME NEW i \in 1 .. m + n, NEW j \in 1 .. m + n, r[i] = r[j] PROVE i = j
        <3>1. CASE i <= m /\ j <= m
            BY <1>1, <1>2, <2>1, <3>1
        <3>2. CASE ~(i <= m) /\ ~(j <= m)
            <4>1. i - m \in 1 .. n /\ j - m \in 1 .. n /\ t[i - m] = t[j - m]
                BY <1>1, <2>1, <3>2
            <4>2. i - m = j - m
                BY <1>2, <4>1
            <4>3. QED
                BY <1>1, <4>2
        <3>3. CASE i <= m /\ ~(j <= m)
            <4>1. r[i] \in ToSet(s)
                BY <1>1, <1>3, <3>3
            <4>2. j - m \in 1 .. n /\ r[j] = t[j - m]
                BY <1>1, <3>3
            <4>3. QED
                BY <1>3, <2>1, <4>1, <4>2
        <3>4. CASE ~(i <= m) /\ j <= m
            <4>1. r[j] \in ToSet(s)
                BY <1>1, <1>3, <3>4
            <4>2. i - m \in 1 .. n /\ r[i] = t[i - m]
                BY <1>1, <3>4
            <4>3. QED
                BY <1>3, <2>1, <4>1, <4>2
        <3>5. QED
            BY <3>1, <3>2, <3>3, <3>4
    <2>2. DOMAIN r = 1 .. m + n
        BY <1>1
    <2>3. QED
        BY <2>1, <2>2 DEF IsInjective
<1>9. QED
    BY <1>1, <1>7, <1>8 DEF r, m, n

\* A slab is on one list, once, the one its use says, and the counters that
\* decide whether it is destroyed are those of the lists and the chains.
THEOREM ListsAndCountersAgree == Spec => []SlabsAccounted
<1>1. Inv => SlabsAccounted
    <2> SUFFICES ASSUME Inv PROVE SlabsAccounted
        OBVIOUS
    <2> DEFINE all == slabs.full \o slabs.partial \o slabs.free
    <2>1. /\ CacheType(slabs) /\ ListsOK(slabs) /\ CountOK(slabs)
          /\ \A s \in Slabs : SlabOK(slabs, held \cup ToSet(entry), s)
        BY DEF Inv, CacheInv
    <2>2. /\ slabs.full \in Seq(Slabs) /\ slabs.partial \in Seq(Slabs) /\ slabs.free = <<>>
          /\ slabs.inuse \in [Slabs -> Int]
        BY <2>1 DEF CacheType, ListsOK
    <2>3. /\ slabs.full \o slabs.partial \in Seq(Slabs)
          /\ Len(slabs.full \o slabs.partial) = Len(slabs.full) + Len(slabs.partial)
          /\ IsInjective(slabs.full \o slabs.partial)
          /\ ToSet(slabs.full \o slabs.partial) = ToSet(slabs.full) \cup ToSet(slabs.partial)
        BY <2>1, <2>2, JoinedOnce DEF ListsOK
    <2>4. all = slabs.full \o slabs.partial
        <3>1. (slabs.full \o slabs.partial) \o <<>> = slabs.full \o slabs.partial
            BY <2>3
        <3>2. QED
            BY <2>2, <3>1
    <2>5. ToSet(all) = Live(slabs) /\ ToSet(all) \subseteq Slabs
        BY <2>1, <2>3, <2>4, LiveIs
    <2> HIDE DEF all
    <2>6. \A s \in ToSet(all) : Len(slabs.chain[s]) = num - slabs.inuse[s]
        BY <2>1, <2>5 DEF SlabOK
    <2>7. \A s \in ToSet(slabs.free) : slabs.inuse[s] = 0
        BY <2>2 DEF ToSet
    <2>8. /\ \A s \in ToSet(slabs.full) : slabs.inuse[s] = num
          /\ \A s \in ToSet(slabs.partial) : slabs.inuse[s] \in 1 .. num - 1
          /\ slabs.nslab = Len(all) /\ slabs.ntotal = num * slabs.nslab
        BY <2>1, <2>3, <2>4 DEF ListsOK
    <2>9. slabs.nfree = Cardinality(UNION {ToSet(slabs.chain[s]) : s \in Slabs})
        BY <2>1 DEF CountOK, Chained
    <2>10. QED
        BY <2>3, <2>4, <2>6, <2>7, <2>8, <2>9 DEF SlabsAccounted, all
<1>2. QED
    BY <1>1, Invariance, PTL

\* kmem_alloc hands out an object nobody holds, kmem_free takes it back, and
\* neither __grow nor __shrink takes the memory of one that is held: the cache
\* implements the object pool, over the slabs that are live.
THEOREM CacheIsPool == Spec => PoolSpec
<1>1. Init => Pool!Init
    <2> SUFFICES ASSUME Init PROVE Pool!Init
        OBVIOUS
    <2>1. ToSet(<<>>) = {}
        BY DEF ToSet
    <2>2. Live(slabs) = {}
        BY <2>1 DEF Init, Empty, Live
    <2>3. QED
        BY <2>2 DEF Init, Pool!Init
<1>2. Inv /\ Inv' /\ [Next]_vars => [Pool!Next]_<<held, Live(slabs) \X (0 .. num - 1)>>
    <2> SUFFICES ASSUME Inv, Inv', [Next]_vars
                 PROVE  [Pool!Next]_<<held, Live(slabs) \X (0 .. num - 1)>>
        OBVIOUS
    <2>1. held' \subseteq Live(slabs') \X (0 .. num - 1)
        <3>1. CacheInv(slabs', held' \cup ToSet(entry'))
            BY DEF Inv
        <3>2. QED
            BY <3>1, OutIsBacked
    <2>2. Live(slabs') \X (0 .. num - 1) \in SUBSET Objects
        <3>1. CacheType(slabs') /\ ListsOK(slabs')
            BY DEF Inv, CacheInv
        <3>2. Live(slabs') \subseteq Slabs
            BY <3>1, LiveIs
        <3>3. QED
            BY <3>2 DEF Objects
    <2>3. CASE Alloc
        <3>1. \E o \in Objects \ held : held' = held \cup {o}
            BY <2>3, AllocInv
        <3>2. QED
            BY <2>1, <2>2, <3>1 DEF Pool!Next, Pool!Alloc
    <2>4. CASE Destroy
        <3>1. ToSet(<<>>) = {}
            BY DEF ToSet
        <3>2. held' = {} /\ Live(slabs') = {}
            BY <2>4, <3>1 DEF Destroy, Empty, Live
        <3>3. QED
            BY <3>2 DEF Pool!Next, Pool!Close
    <2>5. CASE \E o \in held : Free(o)
        <3>1. \E o \in held : held' = held \ {o}
            BY <2>5, FreeInv
        <3>2. QED
            BY <2>1, <2>2, <3>1 DEF Pool!Next, Pool!Free
    <2>6. CASE UNCHANGED vars
        <3>1. held' = held /\ slabs' = slabs
            BY <2>6 DEF vars
        <3>2. QED
            BY <3>1
    <2>7. QED
        BY <2>3, <2>4, <2>5, <2>6 DEF Next
<1>3. QED
    BY <1>1, <1>2, Invariance, PTL DEF Spec, PoolSpec, Pool!Spec

-----------------------------------------------------------------------------
(* ObjList.                                                                  *)

\* A set of ids that is not empty has a greatest one.
LEMMA GreatestIn ==
  ASSUME NEW S \in SUBSET Objs, S # {}
  PROVE  /\ Greatest(S) \in S
         /\ \A p \in S : p <= Greatest(S)
  <1> DEFINE Above(o) == {p \in S : p >= o}
             R == StrictSubsetOrdering(Objs)
             D == {Above(o) : o \in S}
  <1>1. IsFiniteSet(Objs)
    BY OLAssumption, FS_Interval DEF Objs
  <1>2. D \subseteq FiniteSubsetsOf(Objs)
    <2> SUFFICES ASSUME NEW o \in S PROVE Above(o) \in FiniteSubsetsOf(Objs)
      OBVIOUS
    <2> QED BY <1>1, FS_Subset DEF FiniteSubsetsOf
  <1>3. IsWellFoundedOn(R, FiniteSubsetsOf(Objs)) /\ D # {}
    BY <1>1, FS_StrictSubsetOrderingWellFounded
  <1> HIDE DEF D, R
  <1>4. PICK d \in D : \A e \in D : <<e, d>> \notin R
    BY <1>2, <1>3, WFMin
  <1>5. PICK o \in S : d = Above(o)
    BY DEF D
  <1>6. \A p \in S : p <= o
    <2>0. S \subseteq Int
      BY OLAssumption DEF Objs
    <2> SUFFICES ASSUME NEW p \in S, p > o PROVE FALSE
      BY <2>0
    <2>1. /\ \A q \in S : q >= p => q >= o
          /\ o >= o /\ ~(o >= p)
      BY <2>0
    <2>2. Above(p) \in D
      BY DEF D
    <2>3. <<Above(p), d>> \in R
      BY <1>5, <2>1 DEF R, StrictSubsetOrdering
    <2> QED BY <1>4, <2>2, <2>3
  <1> QED BY <1>6 DEF Greatest
-----------------------------------------------------------------------------
ListTypeOK ==
    /\ linked \in SUBSET Objs
    /\ s_count \in [Objs -> Int]
    /\ refs \in [Threads -> SUBSET Objs]
    /\ at \in [Threads -> {"idle", "got", "inside", "out", "between", "reading"}]
    /\ seen \in SUBSET Objs
    /\ deleted \in [Objs -> Nat]

\* A thread between two calls refers to nothing.
RestingRefersToNothing ==
    \A t \in Threads : at[t] \in {"idle", "between"} => refs[t] = {}

\* What is on the list before the object a walk has come to was seen.
WalkedSoFar ==
    at[Walker] \in {"got", "inside", "out"} =>
        \A c \in refs[Walker], p \in linked : p > c => p \in seen

ListInv == /\ ListTypeOK /\ RestingRefersToNothing
           /\ CountIsReferences /\ WalkedSoFar /\ WalkSeesAll

Holders(o) == {t \in Threads : o \in refs[t]}

LEMMA ThreadsFinite == IsFiniteSet(Threads)
  BY OLAssumption, FS_AddElement DEF Threads

\* One thread changes what it refers to.
LEMMA HoldersCount ==
  ASSUME refs \in [Threads -> SUBSET Objs], NEW t \in Threads, NEW T \in SUBSET Objs,
         refs' = [refs EXCEPT ![t] = T], NEW o \in Objs
  PROVE  /\ Cardinality(Holders(o)) \in Nat
         /\ Cardinality(Holders(o)') = Cardinality(Holders(o))
              - (IF o \in refs[t] THEN 1 ELSE 0) + (IF o \in T THEN 1 ELSE 0)
  <1> DEFINE H == Holders(o) \ {t}
  <1>1. IsFiniteSet(Holders(o))
    BY ThreadsFinite, FS_Subset DEF Holders
  <1>2. /\ IsFiniteSet(H)
        /\ Cardinality(H) = Cardinality(Holders(o)) - (IF o \in refs[t] THEN 1 ELSE 0)
        /\ Cardinality(Holders(o)) \in Nat
    BY <1>1, FS_RemoveElement, FS_CardinalityType DEF Holders
  <1>3. Holders(o)' = IF o \in T THEN H \cup {t} ELSE H
    BY DEF Holders
  <1>4. Cardinality(Holders(o)') = Cardinality(H) + (IF o \in T THEN 1 ELSE 0)
    <2>1. CASE o \in T
      BY <2>1, <1>2, <1>3, FS_AddElement
    <2>2. CASE o \notin T
      BY <2>2, <1>2, <1>3, FS_CardinalityType
    <2> QED BY <2>1, <2>2
  <1> QED BY <1>2, <1>4

\* A thread puts what it refers to and gets objects that are then still there.
LEMMA PutAndGet ==
  ASSUME ListTypeOK, CountIsReferences, NEW t \in Threads,
         NEW T \in SUBSET Kept(refs[t]),
         linked' = Kept(refs[t]), s_count' = Recount(refs[t], T),
         refs' = [refs EXCEPT ![t] = T], UNCHANGED deleted
  PROVE  /\ linked' \in SUBSET linked
         /\ s_count' \in [Objs -> Int] /\ refs' \in [Threads -> SUBSET Objs]
         /\ CountIsReferences'
  <1>1. T \in SUBSET Objs /\ linked' \in SUBSET linked
    BY DEF ListTypeOK, Kept
  <1>2. s_count' \in [Objs -> Int] /\ refs' \in [Threads -> SUBSET Objs]
    BY <1>1 DEF ListTypeOK, Recount
  <1>3. CountIsReferences'
    <2> SUFFICES ASSUME NEW o \in Objs
                 PROVE  /\ s_count'[o] = Cardinality(Holders(o)') + 1 - deleted'[o]
                        /\ o \in linked' <=> s_count'[o] > 0
      BY DEF CountIsReferences, Holders
    <2>1. /\ s_count[o] = Cardinality(Holders(o)) + 1 - deleted[o]
          /\ o \in linked <=> s_count[o] > 0
      BY DEF CountIsReferences, Holders
    <2>2. /\ Cardinality(Holders(o)) \in Nat
          /\ Cardinality(Holders(o)') = Cardinality(Holders(o))
              - (IF o \in refs[t] THEN 1 ELSE 0) + (IF o \in T THEN 1 ELSE 0)
      BY <1>1, HoldersCount DEF ListTypeOK
    <2>3. s_count'[o] = s_count[o] - (IF o \in refs[t] THEN 1 ELSE 0)
                                   + (IF o \in T THEN 1 ELSE 0)
      BY DEF Recount
    <2>4. s_count[o] \in Int /\ deleted[o] \in Nat
      BY DEF ListTypeOK
    <2>5. s_count'[o] = Cardinality(Holders(o)') + 1 - deleted'[o]
      BY <2>1, <2>2, <2>3, <2>4
    <2>6. o \in linked' <=> s_count'[o] > 0
      BY <2>1, <2>3, <2>4 DEF Kept
    <2> QED BY <2>5, <2>6
  <1> QED BY <1>1, <1>2, <1>3
-----------------------------------------------------------------------------
LEMMA ListInitInv == ListInit => ListInv
  <1> SUFFICES ASSUME ListInit PROVE ListInv
    OBVIOUS
  <1>1. CountIsReferences
    <2> SUFFICES ASSUME NEW o \in Objs
                 PROVE  /\ s_count[o] = Cardinality(Holders(o)) + 1 - deleted[o]
                        /\ o \in linked <=> s_count[o] > 0
      BY DEF CountIsReferences, Holders
    <2>1. Holders(o) = {}
      BY DEF ListInit, Holders
    <2> QED BY <2>1, FS_EmptySet DEF ListInit
  <1>2. Walker \in Threads /\ ById \subseteq Threads
    BY DEF Threads
  <1> QED
    BY <1>1, <1>2 DEF ListInit, ListInv, ListTypeOK, RestingRefersToNothing, WalkedSoFar, WalkSeesAll

\* Steps that leave list and references alone, and do not let a walk begin.
LEMMA MoveInv ==
  ASSUME ListInv, NEW t \in Threads, NEW place \in {"inside", "out"},
         at[t] \in {"got", "inside"}, Move(t, place),
         UNCHANGED <<linked, s_count, refs, seen, deleted>>
  PROVE  ListInv'
  <1>1. ListTypeOK'
    BY DEF ListInv, ListTypeOK, Move
  <1>2. RestingRefersToNothing' /\ WalkedSoFar' /\ WalkSeesAll'
    BY DEF ListInv, ListTypeOK, Move, RestingRefersToNothing, WalkedSoFar, WalkSeesAll, Threads
  <1> QED BY <1>1, <1>2 DEF ListInv, CountIsReferences

LEMMA GetInv ==
  ASSUME ListInv, NEW t \in ById, Get(t)
  PROVE  ListInv'
  <1>0. t \in Threads /\ t # Walker /\ Walker \in Threads
    BY OLAssumption DEF Threads
  <1>1. PICK o \in Objs :
          \/ /\ o \in linked
             /\ s_count' = Recount({}, {o}) /\ Refer(t, {o})
             /\ Move(t, "got") /\ UNCHANGED calls
          \/ /\ o \notin linked
             /\ calls' = [calls EXCEPT ![t] = @ - 1]
             /\ UNCHANGED <<s_count, refs, at>>
    BY DEF Get
  <1>2. UNCHANGED <<linked, seen, deleted>> /\ at[t] = "idle"
    BY DEF Get
  <1>3. CASE UNCHANGED <<s_count, refs, at>>
    BY <1>2, <1>3 DEF ListInv, ListTypeOK, RestingRefersToNothing, CountIsReferences,
                      WalkedSoFar, WalkSeesAll
  <1>4. CASE o \in linked /\ s_count' = Recount({}, {o}) /\ Refer(t, {o}) /\ Move(t, "got")
    <2>1. refs[t] = {}
      BY <1>0, <1>2 DEF ListInv, RestingRefersToNothing
    <2>2. linked' = Kept(refs[t]) /\ {o} \in SUBSET Kept(refs[t])
      BY <1>2, <1>4, <2>1 DEF Kept
    <2>3. /\ s_count' \in [Objs -> Int] /\ refs' \in [Threads -> SUBSET Objs]
          /\ CountIsReferences'
      BY <1>0, <1>2, <1>4, <2>1, <2>2, PutAndGet DEF ListInv, Refer
    <2>4. ListTypeOK'
      BY <1>2, <1>4, <2>3 DEF ListInv, ListTypeOK, Move
    <2>5. RestingRefersToNothing' /\ WalkedSoFar' /\ WalkSeesAll'
      BY <1>0, <1>2, <1>4 DEF ListInv, ListTypeOK, RestingRefersToNothing, WalkedSoFar,
                              WalkSeesAll, Move, Refer
    <2> QED BY <2>3, <2>4, <2>5 DEF ListInv
  <1> QED BY <1>1, <1>3, <1>4

LEMMA PutObjInv ==
  ASSUME ListInv, NEW t \in ById, PutRef(t)
  PROVE  ListInv'
  <1>0. t \in Threads /\ t # Walker /\ Walker \in Threads
    BY OLAssumption DEF Threads
  <1>1. /\ linked' \in SUBSET linked
        /\ s_count' \in [Objs -> Int] /\ refs' \in [Threads -> SUBSET Objs]
        /\ CountIsReferences'
    BY <1>0, PutAndGet DEF ListInv, PutRef, Refer
  <1>2. ListTypeOK'
    BY <1>1 DEF ListInv, ListTypeOK, PutRef, Move
  <1>3. RestingRefersToNothing' /\ WalkedSoFar' /\ WalkSeesAll'
    BY <1>0, <1>1 DEF ListInv, ListTypeOK, RestingRefersToNothing, WalkedSoFar, WalkSeesAll,
                      PutRef, Move, Refer
  <1> QED BY <1>1, <1>2, <1>3 DEF ListInv

LEMMA DeleteInv ==
  ASSUME ListInv, NEW o \in Objs, Delete(o)
  PROVE  ListInv'
  <1>1. linked' \in SUBSET linked
    BY DEF Delete, Kept
  <1>2. ListTypeOK'
    <2>1. s_count' \in [Objs -> Int]
      BY DEF ListInv, ListTypeOK, Delete, Recount
    <2>2. deleted' \in [Objs -> Nat]
      <3>1. deleted[o] + 1 \in Nat
        BY DEF ListInv, ListTypeOK
      <3> QED BY <3>1 DEF ListInv, ListTypeOK, Delete
    <2> QED BY <1>1, <2>1, <2>2 DEF ListInv, ListTypeOK, Delete
  <1>3. CountIsReferences'
    <2> SUFFICES ASSUME NEW p \in Objs
                 PROVE  /\ s_count'[p] = Cardinality(Holders(p)') + 1 - deleted'[p]
                        /\ p \in linked' <=> s_count'[p] > 0
      BY DEF CountIsReferences, Holders
    <2>1. /\ s_count[p] = Cardinality(Holders(p)) + 1 - deleted[p]
          /\ p \in linked <=> s_count[p] > 0
      BY DEF ListInv, CountIsReferences, Holders
    <2>2. Holders(p)' = Holders(p) /\ Cardinality(Holders(p)) \in Nat
      <3>1. IsFiniteSet(Holders(p))
        BY ThreadsFinite, FS_Subset DEF Holders
      <3> QED BY <3>1, FS_CardinalityType DEF Delete, Holders
    <2>3. /\ s_count'[p] = s_count[p] - (IF p = o THEN 1 ELSE 0)
          /\ deleted'[p] = deleted[p] + (IF p = o THEN 1 ELSE 0)
          /\ s_count[p] \in Int /\ deleted[p] \in Nat
      BY DEF ListInv, ListTypeOK, Delete, Recount
    <2>4. p \in linked' <=> s_count'[p] > 0
      BY <2>1, <2>3 DEF Delete, Kept
    <2> QED BY <2>1, <2>2, <2>3, <2>4
  <1>4. RestingRefersToNothing' /\ WalkedSoFar' /\ WalkSeesAll'
    BY <1>1 DEF ListInv, RestingRefersToNothing, WalkedSoFar, WalkSeesAll, Delete
  <1> QED BY <1>2, <1>3, <1>4 DEF ListInv
-----------------------------------------------------------------------------
\* The walk goes from the objects of S to the greatest candidate: what of the
\* list lies before that one was seen, or all of it when there is none.
LEMMA VisitInv ==
  ASSUME ListInv, NEW candidates \in SUBSET Kept(refs[Walker]),
         linked' = Kept(refs[Walker]), Visit(refs[Walker], candidates),
         UNCHANGED deleted, seen' \in SUBSET Objs,
         linked' \ candidates \subseteq seen'
  PROVE  ListInv'
  <1> DEFINE T == IF candidates = {} THEN {} ELSE {Greatest(candidates)}
  <1>0. Walker \in Threads
    BY DEF Threads
  <1>1. /\ s_count' = Recount(refs[Walker], T) /\ refs' = [refs EXCEPT ![Walker] = T]
        /\ at' = [at EXCEPT ![Walker] = IF T = {} THEN "between" ELSE "got"]
    BY DEF Visit, Refer, Move
  <1>2. candidates \in SUBSET Objs
    BY DEF Kept, ListInv, ListTypeOK
  <1>3. T \in SUBSET Kept(refs[Walker])
    BY <1>2, GreatestIn
  <1>4. \A c \in T, p \in candidates : p <= c
    BY <1>2, GreatestIn
  <1>5. T = {} <=> candidates = {}
    OBVIOUS
  <1> HIDE DEF T
  <1>6. /\ linked' \in SUBSET linked
        /\ s_count' \in [Objs -> Int] /\ refs' \in [Threads -> SUBSET Objs]
        /\ CountIsReferences'
    BY <1>0, <1>1, <1>3, PutAndGet DEF ListInv
  <1>7. ListTypeOK'
    BY <1>1, <1>6 DEF ListInv, ListTypeOK
  <1>8. RestingRefersToNothing'
    BY <1>0, <1>1 DEF ListInv, ListTypeOK, RestingRefersToNothing
  <1>9. WalkedSoFar'
    <2> SUFFICES ASSUME NEW c \in T, NEW p \in linked', p > c
                 PROVE  p \in seen'
      BY <1>0, <1>1 DEF ListInv, ListTypeOK, WalkedSoFar
    <2>1. c \in Int /\ p \in Int
      BY <1>3, <1>6, OLAssumption DEF ListInv, ListTypeOK, Kept, Objs
    <2> QED BY <2>1, <1>4
  <1>10. WalkSeesAll'
    BY <1>0, <1>1, <1>5 DEF ListInv, ListTypeOK, WalkSeesAll
  <1> QED BY <1>6, <1>7, <1>8, <1>9, <1>10 DEF ListInv

LEMMA WalkFirstInv == ListInv /\ WalkFirst => ListInv'
  <1> SUFFICES ASSUME ListInv, WalkFirst PROVE ListInv'
    OBVIOUS
  <1>1. refs[Walker] = {}
    BY DEF ListInv, RestingRefersToNothing, WalkFirst, Threads
  <1>2. linked' = Kept(refs[Walker]) /\ linked \in SUBSET Kept(refs[Walker])
    BY <1>1 DEF WalkFirst, Kept
  <1>3. Visit(refs[Walker], linked) /\ seen' = {} /\ UNCHANGED deleted /\ linked' = linked
    BY <1>1 DEF WalkFirst
  <1> QED BY <1>2, <1>3, VisitInv

LEMMA WalkNextInv == ListInv /\ WalkNext => ListInv'
  <1> SUFFICES ASSUME ListInv, WalkNext PROVE ListInv'
    OBVIOUS
  <1> DEFINE later == IF refs[Walker] \subseteq linked'
                      THEN {p \in linked' : \A o \in refs[Walker] : p < o}
                      ELSE linked'
  <1>1. /\ linked' = Kept(refs[Walker]) /\ Visit(refs[Walker], later)
        /\ UNCHANGED deleted /\ seen' = seen \cup refs[Walker] /\ at[Walker] = "out"
    BY DEF WalkNext
  <1>2. later \in SUBSET Kept(refs[Walker])
    BY <1>1
  <1>3. refs[Walker] \in SUBSET Objs /\ seen' \in SUBSET Objs
    BY <1>1 DEF ListInv, ListTypeOK, Threads
  <1>4. linked' \ later \subseteq seen'
    <2> SUFFICES ASSUME NEW p \in linked', p \notin later PROVE p \in seen'
      OBVIOUS
    <2>1. PICK o \in refs[Walker] : ~(p < o)
      OBVIOUS
    <2>2. p \in linked /\ p \in Int /\ o \in Int
      BY <1>1, <1>3, OLAssumption DEF Kept, ListInv, ListTypeOK, Objs
    <2>3. CASE p = o
      BY <2>3, <1>1
    <2>4. CASE p > o
      BY <2>2, <2>4, <1>1 DEF ListInv, WalkedSoFar
    <2> QED BY <2>1, <2>2, <2>3, <2>4
  <1> HIDE DEF later
  <1> QED BY <1>1, <1>2, <1>3, <1>4, VisitInv

LEMMA SnapshotInv == ListInv /\ Snapshot => ListInv'
  <1> SUFFICES ASSUME ListInv, Snapshot PROVE ListInv'
    OBVIOUS
  <1>0. Walker \in Threads
    BY DEF Threads
  <1>1. refs[Walker] = {}
    BY <1>0 DEF ListInv, RestingRefersToNothing, Snapshot
  <1>2. linked' = Kept(refs[Walker]) /\ linked \in SUBSET Kept(refs[Walker])
    BY <1>1 DEF Snapshot, Kept
  <1>3. /\ s_count' \in [Objs -> Int] /\ refs' \in [Threads -> SUBSET Objs]
        /\ CountIsReferences'
    BY <1>0, <1>1, <1>2, PutAndGet DEF ListInv, Snapshot, Refer
  <1>4. ListTypeOK'
    BY <1>3 DEF ListInv, ListTypeOK, Snapshot, Move
  <1>5. RestingRefersToNothing' /\ WalkedSoFar' /\ WalkSeesAll'
    BY <1>0 DEF ListInv, ListTypeOK, RestingRefersToNothing, WalkedSoFar, WalkSeesAll,
                Snapshot, Move, Refer
  <1> QED BY <1>3, <1>4, <1>5 DEF ListInv

LEMMA ReleaseInv == ListInv /\ Release => ListInv'
  <1> SUFFICES ASSUME ListInv, Release PROVE ListInv'
    OBVIOUS
  <1>0. Walker \in Threads
    BY DEF Threads
  <1>1. /\ linked' \in SUBSET linked
        /\ s_count' \in [Objs -> Int] /\ refs' \in [Threads -> SUBSET Objs]
        /\ CountIsReferences'
    BY <1>0, PutAndGet DEF ListInv, Release, Refer
  <1>2. ListTypeOK'
    BY <1>1 DEF ListInv, ListTypeOK, Release, Move
  <1>3. RestingRefersToNothing' /\ WalkedSoFar' /\ WalkSeesAll'
    BY <1>0 DEF ListInv, ListTypeOK, RestingRefersToNothing, WalkedSoFar, WalkSeesAll,
                Release, Move, Refer
  <1> QED BY <1>1, <1>2, <1>3 DEF ListInv
-----------------------------------------------------------------------------
LEMMA ListNextInv == ListInv /\ [ListNext]_listVars => ListInv'
  <1> SUFFICES ASSUME ListInv, [ListNext]_listVars PROVE ListInv'
    OBVIOUS
  <1>0. ById \subseteq Threads /\ Walker \in Threads
    BY DEF Threads
  <1>1. ASSUME NEW t \in Threads, Lock(t) PROVE ListInv'
    BY <1>1, MoveInv DEF Lock
  <1>2. ASSUME NEW t \in Threads, Unlock(t) PROVE ListInv'
    BY <1>2, MoveInv DEF Unlock
  <1>3. ASSUME NEW t \in ById, ReadStep(t) PROVE ListInv'
    BY <1>0, <1>1, <1>2, <1>3, GetInv, PutObjInv DEF ReadStep
  <1>4. CASE ReadOne
    BY <1>4 DEF ReadOne, ListInv, ListTypeOK, RestingRefersToNothing, CountIsReferences,
                WalkedSoFar, WalkSeesAll
  <1>5. CASE WalkStep
    BY <1>0, <1>1, <1>2, <1>4, <1>5, WalkFirstInv, WalkNextInv, SnapshotInv, ReleaseInv
       DEF WalkStep
  <1>6. ASSUME NEW o \in Objs, Delete(o) PROVE ListInv'
    BY <1>6, DeleteInv
  <1>7. CASE UNCHANGED listVars
    BY <1>7 DEF listVars, ListInv, ListTypeOK, RestingRefersToNothing, CountIsReferences,
                WalkedSoFar, WalkSeesAll
  <1> QED BY <1>3, <1>5, <1>6, <1>7 DEF ListNext

THEOREM ListInvariant == ListSpec => []ListInv
  BY ListInitInv, ListNextInv, PTL DEF ListSpec

\* The count of an object is one and one for each thread that refers to it,
\* less one for each func_delete; __put_obj frees it when that gets to 0.
THEOREM CountsAreReferences == ListSpec => []CountIsReferences
  BY ListInvariant, PTL DEF ListInv

\* A thread's pointer dangles only when the object was deleted twice: with a
\* holder and one deletion at most the count is positive.
THEOREM FreedInUse == ListSpec => []FreedInUseOnlyByTwoDeletes
  <1>1. ListInv => FreedInUseOnlyByTwoDeletes
    <2> SUFFICES ASSUME ListInv, NEW t \in Threads, NEW o \in refs[t] \ linked
                 PROVE  deleted[o] >= 2
      BY DEF FreedInUseOnlyByTwoDeletes
    <2>1. o \in Objs /\ deleted[o] \in Nat /\ s_count[o] \in Int
      BY DEF ListInv, ListTypeOK
    <2>2. s_count[o] <= 0 /\ s_count[o] = Cardinality(Holders(o)) + 1 - deleted[o]
      BY <2>1 DEF ListInv, CountIsReferences, Holders
    <2>3. Cardinality(Holders(o)) \in Nat /\ Cardinality(Holders(o)) # 0
      <3>1. IsFiniteSet(Holders(o)) /\ t \in Holders(o)
        BY ThreadsFinite, FS_Subset DEF Holders
      <3> QED BY <3>1, FS_CardinalityType, FS_EmptySet
    <2> QED BY <2>1, <2>2, <2>3
  <1> QED BY <1>1, ListInvariant, PTL

\* A walk that has ended has read every object that is on the list.
THEOREM WalkIsComplete == ListSpec => []WalkSeesAll
  BY ListInvariant, PTL DEF ListInv

-----------------------------------------------------------------------------
(* RingBuf.                                                                  *)

RingTypeOK ==
    /\ store \in [0 .. Cap - 1 -> Int]
    /\ rd \in 0 .. Cap /\ wr \in 0 .. Cap /\ sz \in 0 .. Cap
    /\ put \in Nat /\ got \in Nat
    /\ rest \in 0 .. ItemSize
    /\ tested \in BOOLEAN
    /\ data \in [Item -> Int]

\* Both pointers may stand at the end of the memory or at its beginning.
PointersAgree ==
    /\ wr = rd + sz \/ wr = rd + sz - Cap
    /\ rest > 0 => wr = Cap /\ sz + rest <= Cap

\* The size counts the bytes between the two ends of the stream, and those of
\* an item of which only the first part is stored.
SizeCounts == sz = put - got + (IF rest = 0 THEN 0 ELSE ItemSize - rest)

\* What the reader has found without the lock stays there until it reads.
TestHolds == tested => sz >= ItemSize

\* Byte i of those stored, and where it is.
Place(i) == IF rd + i < Cap THEN rd + i ELSE rd + i - Cap
StoredInOrder == \A i \in 0 .. sz - 1 : store[Place(i)] = got + i

RingInv == /\ RingTypeOK /\ PointersAgree /\ SizeCounts
           /\ TestHolds /\ StoredInOrder /\ ReadsInOrder

LEMMA RingInitInv == RingInit => RingInv
  <1> SUFFICES ASSUME RingInit PROVE RingInv
    OBVIOUS
  <1>1. RingTypeOK
    <2>1. Unset \in Int
      BY DEF Unset
    <2>2. store \in [0 .. Cap - 1 -> Int] /\ data \in [Item -> Int]
      BY <2>1 DEF RingInit
    <2>3. 0 \in 0 .. Cap /\ 0 \in 0 .. ItemSize
      BY RBAssumption
    <2> QED BY <2>2, <2>3 DEF RingInit, RingTypeOK
  <1>2. PointersAgree /\ SizeCounts /\ TestHolds
    BY RBAssumption DEF RingInit, PointersAgree, SizeCounts, TestHolds
  <1>3. StoredInOrder /\ ReadsInOrder
    BY DEF RingInit, StoredInOrder, ReadsInOrder
  <1> QED BY <1>1, <1>2, <1>3 DEF RingInv

\* Storing n bytes of the item behind those that are there, from its byte j on.
LEMMA CopyBehind ==
  ASSUME RingTypeOK, PointersAgree, StoredInOrder,
         NEW n \in Nat, NEW j \in Nat, NEW p \in 0 .. Cap,
         n <= Cap - sz, n <= Cap - p, p = wr \/ (wr = Cap /\ p = 0),
         put + j = got + sz
  PROVE  /\ Copied(p, j, n) \in [0 .. Cap - 1 -> Int]
         /\ \A i \in 0 .. sz + n - 1 : Copied(p, j, n)[Place(i)] = got + i
  <1>1. Copied(p, j, n) \in [0 .. Cap - 1 -> Int]
    BY RBAssumption DEF Copied, RingTypeOK
  <1>2. ASSUME NEW i \in 0 .. sz - 1
        PROVE  Copied(p, j, n)[Place(i)] = got + i
    <2>1. Place(i) \in 0 .. Cap - 1 /\ Place(i) \notin p .. p + n - 1
      BY RBAssumption DEF Place, RingTypeOK, PointersAgree
    <2> QED BY <2>1 DEF Copied, StoredInOrder
  <1>3. ASSUME NEW i \in sz .. sz + n - 1
        PROVE  Copied(p, j, n)[Place(i)] = got + i
    <2>1. Place(i) = p + (i - sz) /\ Place(i) \in 0 .. Cap - 1
      BY RBAssumption DEF Place, RingTypeOK, PointersAgree
    <2>2. Copied(p, j, n)[Place(i)] = put + j + Place(i) - p
      BY <2>1, RBAssumption DEF Copied, RingTypeOK
    <2> QED BY <2>1, <2>2, RBAssumption DEF RingTypeOK
  <1>4. \A i \in 0 .. sz + n - 1 : i \in 0 .. sz - 1 \/ i \in sz .. sz + n - 1
    BY DEF RingTypeOK
  <1> QED BY <1>1, <1>2, <1>3, <1>4

LEMMA WriteWholeInv == RingInv /\ WriteWhole => RingInv'
  <1> SUFFICES ASSUME RingInv, WriteWhole PROVE RingInv'
    OBVIOUS
  <1> USE RBAssumption
  <1>1. /\ store' \in [0 .. Cap - 1 -> Int]
        /\ \A i \in 0 .. sz + ItemSize - 1 : store'[Place(i)] = got + i
    <2>1. put + 0 = got + sz
      BY DEF WriteWhole, Writable, RingInv, SizeCounts, RingTypeOK
    <2>2. ItemSize <= Cap - sz /\ ItemSize <= Cap - wr /\ store' = Copied(wr, 0, ItemSize)
      BY DEF WriteWhole, Writable
    <2> QED BY <2>1, <2>2, CopyBehind DEF RingInv, RingTypeOK
  <1>2. RingTypeOK'
    BY <1>1 DEF WriteWhole, Writable, RingInv, RingTypeOK
  <1>3. PointersAgree' /\ SizeCounts' /\ TestHolds' /\ ReadsInOrder'
    BY DEF WriteWhole, Writable, RingInv, RingTypeOK, PointersAgree, SizeCounts, TestHolds, ReadsInOrder
  <1>4. StoredInOrder'
    <2>1. \A i \in 0 .. sz' - 1 : Place(i)' = Place(i)
      BY DEF WriteWhole, Place
    <2>2. got' = got /\ sz' = sz + ItemSize
      BY DEF WriteWhole
    <2> SUFFICES ASSUME NEW i \in 0 .. sz' - 1 PROVE store'[Place(i)'] = got' + i
      BY DEF StoredInOrder
    <2> QED BY <1>1, <2>1, <2>2 DEF RingInv, RingTypeOK
  <1> QED BY <1>2, <1>3, <1>4 DEF RingInv

LEMMA WriteFirstInv == RingInv /\ WriteFirst => RingInv'
  <1> SUFFICES ASSUME RingInv, WriteFirst PROVE RingInv'
    OBVIOUS
  <1> USE RBAssumption
  <1>1. /\ store' \in [0 .. Cap - 1 -> Int]
        /\ \A i \in 0 .. sz + (Cap - wr) - 1 : store'[Place(i)] = got + i
    <2>1. put + 0 = got + sz
      BY DEF WriteFirst, Writable, RingInv, SizeCounts, RingTypeOK
    <2>2. Cap - wr \in Nat /\ Cap - wr <= Cap - sz /\ store' = Copied(wr, 0, Cap - wr)
      BY DEF WriteFirst, Writable, RingInv, RingTypeOK
    <2> QED BY <2>1, <2>2, CopyBehind DEF RingInv, RingTypeOK
  <1>2. RingTypeOK'
    BY <1>1 DEF WriteFirst, Writable, RingInv, RingTypeOK
  <1>3. PointersAgree' /\ SizeCounts' /\ TestHolds' /\ ReadsInOrder'
    BY DEF WriteFirst, Writable, RingInv, RingTypeOK, PointersAgree, SizeCounts, TestHolds, ReadsInOrder
  <1>4. StoredInOrder'
    <2>1. \A i \in 0 .. sz' - 1 : Place(i)' = Place(i)
      BY DEF WriteFirst, Place
    <2>2. got' = got /\ sz' = sz + (Cap - wr)
      BY DEF WriteFirst
    <2> SUFFICES ASSUME NEW i \in 0 .. sz' - 1 PROVE store'[Place(i)'] = got' + i
      BY DEF StoredInOrder
    <2> QED BY <1>1, <2>1, <2>2 DEF RingInv, RingTypeOK
  <1> QED BY <1>2, <1>3, <1>4 DEF RingInv

LEMMA WriteRestInv == RingInv /\ WriteRest => RingInv'
  <1> SUFFICES ASSUME RingInv, WriteRest PROVE RingInv'
    OBVIOUS
  <1> USE RBAssumption
  <1>1. /\ store' \in [0 .. Cap - 1 -> Int]
        /\ \A i \in 0 .. sz + rest - 1 : store'[Place(i)] = got + i
    <2>1. put + (ItemSize - rest) = got + sz
      BY DEF WriteRest, RingInv, SizeCounts, RingTypeOK
    <2>2. /\ wr = Cap /\ rest <= Cap - sz /\ rest <= Cap - 0
          /\ ItemSize - rest \in Nat /\ rest \in Nat /\ 0 \in 0 .. Cap
          /\ store' = Copied(0, ItemSize - rest, rest)
      BY DEF WriteRest, RingInv, RingTypeOK, PointersAgree
    <2> QED BY <2>1, <2>2, CopyBehind DEF RingInv
  <1>2. RingTypeOK'
    BY <1>1 DEF WriteRest, RingInv, RingTypeOK, PointersAgree
  <1>3. PointersAgree' /\ SizeCounts' /\ TestHolds' /\ ReadsInOrder'
    BY DEF WriteRest, RingInv, RingTypeOK, PointersAgree, SizeCounts, TestHolds, ReadsInOrder
  <1>4. StoredInOrder'
    <2>1. \A i \in 0 .. sz' - 1 : Place(i)' = Place(i)
      BY DEF WriteRest, Place
    <2>2. got' = got /\ sz' = sz + rest
      BY DEF WriteRest
    <2> SUFFICES ASSUME NEW i \in 0 .. sz' - 1 PROVE store'[Place(i)'] = got' + i
      BY DEF StoredInOrder
    <2> QED BY <1>1, <2>1, <2>2 DEF RingInv, RingTypeOK
  <1> QED BY <1>2, <1>3, <1>4 DEF RingInv

LEMMA ReadInv == RingInv /\ Read => RingInv'
  <1> SUFFICES ASSUME RingInv, Read PROVE RingInv'
    OBVIOUS
  <1> USE RBAssumption
  <1> DEFINE first == IF rd < wr \/ ItemSize <= Cap - rd THEN ItemSize ELSE Cap - rd
  <1>1. sz >= ItemSize /\ rest = 0
    BY DEF Read, RingInv, TestHolds
  <1>2. /\ data' = [j \in Item |-> IF j < first THEN store[rd + j]
                                   ELSE IF j < ItemSize THEN store[j - first] ELSE data[j]]
        /\ rd' = IF first = ItemSize THEN rd + ItemSize ELSE ItemSize - first
        /\ sz' = sz - ItemSize /\ got' = got + ItemSize /\ tested' = FALSE
        /\ UNCHANGED <<store, wr, put, rest>>
    <2>1. (IF sz < ItemSize THEN sz ELSE ItemSize) = ItemSize
      BY <1>1 DEF RingInv, RingTypeOK
    <2> QED BY <2>1 DEF Read
  <1>3. rd' = (IF first = ItemSize THEN rd + ItemSize ELSE rd + ItemSize - Cap) /\ rd' \in 0 .. Cap
    BY <1>1, <1>2 DEF RingInv, RingTypeOK, PointersAgree
  <1>4. \A j \in Item : data'[j] = got + j
    <2> SUFFICES ASSUME NEW j \in Item PROVE data'[j] = got + j
      OBVIOUS
    <2>1. data'[j] = store[IF j < first THEN rd + j ELSE j - first]
      BY <1>2 DEF Item
    <2>2. Place(j) = IF j < first THEN rd + j ELSE j - first
      BY <1>1 DEF Place, Item, RingInv, RingTypeOK, PointersAgree
    <2>3. store[Place(j)] = got + j
      BY <1>1 DEF Item, RingInv, RingTypeOK, StoredInOrder
    <2> QED BY <2>1, <2>2, <2>3
  <1>5. \A i \in 0 .. sz' - 1 : Place(i)' = Place(i + ItemSize)
    BY <1>1, <1>2, <1>3 DEF Place, RingInv, RingTypeOK, PointersAgree
  <1>6. data' = [j \in Item |-> got + j]
    BY <1>2, <1>4
  <1> HIDE DEF first
  <1>7. RingTypeOK'
    <2>1. data' \in [Item -> Int]
      BY <1>6 DEF RingInv, RingTypeOK, Item
    <2>2. sz' \in 0 .. Cap /\ got' \in Nat
      BY <1>1, <1>2 DEF RingInv, RingTypeOK
    <2> QED BY <1>2, <1>3, <2>1, <2>2 DEF RingInv, RingTypeOK
  <1>8. PointersAgree'
    BY <1>1, <1>2, <1>3 DEF RingInv, RingTypeOK, PointersAgree, first
  <1>9. SizeCounts' /\ TestHolds'
    BY <1>1, <1>2 DEF RingInv, RingTypeOK, SizeCounts, TestHolds
  <1>10. StoredInOrder'
    <2> SUFFICES ASSUME NEW i \in 0 .. sz' - 1 PROVE store'[Place(i)'] = got' + i
      BY DEF StoredInOrder
    <2>1. i + ItemSize \in 0 .. sz - 1
      BY <1>1, <1>2 DEF RingInv, RingTypeOK
    <2>2. store[Place(i + ItemSize)] = got + (i + ItemSize)
      BY <2>1 DEF RingInv, StoredInOrder
    <2> QED BY <2>2, <1>2, <1>5 DEF RingInv, RingTypeOK
  <1>11. ReadsInOrder'
    <2>1. \A j \in Item : got + j = got' - ItemSize + j
      BY <1>2 DEF RingInv, RingTypeOK, Item
    <2> QED BY <2>1, <1>6 DEF ReadsInOrder
  <1> QED BY <1>7, <1>8, <1>9, <1>10, <1>11 DEF RingInv

LEMMA RingNextInv == RingInv /\ [RingNext]_ringVars => RingInv'
  <1> SUFFICES ASSUME RingInv, [RingNext]_ringVars PROVE RingInv'
    OBVIOUS
  <1>1. CASE Test
    BY <1>1 DEF Test, RingInv, RingTypeOK, PointersAgree, SizeCounts, TestHolds,
                StoredInOrder, Place, ReadsInOrder
  <1>2. CASE UNCHANGED ringVars
    BY <1>2 DEF ringVars, RingInv, RingTypeOK, PointersAgree, SizeCounts, TestHolds,
                StoredInOrder, Place, ReadsInOrder
  <1> QED
    BY <1>1, <1>2, WriteWholeInv, WriteFirstInv, WriteRestInv, ReadInv DEF RingNext

THEOREM RingInvariant == RingSpec => []RingInv
  BY RingInitInv, RingNextInv, PTL DEF RingSpec

\* Items are read whole, each once, in the order they were written, although
\* they straddle the end of the ring and the size is tested without the lock.
THEOREM InOrder == RingSpec => []ReadsInOrder
  BY RingInvariant, PTL DEF RingInv

-----------------------------------------------------------------------------
(* TimerWheel.                                                               *)

(* A timer with expiry e that will be called at tick due, when j is the next *)
(* tick: on the first wheel less than a turn before; on another, before the  *)
(* tick that spreads its slot.                                               *)

OnFirst(s, due, j) ==
    s = <<"tv", due % N_TV>> /\ j <= due /\ due < j + N_TV
OnSecond(s, e, j) ==
    s = <<"tv1", (e \div N_TV) % N_TV1>> /\ j <= (e \div N_TV) * N_TV
OnThird(s, e, j) ==
    s = <<"tv2", (e \div TV1_SIZE) % N_TV2>> /\ j <= (e \div TV1_SIZE) * TV1_SIZE

\* next is j, or j + 1 once the cascades of tick j are done.
Hangs(s, e, due, j, next) ==
    \/ OnFirst(s, due, j)
    \/ due = e /\ (OnSecond(s, e, next) \/ OnThird(s, e, next))

WheelType ==
    /\ expires \in [Timers -> Nat \cup {Never}]
    /\ slot \in [Timers -> {"tv", "tv1", "tv2", "none"} \X Nat]
    /\ start \in 0 .. N_TV - 1 \cup {Never}
    /\ jeffies \in Nat \cup {Never}
    /\ firedAt \in [Timers -> Int]

WheelInv ==
    /\ WheelType
    /\ start = Never =>
          \A t \in Timers :
             /\ firedAt[t] = Never
             /\ expires[t] # Never => slot[t] = SlotOf(expires[t], expires[t])
    /\ start # Never =>
          /\ jeffies \in Nat /\ start <= jeffies
          /\ \A t \in Timers :
                /\ expires[t] \in Nat
                /\ IF DueAt(t) < jeffies
                   THEN firedAt[t] = DueAt(t) /\ slot[t] = Nowhere
                   ELSE /\ firedAt[t] = Never
                        /\ Hangs(slot[t], expires[t], DueAt(t), jeffies, jeffies)

-----------------------------------------------------------------------------
(* Quotients and remainders.                                                 *)

LEMMA DivMod ==
    ASSUME NEW e \in Int, NEW n \in Nat, n > 0
    PROVE  /\ e \div n \in Int /\ e % n \in 0 .. n - 1
           /\ e = n * (e \div n) + (e % n)
OBVIOUS

LEMMA Unique ==
    ASSUME NEW q \in Int, NEW r \in Int, NEW n \in Nat, n > 0, 0 <= r, r < n
    PROVE  (n * q + r) \div n = q /\ (n * q + r) % n = r
OBVIOUS

\* The last multiple of n up to e is less than n before it.
LEMMA Floor ==
    ASSUME NEW e \in Nat, NEW n \in Nat, n > 0
    PROVE  /\ e \div n \in Nat /\ (e \div n) * n \in Nat
           /\ (e \div n) * n <= e /\ e < (e \div n) * n + n
<1> DEFINE q == e \div n
<1>1. q \in Int /\ e % n \in 0 .. n - 1 /\ e = n * q + (e % n)
  BY DivMod
<1> HIDE DEF q
<1>2. PICK r \in 0 .. n - 1 : e = n * q + r
  BY <1>1
<1>3. q \in Nat
  <2>1. SUFFICES ASSUME q <= -1 PROVE FALSE
    BY <1>1
  <2>2. n * q <= n * (-1)
    BY <1>1, <2>1
  <2> QED
    BY <1>1, <1>2, <2>2
<1>4. q * n = n * q /\ n * q \in Nat
  BY <1>3
<1> QED
  BY <1>2, <1>3, <1>4 DEF q

\* A tick after the first turn has such a multiple that is not 0.
LEMMA PastFirst ==
    ASSUME NEW e \in Nat, NEW n \in Nat, n > 0, n <= e
    PROVE  n <= (e \div n) * n
<1>1. PICK q \in Nat : q = e \div n /\ e < q * n + n
  BY Floor
<1>2. q # 0
  <2>1. SUFFICES ASSUME q = 0 PROVE FALSE
    OBVIOUS
  <2> QED
    BY <1>1, <2>1
<1>3. q * n >= 1 * n
  BY <1>2
<1> QED
  BY <1>1, <1>3

\* What is a multiple of n is n times its quotient, and leaves no remainder.
LEMMA Multiple ==
    ASSUME NEW q \in Nat, NEW n \in Nat, n > 0
    PROVE  (q * n) \div n = q /\ (q * n) % n = 0
<1>1. (n * q + 0) \div n = q /\ (n * q + 0) % n = 0
  BY Unique
<1>2. n * q + 0 = q * n
  OBVIOUS
<1> QED
  BY <1>1, <1>2

\* Within a turn a slot of the first wheel is that of one tick only.
LEMMA OneTurn ==
    ASSUME NEW d \in Nat, NEW j \in Nat, NEW n \in Nat, n > 0,
           j <= d, d < j + n, d % n = j % n
    PROVE  d = j
<1>1. PICK p \in Int, q \in Int, r \in 0 .. n - 1 : d = n * p + r /\ j = n * q + r
  <2>1. d \div n \in Int /\ d % n \in 0 .. n - 1 /\ d = n * (d \div n) + (d % n)
    BY DivMod
  <2>2. j \div n \in Int /\ j = n * (j \div n) + (d % n)
    BY DivMod
  <2> QED
    BY ONLY <2>1, <2>2, Zenon
<1>2. 0 <= n * (p - q) /\ n * (p - q) < n
  <2>1. n * (p - q) = n * p - n * q
    BY <1>1
  <2>2. n * p \in Int /\ n * q \in Int
    BY <1>1
  <2> QED
    BY <1>1, <2>1, <2>2
<1>3. p - q = 0
  <2>1. CASE p - q >= 1
    <3>1. n * (p - q) >= n * 1
      BY <1>1, <2>1
    <3> QED
      BY <1>2, <3>1
  <2>2. CASE p - q <= -1
    <3>1. n * (p - q) <= n * (-1)
      BY <1>1, <2>2
    <3> QED
      BY <1>2, <3>1
  <2> QED
    BY <1>1, <2>1, <2>2
<1> QED
  BY <1>1, <1>3

-----------------------------------------------------------------------------
(* The wheels.                                                               *)

LEMMA Sizes ==
    /\ N_TV \in Nat /\ N_TV > 0 /\ N_TV1 \in Nat /\ N_TV1 > 0
    /\ N_TV2 \in Nat /\ N_TV2 > 0
    /\ TV1_SIZE \in Nat /\ TV1_SIZE > 0 /\ N_TV <= TV1_SIZE
<1>1. /\ N_TV \in Nat /\ N_TV > 0 /\ N_TV1 \in Nat /\ N_TV1 > 0
      /\ N_TV2 \in Nat /\ N_TV2 > 0
  BY TWAssumption
<1>2. N_TV * N_TV1 >= N_TV * 1 /\ N_TV * N_TV1 \in Nat
  BY <1>1
<1> QED
  BY <1>1, <1>2 DEF TV1_SIZE

\* A tick that begins a turn of the second wheel begins one of the first too.
LEMMA LongTurn ==
    ASSUME NEW q \in Nat
    PROVE  /\ (q * TV1_SIZE) % N_TV = 0
           /\ ((q * TV1_SIZE) \div N_TV) % N_TV1 = 0
           /\ (q * TV1_SIZE) \div TV1_SIZE = q
<1>1. q * TV1_SIZE = (q * N_TV1) * N_TV /\ q * N_TV1 \in Nat
  BY Sizes DEF TV1_SIZE
<1>2. /\ ((q * N_TV1) * N_TV) \div N_TV = q * N_TV1
      /\ ((q * N_TV1) * N_TV) % N_TV = 0
  BY <1>1, Sizes, Multiple
<1>3. (q * N_TV1) % N_TV1 = 0 /\ (q * TV1_SIZE) \div TV1_SIZE = q
  BY Sizes, Multiple
<1> QED
  BY <1>1, <1>2, <1>3

\* A timer that is hung up by its distance from tick j waits for its expiry,
\* and is not spread before the next tick.
LEMMA Rehung ==
    ASSUME NEW e \in Nat, NEW j \in Nat, j <= e
    PROVE  Hangs(SlotOf(e - j, e), e, e, j, j + 1)
<1>1. CASE e - j \in 0 .. TV_SIZE - 1
  <2>1. SlotOf(e - j, e) = <<"tv", e % N_TV>> /\ e < j + N_TV
    BY <1>1, Sizes DEF SlotOf, TV_SIZE
  <2> QED
    BY <2>1 DEF Hangs, OnFirst
<1>2. CASE e - j \notin 0 .. TV_SIZE - 1 /\ e - j \in 0 .. TV1_SIZE - 1
  <2>1. SlotOf(e - j, e) = <<"tv1", (e \div N_TV) % N_TV1>>
    BY <1>2 DEF SlotOf
  <2>2. j + N_TV <= e
    BY <1>2, Sizes DEF TV_SIZE
  <2>3. (e \div N_TV) * N_TV \in Nat /\ e < (e \div N_TV) * N_TV + N_TV
    BY Sizes, Floor
  <2>4. j + 1 <= (e \div N_TV) * N_TV
    BY <2>2, <2>3, Sizes
  <2> QED
    BY <2>1, <2>4 DEF Hangs, OnSecond
<1>3. CASE e - j \notin 0 .. TV_SIZE - 1 /\ e - j \notin 0 .. TV1_SIZE - 1
  <2>1. SlotOf(e - j, e) = <<"tv2", (e \div TV1_SIZE) % N_TV2>>
    BY <1>3 DEF SlotOf
  <2>2. j + TV1_SIZE <= e
    BY <1>3, Sizes
  <2>3. /\ (e \div TV1_SIZE) * TV1_SIZE \in Nat
        /\ e < (e \div TV1_SIZE) * TV1_SIZE + TV1_SIZE
    BY Sizes, Floor
  <2>4. j + 1 <= (e \div TV1_SIZE) * TV1_SIZE
    BY <2>2, <2>3, Sizes
  <2> QED
    BY <2>1, <2>4 DEF Hangs, OnThird
<1> QED
  BY <1>1, <1>2, <1>3

\* Where the cascades of this tick leave a timer.
LEMMA TurnedTo ==
    ASSUME NEW t \in Timers, jeffies \in Nat
    PROVE  LET s == slot[t]
               again == SlotOf(expires[t] - jeffies, expires[t])
               index1 == (jeffies \div N_TV) % N_TV1
               spread1 == s = <<"tv1", index1>>
               spread2 == s = <<"tv2", (jeffies \div TV1_SIZE) % N_TV2>>
           IN  \/ Turned[t] = s /\ jeffies % N_TV # 0
               \/ Turned[t] = s /\ jeffies % N_TV = 0 /\ ~spread1 /\ index1 # 0
               \/ Turned[t] = s /\ jeffies % N_TV = 0 /\ ~spread1 /\ ~spread2
               \/ Turned[t] = again /\ (s[1] = "tv1" \/ s[1] = "tv2")
<1> DEFINE index1 == (jeffies \div N_TV) % N_TV1
           index2 == (jeffies \div TV1_SIZE) % N_TV2
           slots1 == Cascaded(slot, "tv1", index1)
           again == SlotOf(expires[t] - jeffies, expires[t])
<1>1. slots1[t] = IF slot[t] = <<"tv1", index1>> THEN again ELSE slot[t]
  BY DEF Cascaded
<1>2. Cascaded(slots1, "tv2", index2)[t]
        = IF slots1[t] = <<"tv2", index2>> THEN again ELSE slots1[t]
  BY DEF Cascaded
<1>3. Turned[t] = IF jeffies % N_TV # 0 THEN slot[t]
                  ELSE IF index1 # 0 THEN slots1[t]
                  ELSE Cascaded(slots1, "tv2", index2)[t]
  BY DEF Turned
<1>4. <<"tv1", index1>>[1] = "tv1" /\ <<"tv2", index2>>[1] = "tv2"
  OBVIOUS
<1> HIDE DEF slots1, again
<1>5. CASE jeffies % N_TV # 0
  BY <1>3, <1>5
<1>6. CASE jeffies % N_TV = 0 /\ index1 # 0
  BY <1>1, <1>3, <1>4, <1>6 DEF again
<1>7. CASE jeffies % N_TV = 0 /\ index1 = 0
  BY <1>1, <1>2, <1>3, <1>4, <1>7 DEF again
<1> QED
  BY <1>5, <1>6, <1>7

\* After them no timer waits to be spread at this tick.
LEMMA TurnedHangs ==
    ASSUME NEW t \in Timers, NEW due \in Nat, jeffies \in Nat, expires[t] \in Nat,
           Hangs(slot[t], expires[t], due, jeffies, jeffies)
    PROVE  Hangs(Turned[t], expires[t], due, jeffies, jeffies + 1)
<1> DEFINE e == expires[t]
           j == jeffies
           s == slot[t]
<1>1. /\ e \div N_TV \in Nat /\ (e \div N_TV) * N_TV \in Nat
      /\ (e \div N_TV) * N_TV <= e
  BY Sizes, Floor
<1>2. /\ e \div TV1_SIZE \in Nat /\ (e \div TV1_SIZE) * TV1_SIZE \in Nat
      /\ (e \div TV1_SIZE) * TV1_SIZE <= e
  BY Sizes, Floor
<1>3. CASE OnFirst(s, due, j)
  <2>1. s[1] # "tv1" /\ s[1] # "tv2" /\ s[1] = "tv"
    BY <1>3 DEF OnFirst
  <2>2. Turned[t] = s
    BY <2>1, TurnedTo
  <2> QED
    BY <1>3, <2>2 DEF Hangs
<1>4. CASE due = e /\ OnSecond(s, e, j)
  <2>1. j <= e
    BY <1>1, <1>4 DEF OnSecond
  <2>2. CASE Turned[t] = SlotOf(e - j, e)
    BY <2>1, <2>2, <1>4, Rehung
  <2>3. CASE Turned[t] = s
    <3>1. CASE (e \div N_TV) * N_TV = j
      <4>1. j \div N_TV = e \div N_TV /\ j % N_TV = 0
        BY <3>1, <1>1, Sizes, Multiple
      <4>2. s = <<"tv1", (j \div N_TV) % N_TV1>>
        BY <4>1, <1>4 DEF OnSecond
      <4>3. Turned[t] = SlotOf(e - j, e)
        BY <4>1, <4>2, TurnedTo
      <4> QED
        BY <4>3, <2>2
    <3>2. CASE (e \div N_TV) * N_TV # j
      <4>1. j + 1 <= (e \div N_TV) * N_TV
        BY <3>2, <1>1, <1>4 DEF OnSecond
      <4> QED
        BY <4>1, <2>3, <1>4 DEF Hangs, OnSecond
    <3> QED
      BY <3>1, <3>2
  <2> QED
    BY <2>2, <2>3, TurnedTo
<1>5. CASE due = e /\ OnThird(s, e, j)
  <2>1. j <= e
    BY <1>2, <1>5 DEF OnThird
  <2>2. CASE Turned[t] = SlotOf(e - j, e)
    BY <2>1, <2>2, <1>5, Rehung
  <2>3. CASE Turned[t] = s
    <3>1. CASE (e \div TV1_SIZE) * TV1_SIZE = j
      <4>1. /\ j \div TV1_SIZE = e \div TV1_SIZE
            /\ j % N_TV = 0 /\ (j \div N_TV) % N_TV1 = 0
        BY <3>1, <1>2, LongTurn
      <4>2. s = <<"tv2", (j \div TV1_SIZE) % N_TV2>>
        BY <4>1, <1>5 DEF OnThird
      <4>3. Turned[t] = SlotOf(e - j, e)
        BY <4>1, <4>2, TurnedTo
      <4> QED
        BY <4>3, <2>2
    <3>2. CASE (e \div TV1_SIZE) * TV1_SIZE # j
      <4>1. j + 1 <= (e \div TV1_SIZE) * TV1_SIZE
        BY <3>2, <1>2, <1>5 DEF OnThird
      <4> QED
        BY <4>1, <2>3, <1>5 DEF Hangs, OnThird
    <3> QED
      BY <3>1, <3>2
  <2> QED
    BY <2>2, <2>3, TurnedTo
<1> QED
  BY <1>3, <1>4, <1>5 DEF Hangs

-----------------------------------------------------------------------------
(* The invariant, step by step.                                              *)

\* What WheelInv says of a timer once the clock runs.
Served(t) ==
    /\ expires[t] \in Nat
    /\ IF DueAt(t) < jeffies
       THEN firedAt[t] = DueAt(t) /\ slot[t] = Nowhere
       ELSE /\ firedAt[t] = Never
            /\ Hangs(slot[t], expires[t], DueAt(t), jeffies, jeffies)

LEMMA SlotOfType ==
    ASSUME NEW d \in Int, NEW e \in Nat
    PROVE  SlotOf(d, e) \in {"tv", "tv1", "tv2", "none"} \X Nat
<1>1. /\ e % N_TV \in Nat /\ (e \div N_TV) % N_TV1 \in Nat
      /\ (e \div TV1_SIZE) % N_TV2 \in Nat
  BY Sizes, Floor, DivMod
<1> QED
  BY <1>1 DEF SlotOf

LEMMA TurnedType ==
    ASSUME NEW t \in Timers, jeffies \in Nat, expires[t] \in Nat,
           slot[t] \in {"tv", "tv1", "tv2", "none"} \X Nat
    PROVE  Turned[t] \in {"tv", "tv1", "tv2", "none"} \X Nat
<1>1. SlotOf(expires[t] - jeffies, expires[t]) \in {"tv", "tv1", "tv2", "none"} \X Nat
  <2>1. expires[t] - jeffies \in Int
    OBVIOUS
  <2> QED
    BY <2>1, SlotOfType
<1>2. Turned[t] = slot[t] \/ Turned[t] = SlotOf(expires[t] - jeffies, expires[t])
  BY TurnedTo
<1> QED
  BY ONLY <1>1, <1>2, slot[t] \in {"tv", "tv1", "tv2", "none"} \X Nat

\* The timers are added at time 0: a timer that has expired by the first tick
\* hangs on the first wheel, and waits a turn of it.
LEMMA StartServes ==
    ASSUME WheelInv, Start, NEW t \in Timers
    PROVE  Served(t)'
<1> DEFINE e == expires[t]
<1>1. /\ start = Never /\ start' \in 0 .. N_TV - 1 /\ jeffies' = start'
      /\ expires' = expires /\ slot' = slot /\ firedAt' = firedAt
      /\ start' \in Nat /\ start' < N_TV
  BY Sizes DEF Start
<1>2. e \in Nat /\ firedAt[t] = Never /\ slot[t] = SlotOf(e, e)
  <2>1. expires[t] # Never /\ expires[t] \in Nat \cup {Never}
    BY DEF WheelInv, WheelType, Start
  <2> QED
    BY <1>1, <2>1 DEF WheelInv
<1>3. CASE e >= start'
  <2>1. DueAt(t)' = e
    BY <1>1, <1>3 DEF DueAt
  <2>2. Hangs(SlotOf(e - 0, e), e, e, 0, 1)
    BY <1>2, Rehung
  <2>3. Hangs(slot[t], e, e, start', start')
    <3>1. CASE e < N_TV
      <4>1. slot[t] = <<"tv", e % N_TV>>
        BY <1>2, <3>1, Sizes DEF SlotOf, TV_SIZE
      <4> QED
        BY <4>1, <3>1, <1>1, <1>2, <1>3, Sizes DEF Hangs, OnFirst
    <3>2. CASE e >= N_TV
      <4>1. slot[t] = IF e < TV1_SIZE THEN <<"tv1", (e \div N_TV) % N_TV1>>
                      ELSE <<"tv2", (e \div TV1_SIZE) % N_TV2>>
        BY <1>2, <3>2, Sizes DEF SlotOf, TV_SIZE
      <4>2. CASE e < TV1_SIZE
        <5>1. N_TV <= (e \div N_TV) * N_TV
          BY <1>2, <3>2, Sizes, PastFirst
        <5>2. start' <= (e \div N_TV) * N_TV
          BY <5>1, <1>1, <1>2, Sizes, Floor
        <5> QED
          BY <4>1, <4>2, <5>2 DEF Hangs, OnSecond
      <4>3. CASE ~(e < TV1_SIZE)
        <5>1. TV1_SIZE <= (e \div TV1_SIZE) * TV1_SIZE
          BY <1>2, <4>3, Sizes, PastFirst
        <5>2. start' <= (e \div TV1_SIZE) * TV1_SIZE
          BY <5>1, <1>1, <1>2, Sizes, Floor
        <5> QED
          BY <4>1, <4>3, <5>2 DEF Hangs, OnThird
      <4> QED
        BY <4>2, <4>3
    <3> QED
      BY <3>1, <3>2, <1>2, Sizes
  <2> QED
    BY <1>1, <1>2, <1>3, <2>1, <2>3 DEF Served
<1>4. CASE e < start'
  <2>1. DueAt(t)' = e + N_TV
    BY <1>1, <1>2, <1>4 DEF DueAt
  <2>2. slot[t] = <<"tv", e % N_TV>>
    BY <1>1, <1>2, <1>4, Sizes DEF SlotOf, TV_SIZE
  <2>3. (e + N_TV) % N_TV = e % N_TV
    <3>1. e \div N_TV \in Int /\ e % N_TV \in 0 .. N_TV - 1
          /\ e = N_TV * (e \div N_TV) + (e % N_TV)
      <4>1. e \in Int
        BY <1>2
      <4> HIDE DEF e
      <4> QED
        BY <4>1, Sizes, DivMod
    <3>2. PICK q \in Int, r \in 0 .. N_TV - 1 : e = N_TV * q + r /\ r = e % N_TV
      BY ONLY <3>1, Zenon
    <3>3. e + N_TV = N_TV * (q + 1) + r
      BY <3>2, <1>2, Sizes
    <3>4. (N_TV * (q + 1) + r) % N_TV = r
      BY <3>2, Sizes, Unique
    <3> QED
      BY <3>2, <3>3, <3>4
  <2>4. OnFirst(slot[t], e + N_TV, start')
    BY <2>2, <2>3, <1>1, <1>2, <1>4, Sizes DEF OnFirst
  <2> QED
    BY <1>1, <1>2, <1>4, <2>1, <2>4, Sizes DEF Served, Hangs
<1> QED
  BY <1>1, <1>2, <1>3, <1>4

\* A tick calls the timers that are due, and no other.
LEMMA TickServes ==
    ASSUME WheelInv, Tick, NEW t \in Timers
    PROVE  Served(t)'
<1> DEFINE e == expires[t]
           d == DueAt(t)
           j == jeffies
<1>1. /\ start # Never /\ j \in Nat /\ e \in Nat /\ start \in Nat
      /\ IF d < j
         THEN firedAt[t] = d /\ slot[t] = Nowhere
         ELSE firedAt[t] = Never /\ Hangs(slot[t], e, d, j, j)
  BY DEF WheelInv, WheelType, Tick
<1>2. d \in Nat /\ e <= d
  BY <1>1, Sizes DEF DueAt
<1>3. /\ expires' = expires /\ start' = start /\ jeffies' = j + 1
      /\ DueAt(t)' = d
  BY DEF Tick, DueAt
<1>4. LET isDue == Turned[t] = <<"tv", j % N_TV>>
      IN  /\ slot'[t] = IF isDue THEN Nowhere ELSE Turned[t]
          /\ firedAt'[t] = IF isDue THEN j ELSE firedAt[t]
  BY DEF Tick
<1> HIDE DEF e, d
<1>5. CASE d < j
  <2>1. slot[t][1] = "none"
    BY <1>1, <1>5 DEF Nowhere
  <2>2. Turned[t] = slot[t]
    BY <2>1, <1>1, TurnedTo
  <2>3. Turned[t] # <<"tv", j % N_TV>>
    BY <2>1, <2>2
  <2> QED
    BY <1>1, <1>2, <1>3, <1>4, <1>5, <2>2, <2>3 DEF Served, e
<1>6. CASE d >= j
  <2>1. Hangs(Turned[t], e, d, j, j + 1)
    BY <1>1, <1>2, <1>6, TurnedHangs DEF e
  <2>2. (e \div N_TV) * N_TV <= e /\ (e \div N_TV) * N_TV \in Nat
    BY <1>1, Sizes, Floor
  <2>3. (e \div TV1_SIZE) * TV1_SIZE <= e /\ (e \div TV1_SIZE) * TV1_SIZE \in Nat
    BY <1>1, Sizes, Floor
  <2>4. CASE d = j
    <3>1. OnFirst(Turned[t], d, j)
      BY <1>1, <1>2, <2>1, <2>2, <2>3, <2>4 DEF Hangs, OnSecond, OnThird
    <3>2. Turned[t] = <<"tv", j % N_TV>>
      BY <3>1, <2>4 DEF OnFirst
    <3> QED
      BY <3>2, <2>4, <1>1, <1>2, <1>3, <1>4 DEF Served, e
  <2>5. CASE d # j
    <3>1. Turned[t] # <<"tv", j % N_TV>>
      <4>1. SUFFICES ASSUME Turned[t] = <<"tv", j % N_TV>> PROVE FALSE
        OBVIOUS
      <4>2. OnFirst(Turned[t], d, j)
        BY <4>1, <2>1 DEF Hangs, OnSecond, OnThird
      <4>3. d % N_TV = j % N_TV /\ d < j + N_TV
        BY <4>1, <4>2 DEF OnFirst
      <4> QED
        BY <4>3, <1>1, <1>2, <1>6, <2>5, Sizes, OneTurn
    <3>2. Hangs(Turned[t], e, d, j + 1, j + 1)
      BY <2>1, <2>5, <1>1, <1>2, <1>6, Sizes DEF Hangs, OnFirst
    <3> QED
      BY <3>1, <3>2, <1>1, <1>2, <1>3, <1>4, <1>6, <2>5 DEF Served, e
  <2> QED
    BY <2>4, <2>5
<1> QED
  BY <1>1, <1>2, <1>5, <1>6

LEMMA WheelInit_Inv == WheelInit => WheelInv
<1> SUFFICES ASSUME WheelInit PROVE WheelInv
  OBVIOUS
<1>1. Nowhere \in {"tv", "tv1", "tv2", "none"} \X Nat /\ Never \in Int
  BY DEF Nowhere, Never
<1>2. WheelType
  BY <1>1 DEF WheelInit, WheelType
<1> QED
  BY <1>2 DEF WheelInit, WheelInv

LEMMA AddKeeps ==
    ASSUME WheelInv, NEW t \in Timers, Add(t)
    PROVE  WheelInv'
<1>1. PICK n \in 0 .. 2 * MAX_TV_SIZE - 1 :
          /\ expires' = [expires EXCEPT ![t] = n]
          /\ slot' = [slot EXCEPT ![t] = SlotOf(n - 0, n - 0)]
  BY DEF Add
<1>2. n \in Nat /\ n - 0 = n
  <2>1. MAX_TV_SIZE \in Int
    BY Sizes DEF MAX_TV_SIZE
  <2> QED
    BY <1>1, <2>1
<1>3. SlotOf(n, n) \in {"tv", "tv1", "tv2", "none"} \X Nat
  BY <1>2, SlotOfType
<1>4. start = Never /\ start' = Never /\ jeffies' = jeffies /\ firedAt' = firedAt
  BY DEF Add
<1>5. WheelType'
  BY <1>1, <1>2, <1>3, <1>4 DEF WheelInv, WheelType
<1>6. ASSUME NEW u \in Timers
      PROVE  firedAt'[u] = Never
             /\ (expires'[u] # Never => slot'[u] = SlotOf(expires'[u], expires'[u]))
  <2>1. firedAt[u] = Never
        /\ (expires[u] # Never => slot[u] = SlotOf(expires[u], expires[u]))
    BY <1>4 DEF WheelInv
  <2>2. /\ expires'[u] = IF u = t THEN n ELSE expires[u]
        /\ slot'[u] = IF u = t THEN SlotOf(n, n) ELSE slot[u]
    BY <1>1, <1>2 DEF WheelInv, WheelType
  <2> QED
    BY <1>4, <2>1, <2>2
<1> QED
  BY <1>4, <1>5, <1>6 DEF WheelInv

LEMMA StartKeeps ==
    ASSUME WheelInv, Start
    PROVE  WheelInv'
<1>1. \A t \in Timers : Served(t)'
  BY StartServes
<1>2. start' \in 0 .. N_TV - 1 /\ jeffies' = start' /\ start' \in Nat /\ start' # Never
  BY Sizes DEF Start, Never
<1>3. WheelType'
  BY <1>2 DEF WheelInv, WheelType, Start
<1> QED
  BY <1>1, <1>2, <1>3 DEF WheelInv, Served

LEMMA TickKeeps ==
    ASSUME WheelInv, Tick
    PROVE  WheelInv'
<1>1. \A t \in Timers : Served(t)'
  BY TickServes
<1>2. /\ start # Never /\ start' = start /\ jeffies' = jeffies + 1
      /\ jeffies \in Nat /\ start <= jeffies /\ start \in Nat
      /\ expires' = expires
  BY DEF WheelInv, WheelType, Tick
<1>3. slot' \in [Timers -> {"tv", "tv1", "tv2", "none"} \X Nat]
  <2>1. ASSUME NEW t \in Timers
        PROVE  Turned[t] \in {"tv", "tv1", "tv2", "none"} \X Nat
    BY <1>2, TurnedType DEF WheelInv, WheelType
  <2>2. Nowhere \in {"tv", "tv1", "tv2", "none"} \X Nat
    BY DEF Nowhere
  <2> QED
    BY <2>1, <2>2 DEF Tick
<1>4. firedAt' \in [Timers -> Int]
  BY <1>2 DEF WheelInv, WheelType, Tick
<1>5. WheelType'
  BY <1>2, <1>3, <1>4 DEF WheelInv, WheelType
<1> QED
  BY <1>1, <1>2, <1>5 DEF WheelInv, Served

LEMMA WheelInvariant == WheelSpec => []WheelInv
<1>1. WheelInv /\ [WheelNext]_wheelVars => WheelInv'
  <2> SUFFICES ASSUME WheelInv, [WheelNext]_wheelVars PROVE WheelInv'
    OBVIOUS
  <2>1. CASE Start
    BY <2>1, StartKeeps
  <2>2. CASE Tick
    BY <2>2, TickKeeps
  <2>3. ASSUME NEW t \in Timers, Add(t) PROVE WheelInv'
    BY <2>3, AddKeeps
  <2>4. CASE UNCHANGED wheelVars
    BY <2>4 DEF wheelVars, WheelInv, WheelType, DueAt
  <2> QED
    BY <2>1, <2>2, <2>3, <2>4 DEF WheelNext
<1> QED
  BY <1>1, WheelInit_Inv, PTL DEF WheelSpec

\* A timer's function is called once, at the tick it expires (timer-wheel/
\* test.cpp), for any sizes of the wheels and any number of timers; one that
\* had expired before the clock was started, a turn of the first wheel later.
THEOREM TimersFireOnTime == WheelSpec => []FiresOnTime
<1>1. WheelInv => FiresOnTime
  BY DEF WheelInv, FiresOnTime
<1> QED
  BY <1>1, WheelInvariant, PTL

-----------------------------------------------------------------------------
(* PageTable.                                                                *)

\* A number that leaves no remainder is a multiple.
LEMMA IsMultiple ==
    ASSUME NEW e \in Nat, NEW n \in Nat, n > 0, e % n = 0
    PROVE  e = (e \div n) * n
<1>1. e \div n \in Nat /\ (e \div n) * n \in Nat /\ e = n * (e \div n) + (e % n)
  BY Floor, DivMod
<1>2. PICK q \in Nat : q = e \div n /\ e = n * q + 0
  BY <1>1
<1> QED
  BY <1>2

\* A quotient is the number of the interval of n numbers that holds e.
LEMMA InInterval ==
    ASSUME NEW e \in Nat, NEW q \in Nat, NEW n \in Nat, n > 0,
           q * n <= e, e < (q + 1) * n
    PROVE  e \div n = q
<1>1. PICK r \in 0 .. n - 1 : e = n * q + r
  <2>1. q * n = n * q /\ n * q \in Nat /\ (q + 1) * n = n * q + n
    OBVIOUS
  <2>2. e - n * q \in 0 .. n - 1 /\ e = n * q + (e - n * q)
    BY <2>1
  <2> QED
    BY <2>2
<1> QED
  BY <1>1, Unique

LEMMA DivMonotone ==
    ASSUME NEW a \in Nat, NEW b \in Nat, NEW n \in Nat, n > 0, a <= b
    PROVE  a \div n <= b \div n
<1>1. PICK q \in Nat, p \in Nat :
          /\ q = a \div n /\ q * n \in Nat /\ q * n <= a
          /\ p = b \div n /\ p * n \in Nat /\ b < p * n + n
  BY Floor
<1>2. SUFFICES ASSUME p + 1 <= q PROVE FALSE
  BY <1>1
<1>3. (p + 1) * n <= q * n /\ (p + 1) * n = p * n + n
  BY <1>2
<1> QED
  BY <1>1, <1>3

LEMMA DivDiv ==
    ASSUME NEW x \in Nat, NEW a \in Nat, NEW b \in Nat, a > 0, b > 0
    PROVE  a * b \in Nat /\ a * b > 0 /\ (x \div a) \div b = x \div (a * b)
<1>1. a * b \in Nat /\ a * b > 0
  <2>1. a * b >= a * 1
    OBVIOUS
  <2> QED
    BY <2>1
<1>2. PICK q \in Nat : q = x \div a /\ q * a <= x /\ x < q * a + a
  BY Floor
<1>3. PICK s \in Nat : s = q \div b /\ s * b <= q /\ q < s * b + b
  BY Floor
<1>4. s * (a * b) <= x
  <2>1. (s * b) * a <= q * a
    BY <1>3
  <2>2. (s * b) * a = s * (a * b)
    OBVIOUS
  <2> QED
    BY <1>2, <2>1, <2>2
<1>5. x < (s + 1) * (a * b)
  <2>1. q + 1 <= s * b + b
    BY <1>3
  <2>2. (q + 1) * a <= (s * b + b) * a
    BY <2>1
  <2>3. (s * b + b) * a = (s + 1) * (a * b) /\ (q + 1) * a = q * a + a
    OBVIOUS
  <2> QED
    BY <1>2, <2>2, <2>3
<1>6. x \div (a * b) = s
  BY <1>1, <1>4, <1>5, InInterval
<1> QED
  BY <1>1, <1>2, <1>3, <1>6

\* Within one interval, remainders differ as the numbers do.
LEMMA SameQuotient ==
    ASSUME NEW a \in Nat, NEW b \in Nat, NEW n \in Nat, n > 0, a \div n = b \div n
    PROVE  (a % n) + (b - a) = b % n
<1>1. PICK q \in Int, r \in Int, s \in Int :
          a % n = r /\ b % n = s /\ a = n * q + r /\ b = n * q + s
  <2>1. /\ a \div n \in Int /\ a % n \in Int /\ a = n * (a \div n) + (a % n)
        /\ b % n \in Int /\ b = n * (a \div n) + (b % n)
    BY DivMod
  <2> QED
    BY ONLY <2>1, Zenon
<1>2. n * q \in Int
  OBVIOUS
<1> QED
  BY <1>1, <1>2

-----------------------------------------------------------------------------
(* The turns of a loop.                                                      *)

Starts(from, to, span) == {from} \cup {a \in from + 1 .. to - 1 : a % span = 0}

\* The turns before the one that starts at a.
LEMMA TurnNumber ==
    ASSUME NEW from \in Nat, NEW to \in Nat, NEW span \in Nat, span > 0,
           NEW a \in Starts(from, to, span)
    PROVE  Cardinality({b \in Starts(from, to, span) : b < a})
             = (a \div span) - (from \div span)
<1> DEFINE S == {b \in Starts(from, to, span) : b < a}
           q == from \div span
           m == a \div span
           f == [b \in S |-> b \div span]
<1>1. a \in Nat /\ from <= a /\ m \in Nat /\ q \in Nat /\ q <= m
  <2>1. a \in Nat /\ from <= a
    BY DEF Starts
  <2>2. m \in Nat /\ q \in Nat /\ q <= m
    BY <2>1, Floor, DivMonotone
  <2> QED
    BY <2>1, <2>2
<1>2. q * span \in Nat /\ q * span <= from /\ from < q * span + span
  BY Floor
<1>3. ASSUME NEW b \in S
      PROVE  b \in Nat /\ from <= b /\ b < a /\ b < to
  BY <1>1, <1>3 DEF Starts
<1>4. a # from => a = m * span
  BY <1>1, IsMultiple DEF Starts
<1>5. f \in [S -> q .. m - 1]
  <2>1. ASSUME NEW b \in S PROVE b \div span \in q .. m - 1
    <3>1. b \in Nat /\ from <= b /\ b < a /\ a = m * span
      BY <1>3, <1>4
    <3>2. PICK p \in Nat : p = b \div span /\ p * span \in Nat /\ p * span <= b
      BY <3>1, Floor
    <3>3. q <= p
      BY <3>1, <3>2, DivMonotone
    <3>4. p < m
      <4>1. SUFFICES ASSUME m <= p PROVE FALSE
        BY <1>1, <3>2
      <4>2. m * span <= p * span
        BY <4>1, <1>1, <3>2
      <4> QED
        BY <4>2, <3>1, <3>2
    <3> QED
      BY <1>1, <3>2, <3>3, <3>4
  <2> QED
    BY <2>1
<1>6. ASSUME NEW b \in S, NEW c \in S, b < c PROVE f[b] # f[c]
  <2>1. c = (c \div span) * span /\ c \in Nat /\ b \in Nat
    BY <1>3, <1>6, IsMultiple DEF Starts
  <2>2. b < (b \div span) * span + span /\ (b \div span) * span <= b
        /\ (b \div span) * span \in Nat
    BY <2>1, Floor
  <2> QED
    BY <1>6, <2>1, <2>2
<1>7. ASSUME NEW p \in q .. m - 1 PROVE \E b \in S : f[b] = p
  <2>1. p \in Nat /\ q <= p /\ p < m
    BY <1>1
  <2>2. CASE p = q
    <3>1. from # a
      BY <2>1
    <3>2. from \in S
      BY <1>1, <3>1 DEF Starts
    <3> QED
      BY <2>2, <3>2
  <2>3. CASE p # q
    <3>1. p * span \in Nat /\ (p * span) \div span = p /\ (p * span) % span = 0
      BY <2>1, Multiple
    <3>2. (q + 1) * span <= p * span /\ (q + 1) * span = q * span + span
      BY <1>1, <2>1, <2>3
    <3>3. (p + 1) * span <= m * span /\ (p + 1) * span = p * span + span
      BY <1>1, <2>1
    <3>4. a # from
      BY <2>1
    <3>5. from < p * span /\ p * span < a
      <4>1. from < p * span
        BY <1>2, <3>1, <3>2
      <4>2. p * span + span <= a
        BY <1>4, <3>3, <3>4
      <4> QED
        BY <1>1, <3>1, <4>1, <4>2
    <3>6. a < to
      BY <3>4 DEF Starts
    <3>7. p * span \in S
      BY <1>1, <3>1, <3>5, <3>6 DEF Starts
    <3> QED
      BY <3>1, <3>7
  <2> QED
    BY <2>2, <2>3
<1>8. IsFiniteSet(S)
  <2>1. ASSUME NEW b \in S PROVE b \in 0 .. a
    BY <1>1, <1>3
  <2>2. IsFiniteSet(0 .. a)
    BY <1>1, FS_Interval
  <2> HIDE DEF S
  <2>3. S \in SUBSET (0 .. a)
    BY <2>1
  <2> QED
    BY <2>2, <2>3, FS_Subset
<1> HIDE DEF S, f, q, m
<1>9. ExistsBijection(S, q .. m - 1)
  <2>1. ASSUME NEW b \in S, NEW c \in S, f[b] = f[c] PROVE b = c
    <3>1. ~(b < c) /\ ~(c < b)
      BY <1>6, <2>1
    <3> QED
      BY <1>3, <3>1
  <2>2. f \in Injection(S, q .. m - 1)
    BY <1>5, <2>1 DEF Injection, IsInjective
  <2>3. f \in Surjection(S, q .. m - 1)
    BY <1>5, <1>7 DEF Surjection
  <2> QED
    BY <2>2, <2>3 DEF ExistsBijection, Bijection
<1>10. Cardinality(S) = m - q
  <2>1. Cardinality(q .. m - 1) = Cardinality(S)
    BY <1>8, <1>9, FS_Bijection
  <2>2. Cardinality(q .. m - 1) = IF q > m - 1 THEN 0 ELSE m - 1 - q + 1
    BY <1>1, FS_Interval
  <2> QED
    BY <1>1, <2>1, <2>2
<1> QED
  BY <1>10 DEF S, q, m

\* The parts of a range: each lies in one entry, is numbered by it, and they
\* leave out no address.
LEMMA PartsCover ==
    ASSUME NEW from \in Nat, NEW to \in Nat, from < to,
           NEW span \in Nat, span > 0
    PROVE  /\ \A p \in Parts(from, to, span) :
                 /\ p[1] = (p[2] \div span) - (from \div span)
                 /\ p[2] \in Starts(from, to, span) /\ p[3] \in Nat
                 /\ from <= p[2] /\ p[2] < p[3] /\ p[3] <= to
                 /\ p[3] = to \/ p[3] % span = 0
                 /\ (p[3] - 1) \div span = p[2] \div span
           /\ \A a \in Starts(from, to, span) : \E p \in Parts(from, to, span) :
                 p[2] = a
           /\ \A x \in from .. to - 1 : \E p \in Parts(from, to, span) :
                 p[2] <= x /\ x < p[3]
<1>1. ASSUME NEW a \in Starts(from, to, span)
      PROVE  LET p == <<(a \div span) - (from \div span), a, NextPart(a, span, to)>>
             IN  /\ p \in Parts(from, to, span)
                 /\ a \in Nat /\ p[3] \in Nat
                 /\ from <= a /\ a < p[3] /\ p[3] <= to
                 /\ p[3] = to \/ p[3] % span = 0
                 /\ (p[3] - 1) \div span = a \div span
                 /\ \A x \in from .. to - 1 : x \div span = a \div span => x < p[3]
  <2> DEFINE r == NextPart(a, span, to)
  <2>1. a \in Nat /\ from <= a /\ a < to
    BY DEF Starts
  <2>2. PICK q \in Nat : /\ q = a \div span /\ q * span \in Nat
                         /\ q * span <= a /\ a < q * span + span
    BY <2>1, Floor
  <2>3. q + 1 \in Nat /\ (q + 1) * span = q * span + span
    BY <2>2
  <2>4. r = IF q * span + span >= to THEN to ELSE q * span + span
    BY <2>2, <2>3 DEF NextPart
  <2>5. r \in Nat /\ a < r /\ r <= to /\ r <= q * span + span
    BY <2>1, <2>2, <2>4
  <2>6. ((q + 1) * span) % span = 0
    BY <2>3, Multiple
  <2>7. r = to \/ r % span = 0
    BY <2>3, <2>4, <2>6
  <2>8. (r - 1) \div span = q
    <3>1. r - 1 \in Nat /\ q * span <= r - 1 /\ r - 1 < (q + 1) * span
      BY <2>1, <2>2, <2>3, <2>5
    <3> QED
      BY <3>1, InInterval
  <2>9. ASSUME NEW x \in from .. to - 1, x \div span = q PROVE x < r
    <3>1. x \in Nat /\ x < q * span + span
      BY <2>9, Floor
    <3> QED
      BY <2>4, <3>1
  <2>10. <<(a \div span) - (from \div span), a, r>> \in Parts(from, to, span)
    <3>1. <<Cardinality({b \in Starts(from, to, span) : b < a}), a, r>>
            \in Parts(from, to, span)
      BY DEF Parts, Starts
    <3> QED
      BY <3>1, TurnNumber
  <2> HIDE DEF r
  <2> QED
    BY <2>1, <2>2, <2>5, <2>7, <2>8, <2>9, <2>10 DEF r
<1>2. ASSUME NEW p \in Parts(from, to, span)
      PROVE  /\ p[2] \in Starts(from, to, span)
             /\ p = <<(p[2] \div span) - (from \div span), p[2], NextPart(p[2], span, to)>>
  <2>1. PICK a \in Starts(from, to, span) :
            p = <<Cardinality({b \in Starts(from, to, span) : b < a}), a,
                  NextPart(a, span, to)>>
    BY DEF Parts, Starts
  <2> QED
    BY <2>1, TurnNumber
<1>3. ASSUME NEW x \in from .. to - 1
      PROVE  \E p \in Parts(from, to, span) : p[2] <= x /\ x < p[3]
  <2>1. PICK q \in Nat : /\ q = x \div span /\ q * span \in Nat
                         /\ q * span <= x /\ x < q * span + span
    BY Floor
  <2>2. CASE q * span <= from
    <3>1. from \div span = q
      <4>1. (q + 1) * span = q * span + span
        BY <2>1
      <4> QED
        BY <2>1, <2>2, <4>1, InInterval
    <3>2. from \in Starts(from, to, span)
      BY DEF Starts
    <3>3. from <= x /\ x \div span = from \div span
      BY <2>1, <3>1
    <3> QED
      BY <1>1, <3>2, <3>3
  <2>3. CASE from < q * span
    <3>1. (q * span) \div span = q /\ (q * span) % span = 0
      BY <2>1, Multiple
    <3>2. q * span \in Starts(from, to, span)
      BY <2>1, <2>3, <3>1 DEF Starts
    <3> QED
      BY <1>1, <2>1, <3>1, <3>2
  <2> QED
    BY <2>1, <2>2, <2>3
<1>4. ASSUME NEW p \in Parts(from, to, span)
      PROVE  /\ p[1] = (p[2] \div span) - (from \div span)
             /\ p[2] \in Starts(from, to, span) /\ p[3] \in Nat
             /\ from <= p[2] /\ p[2] < p[3] /\ p[3] <= to
             /\ p[3] = to \/ p[3] % span = 0
             /\ (p[3] - 1) \div span = p[2] \div span
  BY <1>1, <1>2
<1>5. ASSUME NEW a \in Starts(from, to, span)
      PROVE  \E p \in Parts(from, to, span) : p[2] = a
  BY <1>1
<1> QED
  BY <1>3, <1>4, <1>5

-----------------------------------------------------------------------------
(* The three levels.                                                         *)

PlaceAt(x) == <<PgdIndex(x), PmdIndex(x), PteIndex(x)>>
Pages(from, to) == {x \in from .. to - 1 : x % PAGE_SIZE = 0}

\* The writes that map the pages of a range one after the other from paddr.
Straight(from, to, paddr) == {<<PlaceAt(x), paddr - from + x>> : x \in Pages(from, to)}

PteSpan == PAGE_SIZE
PmdSpan == PAGE_SIZE * PTE_SIZE
PgdSpan == PAGE_SIZE * PTE_SIZE * PMD_SIZE

LEMMA Spans ==
    /\ PAGE_SIZE \in Nat /\ PAGE_SIZE > 0 /\ PTE_SIZE \in Nat /\ PTE_SIZE > 0
    /\ PMD_SIZE \in Nat /\ PMD_SIZE > 0 /\ PGD_SIZE \in Nat /\ PGD_SIZE > 0
    /\ PmdSpan \in Nat /\ PmdSpan > 0 /\ PgdSpan \in Nat /\ PgdSpan > 0
<1>1. /\ PAGE_SIZE \in Nat /\ PAGE_SIZE > 0 /\ PTE_SIZE \in Nat /\ PTE_SIZE > 0
      /\ PMD_SIZE \in Nat /\ PMD_SIZE > 0 /\ PGD_SIZE \in Nat /\ PGD_SIZE > 0
  BY PTAssumption
<1>2. PmdSpan \in Nat /\ PmdSpan > 0
  BY <1>1, DivDiv DEF PmdSpan
<1>3. PgdSpan \in Nat /\ PgdSpan > 0
  BY <1>1, <1>2, DivDiv DEF PgdSpan, PmdSpan
<1> QED
  BY <1>1, <1>2, <1>3

\* An address where an entry of a higher table begins is that of a page.
LEMMA SpanIsPages ==
    ASSUME NEW x \in Nat, x % PmdSpan = 0 \/ x % PgdSpan = 0
    PROVE  x % PAGE_SIZE = 0
<1>1. CASE x % PmdSpan = 0
  <2>1. PICK q \in Nat : x = q * PmdSpan
    BY <1>1, Spans, IsMultiple, Floor
  <2>2. x = (q * PTE_SIZE) * PAGE_SIZE /\ q * PTE_SIZE \in Nat
    BY <2>1, Spans DEF PmdSpan
  <2> QED
    BY <2>2, Spans, Multiple
<1>2. CASE x % PgdSpan = 0
  <2>1. PICK q \in Nat : x = q * PgdSpan
    BY <1>2, Spans, IsMultiple, Floor
  <2>2. x = (q * (PTE_SIZE * PMD_SIZE)) * PAGE_SIZE /\ q * (PTE_SIZE * PMD_SIZE) \in Nat
    BY <2>1, Spans DEF PgdSpan
  <2> QED
    BY <2>2, Spans, Multiple
<1> QED
  BY <1>1, <1>2

\* The entries of an address, each within the one above.
LEMMA Indices3 ==
    ASSUME NEW x \in Nat
    PROVE  /\ (x \div PAGE_SIZE) \div PTE_SIZE = x \div PmdSpan
           /\ (x \div PmdSpan) \div PMD_SIZE = x \div PgdSpan
           /\ x \div PAGE_SIZE \in Nat /\ x \div PmdSpan \in Nat /\ x \div PgdSpan \in Nat
           /\ PgdIndex(x) = (x \div PgdSpan) % PGD_SIZE
           /\ PmdIndex(x) = (x \div PmdSpan) % PMD_SIZE
           /\ PteIndex(x) = (x \div PAGE_SIZE) % PTE_SIZE
  BY Spans, DivDiv, Floor DEF PmdSpan, PgdSpan, PgdIndex, PmdIndex, PteIndex

\* The writes of the parts of a range are those of the range.
LEMMA StraightJoined ==
    ASSUME NEW from \in Nat, NEW to \in Nat, from < to, NEW paddr \in Int,
           NEW span \in Nat, span > 0
    PROVE  UNION {Straight(p[2], p[3], paddr - from + p[2]) :
                     p \in Parts(from, to, span)}
             = Straight(from, to, paddr)
<1> DEFINE P == Parts(from, to, span)
           W(p) == Straight(p[2], p[3], paddr - from + p[2])
<1>1. ASSUME NEW p \in P
      PROVE  p[2] \in Nat /\ p[3] \in Nat /\ from <= p[2] /\ p[3] <= to
  BY PartsCover DEF Starts
<1>2. ASSUME NEW p \in P, NEW w \in W(p)
      PROVE  w \in Straight(from, to, paddr)
  <2>1. PICK x \in Pages(p[2], p[3]) : w = <<PlaceAt(x), (paddr - from + p[2]) - p[2] + x>>
    BY DEF Straight
  <2>2. x \in Pages(from, to) /\ (paddr - from + p[2]) - p[2] + x = paddr - from + x
    BY <1>1 DEF Pages
  <2> QED
    BY <2>1, <2>2 DEF Straight
<1>3. ASSUME NEW w \in Straight(from, to, paddr)
      PROVE  \E p \in P : w \in W(p)
  <2>1. PICK x \in Pages(from, to) : w = <<PlaceAt(x), paddr - from + x>>
    BY DEF Straight
  <2>2. x \in from .. to - 1
    BY <2>1 DEF Pages
  <2>3. PICK p \in P : p[2] <= x /\ x < p[3]
    BY <2>2, PartsCover
  <2>4. x \in Pages(p[2], p[3])
        /\ (paddr - from + p[2]) - p[2] + x = paddr - from + x
    BY <1>1, <2>1, <2>2, <2>3 DEF Pages
  <2> QED
    BY <2>1, <2>4 DEF Straight
<1> HIDE DEF P
<1>4. UNION {W(p) : p \in P} = Straight(from, to, paddr)
  BY <1>2, <1>3
<1> QED
  BY <1>4 DEF P

\* What loops over the parts of a range do is determined by what each does.
LEMMA RemapPteIs ==
    ASSUME NEW from \in Nat, NEW to \in Nat, from < to, NEW paddr \in Int,
           from % PAGE_SIZE = 0, (to - 1) \div PmdSpan = from \div PmdSpan
    PROVE  RemapPte(PgdIndex(from), PmdIndex(from), from, to, paddr)
             = Straight(from, to, paddr)
<1> DEFINE P == Parts(from, to, PAGE_SIZE)
           W(p) == <<<<PgdIndex(from), PmdIndex(from), PteIndex(from) + p[1]>>,
                     paddr - from + p[2]>>
<1>1. Starts(from, to, PAGE_SIZE) = Pages(from, to)
  BY Spans DEF Starts, Pages
<1>2. ASSUME NEW x \in Pages(from, to)
      PROVE  /\ PgdIndex(x) = PgdIndex(from) /\ PmdIndex(x) = PmdIndex(from)
             /\ PteIndex(from) + ((x \div PAGE_SIZE) - (from \div PAGE_SIZE)) = PteIndex(x)
  <2>1. x \in Nat /\ from <= x /\ x <= to - 1 /\ to - 1 \in Nat
    BY DEF Pages
  <2>2. x \div PmdSpan = from \div PmdSpan
    <3>1. from \div PmdSpan <= x \div PmdSpan /\ x \div PmdSpan <= (to - 1) \div PmdSpan
      BY <2>1, Spans, DivMonotone
    <3> QED
      BY <2>1, <3>1, Spans, Floor
  <2>3. x \div PgdSpan = from \div PgdSpan
    BY <2>1, <2>2, Indices3
  <2>4. (x \div PAGE_SIZE) \div PTE_SIZE = (from \div PAGE_SIZE) \div PTE_SIZE
    BY <2>1, <2>2, Indices3
  <2>5. ((from \div PAGE_SIZE) % PTE_SIZE) + ((x \div PAGE_SIZE) - (from \div PAGE_SIZE))
          = (x \div PAGE_SIZE) % PTE_SIZE
    BY <2>1, <2>4, Spans, Floor, SameQuotient
  <2> QED
    BY <2>1, <2>2, <2>3, <2>5, Indices3
<1>3. ASSUME NEW p \in P
      PROVE  p[2] \in Pages(from, to) /\ W(p) = <<PlaceAt(p[2]), paddr - from + p[2]>>
  <2>1. p[2] \in Pages(from, to) /\ p[1] = (p[2] \div PAGE_SIZE) - (from \div PAGE_SIZE)
    BY <1>1, Spans, PartsCover
  <2> QED
    BY <2>1, <1>2 DEF PlaceAt
<1>4. ASSUME NEW x \in Pages(from, to) PROVE \E p \in P : p[2] = x
  BY <1>1, Spans, PartsCover
<1> HIDE DEF P
<1>5. {W(p) : p \in P} = {<<PlaceAt(x), paddr - from + x>> : x \in Pages(from, to)}
  <2> DEFINE V(x) == <<PlaceAt(x), paddr - from + x>>
  <2>1. \A p \in P : p[2] \in Pages(from, to) /\ W(p) = V(p[2])
    BY <1>3
  <2> HIDE DEF V, W
  <2>2. {W(p) : p \in P} = {V(x) : x \in Pages(from, to)}
    BY <2>1, <1>4
  <2> QED
    BY <2>2 DEF V, W
<1> QED
  BY <1>5 DEF P, RemapPte, Straight

LEMMA RemapPmdIs ==
    ASSUME NEW from \in Nat, NEW to \in Nat, from < to, NEW paddr \in Int,
           from % PAGE_SIZE = 0, (to - 1) \div PgdSpan = from \div PgdSpan
    PROVE  RemapPmd(PgdIndex(from), from, to, paddr) = Straight(from, to, paddr)
<1> DEFINE P == Parts(from, to, PmdSpan)
           Done(p) == RemapPte(PgdIndex(from), PmdIndex(from) + p[1], p[2], p[3],
                               paddr - from + p[2])
           W(p) == Straight(p[2], p[3], paddr - from + p[2])
<1>1. ASSUME NEW p \in P PROVE Done(p) = W(p)
  <2>1. /\ p[1] = (p[2] \div PmdSpan) - (from \div PmdSpan)
        /\ p[2] \in Starts(from, to, PmdSpan) /\ p[3] \in Nat
        /\ from <= p[2] /\ p[2] < p[3] /\ p[3] <= to
        /\ (p[3] - 1) \div PmdSpan = p[2] \div PmdSpan
    BY Spans, PartsCover
  <2>2. PICK x \in Nat : x = p[2] /\ from <= x /\ x <= to - 1
    BY <2>1 DEF Starts
  <2>3. x % PAGE_SIZE = 0
    BY <2>1, <2>2, SpanIsPages DEF Starts
  <2>4. x \div PgdSpan = from \div PgdSpan
    <3>1. from \div PgdSpan <= x \div PgdSpan /\ x \div PgdSpan <= (to - 1) \div PgdSpan
      BY <2>2, Spans, DivMonotone
    <3> QED
      BY <3>1, Indices3
  <2>5. (x \div PmdSpan) \div PMD_SIZE = (from \div PmdSpan) \div PMD_SIZE
    BY <2>4, Indices3
  <2>6. ((from \div PmdSpan) % PMD_SIZE) + ((x \div PmdSpan) - (from \div PmdSpan))
          = (x \div PmdSpan) % PMD_SIZE
    <3>1. from \div PmdSpan \in Nat /\ x \div PmdSpan \in Nat
      BY Indices3
    <3> QED
      BY <2>5, <3>1, Spans, SameQuotient
  <2>7. PgdIndex(from) = PgdIndex(x) /\ PmdIndex(from) + p[1] = PmdIndex(x)
    BY <2>1, <2>2, <2>4, <2>6, Indices3
  <2>8. paddr - from + x \in Int
    OBVIOUS
  <2>9. RemapPte(PgdIndex(x), PmdIndex(x), x, p[3], paddr - from + x)
          = Straight(x, p[3], paddr - from + x)
    BY <2>1, <2>2, <2>3, <2>8, RemapPteIs
  <2> QED
    BY <2>2, <2>7, <2>9
<1> HIDE DEF Done, W, P
<1>2. {Done(p) : p \in P} = {W(p) : p \in P}
  BY <1>1
<1>3. UNION {W(p) : p \in P} = Straight(from, to, paddr)
  BY Spans, StraightJoined DEF W, P
<1> QED
  BY <1>2, <1>3 DEF RemapPmd, Done, P, PmdSpan

LEMMA RemapPgdIs ==
    ASSUME NEW from \in Nat, NEW to \in Nat, from < to, NEW paddr \in Int,
           from % PAGE_SIZE = 0, to <= NrPtes * PAGE_SIZE
    PROVE  RemapPgd(from, to, paddr) = Straight(from, to, paddr)
<1> DEFINE P == Parts(from, to, PgdSpan)
           Done(p) == RemapPmd(PgdIndex(from) + p[1], p[2], p[3], paddr - from + p[2])
           W(p) == Straight(p[2], p[3], paddr - from + p[2])
<1>1. ASSUME NEW x \in Nat, x < to PROVE PgdIndex(x) = x \div PgdSpan
  <2>1. NrPtes * PAGE_SIZE = PGD_SIZE * PgdSpan
    BY Spans DEF NrPtes, PgdSpan
  <2>2. PICK q \in Nat : q = x \div PgdSpan /\ q * PgdSpan <= x
    BY Spans, Floor
  <2>3. q < PGD_SIZE
    <3>1. SUFFICES ASSUME PGD_SIZE <= q PROVE FALSE
      BY Spans
    <3>2. PGD_SIZE * PgdSpan <= q * PgdSpan /\ q * PgdSpan \in Nat
      BY <3>1, Spans
    <3> QED
      BY <3>2, <2>1, <2>2, <1>1, Spans
  <2>4. (PGD_SIZE * 0 + q) % PGD_SIZE = q
    BY <2>3, Spans, Unique
  <2>5. q % PGD_SIZE = q
    BY <2>4, Spans
  <2> QED
    BY <2>2, <2>5, Indices3
<1>2. ASSUME NEW p \in P PROVE Done(p) = W(p)
  <2>1. /\ p[1] = (p[2] \div PgdSpan) - (from \div PgdSpan)
        /\ p[2] \in Starts(from, to, PgdSpan) /\ p[3] \in Nat
        /\ from <= p[2] /\ p[2] < p[3] /\ p[3] <= to
        /\ (p[3] - 1) \div PgdSpan = p[2] \div PgdSpan
    BY Spans, PartsCover
  <2>2. PICK x \in Nat : x = p[2] /\ from <= x /\ x < to
    BY <2>1 DEF Starts
  <2>3. x % PAGE_SIZE = 0
    BY <2>1, <2>2, SpanIsPages DEF Starts
  <2>4. PgdIndex(from) + p[1] = PgdIndex(x)
    BY <1>1, <2>1, <2>2, Indices3
  <2>5. paddr - from + x \in Int
    OBVIOUS
  <2>6. RemapPmd(PgdIndex(x), x, p[3], paddr - from + x)
          = Straight(x, p[3], paddr - from + x)
    BY <2>1, <2>2, <2>3, <2>5, RemapPmdIs
  <2> QED
    BY <2>2, <2>4, <2>6
<1> HIDE DEF Done, W, P
<1>3. {Done(p) : p \in P} = {W(p) : p \in P}
  BY <1>2
<1>4. UNION {W(p) : p \in P} = Straight(from, to, paddr)
  BY Spans, StraightJoined DEF W, P
<1> QED
  BY <1>3, <1>4 DEF RemapPgd, Done, P, PgdSpan

-----------------------------------------------------------------------------
(* A call.                                                                   *)

\* A page has one place, and no other page has it.
LEMMA PlaceOfPage ==
    ASSUME NEW page \in 0 .. NrPtes - 1
    PROVE  /\ PlaceOf(page) \in Places
           /\ PlaceAt(page * PAGE_SIZE) = PlaceOf(page)
<1>1. page \in Nat /\ NrPtes = PGD_SIZE * (PMD_SIZE * PTE_SIZE)
      /\ PMD_SIZE * PTE_SIZE \in Nat /\ PMD_SIZE * PTE_SIZE > 0
  BY Spans, DivDiv DEF NrPtes
<1>2. PICK q \in Nat : q = page \div (PMD_SIZE * PTE_SIZE)
                       /\ q * (PMD_SIZE * PTE_SIZE) <= page
  BY <1>1, Floor
<1>3. q < PGD_SIZE
  <2>1. SUFFICES ASSUME PGD_SIZE <= q PROVE FALSE
    BY Spans
  <2>2. PICK n \in Nat : n = PMD_SIZE * PTE_SIZE
    BY <1>1
  <2>3. PGD_SIZE * n <= q * n /\ q * n \in Nat
    BY <2>1, Spans
  <2> QED
    BY <1>1, <1>2, <2>2, <2>3, Spans
<1>4. (page \div PTE_SIZE) % PMD_SIZE \in 0 .. PMD_SIZE - 1
      /\ page % PTE_SIZE \in 0 .. PTE_SIZE - 1
  BY <1>1, Spans, Floor, DivMod
<1>5. (page * PAGE_SIZE) \div PAGE_SIZE = page /\ page * PAGE_SIZE \in Nat
  BY <1>1, Spans, Multiple
<1>6. q % PGD_SIZE = q
  <2>1. (PGD_SIZE * 0 + q) % PGD_SIZE = q
    BY <1>3, Spans, Unique
  <2> QED
    BY <2>1, Spans
<1>7. /\ (page * PAGE_SIZE) \div PmdSpan = page \div PTE_SIZE
      /\ (page * PAGE_SIZE) \div PgdSpan = (page \div PTE_SIZE) \div PMD_SIZE
  BY <1>5, Indices3
<1>8. (page \div PTE_SIZE) \div PMD_SIZE = page \div (PMD_SIZE * PTE_SIZE)
  <2>1. (page \div PTE_SIZE) \div PMD_SIZE = page \div (PTE_SIZE * PMD_SIZE)
    BY <1>1, Spans, DivDiv
  <2>2. PTE_SIZE * PMD_SIZE = PMD_SIZE * PTE_SIZE
    BY Spans
  <2> QED
    BY <2>1, <2>2
<1>9. PlaceAt(page * PAGE_SIZE) = PlaceOf(page)
  BY <1>2, <1>5, <1>6, <1>7, <1>8, Indices3 DEF PlaceAt, PlaceOf
<1> QED
  BY <1>2, <1>3, <1>4, <1>9, Spans DEF PlaceOf, Places

LEMMA PlaceIsOfOne ==
    ASSUME NEW a \in 0 .. NrPtes - 1, NEW b \in 0 .. NrPtes - 1,
           PlaceOf(a) = PlaceOf(b)
    PROVE  a = b
<1>1. a \in Nat /\ b \in Nat /\ a \div PTE_SIZE \in Nat /\ b \div PTE_SIZE \in Nat
      /\ PMD_SIZE * PTE_SIZE = PTE_SIZE * PMD_SIZE
  BY Spans, Floor
<1>2. /\ a \div (PTE_SIZE * PMD_SIZE) = b \div (PTE_SIZE * PMD_SIZE)
      /\ (a \div PTE_SIZE) % PMD_SIZE = (b \div PTE_SIZE) % PMD_SIZE
      /\ a % PTE_SIZE = b % PTE_SIZE
  BY <1>1 DEF PlaceOf
<1>3. (a \div PTE_SIZE) \div PMD_SIZE = (b \div PTE_SIZE) \div PMD_SIZE
  BY <1>1, <1>2, Spans, DivDiv
<1>4. a \div PTE_SIZE = b \div PTE_SIZE
  <2>1. PICK x \in Nat, y \in Nat : x = a \div PTE_SIZE /\ y = b \div PTE_SIZE
    BY <1>1
  <2>2. (x % PMD_SIZE) + (y - x) = y % PMD_SIZE /\ x % PMD_SIZE \in Int
    BY <1>3, <2>1, Spans, SameQuotient, DivMod
  <2> QED
    BY <1>2, <2>1, <2>2
<1>5. (a % PTE_SIZE) + (b - a) = b % PTE_SIZE /\ a % PTE_SIZE \in Int
  BY <1>1, <1>4, Spans, SameQuotient, DivMod
<1> QED
  BY <1>1, <1>2, <1>5

LEMMA PageStart ==
    ASSUME NEW addr \in Nat
    PROVE  PageOf(addr) = (addr \div PAGE_SIZE) * PAGE_SIZE
<1>1. PICK q \in Int, r \in Int :
          q = addr \div PAGE_SIZE /\ r = addr % PAGE_SIZE /\ addr = PAGE_SIZE * q + r
  <2>1. addr \div PAGE_SIZE \in Int /\ addr % PAGE_SIZE \in Int
        /\ addr = PAGE_SIZE * (addr \div PAGE_SIZE) + (addr % PAGE_SIZE)
    BY Spans, DivMod
  <2> QED
    BY <2>1
<1>2. PAGE_SIZE * q = q * PAGE_SIZE /\ q * PAGE_SIZE \in Int
  BY <1>1, Spans
<1> QED
  BY <1>1, <1>2 DEF PageOf

LEMMA RemapIsExact ==
    ASSUME NEW from \in 0 .. NrPtes * PAGE_SIZE - 1,
           NEW len \in 1 .. NrPtes * PAGE_SIZE - from, NEW paddr \in Nat,
           Remap(from, len, paddr), NEW page \in 0 .. NrPtes - 1
    PROVE  LET first == from \div PAGE_SIZE
               last == (from + len - 1) \div PAGE_SIZE
           IN  pte'[PlaceOf(page)] = IF page \in first .. last
                                     THEN PageOf(paddr) + (page - first) * PAGE_SIZE
                                     ELSE pte[PlaceOf(page)]
<1> DEFINE first == from \div PAGE_SIZE
           last == (from + len - 1) \div PAGE_SIZE
           end == PageOf(from + len + PAGE_SIZE - 1)
           writes == RemapPgd(PageOf(from), end, PageOf(paddr))
<1>1. NrPtes \in Nat /\ NrPtes * PAGE_SIZE \in Nat
  BY Spans DEF NrPtes
<1>2. from \in Nat /\ from + len - 1 \in Nat /\ from + len - 1 < NrPtes * PAGE_SIZE
      /\ from <= from + len - 1 /\ from + len + PAGE_SIZE - 1 \in Nat
  BY <1>1, Spans
<1>3. /\ first \in Nat /\ first * PAGE_SIZE \in Nat /\ PageOf(from) = first * PAGE_SIZE
      /\ last \in Nat /\ last * PAGE_SIZE \in Nat /\ first <= last
  BY <1>2, Spans, Floor, PageStart, DivMonotone
<1>4. end = (last + 1) * PAGE_SIZE
  <2>1. PICK z \in Nat : z = from + len - 1
    BY <1>2
  <2>2. last * PAGE_SIZE <= z /\ z < last * PAGE_SIZE + PAGE_SIZE
    BY <1>2, <2>1, Spans, Floor
  <2>3. (last + 1) * PAGE_SIZE = last * PAGE_SIZE + PAGE_SIZE
        /\ (last + 1 + 1) * PAGE_SIZE = last * PAGE_SIZE + PAGE_SIZE + PAGE_SIZE
    BY <1>3, Spans
  <2>4. (z + PAGE_SIZE) \div PAGE_SIZE = last + 1
    <3>1. z + PAGE_SIZE \in Nat /\ last + 1 \in Nat
          /\ (last + 1) * PAGE_SIZE <= z + PAGE_SIZE
          /\ z + PAGE_SIZE < (last + 1 + 1) * PAGE_SIZE
      BY <1>3, <2>1, <2>2, <2>3, Spans
    <3> HIDE DEF last
    <3> QED
      BY <3>1, Spans, InInterval
  <2>5. from + len + PAGE_SIZE - 1 = z + PAGE_SIZE
    BY <1>2, <2>1, Spans
  <2> QED
    BY <1>2, <2>4, <2>5, PageStart
<1>5. last < NrPtes
  <2>1. (NrPtes * PAGE_SIZE) \div PAGE_SIZE = NrPtes
    BY <1>1, Spans, Multiple
  <2>2. SUFFICES ASSUME NrPtes <= last PROVE FALSE
    BY <1>1, <1>3
  <2>3. last * PAGE_SIZE <= from + len - 1
    BY <1>2, Spans, Floor
  <2>4. NrPtes * PAGE_SIZE <= last * PAGE_SIZE
    BY <1>1, <1>3, <2>2, Spans
  <2> QED
    BY <1>1, <1>2, <1>3, <2>3, <2>4
<1>6. PICK a \in Nat, b \in Nat : a = first /\ b = last + 1 /\ a < b /\ b <= NrPtes
  BY <1>1, <1>3, <1>5
<1>7. a * PAGE_SIZE < b * PAGE_SIZE /\ b * PAGE_SIZE <= NrPtes * PAGE_SIZE
      /\ a * PAGE_SIZE \in Nat /\ b * PAGE_SIZE \in Nat
  <2>1. (a + 1) * PAGE_SIZE <= b * PAGE_SIZE /\ (a + 1) * PAGE_SIZE = a * PAGE_SIZE + PAGE_SIZE
    BY <1>6, Spans
  <2>2. b * PAGE_SIZE <= NrPtes * PAGE_SIZE /\ a * PAGE_SIZE \in Nat /\ b * PAGE_SIZE \in Nat
    BY <1>1, <1>6, Spans
  <2> QED
    BY <2>1, <2>2, Spans
<1>8. PageOf(paddr) \in Int
  BY Spans, DivMod DEF PageOf
<1>9. (a * PAGE_SIZE) % PAGE_SIZE = 0
  BY <1>6, Spans, Multiple
<1> HIDE DEF end, first, last
<1>10. writes = Straight(a * PAGE_SIZE, b * PAGE_SIZE, PageOf(paddr))
  <2>1. RemapPgd(a * PAGE_SIZE, b * PAGE_SIZE, PageOf(paddr))
          = Straight(a * PAGE_SIZE, b * PAGE_SIZE, PageOf(paddr))
    BY <1>7, <1>8, <1>9, RemapPgdIs
  <2> QED
    BY <2>1, <1>3, <1>4, <1>6
<1>11. writes = {<<PlaceOf(n), PageOf(paddr) + (n - a) * PAGE_SIZE>> : n \in a .. b - 1}
  <2>1. ASSUME NEW n \in a .. b - 1
        PROVE  /\ n * PAGE_SIZE \in Pages(a * PAGE_SIZE, b * PAGE_SIZE)
               /\ PlaceAt(n * PAGE_SIZE) = PlaceOf(n)
               /\ PageOf(paddr) - a * PAGE_SIZE + n * PAGE_SIZE
                    = PageOf(paddr) + (n - a) * PAGE_SIZE
    <3>1. n \in Nat /\ a <= n /\ n + 1 <= b /\ n \in 0 .. NrPtes - 1
      BY <1>1, <1>6
    <3>2. n * PAGE_SIZE \in Nat /\ a * PAGE_SIZE <= n * PAGE_SIZE
      BY <3>1, <1>6, Spans
    <3>3. (n + 1) * PAGE_SIZE <= b * PAGE_SIZE /\ (n + 1) * PAGE_SIZE = n * PAGE_SIZE + PAGE_SIZE
      BY <3>1, <1>6, Spans
    <3>4. (n * PAGE_SIZE) % PAGE_SIZE = 0
      BY <3>1, Spans, Multiple
    <3>5. n * PAGE_SIZE \in Pages(a * PAGE_SIZE, b * PAGE_SIZE)
      BY <1>7, <3>2, <3>3, <3>4, Spans DEF Pages
    <3>6. (n - a) * PAGE_SIZE = n * PAGE_SIZE - a * PAGE_SIZE
      BY <3>1, <1>6, Spans
    <3> QED
      BY <3>1, <3>2, <3>5, <3>6, <1>7, <1>8, PlaceOfPage
  <2>2. ASSUME NEW x \in Pages(a * PAGE_SIZE, b * PAGE_SIZE)
        PROVE  \E n \in a .. b - 1 : x = n * PAGE_SIZE
    <3>1. x \in Nat /\ x % PAGE_SIZE = 0 /\ a * PAGE_SIZE <= x /\ x < b * PAGE_SIZE
      BY <1>7 DEF Pages
    <3>2. PICK n \in Nat : x = n * PAGE_SIZE
      BY <3>1, Spans, IsMultiple, Floor
    <3>3. a <= n
      <4>1. SUFFICES ASSUME n + 1 <= a PROVE FALSE
        BY <1>6
      <4>2. (n + 1) * PAGE_SIZE <= a * PAGE_SIZE /\ (n + 1) * PAGE_SIZE = n * PAGE_SIZE + PAGE_SIZE
        BY <4>1, <1>6, Spans
      <4> QED
        BY <3>1, <3>2, <4>2, <1>7, Spans
    <3>4. n < b
      <4>1. SUFFICES ASSUME b <= n PROVE FALSE
        BY <1>6
      <4>2. b * PAGE_SIZE <= n * PAGE_SIZE
        BY <4>1, <1>6, Spans
      <4> QED
        BY <3>1, <3>2, <4>2, <1>7
    <3> QED
      BY <1>6, <3>2, <3>3, <3>4
  <2> DEFINE V(x) == <<PlaceAt(x), PageOf(paddr) - a * PAGE_SIZE + x>>
             U(n) == <<PlaceOf(n), PageOf(paddr) + (n - a) * PAGE_SIZE>>
             S == Pages(a * PAGE_SIZE, b * PAGE_SIZE)
  <2>3. \A n \in a .. b - 1 : n * PAGE_SIZE \in S /\ V(n * PAGE_SIZE) = U(n)
    BY <2>1
  <2>4. \A x \in S : \E n \in a .. b - 1 : x = n * PAGE_SIZE
    BY <2>2
  <2>5. writes = {V(x) : x \in S}
    BY <1>10 DEF Straight
  <2> HIDE DEF V, U, S, writes
  <2>6. {V(x) : x \in S} = {U(n) : n \in a .. b - 1}
    <3>1. ASSUME NEW v \in {V(x) : x \in S} PROVE v \in {U(n) : n \in a .. b - 1}
      BY <2>3, <2>4
    <3>2. ASSUME NEW v \in {U(n) : n \in a .. b - 1} PROVE v \in {V(x) : x \in S}
      BY <2>3
    <3> QED
      BY <3>1, <3>2
  <2> QED
    BY <2>5, <2>6 DEF U
<1>12. PlaceOf(page) \in Places
  BY PlaceOfPage
<1>13. pte'[PlaceOf(page)] = IF \E w \in writes : w[1] = PlaceOf(page)
                             THEN (CHOOSE w \in writes : w[1] = PlaceOf(page))[2]
                             ELSE pte[PlaceOf(page)]
  BY <1>12 DEF Remap, end
<1> HIDE DEF writes
<1>14. ASSUME NEW w \in writes, w[1] = PlaceOf(page)
       PROVE  page \in a .. b - 1 /\ w[2] = PageOf(paddr) + (page - a) * PAGE_SIZE
  <2>1. PICK n \in a .. b - 1 : w = <<PlaceOf(n), PageOf(paddr) + (n - a) * PAGE_SIZE>>
    BY <1>11
  <2>2. n = page
    <3>1. PlaceOf(n) = PlaceOf(page) /\ n \in 0 .. NrPtes - 1
      BY <1>1, <1>6, <1>14, <2>1
    <3> QED
      BY <3>1, PlaceIsOfOne
  <2> QED
    BY <2>1, <2>2
<1>15. CASE page \in a .. b - 1
  <2>1. \E w \in writes : w[1] = PlaceOf(page)
    <3>1. PICK w : w = <<PlaceOf(page), PageOf(paddr) + (page - a) * PAGE_SIZE>>
      OBVIOUS
    <3>2. w \in writes
      BY <1>11, <1>15, <3>1
    <3> QED
      BY <3>1, <3>2
  <2>2. (CHOOSE w \in writes : w[1] = PlaceOf(page))[2]
          = PageOf(paddr) + (page - a) * PAGE_SIZE
    BY <2>1, <1>14
  <2>3. page \in first .. last
    BY <1>3, <1>6, <1>15
  <2> QED
    BY <1>6, <1>13, <2>1, <2>2, <2>3 DEF first, last
<1>16. CASE page \notin a .. b - 1
  <2>1. ~\E w \in writes : w[1] = PlaceOf(page)
    BY <1>14, <1>16
  <2>2. page \notin first .. last
    BY <1>3, <1>6, <1>16
  <2> QED
    BY <1>13, <2>1, <2>2 DEF first, last
<1> QED
  BY <1>15, <1>16

RequestsType == requests \in Seq(Nat \X Nat \X Nat)

LEMMA CallIs ==
    ASSUME RequestsType, TableNext
    PROVE  \E from \in 0 .. NrPtes * PAGE_SIZE - 1 :
           \E len \in 1 .. NrPtes * PAGE_SIZE - from, paddr \in Physical :
              /\ Remap(from, len, paddr)
              /\ from \in Nat /\ len \in Nat /\ paddr \in Nat
              /\ RequestsType' /\ requests'[Len(requests')] = <<from, len, paddr>>
<1>1. PICK from \in 0 .. NrPtes * PAGE_SIZE - 1 :
      \E len \in 1 .. NrPtes * PAGE_SIZE - from, paddr \in Physical : Remap(from, len, paddr)
  BY DEF TableNext
<1>2. PICK len \in 1 .. NrPtes * PAGE_SIZE - from, paddr \in Physical : Remap(from, len, paddr)
  BY <1>1
<1>3. from \in Nat /\ len \in Nat /\ paddr \in Nat
  BY PTAssumption, Spans DEF NrPtes
<1>4. requests' = Append(requests, <<from, len, paddr>>)
  BY <1>2 DEF Remap
<1>5. RequestsType' /\ requests'[Len(requests')] = <<from, len, paddr>>
  BY <1>3, <1>4 DEF RequestsType
<1> QED
  BY <1>2, <1>3, <1>5

\* remap_range (page-table-map/test.cpp) maps the pages that meet its range to
\* consecutive physical pages and leaves the others as they were, for any
\* sizes of the tables and of a page, whatever tables the range straddles.
THEOREM RemapIsExactly == TableSpec => RemapsExactly
<1> DEFINE Exactly ==
              requests' # requests =>
                LET request == requests'[Len(requests')]
                    first == request[1] \div PAGE_SIZE
                    last == (request[1] + request[2] - 1) \div PAGE_SIZE
                IN  \A page \in 0 .. NrPtes - 1 :
                      pte'[PlaceOf(page)]
                        = IF page \in first .. last
                          THEN PageOf(request[3]) + (page - first) * PAGE_SIZE
                          ELSE pte[PlaceOf(page)]
<1>1. TableInit => RequestsType
  BY DEF TableInit, RequestsType
<1>2. RequestsType /\ [TableNext]_tableVars => RequestsType' /\ Exactly
  <2> SUFFICES ASSUME RequestsType, [TableNext]_tableVars PROVE RequestsType' /\ Exactly
    OBVIOUS
  <2>1. CASE TableNext
    <3>1. PICK from \in 0 .. NrPtes * PAGE_SIZE - 1 :
          \E len \in 1 .. NrPtes * PAGE_SIZE - from, paddr \in Physical :
              /\ Remap(from, len, paddr)
              /\ from \in Nat /\ len \in Nat /\ paddr \in Nat
              /\ RequestsType' /\ requests'[Len(requests')] = <<from, len, paddr>>
      BY <2>1, CallIs
    <3>2. PICK len \in 1 .. NrPtes * PAGE_SIZE - from, paddr \in Physical :
              /\ Remap(from, len, paddr)
              /\ from \in Nat /\ len \in Nat /\ paddr \in Nat
              /\ RequestsType' /\ requests'[Len(requests')] = <<from, len, paddr>>
      BY <3>1
    <3>3. Exactly
      BY <3>2, RemapIsExact
    <3> QED
      BY <3>2, <3>3
  <2>2. CASE UNCHANGED tableVars
    BY <2>2 DEF tableVars, RequestsType
  <2> QED
    BY <2>1, <2>2
<1> QED
  BY <1>1, <1>2, PTL DEF TableSpec, RemapsExactly
=============================================================================
