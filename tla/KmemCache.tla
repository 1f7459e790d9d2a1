----------------------------- MODULE KmemCache -----------------------------
(***************************************************************************)
(* cache/cache.h: a slab cache.  Each slab has num objects chained by their *)
(* bufctl entries; slabs are on one of three lists by their use; an array  *)
(* of batchcount entries sits between the client and the slabs.            *)
(*                                                                         *)
(* A bufctl chain is the sequence of the objects it links, an object is    *)
(* <<slab, index>>, and lists are sequences with the head first.           *)
(***************************************************************************)
EXTENDS Integers, SequencesExt

CONSTANTS Slabs,       \* bound: the slabs that can exist at a time
          num,         \* objects per slab
          batchcount

ASSUME KCAssumption == num \in Nat \ {0} /\ batchcount \in Nat \ {0}

VARIABLES slabs,   \* the lists, chains and counters, see Empty
          entry,   \* array[0]->entry, up to avail
          held     \* objects the client has

vars == <<slabs, entry, held>>

Objects == Slabs \X (0 .. num - 1)
slabOf(o) == o[1]

\* l3.nlimit, which nothing but the constructor writes.
nlimit == 0

Empty == [full |-> <<>>, partial |-> <<>>, free |-> <<>>,
          chain |-> [s \in Slabs |-> <<>>], inuse |-> [s \in Slabs |-> 0],
          nfree |-> 0, ntotal |-> 0, nslab |-> 0]

Init == slabs = Empty /\ entry = <<>> /\ held = {}

Live(c) == ToSet(c.full) \cup ToSet(c.partial) \cup ToSet(c.free)

ListDel(c, s) == [c EXCEPT !.full = RemoveFirst(@, s),
                           !.partial = RemoveFirst(@, s),
                           !.free = RemoveFirst(@, s)]

-----------------------------------------------------------------------------
\* __alloc_slab: all objects of s are chained and free.
AllocSlab(c, s) ==
    [c EXCEPT !.chain[s] = [i \in 1 .. num |-> <<s, i - 1>>],
              !.inuse[s] = 0,
              !.nfree = @ + num, !.ntotal = @ + num, !.nslab = @ + 1]

\* The slab __grow takes objects from: the first partial one, else the first
\* free one, else a new one.
Source(c, new) ==
    IF c.partial # <<>> THEN Head(c.partial)
    ELSE IF c.free # <<>> THEN Head(c.free) ELSE new

Unlinked(c, s) ==
    IF s \in Live(c) THEN ListDel(c, s) ELSE AllocSlab(c, s)

\* get_obj, k times.
GetObjs(c, s, k) ==
    [c EXCEPT !.chain[s] = SubSeq(@, k + 1, Len(@)),
              !.inuse[s] = @ + k, !.nfree = @ - k]

\* Mutant: a slab goes back to the partial list although it is used up.
Relinked_Partial(c, s) == [c EXCEPT !.partial = Append(@, s)]

Relinked(c, s) ==
    IF c.inuse[s] = num THEN [c EXCEPT !.full = Append(@, s)]
                        ELSE [c EXCEPT !.partial = Append(@, s)]

\* __grow: up to batchcount objects of one slab into the empty array.
Grow(new) ==
    LET s == Source(slabs, new)
        c == Unlinked(slabs, s)
        left == num - c.inuse[s]
        k == IF batchcount < left THEN batchcount ELSE left
    IN  /\ slabs' = Relinked(GetObjs(c, s, k), s)
        /\ entry' = SubSeq(c.chain[s], 1, k - 1)
        /\ held' = held \cup {c.chain[s][k]}

\* kmem_alloc: the last entry of the array, filled first if it is empty.
Alloc ==
    \/ /\ entry # <<>>
       /\ entry' = Front(entry)
       /\ held' = held \cup {Last(entry)}
       /\ UNCHANGED slabs
    \/ /\ entry = <<>>
       /\ \E new \in Slabs :
             /\ slabs.partial # <<>> \/ slabs.free # <<>> \/ new \notin Live(slabs)
             /\ Grow(new)

-----------------------------------------------------------------------------
PutObj(c, o) ==
    [c EXCEPT !.chain[slabOf(o)] = <<o>> \o @,
              !.inuse[slabOf(o)] = @ - 1, !.nfree = @ + 1]

\* Mutant: a slab is destroyed when the cache has enough free objects,
\* whether or not some of its own are in use.
Put_DestroyUsed(c, o) ==
    LET s == slabOf(o)
        d == PutObj(ListDel(c, s), o)
    IN  IF d.nfree > nlimit
        THEN [d EXCEPT !.chain[s] = <<>>, !.inuse[s] = 0,
                       !.nfree = @ - num, !.ntotal = @ - num, !.nslab = @ - 1]
        ELSE [d EXCEPT !.partial = Append(@, s)]

\* One turn of the loop of __shrink.
Put(c, o) ==
    LET s == slabOf(o)
        d == PutObj(ListDel(c, s), o)
    IN  IF d.inuse[s] # 0 THEN [d EXCEPT !.partial = Append(@, s)]
        ELSE IF d.nfree > nlimit
        THEN [d EXCEPT !.chain[s] = <<>>,
                       !.nfree = @ - num, !.ntotal = @ - num, !.nslab = @ - 1]
        ELSE [d EXCEPT !.free = Append(@, s)]

\* __shrink: the loop over the objects of the array, from its first.
Shrink(c, objects) ==
    LET turn[i \in 0 .. Len(objects)] ==
            IF i = 0 THEN c ELSE Put(turn[i - 1], objects[i])
    IN  turn[Len(objects)]

\* Mutant: the array is not emptied when its objects go back to the slabs.
Free_KeepEntries(o) ==
    /\ held' = held \ {o}
    /\ \/ /\ Len(entry) < batchcount
          /\ entry' = Append(entry, o)
          /\ UNCHANGED slabs
       \/ /\ Len(entry) = batchcount
          /\ slabs' = Shrink(slabs, entry)
          /\ entry' = Append(Tail(entry), o)

\* kmem_free: into the array; a full array is first put back as a whole.
Free(o) ==
    /\ held' = held \ {o}
    /\ \/ /\ Len(entry) < batchcount
          /\ entry' = Append(entry, o)
          /\ UNCHANGED slabs
       \/ /\ Len(entry) = batchcount
          /\ slabs' = Shrink(slabs, entry)
          /\ entry' = <<o>>

\* The destructor: the array is put back, then every slab is freed.  The
\* client uses no object any more.
Destroy ==
    /\ slabs # Empty
    /\ slabs' = Empty /\ entry' = <<>> /\ held' = {}

Next == Alloc \/ Destroy \/ \E o \in held : Free(o)

Spec == Init /\ [][Next]_vars

-----------------------------------------------------------------------------
\* Every object of a live slab is in exactly one place: its slab's chain, the
\* array, or the client's hands; and no such object is of a slab that is gone.
OnePlaceEach ==
    LET chained == UNION {ToSet(slabs.chain[s]) : s \in Slabs}
        cached == ToSet(entry)
    IN  /\ chained \cup cached \cup held = Live(slabs) \X (0 .. num - 1)
        /\ chained \cap cached = {} /\ chained \cap held = {} /\ cached \cap held = {}
        /\ IsInjective(entry) /\ \A s \in Slabs : IsInjective(slabs.chain[s])

\* A slab is on exactly one list, once, the one its use says, and the counters
\* that decide whether it is destroyed agree with the lists and the chains.
SlabsAccounted ==
    LET all == slabs.full \o slabs.partial \o slabs.free
    IN  /\ IsInjective(all)
        /\ \A s \in ToSet(slabs.full) : slabs.inuse[s] = num
        /\ \A s \in ToSet(slabs.partial) : slabs.inuse[s] \in 1 .. num - 1
        /\ \A s \in ToSet(slabs.free) : slabs.inuse[s] = 0
        /\ \A s \in ToSet(all) : Len(slabs.chain[s]) = num - slabs.inuse[s]
        /\ slabs.nslab = Len(all)
        /\ slabs.ntotal = num * slabs.nslab
        /\ slabs.nfree = Cardinality(UNION {ToSet(slabs.chain[s]) : s \in Slabs})

\* The cache is an object pool whose memory is that of its live slabs.
Pool == INSTANCE ObjectPool WITH backed <- Live(slabs) \X (0 .. num - 1)
PoolSpec == Pool!Spec
=============================================================================
