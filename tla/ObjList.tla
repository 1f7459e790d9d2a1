------------------------------ MODULE ObjList ------------------------------
(***************************************************************************)
(* list-obj-concurrent/test.cpp: a list of reference-counted objects that  *)
(* threads read by id, walk, and delete from.  list_mutex protects list    *)
(* and counts; an object's own mutex is held while its value is used.      *)
(*                                                                         *)
(* An object is its id.  main adds the ids in increasing order at the head *)
(* and nothing is added later, so the list holds what is left of them in   *)
(* decreasing order.  One action is one stretch of code under list_mutex.  *)
(***************************************************************************)
EXTENDS Integers, FiniteSets

CONSTANTS NumObjects,  \* num_objects (100)
          ById,        \* threads that read or write single objects
          Walker,      \* the thread that reads all of them, in two ways
          Calls,       \* calls of func_read or func_write per thread (102)
          MaxDeletes   \* bound: how often func_delete picks one id

ASSUME OLAssumption ==
    /\ NumObjects \in Nat
    /\ IsFiniteSet(ById) /\ Walker \notin ById
    /\ Calls \in Nat /\ MaxDeletes \in Nat

VARIABLES linked,    \* the objects on obj_list; __put_obj frees the others
          s_count,
          refs,      \* the objects a thread has counted itself on
          at,        \* where a thread is
          calls,     \* calls a thread of ById has left
          todo,      \* what the walker has yet to read of its snapshot
          seen,      \* history: what this func_read_all has come by
          deleted    \* history: how often an object was deleted

listVars == <<linked, s_count, refs, at, calls, todo, seen, deleted>>

Objs == 0 .. NumObjects - 1    \* the ids
Threads == ById \cup {Walker}

ListInit ==
    /\ linked = Objs
    /\ s_count = [o \in Objs |-> 1]
    /\ refs = [t \in Threads |-> {}]
    /\ at = [t \in Threads |-> "idle"]
    /\ calls = [t \in ById |-> Calls]
    /\ todo = {} /\ seen = {}
    /\ deleted = [o \in Objs |-> 0]

Dangling == \E t \in Threads : ~(refs[t] \subseteq linked)

\* The object whose mutex a thread holds is the one it refers to.
Locked(o) == \E t \in Threads : at[t] = "inside" /\ o \in refs[t]

Greatest(S) == CHOOSE o \in S : \A p \in S : p <= o
Smallest(S) == CHOOSE o \in S : \A p \in S : o <= p

-----------------------------------------------------------------------------
\* __put_obj, for each object of S: those it does not free.
Kept(S) == {o \in linked : o \in S => s_count[o] > 1}

\* The counts after S was put and T got.
Recount(S, T) ==
    [o \in Objs |-> s_count[o] - (IF o \in S THEN 1 ELSE 0)
                               + (IF o \in T THEN 1 ELSE 0)]

Move(t, place) == at' = [at EXCEPT ![t] = place]
Refer(t, S) == refs' = [refs EXCEPT ![t] = S]

\* get_obj: the call is over when no such id is on the list.
Get(t) ==
    /\ at[t] = "idle" /\ calls[t] > 0
    /\ \E o \in Objs :
          \/ /\ o \in linked
             /\ s_count' = Recount({}, {o}) /\ Refer(t, {o})
             /\ Move(t, "got") /\ UNCHANGED calls
          \/ /\ o \notin linked
             /\ calls' = [calls EXCEPT ![t] = @ - 1]
             /\ UNCHANGED <<s_count, refs, at>>
    /\ UNCHANGED <<linked, todo, seen, deleted>>

\* obj->mtx.lock()
Lock(t) ==
    /\ at[t] = "got"
    /\ \A o \in refs[t] : ~Locked(o)
    /\ Move(t, "inside")
    /\ UNCHANGED <<linked, s_count, refs, calls, todo, seen, deleted>>

\* The value was used; obj->mtx.unlock()
Unlock(t) ==
    /\ at[t] = "inside"
    /\ Move(t, "out")
    /\ UNCHANGED <<linked, s_count, refs, calls, todo, seen, deleted>>

\* put_obj, the end of func_read and func_write.
PutRef(t) ==
    /\ at[t] = "out"
    /\ linked' = Kept(refs[t]) /\ s_count' = Recount(refs[t], {})
    /\ Refer(t, {}) /\ Move(t, "idle")
    /\ calls' = [calls EXCEPT ![t] = @ - 1]
    /\ UNCHANGED <<todo, seen, deleted>>

\* func_delete: one reference less, whoever has it.  The loop then goes on
\* from the object's next pointer, which freeing leaves as it was.
Delete(o) ==
    /\ o \in linked /\ deleted[o] < MaxDeletes
    /\ linked' = Kept({o}) /\ s_count' = Recount({o}, {})
    /\ deleted' = [deleted EXCEPT ![o] = @ + 1]
    /\ UNCHANGED <<refs, at, calls, todo, seen>>

-----------------------------------------------------------------------------
\* func_read_all goes to the first of candidates, having put the objects of S,
\* or is done when there is none.
Visit(S, candidates) ==
    LET T == IF candidates = {} THEN {} ELSE {Greatest(candidates)}
    IN  /\ s_count' = Recount(S, T)
        /\ Refer(Walker, T)
        /\ Move(Walker, IF T = {} THEN "between" ELSE "got")

WalkFirst ==
    /\ at[Walker] = "idle"
    /\ Visit({}, linked)
    /\ seen' = {}
    /\ UNCHANGED <<linked, calls, todo, deleted>>

\* Mutant: the walk starts again whether or not the object was freed.
WalkNext_AlwaysRestart ==
    /\ at[Walker] = "out"
    /\ linked' = Kept(refs[Walker])
    /\ Visit(refs[Walker], linked')
    /\ seen' = seen \cup refs[Walker]
    /\ UNCHANGED <<calls, todo, deleted>>

\* Mutant: the walk ends where an object was freed.
WalkNext_Stop ==
    /\ at[Walker] = "out"
    /\ linked' = Kept(refs[Walker])
    /\ Visit(refs[Walker], IF refs[Walker] \subseteq linked'
                           THEN {p \in linked' : \A o \in refs[Walker] : p < o}
                           ELSE {})
    /\ seen' = seen \cup refs[Walker]
    /\ UNCHANGED <<calls, todo, deleted>>

\* From an object that was freed there is no way on: the walk starts again.
WalkNext ==
    /\ at[Walker] = "out"
    /\ linked' = Kept(refs[Walker])
    /\ Visit(refs[Walker], IF refs[Walker] \subseteq linked'
                           THEN {p \in linked' : \A o \in refs[Walker] : p < o}
                           ELSE linked')
    /\ seen' = seen \cup refs[Walker]
    /\ UNCHANGED <<calls, todo, deleted>>

\* Mutant: the snapshot does not count its references.
Snapshot_NoCount ==
    /\ at[Walker] = "between"
    /\ UNCHANGED s_count
    /\ Refer(Walker, linked) /\ todo' = linked
    /\ Move(Walker, "reading")
    /\ UNCHANGED <<linked, calls, seen, deleted>>

\* func_read_all_snapshot: a reference to every object that is on the list,
Snapshot ==
    /\ at[Walker] = "between"
    /\ s_count' = Recount({}, linked)
    /\ Refer(Walker, linked) /\ todo' = linked
    /\ Move(Walker, "reading")
    /\ UNCHANGED <<linked, calls, seen, deleted>>

\* then each is read under its own mutex, the last one taken first,
ReadOne ==
    /\ at[Walker] = "reading" /\ todo # {}
    /\ ~Locked(Smallest(todo))
    /\ todo' = todo \ {Smallest(todo)}
    /\ UNCHANGED <<linked, s_count, refs, at, calls, seen, deleted>>

\* and all are put in one go.
Release ==
    /\ at[Walker] = "reading" /\ todo = {}
    /\ linked' = Kept(refs[Walker]) /\ s_count' = Recount(refs[Walker], {})
    /\ Refer(Walker, {}) /\ Move(Walker, "idle")
    /\ UNCHANGED <<calls, todo, seen, deleted>>

-----------------------------------------------------------------------------
ReadStep(t) == Get(t) \/ Lock(t) \/ Unlock(t) \/ PutRef(t)
WalkStep == \/ WalkFirst \/ Lock(Walker) \/ Unlock(Walker) \/ WalkNext
            \/ Snapshot \/ ReadOne \/ Release

\* A thread that refers to freed memory may do anything: the model ends there.
ListNext ==
    /\ ~Dangling
    /\ (\E t \in ById : ReadStep(t)) \/ WalkStep \/ (\E o \in Objs : Delete(o))

ListSpec == ListInit /\ [][ListNext]_listVars

\* Threads that can run do run, and get a mutex that is free again and again;
\* nothing is assumed of the deleter.
ListFairness ==
    /\ \A t \in ById : /\ WF_listVars(~Dangling /\ ReadStep(t))
                       /\ SF_listVars(~Dangling /\ Lock(t))
    /\ WF_listVars(~Dangling /\ WalkStep)
    /\ SF_listVars(~Dangling /\ (Lock(Walker) \/ ReadOne))

-----------------------------------------------------------------------------
\* A thread holds a pointer to freed memory only if the object was deleted
\* twice: readers, writers, walks, snapshots and one deletion of each object
\* never free what somebody still uses, in whatever order they put.  (The
\* second deletion takes away a reader's reference: t_delete_func picks its
\* ids at random and may do that.)
FreedInUseOnlyByTwoDeletes ==
    \A t \in Threads : \A o \in refs[t] \ linked : deleted[o] >= 2

\* The count of an object is the number of threads that refer to it, one more
\* until the first delete and one less for each delete; it is freed when the
\* count gets to 0 and not before.
CountIsReferences ==
    \A o \in Objs :
        /\ s_count[o] = Cardinality({t \in Threads : o \in refs[t]}) + 1 - deleted[o]
        /\ o \in linked <=> s_count[o] > 0

\* func_read_all has read every object that is on the list when it ends,
\* although it lets go of list_mutex at every object and starts again when one
\* is freed under it.
WalkSeesAll == at[Walker] = "between" => linked \subseteq seen

\* A call of read or write and a walk come to their ends: no thread waits for
\* ever for an object's mutex, and the walk does not start again for ever.
ReadersReturn ==
    \A t \in Threads : at[t] # "idle" ~> at[t] = "idle" \/ Dangling
=============================================================================
