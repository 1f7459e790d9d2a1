----------------------------- MODULE DentryWalk -----------------------------
(***************************************************************************)
(* dentry-travel/test.cpp: two walks over a directory tree that keep no    *)
(* stack: stats_dentry prints every entry, remove_dentry then frees them,  *)
(* going on among brothers as long as they are empty.                      *)
(*                                                                         *)
(* Directories are numbered as main makes them, parents first, so that the *)
(* parent pointers decide the tree.  One action is one turn of a loop.     *)
(***************************************************************************)
EXTENDS Integers, SequencesExt

CONSTANT NrEntries   \* bound: entries are 1 .. NrEntries, below dentry_root, which is 0

ASSUME DWAssumption == NrEntries \in Nat \ {0}

Entries == 1 .. NrEntries
Root == 0
End == -1       \* the list head a loop over subdirs comes back to

VARIABLES up,       \* the parent pointers
          subdirs,  \* the children that are still linked, in order
          doing,    \* which loop runs
          entry, parent,   \* the locals (pos of stats_dentry is entry)
          shown, freed   \* history: the entries in the order of the calls

walkVars == <<up, subdirs, doing, entry, parent, shown, freed>>

\* main adds an entry behind those it added to the same parent before.
Children(u, d) ==
    LET added == {e \in Entries : u[e] = d}
        upTo(e) == {b \in added : b <= e}
    IN  [k \in 1 .. Cardinality(added) |-> CHOOSE e \in added : Cardinality(upTo(e)) = k]

DirInit ==
    /\ up \in {u \in [Entries -> 0 .. NrEntries - 1] : \A e \in Entries : u[e] < e}
    /\ subdirs = [d \in Entries \cup {Root} |-> Children(up, d)]
    /\ doing = "show" /\ parent = Root /\ entry = Head(subdirs[Root])
    /\ shown = <<>> /\ freed = <<>>

\* The place of an entry in a list, what follows it there, what is first.
Place(s, e) == CHOOSE k \in DOMAIN s : s[k] = e
NextIn(s, e) == IF Place(s, e) = Len(s) THEN End ELSE s[Place(s, e) + 1]
FirstIn(s) == IF s = <<>> THEN End ELSE Head(s)

\* sibling.next
After(e) == NextIn(subdirs[up[e]], e)

-----------------------------------------------------------------------------
\* stats_dentry: an entry is shown, then what is below it, then its brothers.
Show ==
    /\ doing = "show" /\ entry # End
    /\ shown' = Append(shown, entry)
    /\ IF subdirs[entry] # <<>>
       THEN parent' = entry /\ entry' = Head(subdirs[entry])
       ELSE entry' = After(entry) /\ UNCHANGED parent
    /\ UNCHANGED <<up, subdirs, doing, freed>>

\* Mutant: one level up, the walk goes on with the parent itself.
Ascend_Same ==
    /\ doing = "show" /\ entry = End
    /\ IF parent # Root
       THEN entry' = parent /\ parent' = up[parent] /\ UNCHANGED doing
       ELSE doing' = "descend" /\ UNCHANGED <<entry, parent>>
    /\ UNCHANGED <<up, subdirs, shown, freed>>

Ascend ==
    /\ doing = "show" /\ entry = End
    /\ IF parent # Root
       THEN entry' = After(parent) /\ parent' = up[parent] /\ UNCHANGED doing
       ELSE doing' = "descend" /\ UNCHANGED <<entry, parent>>
    /\ UNCHANGED <<up, subdirs, shown, freed>>

\* remove_dentry: down to the first entry that is empty,
Descend ==
    /\ doing = "descend"
    /\ IF subdirs[parent] # <<>>
       THEN parent' = Head(subdirs[parent]) /\ UNCHANGED <<entry, doing>>
       ELSE entry' = parent /\ parent' = up[parent] /\ doing' = "free"
    /\ UNCHANGED <<up, subdirs, shown, freed>>

\* Mutant: the brothers are freed whether or not they are empty.
Free_AllBrothers ==
    LET next == After(entry)
        left == [subdirs EXCEPT ![parent] = RemoveAt(@, Place(@, entry))]
    IN  /\ doing = "free"
        /\ freed' = Append(freed, entry)
        /\ subdirs' = left
        /\ IF next # End
           THEN entry' = next /\ UNCHANGED doing
           ELSE /\ doing' = IF parent # Root \/ left[parent] # <<>> THEN "descend" ELSE "done"
                /\ UNCHANGED entry
        /\ UNCHANGED <<up, parent, shown>>

\* which is unlinked and freed, and so are its brothers as long as they are
\* empty; then down again, until nothing is left.
FreeEntry ==
    LET next == After(entry)
        left == [subdirs EXCEPT ![parent] = RemoveAt(@, Place(@, entry))]
    IN  /\ doing = "free"
        /\ freed' = Append(freed, entry)
        /\ subdirs' = left
        /\ IF next # End /\ subdirs[next] = <<>>
           THEN entry' = next /\ UNCHANGED doing
           ELSE /\ doing' = IF parent # Root \/ left[parent] # <<>> THEN "descend" ELSE "done"
                /\ UNCHANGED entry
        /\ UNCHANGED <<up, parent, shown>>

DirWalkNext == Show \/ Ascend \/ Descend \/ FreeEntry

DirWalkSpec == DirInit /\ [][DirWalkNext]_walkVars

-----------------------------------------------------------------------------
\* What the recursive walk shows from an entry on: the entry, what is below
\* it, and then its brothers.
Walk(tree) ==
    LET walk[e \in Entries \cup {End}] ==
            IF e = End THEN <<>>
            ELSE <<e>> \o walk[FirstIn(Children(tree, e))]
                      \o walk[NextIn(Children(tree, tree[e]), e)]
    IN  walk
Preorder(tree) == Walk(tree)[FirstIn(Children(tree, Root))]

\* The walk shows what the recursive one prints, each entry once and none too
\* many, although it finds its way back by parent pointers only.
WalksPreorder ==
    /\ IsPrefix(shown, Preorder(up))
    /\ doing # "show" => shown = Preorder(up)

\* Entries are freed once, children before their parent, no freed entry is
\* used, and in the end none is left.
FreesChildrenFirst ==
    /\ IsInjective(freed)
    /\ \A j \in DOMAIN freed : \A i \in DOMAIN freed : up[freed[i]] = freed[j] => i < j
    /\ doing \in {"descend", "free"} => parent \notin ToSet(freed)
    /\ doing = "free" => entry \notin ToSet(freed)
    /\ doing = "done" => ToSet(freed) = Entries
=============================================================================
