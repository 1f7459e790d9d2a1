---------------------------- MODULE MCFileSystem ----------------------------
(* Three programs about file systems: blocks of files, entries of a           *)
(* directory, a tree of directories; one of them runs, and part says which.   *)
EXTENDS FileBlocks, DirEntries, DentryWalk

VARIABLE part

\* Three lengths, of which two of one page are never equal in sum.
MCEntryLen == "a" :> 3 @@ "b" :> 4 @@ "c" :> 6

FileSystemInit ==
    /\ part \in {"blocks", "entries", "tree"}
    /\ Init /\ EntriesInit /\ DirInit
    /\ part # "tree" => up = [e \in Entries |-> Root]

FileSystemNext ==
    \/ part = "blocks" /\ Next /\ UNCHANGED <<part, dirVars, walkVars>>
    \/ part = "entries" /\ EntriesNext /\ UNCHANGED <<part, vars, walkVars>>
    \/ part = "tree" /\ DirWalkNext /\ UNCHANGED <<part, vars, dirVars>>

FileSystemSpec ==
    FileSystemInit /\ [][FileSystemNext]_<<part, vars, dirVars, walkVars>>
=============================================================================
