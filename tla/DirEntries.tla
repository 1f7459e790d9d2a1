----------------------------- MODULE DirEntries -----------------------------
(***************************************************************************)
(* dynamic-entry-length/test.cpp: a directory as a file of pages that      *)
(* holds entries of different lengths one after the other.  An entry that  *)
(* does not fit goes to the next page and leaves a hole; the search goes   *)
(* page by page, from entry to entry, and ends a page at a hole.           *)
(*                                                                         *)
(* A byte that starts no entry reads as length 0: pages come zeroed, and   *)
(* the walk only looks where an entry ended.                               *)
(***************************************************************************)
EXTENDS Integers, Sequences

CONSTANTS Names,      \* names of entries that may be written
          EntryLen,   \* [Names -> entry_len], which grows with name_len
          PAGE_SIZE,
          NrPages     \* pages of a mapping (1024)

NoEntry == "none"

ASSUME DEAssumption ==
    /\ NoEntry \notin Names
    /\ PAGE_SIZE \in Nat \ {0} /\ NrPages \in Nat
    /\ EntryLen \in [Names -> 1 .. PAGE_SIZE - 1]

VARIABLES isize,      \* inode->size
          content,    \* [address -> name of the entry there, or NoEntry]
          places      \* history: where each write of a name put its entry

dirVars == <<isize, content, places>>

NotFound == -1
Addresses == 0 .. NrPages * PAGE_SIZE - 1

EntriesInit ==
    /\ isize = 0
    /\ content = [a \in Addresses |-> NoEntry]
    /\ places = [n \in Names |-> <<>>]

\* Where write_inode puts an entry: behind the last one, or on the next page.
\* The size grows by the hole even if there is no next page.
PlaceFor(len) ==
    IF (isize % PAGE_SIZE) + len < PAGE_SIZE THEN isize
    ELSE ((isize \div PAGE_SIZE) + 1) * PAGE_SIZE

WriteEntry(n) ==
    LET place == PlaceFor(EntryLen[n])
    IN  \/ /\ place \div PAGE_SIZE < NrPages
           /\ content' = [content EXCEPT ![place] = n]
           /\ isize' = place + EntryLen[n]
           /\ places' = [places EXCEPT ![n] = Append(@, place)]
        \/ /\ place \div PAGE_SIZE >= NrPages
           /\ isize' = place
           /\ UNCHANGED <<content, places>>

-----------------------------------------------------------------------------
\* Mutant: every page is taken to be used as far as the last one.
LastBytes_EveryPage(page) == isize % PAGE_SIZE

\* last_bytes: how far a page is used.
LastBytes(page) ==
    IF (page + 1) * PAGE_SIZE > isize THEN isize % PAGE_SIZE ELSE PAGE_SIZE

\* find_entry on one page.  The entry looked for ends within the used part.
FindOn(n, page) ==
    LET end == LastBytes(page) - EntryLen[n]
        walk[o \in 0 .. PAGE_SIZE] ==
            LET found == content[page * PAGE_SIZE + o]
            IN  IF o > end \/ found = NoEntry THEN NotFound
                ELSE IF found = n THEN page * PAGE_SIZE + o
                ELSE walk[o + EntryLen[found]]
    IN  walk[0]

Find(n) ==
    LET pages == 0 .. ((isize + PAGE_SIZE - 1) \div PAGE_SIZE) - 1
        hits == {FindOn(n, p) : p \in pages} \ {NotFound}
    IN  IF hits = {} THEN NotFound ELSE CHOOSE a \in hits : \A b \in hits : a <= b

EntriesNext == \E n \in Names : WriteEntry(n)

EntriesSpec == EntriesInit /\ [][EntriesNext]_dirVars

-----------------------------------------------------------------------------
\* Whatever was written in between, a name is found where it was first
\* written, and a name that was not written is not: no entry overlaps a later
\* one or the end of its page, no hole ends the search too early, and the
\* bound of the search, which goes by the length of the entry looked for and
\* not of those it walks over, leaves out no entry.
FoundWhereWritten ==
    \A n \in Names :
        Find(n) = IF places[n] = <<>> THEN NotFound ELSE Head(places[n])
=============================================================================
