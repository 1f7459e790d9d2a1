----------------------------- MODULE FileBlocks -----------------------------
(***************************************************************************)
(* filesystem-block-manager/test.cpp: appends to inodes of a small block   *)
(* file system.  Blocks come from the groups' bitmaps; an inode has direct *)
(* pointers and one pointer to a block of pointers to blocks of pointers;  *)
(* a page's buffers remember the blocks they are mapped to, and whether    *)
(* their part of the page is as new as the block.                          *)
(*                                                                         *)
(* Bytes are units, and the unit an inode has at position p is <<i, p>>.   *)
(* Pointer blocks and bitmaps live in their buffers, as in the code.       *)
(***************************************************************************)
EXTENDS Integers, Sequences

CONSTANTS Inodes,
          WordBits,       \* NR_BITS_PER_LONG
          GroupBits,      \* MAX_BLOCK_BIT, NR_BLOCKS_PER_GROUP
          NrGroups,
          NrReserved,     \* the blocks of a group that init_block_bitmap marks
          StartBit,       \* where __get_block starts its search (22)
          Direct,         \* DIRECT_BLOCK
          PerBlock,       \* pointers in a block, 1 << BLOCK_INDEX_SHIFT
          BlockSize, BlocksPerPage,
          MaxLen          \* bound: units of one write

ASSUME FBAssumption ==
    /\ {WordBits, GroupBits, NrGroups, NrReserved, StartBit} \subseteq Nat
    /\ {Direct, PerBlock, BlockSize, BlocksPerPage, MaxLen} \subseteq Nat
    /\ StartBit \in NrReserved .. WordBits - 1 /\ NrReserved > 0
    /\ StartBit < GroupBits
    /\ Direct > 0 /\ PerBlock > 0 /\ BlockSize > 0 /\ BlocksPerPage > 0

\* fs.used: the bits set in each group's bitmap; fs.data: i_data; fs.pointers:
\* the entries of a pointer block; fs.mapped: nr_block of an inode's buffers;
\* fs.failed: get_block found no block and returned -1; fs.shifted: what the
\* build makes of 1UL << NR_BITS_PER_LONG, which C++ leaves undefined.
\* pages, uptodate: the memory behind an inode's buffers, and their flags;
\* rest: what write_inode has still to write.
VARIABLES fs, size, disk, pages, uptodate, rest

vars == <<fs, size, disk, pages, uptodate, rest>>

Groups == 0 .. NrGroups - 1
Blocks == 0 .. NrGroups * GroupBits - 1
MaxBlocks == Direct + PerBlock * PerBlock
NoBlock == 0
Unwritten == [o \in 0 .. BlockSize - 1 |-> <<>>]

\* init_block_bitmap: super block, descriptors, bitmap and one more.
Reserved == 0 .. NrReserved - 1

Init ==
    /\ \E shifted \in {0, 1} :
          fs = [used |-> [g \in Groups |-> Reserved],
                data |-> [i \in Inodes |-> [n \in 0 .. Direct |-> NoBlock]],
                pointers |-> [b \in Blocks |-> [n \in 0 .. PerBlock - 1 |-> NoBlock]],
                mapped |-> [i \in Inodes |-> [n \in 0 .. MaxBlocks - 1 |-> NoBlock]],
                failed |-> FALSE, shifted |-> shifted]
    /\ size = [i \in Inodes |-> 0]
    /\ disk = [b \in Blocks |-> Unwritten]
    /\ pages = [i \in Inodes |-> [n \in 0 .. MaxBlocks - 1 |-> Unwritten]]
    /\ uptodate = [i \in Inodes |-> [n \in 0 .. MaxBlocks - 1 |-> FALSE]]
    /\ rest = [i \in Inodes |-> 0]

-----------------------------------------------------------------------------
Least(S) == CHOOSE n \in S : \A m \in S : n <= m

\* The mask of the last word, (1UL << (last_offset + 1)) - 1, is 0 if that word
\* is used up to its last bit and a shift by its width shifts by nothing.
MaskIsZero(len, shifted) == (len - 1) % WordBits = WordBits - 1 /\ shifted = 1

\* Mutant: the mask of the start bit is kept for the later words.
FindNextBit_KeepMask(bits, len, start, shifted) ==
    LET last == (len - 1) \div WordBits
        clear(w) == {b \in w * WordBits .. (w + 1) * WordBits - 1 :
                        b \notin bits /\ b % WordBits >= start}
        words == {w \in 0 .. last : clear(w) # {}}
        found == {b \in clear(Least(words)) :
                     Least(words) = last => b < len /\ ~MaskIsZero(len, shifted)}
    IN  IF words = {} \/ found = {} THEN len ELSE Least(found)

\* The first word that has a clear bit, from start in the first one, and the
\* first such bit in it; in the last word, of those its mask leaves.
FindNextBit(bits, len, start, shifted) ==
    LET last == (len - 1) \div WordBits
        clear(w) == {b \in w * WordBits .. (w + 1) * WordBits - 1 :
                        b \notin bits /\ (w = 0 => b >= start)}
        words == {w \in 0 .. last : clear(w) # {}}
        found == {b \in clear(Least(words)) :
                     Least(words) = last => b < len /\ ~MaskIsZero(len, shifted)}
    IN  IF words = {} \/ found = {} THEN len ELSE Least(found)

\* Mutant: the block number does not count the groups before.
NumberOf_NoGroup(g, n) == n
NumberOf(g, n) == GroupBits * g + n

\* __get_block: the first free bit of the first group that has one.
Found(f, g) == FindNextBit(f.used[g], GroupBits, StartBit, f.shifted)
GroupsWithRoom(f) == {g \in Groups : Found(f, g) < GroupBits}
NewBlock(f) ==
    IF GroupsWithRoom(f) = {} THEN NoBlock
    ELSE LET g == Least(GroupsWithRoom(f)) IN NumberOf(g, Found(f, g))

Take(f) ==
    IF GroupsWithRoom(f) = {} THEN [f EXCEPT !.failed = TRUE]
    ELSE LET g == Least(GroupsWithRoom(f))
         IN  [f EXCEPT !.used[g] = @ \cup {Found(f, g)}]

\* The three places get_blocks may have to fill, in its order.
WithIndex(f, i) ==
    IF f.data[i][Direct] # NoBlock THEN f
    ELSE [Take(f) EXCEPT !.data[i][Direct] = NewBlock(f)]

WithEntry(f, b, n) ==
    IF f.pointers[b][n] # NoBlock THEN f
    ELSE [Take(f) EXCEPT !.pointers[b][n] = NewBlock(f)]

WithDirect(f, i, n) ==
    IF f.data[i][n] # NoBlock THEN f
    ELSE [Take(f) EXCEPT !.data[i][n] = NewBlock(f)]

\* The block the tree gives for block n of the file.
Lookup(f, i, n) ==
    IF n < Direct THEN f.data[i][n]
    ELSE LET m == n - Direct
             index == f.pointers[f.data[i][Direct]]
         IN  f.pointers[index[m \div PerBlock]][m % PerBlock]

WithTree(f, i, n) ==
    IF n < Direct THEN WithDirect(f, i, n)
    ELSE LET m == n - Direct
             f1 == WithIndex(f, i)
             top == f1.data[i][Direct]
             f2 == WithEntry(f1, top, m \div PerBlock)
         IN  WithEntry(f2, f2.pointers[top][m \div PerBlock], m % PerBlock)

\* get_blocks, for a buffer that is not mapped yet.
GetBlocks(f, i, n) ==
    IF f.mapped[i][n] # NoBlock THEN f
    ELSE LET g == WithTree(f, i, n)
         IN  [g EXCEPT !.mapped[i][n] = Lookup(g, i, n)]

-----------------------------------------------------------------------------
PageSize == BlockSize * BlocksPerPage

\* The blocks of the file that page p has buffers for.
PageBlocks(p) == [k \in 1 .. BlocksPerPage |-> p * BlocksPerPage + k - 1]

\* The buffers of a list of blocks are mapped one after the other.
GetAll(f, i, blocks) ==
    LET after[k \in 0 .. Len(blocks)] ==
            IF k = 0 THEN f ELSE GetBlocks(after[k - 1], i, blocks[k])
    IN  after[Len(blocks)]

Meets(n, from, to) == n * BlockSize < to /\ (n + 1) * BlockSize > from
Partly(n, from, to) == (n + 1) * BlockSize > to \/ n * BlockSize < from

\* read_block, for the blocks that are written in part: the block replaces what
\* the page has there, unless the buffer is up to date.
Read(pg, current, d, m, from, to) ==
    [n \in 0 .. MaxBlocks - 1 |->
        IF Meets(n, from, to) /\ Partly(n, from, to) /\ ~current[n] THEN d[m[n]] ELSE pg[n]]

\* memcpy into the page.
Copied(pg, i, from, to) ==
    [n \in 0 .. MaxBlocks - 1 |-> [o \in 0 .. BlockSize - 1 |->
        LET p == n * BlockSize + o IN IF from <= p /\ p < to THEN <<i, p>> ELSE pg[n][o]]]

\* Mutant: the units are copied before the blocks are read.
PageAfter_CopyFirst(pg, current, d, m, i, from, to) ==
    Read(Copied(pg, i, from, to), current, d, m, from, to)

PageAfter(pg, current, d, m, i, from, to) ==
    Copied(Read(pg, current, d, m, from, to), i, from, to)

\* write_block, for every block that meets [from, to): the block its buffer is
\* mapped to gets what the page has there.
DiskAfter(d, m, pg, from, to) ==
    [b \in Blocks |->
        LET n == {k \in 0 .. MaxBlocks - 1 : m[k] = b /\ Meets(k, from, to)}
        IN  IF b = NoBlock \/ n = {} THEN d[b] ELSE pg[Least(n)]]

\* The flags of an inode's buffers when page index has its own: nobody sets
\* those of new ones; and after write_block, which sets them.
Flags(i, index, garbage) ==
    [n \in 0 .. MaxBlocks - 1 |->
        IF n \div BlocksPerPage = index /\ fs.mapped[i][n] = NoBlock
        THEN garbage[1 + (n % BlocksPerPage)] ELSE uptodate[i][n]]
FlagsAfter(current, from, to) ==
    [n \in 0 .. MaxBlocks - 1 |-> Meets(n, from, to) \/ current[n]]

\* write_inode is called; the caller keeps within the blocks there are.
Write(i) == \E len \in 1 .. MaxLen :
    /\ \A j \in Inodes : rest[j] = 0
    /\ ((size[i] + len - 1) \div PageSize + 1) * BlocksPerPage <= MaxBlocks
    /\ rest' = [rest EXCEPT ![i] = len]
    /\ UNCHANGED <<fs, size, disk, pages, uptodate>>

\* Its loop, a page at a time: the page gets its buffers, and they are mapped;
\* blocks written in part are read, the units are copied, the blocks they lie in
\* are written.
WritePage(i) ==
    LET from == size[i]
        index == from \div PageSize
        left == (index + 1) * PageSize - from
        nbytes == IF rest[i] < left THEN rest[i] ELSE left
        to == from + nbytes
        f == GetAll(fs, i, PageBlocks(index))
        m == f.mapped[i]
    IN  /\ rest[i] > 0
        /\ ~f.failed
        /\ \E garbage \in [1 .. BlocksPerPage -> BOOLEAN] :
              LET current == Flags(i, index, garbage)
                  pg == PageAfter(pages[i], current, disk, m, i, from, to)
              IN  /\ pages' = [pages EXCEPT ![i] = pg]
                  /\ disk' = DiskAfter(disk, m, pg, from, to)
                  /\ uptodate' = [uptodate EXCEPT ![i] = FlagsAfter(current, from, to)]
        /\ fs' = f
        /\ size' = [size EXCEPT ![i] = to]
        /\ rest' = [rest EXCEPT ![i] = @ - nbytes]

Next == \E i \in Inodes : Write(i) \/ WritePage(i)

Spec == Init /\ [][Next]_vars
-----------------------------------------------------------------------------
\* The blocks an inode's tree refers to, one entry per reference: where the
\* pointer is (-1 for i_data, or a pointer block), its place there, the block.
References(i) ==
    LET f == fs
        top == f.data[i][Direct]
        entries(b) == IF b = NoBlock THEN {} ELSE {<<b, n>> : n \in 0 .. PerBlock - 1}
        seconds == {f.pointers[e[1]][e[2]] : e \in entries(top)} \ {NoBlock}
    IN  {r \in {<<-1, n, f.data[i][n]>> : n \in 0 .. Direct}
               \cup {<<e[1], e[2], f.pointers[e[1]][e[2]]>> :
                        e \in entries(top) \cup UNION {entries(b) : b \in seconds}} :
            r[3] # NoBlock}
AllReferences == UNION {{<<i, r>> : r \in References(i)} : i \in Inodes}
Target(r) == r[2][3]

\* No block is referred to twice, by one inode or by two, as data or as a
\* pointer block; and the bitmaps say which blocks are taken: those the inodes
\* refer to and the reserved ones, which nobody refers to.
BlocksAccounted ==
    LET taken == {Target(r) : r \in AllReferences}
        reserved == {GroupBits * g + n : g \in Groups, n \in Reserved}
    IN  /\ \A r, q \in AllReferences : Target(r) = Target(q) => r = q
        /\ taken \cap reserved = {}
        /\ {b \in Blocks : b % GroupBits \in fs.used[b \div GroupBits]} = taken \cup reserved

\* What was appended is on disk, in the block the tree gives for it: whatever a
\* new buffer's uptodate is, a block is not read again over units copied into
\* the page; what an earlier write left in the block it ends in is written back
\* with the new units; and no later write of any inode overwrites it.
DiskHoldsFile ==
    \A i \in Inodes : \A p \in 0 .. size[i] - 1 :
        disk[Lookup(fs, i, p \div BlockSize)][p % BlockSize] = <<i, p>>

\* The word-wise search finds the first clear bit of those it can see: all from
\* the start bit on, but for the last word's, if the bitmap ends with a word and
\* the build takes a shift by the width of a word for one by nothing.
SearchIsFirstClear ==
    \A g \in Groups :
        LET unseen == IF GroupBits % WordBits = 0 /\ fs.shifted = 1
                      THEN GroupBits - WordBits .. GroupBits - 1 ELSE {}
            clear == (StartBit .. GroupBits - 1) \ (fs.used[g] \cup unseen)
        IN  Found(fs, g) = IF clear = {} THEN GroupBits ELSE Least(clear)
=============================================================================
