----------------------------- MODULE PageTable -----------------------------
(***************************************************************************)
(* page-table-map/test.cpp: remap_range walks three levels of tables and   *)
(* maps a range of virtual addresses to physical ones.  Each level takes   *)
(* its first entry from the start address, goes on entry by entry, and     *)
(* hands the part of the range below the entry down.                       *)
(*                                                                         *)
(* All tables are populated, as main leaves them; a pte is its place,      *)
(* <<pgd index, pmd index, pte index>>.                                    *)
(***************************************************************************)
EXTENDS Integers, FiniteSets, Sequences

CONSTANTS PAGE_SIZE, PTE_SIZE, PMD_SIZE, PGD_SIZE,  \* powers of two (64, 8, 8, 8)
          Physical,   \* bound: physical addresses ranges are mapped to
          MaxCalls    \* bound: calls of remap_range

ASSUME PTAssumption ==
    /\ {PAGE_SIZE, PTE_SIZE, PMD_SIZE, PGD_SIZE} \subseteq Nat \ {0}
    /\ Physical \subseteq Nat

VARIABLES pte,      \* [place -> physical address, or Boot for main's pages]
          requests  \* history: the arguments of each call

tableVars == <<pte, requests>>

Boot == -1
Places == (0 .. PGD_SIZE - 1) \X (0 .. PMD_SIZE - 1) \X (0 .. PTE_SIZE - 1)
NrPtes == PGD_SIZE * PMD_SIZE * PTE_SIZE

TableInit == pte = [x \in Places |-> Boot] /\ requests = <<>>

\* pgd_offset, pmd_offset and pte_offset, for the page of an address.
PgdIndex(addr) == (addr \div (PAGE_SIZE * PTE_SIZE * PMD_SIZE)) % PGD_SIZE
PmdIndex(addr) == (addr \div (PAGE_SIZE * PTE_SIZE)) % PMD_SIZE
PteIndex(addr) == (addr \div PAGE_SIZE) % PTE_SIZE

-----------------------------------------------------------------------------
\* next_pgd, next_pmd, next_pte: the start of the next entry, within bound.
NextPart(addr, span, bound) ==
    LET ret == ((addr \div span) + 1) * span IN IF ret >= bound THEN bound ELSE ret

\* A do-while loop from one address to another: the parts it handles, as
\* <<number of the turn, start, end>>.
Parts(from, to, span) ==
    LET starts == {from} \cup {a \in from + 1 .. to - 1 : a % span = 0}
    IN  {<<Cardinality({b \in starts : b < a}), a, NextPart(a, span, to)>> : a \in starts}

\* remap_pte_range: what is written, as <<place, physical address>>.
RemapPte(i, j, from, to, paddr) ==
    {<<<<i, j, PteIndex(from) + p[1]>>, paddr - from + p[2]>> :
        p \in Parts(from, to, PAGE_SIZE)}

\* Mutant: the physical address goes down a level without its offset.
RemapPmd_NoOffset(i, from, to, paddr) ==
    UNION {RemapPte(i, PmdIndex(from) + p[1], p[2], p[3], paddr) :
              p \in Parts(from, to, PAGE_SIZE * PTE_SIZE)}

RemapPmd(i, from, to, paddr) ==
    UNION {RemapPte(i, PmdIndex(from) + p[1], p[2], p[3], paddr - from + p[2]) :
              p \in Parts(from, to, PAGE_SIZE * PTE_SIZE)}

RemapPgd(from, to, paddr) ==
    UNION {RemapPmd(PgdIndex(from) + p[1], p[2], p[3], paddr - from + p[2]) :
              p \in Parts(from, to, PAGE_SIZE * PTE_SIZE * PMD_SIZE)}

PageOf(addr) == addr - (addr % PAGE_SIZE)

\* remap_range, of a range that is not empty and below the top.
Remap(from, len, paddr) ==
    LET end == PageOf(from + len + PAGE_SIZE - 1)
        writes == RemapPgd(PageOf(from), end, PageOf(paddr))
    IN  /\ Len(requests) < MaxCalls
        /\ pte' = [x \in Places |-> IF \E w \in writes : w[1] = x
                                    THEN (CHOOSE w \in writes : w[1] = x)[2]
                                    ELSE pte[x]]
        /\ requests' = Append(requests, <<from, len, paddr>>)

TableNext ==
    \E from \in 0 .. NrPtes * PAGE_SIZE - 1 :
        \E len \in 1 .. NrPtes * PAGE_SIZE - from, paddr \in Physical :
            Remap(from, len, paddr)

TableSpec == TableInit /\ [][TableNext]_tableVars

-----------------------------------------------------------------------------
\* The place a virtual page has in the tables.
PlaceOf(page) == <<page \div (PMD_SIZE * PTE_SIZE), (page \div PTE_SIZE) % PMD_SIZE, page % PTE_SIZE>>

\* A call maps the pages that meet its range to consecutive physical pages,
\* whatever tables the range starts in, ends in or straddles, and leaves all
\* other pages as they were.
RemapsExactly ==
    [][requests' # requests =>
          LET request == requests'[Len(requests')]
              first == request[1] \div PAGE_SIZE
              last == (request[1] + request[2] - 1) \div PAGE_SIZE
          IN  \A page \in 0 .. NrPtes - 1 :
                pte'[PlaceOf(page)]
                  = IF page \in first .. last
                    THEN PageOf(request[3]) + (page - first) * PAGE_SIZE
                    ELSE pte[PlaceOf(page)]]_tableVars
=============================================================================
