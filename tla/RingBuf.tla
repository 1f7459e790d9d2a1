------------------------------ MODULE RingBuf ------------------------------
(***************************************************************************)
(* ringbuf/ringbuf.h: a ring of bytes under a spin lock, with the writer   *)
(* and the reader of ringbuf/test.cpp, who retry until a whole item went   *)
(* in or out.  A byte is its number in the stream of all items' bytes.     *)
(*                                                                         *)
(* What a thread does under the lock is one action, except that the reader *)
(* looks at the size without the lock: a write that wraps changes the size *)
(* twice, and the reader may look in between.                              *)
(***************************************************************************)
EXTENDS Integers

CONSTANTS Cap,        \* __M_cap (33)
          ItemSize,   \* sizeof( int )
          Total       \* bytes of the items the writer writes (100 of 4)

ASSUME RBAssumption ==
    Cap \in Nat \ {0} /\ ItemSize \in Nat \ {0} /\ Total \in Nat

VARIABLES store,      \* the memory from __M_start on
          rd, wr,     \* __M_read and __M_write; Cap is __M_end
          sz,         \* __M_sz
          put, got,   \* bytes of the items written, and of the items read
          rest,       \* of a write that wraps: the bytes still to be stored,
                      \* with the lock held; else 0
          tested,     \* the reader has found enough bytes, without the lock
          data        \* what the reader's last read returned

ringVars == <<store, rd, wr, sz, put, got, rest, tested, data>>

Item == 0 .. ItemSize - 1
Unset == -1

RingInit ==
    /\ store = [p \in 0 .. Cap - 1 |-> Unset]
    /\ rd = 0 /\ wr = 0 /\ sz = 0
    /\ put = 0 /\ got = 0 /\ rest = 0
    /\ tested = FALSE
    /\ data = [j \in Item |-> Unset]

\* memcpy to p of n bytes of the item, from its byte j on.
Copied(p, j, n) ==
    [q \in 0 .. Cap - 1 |-> IF q \in p .. p + n - 1 THEN put + j + q - p ELSE store[q]]

Writable == put < Total /\ rest = 0 /\ ItemSize <= Cap - sz

\* write, the item in one piece
WriteWhole ==
    /\ Writable /\ ItemSize <= Cap - wr
    /\ store' = Copied(wr, 0, ItemSize)
    /\ wr' = wr + ItemSize /\ sz' = sz + ItemSize /\ put' = put + ItemSize
    /\ UNCHANGED <<rd, got, rest, tested, data>>

\* or in two, the first of which may be empty.
WriteFirst ==
    /\ Writable /\ ItemSize > Cap - wr
    /\ store' = Copied(wr, 0, Cap - wr)
    /\ wr' = Cap /\ sz' = sz + (Cap - wr)
    /\ rest' = ItemSize - (Cap - wr)
    /\ UNCHANGED <<rd, put, got, tested, data>>

\* Mutant: the second part is taken from the item's beginning.
WriteRest_FromStart ==
    /\ rest > 0
    /\ store' = Copied(0, 0, rest)
    /\ wr' = rest /\ sz' = sz + rest /\ put' = put + ItemSize
    /\ rest' = 0
    /\ UNCHANGED <<rd, got, tested, data>>

WriteRest ==
    /\ rest > 0
    /\ store' = Copied(0, ItemSize - rest, rest)
    /\ wr' = rest /\ sz' = sz + rest /\ put' = put + ItemSize
    /\ rest' = 0
    /\ UNCHANGED <<rd, got, tested, data>>

-----------------------------------------------------------------------------
\* read, the test before the lock,
Test ==
    /\ got < Total /\ ~tested
    /\ ItemSize <= sz
    /\ tested' = TRUE
    /\ UNCHANGED <<store, rd, wr, sz, put, got, rest, data>>

\* and, under the lock, as much as there is now up to an item, in one piece
\* or in two.  The caller starts over unless it got an item.
Read ==
    LET len == IF sz < ItemSize THEN sz ELSE ItemSize
        first == IF rd < wr \/ len <= Cap - rd THEN len ELSE Cap - rd
    IN  /\ tested /\ rest = 0
        /\ tested' = FALSE
        /\ data' = [j \in Item |-> IF j < first THEN store[rd + j]
                                   ELSE IF j < len THEN store[j - first]
                                   ELSE data[j]]
        /\ rd' = IF first = len THEN rd + len ELSE len - first
        /\ sz' = sz - len
        /\ got' = IF len = ItemSize THEN got + ItemSize ELSE got
        /\ UNCHANGED <<store, wr, put, rest>>

RingNext == WriteWhole \/ WriteFirst \/ WriteRest \/ Test \/ Read

RingSpec == RingInit /\ [][RingNext]_ringVars

-----------------------------------------------------------------------------
\* The reader gets the items whole, in the order they were written, each
\* once, although items straddle the end of the ring and the size is looked at
\* without the lock.
ReadsInOrder ==
    got > 0 => data = [j \in Item |-> got - ItemSize + j]
=============================================================================
