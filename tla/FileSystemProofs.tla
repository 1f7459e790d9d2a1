-------------------------- MODULE FileSystemProofs --------------------------
(***************************************************************************)
(* Proofs about the file systems.  FileBlocks for any sizes of a block, a  *)
(* group, a file's table and the disk, and any inodes: a search returns    *)
(* the first clear bit, no block is taken twice or lost, and what is       *)
(* written to a file stands on the disk where the file's tree says.        *)
(* DirEntries for any names, records and page: an entry is found where it  *)
(* was written.  DentryWalk for any tree: it is shown as the recursive     *)
(* walk shows it, and a directory is freed after all its children.         *)
(***************************************************************************)
EXTENDS FileBlocks, DirEntries, DentryWalk,
        FiniteSetTheorems, SequenceTheorems, WellFoundedInduction, TLAPS

-----------------------------------------------------------------------------
(* Numbers.                                                                  *)

\* A set of numbers that is not empty has a least one.
LEMMA LeastOne ==
    ASSUME NEW S \in SUBSET Nat, S # {}
    PROVE  \E m \in S : \A n \in S : m <= n
<1> DEFINE R == OpToRel(<, Nat)
<1>1. IsWellFoundedOn(R, Nat)
  BY NatLessThanWellFounded
<1> HIDE DEF R
<1>2. PICK m \in S : \A n \in S : ~(<<n, m>> \in R)
  BY <1>1, WFMin
<1>3. ASSUME NEW n \in S, n < m PROVE <<n, m>> \in R
  BY <1>3 DEF R, OpToRel
<1>4. ASSUME NEW n \in S PROVE m <= n
  <2>1. ~(n < m) /\ n \in Nat /\ m \in Nat
    BY <1>2, <1>3
  <2> QED
    BY <2>1
<1> QED
  BY <1>4

\* Quotient and remainder,
LEMMA DivMod ==
    ASSUME NEW e \in Int, NEW n \in Nat, n > 0
    PROVE  /\ e \div n \in Int /\ e % n \in 0 .. n - 1
           /\ e = n * (e \div n) + (e % n)
OBVIOUS

\* of which there is one pair only.
LEMMA Unique ==
    ASSUME NEW q \in Int, NEW r \in Int, NEW n \in Nat, n > 0, 0 <= r, r < n
    PROVE  (n * q + r) \div n = q /\ (n * q + r) % n = r
OBVIOUS

\* The last multiple of n up to e is less than n before it.
LEMMA Floor ==
    ASSUME NEW e \in Nat, NEW n \in Nat, n > 0
    PROVE  /\ e \div n \in Nat /\ (e \div n) * n \in Nat
           /\ (e \div n) * n <= e /\ e < (e \div n) * n + n
<1> DEFINE q == e \div n
<1>1. q \in Int /\ e % n \in 0 .. n - 1 /\ e = n * q + (e % n)
  BY DivMod
<1> HIDE DEF q
<1>2. PICK r \in 0 .. n - 1 : e = n * q + r
  BY <1>1
<1>3. q \in Nat
  <2>1. SUFFICES ASSUME q <= -1 PROVE FALSE
    BY <1>1
  <2>2. n * q <= n * (-1)
    BY <1>1, <2>1
  <2> QED
    BY <1>1, <1>2, <2>2
<1>4. q * n = n * q /\ n * q \in Nat
  BY <1>3
<1> QED
  BY <1>2, <1>3, <1>4 DEF q

\* What is a multiple of n is n times its quotient, and leaves no remainder.
LEMMA Multiple ==
    ASSUME NEW q \in Nat, NEW n \in Nat, n > 0
    PROVE  (q * n) \div n = q /\ (q * n) % n = 0
<1>1. (n * q + 0) \div n = q /\ (n * q + 0) % n = 0
  BY Unique
<1>2. n * q + 0 = q * n
  OBVIOUS
<1> QED
  BY <1>1, <1>2

\* A quotient is the number of the interval of n numbers that holds e.
LEMMA InInterval ==
    ASSUME NEW e \in Nat, NEW q \in Nat, NEW n \in Nat, n > 0,
           q * n <= e, e < (q + 1) * n
    PROVE  e \div n = q
<1>1. PICK r \in 0 .. n - 1 : e = n * q + r
  <2>1. q * n = n * q /\ n * q \in Nat /\ (q + 1) * n = n * q + n
    OBVIOUS
  <2>2. e - n * q \in 0 .. n - 1 /\ e = n * q + (e - n * q)
    BY <2>1
  <2> QED
    BY <2>2
<1> QED
  BY <1>1, Unique

\* A set of numbers that has 0 and goes up to n has n.
LEMMA UpTo ==
    ASSUME NEW n \in Nat, NEW T, T \subseteq 0 .. n, 0 \in T,
           \A k \in T : k < n => k + 1 \in T
    PROVE  n \in T
<1> DEFINE Above(k) == k .. n
           D == {Above(k) : k \in T}
           R == StrictSubsetOrdering(0 .. n)
<1>1. IsFiniteSet(0 .. n)
    BY FS_Interval
<1>2. D \subseteq FiniteSubsetsOf(0 .. n)
    <2>1. ASSUME NEW k \in T PROVE Above(k) \in FiniteSubsetsOf(0 .. n)
        <3>1. Above(k) \subseteq 0 .. n
            OBVIOUS
        <3>2. QED
            BY <1>1, <3>1, FS_Subset DEF FiniteSubsetsOf
    <2>2. QED
        BY <2>1
<1>3. IsWellFoundedOn(R, FiniteSubsetsOf(0 .. n)) /\ D # {}
    BY <1>1, FS_StrictSubsetOrderingWellFounded
<1> HIDE DEF D, R
<1>4. PICK d \in D : \A e \in D : <<e, d>> \notin R
    BY <1>2, <1>3, WFMin
<1>5. PICK k \in T : d = Above(k)
    BY DEF D
<1>6. SUFFICES ASSUME k < n PROVE FALSE
    BY <1>5
<1>7. Above(k + 1) \in D
    BY <1>6 DEF D
<1>8. <<Above(k + 1), d>> \in R
    <2>1. Above(k + 1) \subseteq Above(k) /\ k \in Above(k) /\ k \notin Above(k + 1)
        BY <1>6
    <2>2. Above(k) \subseteq 0 .. n
        OBVIOUS
    <2> HIDE DEF Above
    <2>3. QED
        BY <1>5, <2>1, <2>2 DEF R, StrictSubsetOrdering
<1>9. QED
    BY <1>4, <1>7, <1>8

-----------------------------------------------------------------------------
(* The search for a clear bit.                                               *)

\* What Least returns is the least element of the set,
LEMMA LeastIs ==
    ASSUME NEW S \in SUBSET Nat, S # {}
    PROVE  Least(S) \in S /\ \A n \in S : Least(S) <= n
<1>1. \E m \in S : \A n \in S : m <= n
  BY LeastOne
<1> QED
  BY <1>1 DEF Least

\* and the only one.
LEMMA LeastIsOne ==
    ASSUME NEW S \in SUBSET Nat, NEW m \in S, \A n \in S : m <= n
    PROVE  Least(S) = m
<1>1. Least(S) \in S /\ Least(S) <= m
  BY LeastIs
<1>2. m <= Least(S) /\ m \in Nat /\ Least(S) \in Nat
  BY <1>1
<1> QED
  BY <1>1, <1>2

\* The constants of FileBlocks, one by one.
LEMMA FBFacts ==
    /\ WordBits \in Nat /\ WordBits > 0 /\ GroupBits \in Nat /\ GroupBits > 0
    /\ NrGroups \in Nat /\ NrReserved \in Nat /\ NrReserved > 0
    /\ StartBit \in Nat /\ NrReserved <= StartBit
    /\ StartBit < WordBits /\ StartBit < GroupBits
    /\ Direct \in Nat /\ Direct > 0 /\ PerBlock \in Nat /\ PerBlock > 0
    /\ BlockSize \in Nat /\ BlockSize > 0 /\ BlocksPerPage \in Nat /\ BlocksPerPage > 0
    /\ MaxLen \in Nat
  BY FBAssumption

\* The bitmap ends with a word if its last bit is the last of a word.
LEMMA LastWord ==
    \E last \in Nat :
        /\ last = (GroupBits - 1) \div WordBits /\ last * WordBits \in Nat
        /\ last * WordBits <= GroupBits - 1 /\ GroupBits - 1 < last * WordBits + WordBits
        /\ (GroupBits - 1) % WordBits = WordBits - 1 <=> GroupBits % WordBits = 0
        /\ GroupBits % WordBits = 0 => last * WordBits = GroupBits - WordBits
<1>1. PICK last \in Nat :
          /\ last = (GroupBits - 1) \div WordBits /\ last * WordBits \in Nat
          /\ last * WordBits <= GroupBits - 1 /\ GroupBits - 1 < last * WordBits + WordBits
  BY FBFacts, Floor
<1>2. PICK r \in 0 .. WordBits - 1 :
          r = (GroupBits - 1) % WordBits /\ GroupBits - 1 = WordBits * last + r
  BY <1>1, FBFacts, DivMod
<1>3. WordBits * last = last * WordBits
  BY FBFacts
<1>4. CASE r = WordBits - 1
  <2>1. WordBits * (last + 1) + 0 = WordBits * last + WordBits
    BY FBFacts
  <2>2. GroupBits = WordBits * (last + 1) + 0
    BY <1>1, <1>2, <1>3, <1>4, <2>1, FBFacts
  <2>3. GroupBits % WordBits = 0
    BY <2>2, FBFacts, Unique
  <2> QED
    BY <1>1, <1>2, <1>3, <1>4, <2>3, FBFacts
<1>5. CASE r # WordBits - 1
  <2>1. r + 1 \in 0 .. WordBits - 1 /\ GroupBits = WordBits * last + (r + 1)
    BY <1>1, <1>2, <1>3, <1>5, FBFacts
  <2>2. GroupBits % WordBits = r + 1
    BY <2>1, FBFacts, Unique
  <2>3. r + 1 # 0 /\ r \in Nat
    BY FBFacts
  <2> QED
    BY <1>1, <1>2, <1>5, <2>2, <2>3
<1> QED
  BY <1>4, <1>5

\* The bits that find_next_bit cannot see.
Unseen(shifted) ==
    IF GroupBits % WordBits = 0 /\ shifted = 1 THEN GroupBits - WordBits .. GroupBits - 1 ELSE {}
ClearBits(bits, shifted) == (StartBit .. GroupBits - 1) \ (bits \cup Unseen(shifted))

\* find_next_bit goes word by word, and finds the first clear bit it can see.
LEMMA FirstClear ==
    ASSUME NEW bits, NEW shifted
    PROVE  FindNextBit(bits, GroupBits, StartBit, shifted)
             = IF ClearBits(bits, shifted) = {} THEN GroupBits
               ELSE Least(ClearBits(bits, shifted))
<1>1. PICK last \in Nat :
        /\ last = (GroupBits - 1) \div WordBits /\ last * WordBits \in Nat
        /\ last * WordBits <= GroupBits - 1 /\ GroupBits - 1 < last * WordBits + WordBits
        /\ (GroupBits - 1) % WordBits = WordBits - 1 <=> GroupBits % WordBits = 0
        /\ GroupBits % WordBits = 0 => last * WordBits = GroupBits - WordBits
  BY LastWord
<1> DEFINE hides == MaskIsZero(GroupBits, shifted)
           clear == ClearBits(bits, shifted)
           of(w) == {b \in w * WordBits .. (w + 1) * WordBits - 1 :
                        b \notin bits /\ (w = 0 => b >= StartBit)}
           words == {w \in 0 .. last : of(w) # {}}
           found == {b \in of(Least(words)) : Least(words) = last => b < GroupBits /\ ~hides}
<1>2. FindNextBit(bits, GroupBits, StartBit, shifted)
        = IF words = {} \/ found = {} THEN GroupBits ELSE Least(found)
  BY <1>1 DEF FindNextBit
<1>3. words \in SUBSET Nat /\ \A w \in words : w <= last
  OBVIOUS
<1>4. ASSUME NEW b
      PROVE  b \in clear <=> /\ b \in Nat /\ StartBit <= b /\ b < GroupBits /\ b \notin bits
                             /\ b < last * WordBits \/ ~hides
  BY <1>1, FBFacts DEF ClearBits, Unseen, MaskIsZero
<1> HIDE DEF clear, hides
<1>5. ASSUME NEW w \in Nat
      PROVE  /\ w * WordBits \in Nat /\ (w + 1) * WordBits = w * WordBits + WordBits
             /\ w # 0 => w * WordBits >= WordBits
             /\ w < last => w * WordBits + WordBits <= last * WordBits
  <2>1. w # 0 => w * WordBits >= 1 * WordBits
    BY FBFacts
  <2>2. w < last => (w + 1) * WordBits <= last * WordBits
    BY <1>1, FBFacts
  <2>3. w * WordBits \in Nat /\ (w + 1) * WordBits = w * WordBits + WordBits
    BY FBFacts
  <2> QED
    BY <2>1, <2>2, <2>3, FBFacts
<1>6. ASSUME NEW w \in Nat, w <= last, NEW b \in of(w), w = last => b < GroupBits /\ ~hides
      PROVE  /\ b \in clear /\ b \in Nat
             /\ w * WordBits <= b /\ b < w * WordBits + WordBits
  <2>1. /\ b \in Int /\ b \notin bits /\ (w = 0 => b >= StartBit)
        /\ w * WordBits <= b /\ b < w * WordBits + WordBits
    BY <1>5, FBFacts
  <2>2. b \in Nat /\ StartBit <= b
    BY <1>5, <2>1, FBFacts
  <2>3. w # last => b < last * WordBits /\ b < GroupBits
    <3>1. w # last => w < last
      BY <1>6
    <3> QED
      BY <1>1, <1>5, <2>1, <2>2, <3>1, FBFacts
  <2> QED
    BY <1>4, <1>6, <2>1, <2>2, <2>3
<1>7. ASSUME NEW b \in clear
      PROVE  \E w \in words : /\ b \in of(w) /\ b \in Nat
                              /\ w = last => b < GroupBits /\ ~hides
                              /\ w * WordBits \in Nat
                              /\ w * WordBits <= b /\ b < w * WordBits + WordBits
  <2>1. b \in Nat /\ b \notin bits /\ b <= GroupBits - 1 /\ StartBit <= b
        /\ b < GroupBits /\ (b < last * WordBits \/ ~hides)
    BY <1>4, FBFacts
  <2>2. PICK w \in Nat : /\ w = b \div WordBits /\ w * WordBits \in Nat
                         /\ w * WordBits <= b /\ b < w * WordBits + WordBits
    BY <2>1, FBFacts, Floor
  <2>3. b \in of(w)
    BY <1>5, <2>1, <2>2
  <2>4. w <= last
    <3>1. SUFFICES ASSUME last + 1 <= w PROVE FALSE
      BY <1>1
    <3>2. (last + 1) * WordBits <= w * WordBits
      BY <1>1, <3>1, FBFacts
    <3> QED
      BY <1>1, <1>5, <2>1, <2>2, <3>2, FBFacts
  <2>5. w \in words
    BY <2>3, <2>4
  <2>6. w = last => ~hides
    BY <1>1, <2>1, <2>2
  <2> QED
    BY <2>1, <2>2, <2>3, <2>5, <2>6
<1> HIDE DEF of
<1>8. CASE clear = {}
  <2>1. words # {} => found = {}
    <3>1. SUFFICES ASSUME words # {}, NEW b \in found PROVE FALSE
      OBVIOUS
    <3>2. Least(words) \in Nat /\ Least(words) <= last
      BY <1>3, <3>1, LeastIs
    <3> QED
      BY <1>6, <1>8, <3>1, <3>2
  <2> QED
    BY <1>2, <1>8, <2>1 DEF clear
<1>9. CASE clear # {}
  <2>1. clear \in SUBSET Nat
    BY <1>7
  <2>2. PICK c \in clear : \A b \in clear : c <= b
    BY <1>9, <2>1, LeastOne
  <2>3. PICK w \in words : /\ c \in of(w) /\ c \in Nat
                           /\ w = last => c < GroupBits /\ ~hides
                           /\ w * WordBits \in Nat
                           /\ w * WordBits <= c /\ c < w * WordBits + WordBits
    BY <1>7
  <2>4. c < GroupBits /\ w \in Nat /\ w <= last
    BY <1>3, <1>4, <2>2
  <2>5. ASSUME NEW v \in words PROVE w <= v
    <3>1. SUFFICES ASSUME v + 1 <= w PROVE FALSE
      BY <1>3, <2>4
    <3>2. v \in Nat /\ v < last /\ v <= last
      BY <1>1, <1>3, <2>4, <3>1
    <3>3. PICK b \in of(v) : TRUE
      OBVIOUS
    <3>4. (v + 1) * WordBits <= w * WordBits
      BY <2>4, <3>1, <3>2, FBFacts
    <3>5. b \in clear /\ b \in Nat /\ b < v * WordBits + WordBits
      BY <1>6, <3>2, <3>3
    <3>6. v * WordBits + WordBits <= w * WordBits /\ v * WordBits \in Nat
      BY <1>5, <3>2, <3>4
    <3>7. b < c
      BY <2>3, <3>5, <3>6, FBFacts
    <3>8. c <= b
      BY <2>2, <3>5
    <3> QED
      BY <2>3, <3>5, <3>7, <3>8
  <2>6. Least(words) = w
    BY <1>3, <2>3, <2>5, LeastIsOne
  <2>7. c \in found
    BY <2>3, <2>6
  <2>8. ASSUME NEW b \in found PROVE b \in Nat /\ b \in clear
    <3>1. b \in of(w) /\ (w = last => b < GroupBits /\ ~hides)
      BY <2>6
    <3> QED
      BY <1>6, <2>4, <3>1
  <2> HIDE DEF found
  <2>9. Least(found) = c
    <3>1. found \in SUBSET Nat
      BY <2>8
    <3>2. \A b \in found : c <= b
      BY <2>2, <2>8
    <3> QED
      BY <2>7, <3>1, <3>2, LeastIsOne
  <2>10. Least(clear) = c
    BY <2>1, <2>2, LeastIsOne
  <2> QED
    BY <1>2, <1>9, <2>3, <2>7, <2>9, <2>10 DEF clear
<1> QED
  BY <1>8, <1>9

\* find_next_bit (filesystem-block-manager/test.cpp) finds the first clear bit it can see, for
\* any sizes of the words and the bitmap, whatever bits are set and whatever a shift by the
\* width of a word gives.
THEOREM SearchFindsFirst == Spec => []SearchIsFirstClear
<1>1. SearchIsFirstClear
  BY FirstClear DEF SearchIsFirstClear, Found, ClearBits, Unseen
<1> QED
  BY <1>1, PTL

-----------------------------------------------------------------------------
(* The tree of blocks.                                                       *)

\* The pointers of an inode and of a block, the blocks of a file.
Places == 0 .. Direct
Offsets == 0 .. PerBlock - 1
Numbers == 0 .. MaxBlocks - 1

\* Where pointers are: in an inode, or in a block.
Slots == {<<"inode", i, n>> : i \in Inodes, n \in Places}
         \cup {<<"block", b, n>> : b \in Blocks, n \in Offsets}
Val(f, s) == IF s[1] = "inode" THEN f.data[s[2]][s[3]] ELSE f.pointers[s[2]][s[3]]

Targets(f) == {Val(f, s) : s \in Slots} \ {NoBlock}
Bits(f) == {b \in Blocks : b % GroupBits \in f.used[b \div GroupBits]}
ReservedBlocks == {GroupBits * g + n : g \in Groups, n \in Reserved}

FsType(f) ==
    f \in [used : [Groups -> SUBSET (0 .. GroupBits - 1)],
           data : [Inodes -> [Places -> Blocks \cup {NoBlock}]],
           pointers : [Blocks -> [Offsets -> Blocks \cup {NoBlock}]],
           mapped : [Inodes -> [Numbers -> Blocks \cup {NoBlock}]],
           failed : BOOLEAN, shifted : {0, 1}]

\* A pointer block: the one an inode refers to, or one that this one does.
IsIndex(f, b) ==
    b # NoBlock /\ \E i \in Inodes :
        \/ b = f.data[i][Direct]
        \/ f.data[i][Direct] # NoBlock
           /\ \E m \in Offsets : b = f.pointers[f.data[i][Direct]][m]

OneReference(f) ==
    \A s, t \in Slots : Val(f, s) = Val(f, t) /\ Val(f, s) # NoBlock => s = t
BitsAreTargets(f) ==
    Targets(f) \cap ReservedBlocks = {} /\ Bits(f) = Targets(f) \cup ReservedBlocks
OnlyIndexPoints(f) ==
    \A b \in Blocks : \A n \in Offsets : f.pointers[b][n] # NoBlock => IsIndex(f, b)
MappedAsTree(f) ==
    \A i \in Inodes : \A n \in Numbers :
        f.mapped[i][n] # NoBlock => f.mapped[i][n] = Lookup(f, i, n)

FsInv(f) ==
    /\ FsType(f) /\ OneReference(f) /\ BitsAreTargets(f)
    /\ OnlyIndexPoints(f) /\ MappedAsTree(f)

\* What is set stays.
Keeps(f, g) == \A s \in Slots : Val(f, s) # NoBlock => Val(g, s) = Val(f, s)
Grows(f, g) ==
    /\ Keeps(f, g)
    /\ \A i \in Inodes : \A n \in Numbers :
           f.mapped[i][n] # NoBlock => g.mapped[i][n] = f.mapped[i][n]

\* A pointer of an inode is a slot,
LEMMA InodeSlot ==
    ASSUME NEW f, NEW i \in Inodes, NEW n \in Places
    PROVE  <<"inode", i, n>> \in Slots /\ Val(f, <<"inode", i, n>>) = f.data[i][n]
  BY DEF Slots, Val

\* and so is a pointer of a block.
LEMMA BlockSlot ==
    ASSUME NEW f, NEW b \in Blocks, NEW n \in Offsets
    PROVE  <<"block", b, n>> \in Slots /\ Val(f, <<"block", b, n>>) = f.pointers[b][n]
  BY DEF Slots, Val

\* One block, one place that refers to it.
LEMMA OneInInodes ==
    ASSUME NEW f, OneReference(f), NEW i \in Inodes, NEW n \in Places,
           NEW j \in Inodes, NEW m \in Places,
           f.data[i][n] = f.data[j][m], f.data[i][n] # NoBlock
    PROVE  i = j /\ n = m
<1>1. PICK s \in Slots : s = <<"inode", i, n>> /\ Val(f, s) = f.data[i][n]
  BY InodeSlot
<1>2. PICK t \in Slots : t = <<"inode", j, m>> /\ Val(f, t) = f.data[j][m]
  BY InodeSlot
<1>3. s = t
  BY <1>1, <1>2 DEF OneReference
<1> QED
  BY <1>1, <1>2, <1>3

\* Two pointer blocks do not refer to one block,
LEMMA OneInBlocks ==
    ASSUME NEW f, OneReference(f), NEW b \in Blocks, NEW n \in Offsets,
           NEW c \in Blocks, NEW m \in Offsets,
           f.pointers[b][n] = f.pointers[c][m], f.pointers[b][n] # NoBlock
    PROVE  b = c /\ n = m
<1>1. PICK s \in Slots : s = <<"block", b, n>> /\ Val(f, s) = f.pointers[b][n]
  BY BlockSlot
<1>2. PICK t \in Slots : t = <<"block", c, m>> /\ Val(f, t) = f.pointers[c][m]
  BY BlockSlot
<1>3. s = t
  BY <1>1, <1>2 DEF OneReference
<1> QED
  BY <1>1, <1>2, <1>3

\* nor do an inode and a pointer block.
LEMMA NotInBoth ==
    ASSUME NEW f, OneReference(f), NEW i \in Inodes, NEW n \in Places,
           NEW b \in Blocks, NEW m \in Offsets,
           f.data[i][n] = f.pointers[b][m], f.data[i][n] # NoBlock
    PROVE  FALSE
<1>1. PICK s \in Slots : s = <<"inode", i, n>> /\ Val(f, s) = f.data[i][n]
  BY InodeSlot
<1>2. PICK t \in Slots : t = <<"block", b, m>> /\ Val(f, t) = f.pointers[b][m]
  BY BlockSlot
<1>3. s = t
  BY <1>1, <1>2 DEF OneReference
<1> QED
  BY <1>1, <1>2, <1>3

\* The number of a block says its group and its bit.
LEMMA NumberIs ==
    ASSUME NEW g \in Groups, NEW n \in 0 .. GroupBits - 1
    PROVE  /\ GroupBits * g + n \in Blocks
           /\ (GroupBits * g + n) \div GroupBits = g /\ (GroupBits * g + n) % GroupBits = n
<1>1. g \in Nat /\ n \in Nat /\ n < GroupBits /\ g + 1 <= NrGroups
  BY FBFacts DEF Groups
<1>2. (GroupBits * g + n) \div GroupBits = g /\ (GroupBits * g + n) % GroupBits = n
  BY <1>1, FBFacts, Unique
<1>3. (g + 1) * GroupBits <= NrGroups * GroupBits
  BY <1>1, FBFacts
<1>4. (g + 1) * GroupBits = GroupBits * g + GroupBits /\ GroupBits * g \in Nat
      /\ NrGroups * GroupBits \in Nat
  BY <1>1, FBFacts
<1> QED
  BY <1>1, <1>2, <1>3, <1>4, FBFacts DEF Blocks

\* A block has a group and a bit in its bitmap.
LEMMA BlockIs ==
    ASSUME NEW b \in Blocks
    PROVE  /\ b \in Nat /\ b \div GroupBits \in Groups /\ b % GroupBits \in 0 .. GroupBits - 1
           /\ b = GroupBits * (b \div GroupBits) + (b % GroupBits)
           /\ NoBlock \in Blocks
<1>1. b \in Nat /\ b < NrGroups * GroupBits /\ NrGroups * GroupBits \in Nat
  <2>1. NrGroups * GroupBits \in Nat
    BY FBFacts
  <2> QED
    BY <2>1 DEF Blocks
<1>2. PICK q \in Nat : /\ q = b \div GroupBits /\ q * GroupBits <= b /\ q * GroupBits \in Nat
  BY <1>1, FBFacts, Floor
<1>3. q < NrGroups
  <2>1. SUFFICES ASSUME q >= NrGroups PROVE FALSE
    BY <1>2, FBFacts
  <2>2. NrGroups * GroupBits <= q * GroupBits
    BY <1>2, <2>1, FBFacts
  <2> QED
    BY <1>1, <1>2, <2>2
<1>4. b % GroupBits \in 0 .. GroupBits - 1 /\ b = GroupBits * (b \div GroupBits) + (b % GroupBits)
  BY <1>1, FBFacts, DivMod
<1> QED
  BY <1>1, <1>2, <1>3, <1>4, FBFacts DEF Groups, Blocks, NoBlock

\* Block 0, which stands for no block, is reserved.
LEMMA ZeroIsReserved ==
    ASSUME NEW b \in Blocks
    PROVE  NoBlock \in ReservedBlocks
<1>1. 0 \in Groups /\ 0 \in Reserved
  <2>1. b \div GroupBits \in Groups
    BY BlockIs
  <2> QED
    BY <2>1, FBFacts DEF Groups, Reserved
<1>2. GroupBits * 0 + 0 = NoBlock
  BY FBFacts DEF NoBlock
<1> QED
  BY <1>1, <1>2 DEF ReservedBlocks

\* Where a block behind the direct ones has its pointers.
LEMMA OffsetsOf ==
    ASSUME NEW n \in Numbers, ~(n < Direct)
    PROVE  /\ (n - Direct) \div PerBlock \in Offsets /\ (n - Direct) % PerBlock \in Offsets
           /\ n - Direct = PerBlock * ((n - Direct) \div PerBlock) + ((n - Direct) % PerBlock)
<1>1. PICK k \in Nat : k = n - Direct /\ k < PerBlock * PerBlock
  <2>1. PerBlock * PerBlock \in Nat
    BY FBFacts
  <2> QED
    BY <2>1, FBFacts DEF MaxBlocks, Numbers
<1>2. PICK m \in Nat, r \in Nat :
          /\ m = k \div PerBlock /\ r = k % PerBlock /\ k = PerBlock * m + r
          /\ r < PerBlock
  <2>1. k \in Int
    OBVIOUS
  <2>2. k \div PerBlock \in Nat
    BY FBFacts, Floor
  <2>3. k % PerBlock \in 0 .. PerBlock - 1 /\ k = PerBlock * (k \div PerBlock) + (k % PerBlock)
    BY <2>1, FBFacts, DivMod
  <2>4. k % PerBlock \in Nat /\ k % PerBlock < PerBlock
    BY <2>3, FBFacts
  <2> QED
    BY <2>2, <2>3, <2>4
<1>3. m < PerBlock
  <2>1. SUFFICES ASSUME m >= PerBlock PROVE FALSE
    BY <1>2, FBFacts
  <2>2. PerBlock * PerBlock <= PerBlock * m /\ PerBlock * m \in Nat /\ PerBlock * PerBlock \in Nat
    BY <1>2, <2>1, FBFacts
  <2>3. PerBlock * m <= k
    BY <1>2, <2>2
  <2> QED
    BY <1>1, <2>2, <2>3
<1>4. m \in Offsets /\ r \in Offsets
  BY <1>2, <1>3, FBFacts DEF Offsets
<1> QED
  BY <1>1, <1>2, <1>4

\* The path to a block of the file, where the tree gives one.
LEMMA Path ==
    ASSUME NEW f, FsInv(f), NEW i \in Inodes, NEW n \in Numbers,
           Lookup(f, i, n) \in Blocks \ {NoBlock}
    PROVE  \/ /\ n < Direct /\ n \in Places /\ Lookup(f, i, n) = f.data[i][n]
           \/ /\ ~(n < Direct)
              /\ \E top, second \in Blocks \ {NoBlock}, m, r \in Offsets :
                    /\ m = (n - Direct) \div PerBlock /\ r = (n - Direct) % PerBlock
                    /\ n - Direct = PerBlock * m + r
                    /\ top = f.data[i][Direct] /\ second = f.pointers[top][m]
                    /\ Lookup(f, i, n) = f.pointers[second][r]
<1>1. CASE n < Direct
  BY <1>1, FBFacts DEF Lookup, Places, Numbers
<1>2. CASE ~(n < Direct)
  <2>1. PICK m \in Offsets, r \in Offsets :
            /\ m = (n - Direct) \div PerBlock /\ r = (n - Direct) % PerBlock
            /\ n - Direct = PerBlock * m + r
    BY <1>2, OffsetsOf
  <2>4. PICK top : top = f.data[i][Direct] /\ top \in Blocks \cup {NoBlock}
    <3>1. Direct \in Places
      BY FBFacts DEF Places
    <3> QED
      BY <3>1 DEF FsInv, FsType
  <2>5. NoBlock \in Blocks /\ \A x \in Offsets : f.pointers[NoBlock][x] = NoBlock
    <3>1. NoBlock \in Blocks
      BY BlockIs
    <3> QED
      BY <3>1 DEF FsInv, OnlyIndexPoints, IsIndex
  <2>6. PICK second : second = f.pointers[top][m] /\ second \in Blocks \cup {NoBlock}
    <3>1. top \in Blocks
      BY <2>4, <2>5
    <3>2. f.pointers \in [Blocks -> [Offsets -> Blocks \cup {NoBlock}]]
      BY DEF FsInv, FsType
    <3> QED
      BY <2>1, <3>1, <3>2
  <2>7. Lookup(f, i, n) = f.pointers[second][r]
    BY <1>2, <2>1, <2>4, <2>6 DEF Lookup
  <2>8. second # NoBlock
    BY <2>1, <2>5, <2>7
  <2>10. top # NoBlock
    BY <2>1, <2>5, <2>6, <2>8
  <2> QED
    BY <1>2, <2>1, <2>4, <2>6, <2>7, <2>8, <2>10
<1> QED
  BY <1>1, <1>2

\* No two blocks of files are one block of the disk.
LEMMA LookupIsOne ==
    ASSUME NEW f, FsInv(f), NEW i \in Inodes, NEW n \in Numbers,
           NEW j \in Inodes, NEW m \in Numbers,
           Lookup(f, i, n) \in Blocks \ {NoBlock}, Lookup(f, j, m) = Lookup(f, i, n)
    PROVE  i = j /\ n = m
<1>1. OneReference(f)
  BY DEF FsInv
<1>2. CASE n < Direct /\ m < Direct
  <2>1. Lookup(f, i, n) = f.data[i][n] /\ n \in Places
        /\ Lookup(f, j, m) = f.data[j][m] /\ m \in Places
    BY <1>2, Path
  <2> QED
    BY <1>1, <2>1, OneInInodes
<1>3. CASE n < Direct /\ ~(m < Direct)
  <2>1. Lookup(f, i, n) = f.data[i][n] /\ n \in Places
    BY <1>3, Path
  <2>2. PICK second \in Blocks \ {NoBlock}, r \in Offsets :
            Lookup(f, j, m) = f.pointers[second][r]
    BY <1>3, Path
  <2> QED
    BY <1>1, <2>1, <2>2, NotInBoth
<1>4. CASE ~(n < Direct) /\ m < Direct
  <2>1. Lookup(f, j, m) = f.data[j][m] /\ m \in Places
    BY <1>4, Path
  <2>2. PICK second \in Blocks \ {NoBlock}, r \in Offsets :
            Lookup(f, i, n) = f.pointers[second][r]
    BY <1>4, Path
  <2> QED
    BY <1>1, <2>1, <2>2, NotInBoth
<1>5. CASE ~(n < Direct) /\ ~(m < Direct)
  <2>1. PICK t1, s1 \in Blocks \ {NoBlock}, m1, r1 \in Offsets :
            /\ n - Direct = PerBlock * m1 + r1
            /\ t1 = f.data[i][Direct] /\ s1 = f.pointers[t1][m1]
            /\ Lookup(f, i, n) = f.pointers[s1][r1]
    BY <1>5, Path
  <2>2. PICK t2, s2 \in Blocks \ {NoBlock}, m2, r2 \in Offsets :
            /\ m - Direct = PerBlock * m2 + r2
            /\ t2 = f.data[j][Direct] /\ s2 = f.pointers[t2][m2]
            /\ Lookup(f, j, m) = f.pointers[s2][r2]
    BY <1>5, Path
  <2>3. s1 = s2 /\ r1 = r2
    <3>1. s1 \in Blocks /\ s2 \in Blocks /\ f.pointers[s1][r1] = f.pointers[s2][r2]
          /\ f.pointers[s1][r1] # NoBlock
      BY <2>1, <2>2
    <3> QED
      BY <1>1, <3>1, OneInBlocks
  <2>4. t1 = t2 /\ m1 = m2
    <3>1. t1 \in Blocks /\ t2 \in Blocks /\ f.pointers[t1][m1] = f.pointers[t2][m2]
          /\ f.pointers[t1][m1] # NoBlock
      BY <2>1, <2>2, <2>3
    <3> QED
      BY <1>1, <3>1, OneInBlocks
  <2>5. i = j
    <3>1. Direct \in Places
      BY FBFacts DEF Places
    <3>2. f.data[i][Direct] = f.data[j][Direct] /\ f.data[i][Direct] # NoBlock
      BY <2>1, <2>2, <2>4
    <3> QED
      BY <1>1, <3>1, <3>2, OneInInodes
  <2>6. n - Direct = m - Direct
    BY <2>1, <2>2, <2>3, <2>4
  <2>7. n \in Int /\ m \in Int /\ Direct \in Int
    BY FBFacts DEF Numbers
  <2> QED
    BY <2>5, <2>6, <2>7
<1> QED
  BY <1>2, <1>3, <1>4, <1>5

\* Pointers that are set stay: those of an inode,
LEMMA DataStays ==
    ASSUME NEW f, NEW g, Keeps(f, g), NEW i \in Inodes, NEW n \in Places,
           f.data[i][n] # NoBlock
    PROVE  g.data[i][n] = f.data[i][n]
<1>1. PICK s \in Slots : s = <<"inode", i, n>>
  BY InodeSlot
<1> QED
  BY <1>1 DEF Keeps, Val

\* and those of a pointer block.
LEMMA PointerStays ==
    ASSUME NEW f, NEW g, Keeps(f, g), NEW b \in Blocks, NEW n \in Offsets,
           f.pointers[b][n] # NoBlock
    PROVE  g.pointers[b][n] = f.pointers[b][n]
<1>1. PICK s \in Slots : s = <<"block", b, n>>
  BY BlockSlot
<1> QED
  BY <1>1 DEF Keeps, Val

\* What the tree gives it goes on giving.
LEMMA LookupStays ==
    ASSUME NEW f, FsInv(f), NEW g, FsType(g),
           Keeps(f, g), NEW i \in Inodes, NEW n \in Numbers,
           Lookup(f, i, n) \in Blocks \ {NoBlock}
    PROVE  Lookup(g, i, n) = Lookup(f, i, n)
<1>1. CASE n < Direct
  <2>1. Lookup(f, i, n) = f.data[i][n] /\ n \in Places /\ Lookup(g, i, n) = g.data[i][n]
    BY <1>1, Path DEF Lookup
  <2> QED
    BY <2>1, DataStays
<1>2. CASE ~(n < Direct)
  <2>1. PICK top, second \in Blocks \ {NoBlock}, m, r \in Offsets :
            /\ m = (n - Direct) \div PerBlock /\ r = (n - Direct) % PerBlock
            /\ top = f.data[i][Direct] /\ second = f.pointers[top][m]
            /\ Lookup(f, i, n) = f.pointers[second][r]
    BY <1>2, Path
  <2>2. g.data[i][Direct] = top
    <3>1. Direct \in Places
      BY FBFacts DEF Places
    <3> QED
      BY <2>1, <3>1, DataStays
  <2>3. g.pointers[top][m] = second
    <3>1. top \in Blocks /\ f.pointers[top][m] # NoBlock
      BY <2>1
    <3> QED
      BY <2>1, <3>1, PointerStays
  <2>4. g.pointers[second][r] = f.pointers[second][r]
    <3>1. second \in Blocks /\ f.pointers[second][r] # NoBlock
      BY <2>1
    <3> QED
      BY <3>1, PointerStays
  <2> QED
    BY <1>2, <2>1, <2>2, <2>3, <2>4 DEF Lookup
<1> QED
  BY <1>1, <1>2

-----------------------------------------------------------------------------
(* Taking a block.                                                           *)

\* __get_block sets a clear bit, and returns its block.
LEMMA TakeIs ==
    ASSUME NEW f, FsInv(f), ~Take(f).failed
    PROVE  \E g \in Groups, n \in 0 .. GroupBits - 1 :
              /\ n \notin f.used[g] /\ NewBlock(f) = GroupBits * g + n
              /\ Take(f) = [f EXCEPT !.used[g] = @ \cup {n}]
              /\ ~f.failed
<1>1. f.failed \in BOOLEAN /\ Take(f).failed = (f.failed \/ GroupsWithRoom(f) = {})
  BY DEF FsInv, FsType, Take
<1>2. GroupsWithRoom(f) # {} /\ ~f.failed
  BY <1>1
<1>3. PICK g \in Groups : g = Least(GroupsWithRoom(f)) /\ Found(f, g) < GroupBits
  <2>1. GroupsWithRoom(f) \in SUBSET Nat
    BY FBFacts DEF GroupsWithRoom, Groups
  <2>2. Least(GroupsWithRoom(f)) \in GroupsWithRoom(f)
    BY <1>2, <2>1, LeastIs
  <2> QED
    BY <2>2 DEF GroupsWithRoom
<1>4. PICK n : n = Found(f, g) /\ n < GroupBits
  BY <1>3
<1> DEFINE clear == ClearBits(f.used[g], f.shifted)
<1>5. n = IF clear = {} THEN GroupBits ELSE Least(clear)
  BY <1>4, FirstClear DEF Found
<1>6. clear # {}
  BY <1>4, <1>5, FBFacts
<1>7. clear \in SUBSET Nat
  BY FBFacts DEF ClearBits
<1>8. n \in clear
  <2> HIDE DEF clear
  <2> QED
    BY <1>5, <1>6, <1>7, LeastIs
<1>9. n \in 0 .. GroupBits - 1 /\ n \notin f.used[g]
  BY <1>8, FBFacts DEF ClearBits
<1>10. NewBlock(f) = GroupBits * g + n
  BY <1>2, <1>3, <1>4 DEF NewBlock, NumberOf
<1>11. Take(f) = [f EXCEPT !.used[g] = @ \cup {n}]
  BY <1>2, <1>3, <1>4 DEF Take
<1> QED
  BY <1>2, <1>9, <1>10, <1>11

\* h is f with a block v that was free.
Took(f, h, v) ==
    /\ h = [f EXCEPT !.used = h.used] /\ h.used \in [Groups -> SUBSET (0 .. GroupBits - 1)]
    /\ v \in Blocks /\ v \notin Bits(f) /\ v # NoBlock
    /\ Bits(h) = Bits(f) \cup {v}

\* __get_block without failure: one bit more is set, that of a free block.
LEMMA TookOne ==
    ASSUME NEW f, FsInv(f), ~Take(f).failed
    PROVE  Took(f, Take(f), NewBlock(f)) /\ ~f.failed
<1>1. PICK g \in Groups, n \in 0 .. GroupBits - 1 :
          /\ n \notin f.used[g] /\ NewBlock(f) = GroupBits * g + n
          /\ Take(f) = [f EXCEPT !.used[g] = @ \cup {n}]
          /\ ~f.failed
  BY TakeIs
<1>2. PICK v \in Blocks : /\ v = NewBlock(f) /\ v = GroupBits * g + n
                          /\ v \div GroupBits = g /\ v % GroupBits = n
  BY <1>1, NumberIs
<1>3. f.used \in [Groups -> SUBSET (0 .. GroupBits - 1)]
  BY DEF FsInv, FsType
<1>4. PICK h : h = Take(f)
  OBVIOUS
<1>5. h = [f EXCEPT !.used = [f.used EXCEPT ![g] = @ \cup {n}]]
  BY <1>1, <1>4
<1>6. h.used = [f.used EXCEPT ![g] = @ \cup {n}] /\ h = [f EXCEPT !.used = h.used]
  BY <1>5 DEF FsInv, FsType
<1>7. h.used \in [Groups -> SUBSET (0 .. GroupBits - 1)]
  BY <1>3, <1>6
<1>8. v \notin Bits(f)
  BY <1>1, <1>2 DEF Bits
<1>9. v # NoBlock
  <2>1. ReservedBlocks \subseteq Bits(f)
    BY DEF FsInv, BitsAreTargets
  <2> QED
    BY <1>8, <2>1, ZeroIsReserved
<1>10. Bits(h) = Bits(f) \cup {v}
  <2>1. ASSUME NEW b \in Blocks
        PROVE  b % GroupBits \in h.used[b \div GroupBits]
                 <=> b % GroupBits \in f.used[b \div GroupBits] \/ b = v
    <3>1. PICK q \in Groups, r \in 0 .. GroupBits - 1 :
              q = b \div GroupBits /\ r = b % GroupBits /\ b = GroupBits * q + r
      BY BlockIs
    <3>2. b = v <=> q = g /\ r = n
      BY <1>2, <3>1
    <3>3. CASE q = g
      <4>1. h.used[q] = f.used[g] \cup {n}
        BY <1>3, <1>6, <3>3
      <4> QED
        BY <3>1, <3>2, <3>3, <4>1
    <3>4. CASE q # g
      <4>1. h.used[q] = f.used[q]
        BY <1>3, <1>6, <3>4
      <4> QED
        BY <3>1, <3>2, <3>4, <4>1
    <3> QED
      BY <3>3, <3>4
  <2> QED
    BY <2>1 DEF Bits
<1> QED
  BY <1>1, <1>2, <1>4, <1>6, <1>7, <1>8, <1>9, <1>10 DEF Took

Fills(f, g, s, v) == \A t \in Slots : Val(g, t) = IF t = s THEN v ELSE Val(f, t)

\* A pointer that was not set is set to a block that was free.
LEMMA Filled ==
    ASSUME NEW f, FsInv(f), NEW g, FsType(g), g.mapped = f.mapped, NEW v,
           v \in Blocks, v \notin Bits(f), v # NoBlock, Bits(g) = Bits(f) \cup {v},
           NEW s \in Slots, Val(f, s) = NoBlock,
           s[1] = "inode" \/ IsIndex(f, s[2]),
           Fills(f, g, s, v)
    PROVE  FsInv(g) /\ Grows(f, g)
<1>0. \A t \in Slots : Val(g, t) = IF t = s THEN v ELSE Val(f, t)
  BY DEF Fills
<1>1. v \notin Targets(f) /\ v \notin ReservedBlocks
  BY DEF FsInv, BitsAreTargets
<1>2. Targets(g) = Targets(f) \cup {v}
  <2>1. ASSUME NEW x \in Targets(g) PROVE x \in Targets(f) \cup {v}
    <3>1. PICK t \in Slots : x = Val(g, t) /\ x # NoBlock
      BY DEF Targets
    <3> QED
      BY <1>0, <3>1 DEF Targets
  <2>2. ASSUME NEW x \in Targets(f) PROVE x \in Targets(g)
    <3>1. PICK t \in Slots : x = Val(f, t) /\ x # NoBlock
      BY DEF Targets
    <3>2. Val(g, t) = x
      BY <1>0, <3>1
    <3> QED
      BY <3>1, <3>2 DEF Targets
  <2>3. v \in Targets(g)
    BY <1>0 DEF Targets
  <2> QED
    BY <2>1, <2>2, <2>3
<1>3. BitsAreTargets(g)
  BY <1>1, <1>2 DEF FsInv, BitsAreTargets
<1>4. OneReference(g)
  <2> SUFFICES ASSUME NEW t \in Slots, NEW u \in Slots,
                      Val(g, t) = Val(g, u), Val(g, t) # NoBlock
               PROVE  t = u
    BY DEF OneReference
  <2>1. ASSUME NEW x \in Slots PROVE Val(f, x) # v
    BY <1>1 DEF Targets
  <2>2. CASE t = s
    BY <1>0, <2>1, <2>2
  <2>3. CASE u = s
    BY <1>0, <2>1, <2>3
  <2>4. CASE t # s /\ u # s
    <3>1. Val(f, t) = Val(f, u) /\ Val(f, t) # NoBlock
      BY <1>0, <2>4
    <3> QED
      BY <3>1 DEF FsInv, OneReference
  <2> QED
    BY <2>2, <2>3, <2>4
<1>5. Keeps(f, g)
  BY <1>0 DEF Keeps
<1>6. ASSUME NEW b, IsIndex(f, b) PROVE IsIndex(g, b)
  <2>0. Direct \in Places
    BY FBFacts DEF Places
  <2>1. PICK i \in Inodes :
            \/ b = f.data[i][Direct]
            \/ f.data[i][Direct] # NoBlock
               /\ \E m \in Offsets : b = f.pointers[f.data[i][Direct]][m]
    BY <1>6 DEF IsIndex
  <2>2. b # NoBlock
    BY <1>6 DEF IsIndex
  <2>3. CASE b = f.data[i][Direct]
    <3>1. g.data[i][Direct] = b
      BY <1>5, <2>0, <2>2, <2>3, DataStays
    <3> QED
      BY <2>2, <3>1 DEF IsIndex
  <2>4. CASE f.data[i][Direct] # NoBlock
             /\ \E m \in Offsets : b = f.pointers[f.data[i][Direct]][m]
    <3>1. PICK m \in Offsets : b = f.pointers[f.data[i][Direct]][m]
      BY <2>4
    <3>2. g.data[i][Direct] = f.data[i][Direct]
      BY <1>5, <2>0, <2>4, DataStays
    <3>3. f.data[i][Direct] \in Blocks
      <4>1. f.data[i][Direct] \in Blocks \cup {NoBlock}
        BY <2>0 DEF FsInv, FsType
      <4> QED
        BY <2>4, <4>1
    <3>4. g.pointers[f.data[i][Direct]][m] = b
      BY <1>5, <2>2, <3>1, <3>3, PointerStays
    <3> QED
      BY <2>2, <2>4, <3>2, <3>4 DEF IsIndex
  <2> QED
    BY <2>1, <2>3, <2>4
<1>7. OnlyIndexPoints(g)
  <2> SUFFICES ASSUME NEW b \in Blocks, NEW n \in Offsets, g.pointers[b][n] # NoBlock
               PROVE  IsIndex(g, b)
    BY DEF OnlyIndexPoints
  <2>1. PICK t \in Slots : t = <<"block", b, n>> /\ Val(f, t) = f.pointers[b][n]
    BY BlockSlot
  <2>2. Val(g, t) = g.pointers[b][n]
    BY <2>1, BlockSlot
  <2>3. CASE t = s
    <3>1. s[1] = "block" /\ s[2] = b
      BY <2>1, <2>3
    <3> QED
      BY <1>6, <3>1
  <2>4. CASE t # s
    <3>1. f.pointers[b][n] # NoBlock
      BY <1>0, <2>1, <2>2, <2>4
    <3>2. IsIndex(f, b)
      BY <3>1 DEF FsInv, OnlyIndexPoints
    <3> QED
      BY <1>6, <3>2
  <2> QED
    BY <2>3, <2>4
<1>8. MappedAsTree(g)
  <2> SUFFICES ASSUME NEW i \in Inodes, NEW n \in Numbers, g.mapped[i][n] # NoBlock
               PROVE  g.mapped[i][n] = Lookup(g, i, n)
    BY DEF MappedAsTree
  <2>1. f.mapped[i][n] # NoBlock /\ f.mapped[i][n] = Lookup(f, i, n)
    BY DEF FsInv, MappedAsTree
  <2>2. f.mapped[i][n] \in Blocks \cup {NoBlock}
    BY DEF FsInv, FsType
  <2>3. Lookup(f, i, n) \in Blocks \ {NoBlock}
    BY <2>1, <2>2
  <2>4. Lookup(g, i, n) = Lookup(f, i, n)
    BY <1>5, <2>3, LookupStays
  <2> QED
    BY <2>1, <2>4
<1>9. Grows(f, g)
  BY <1>5 DEF Grows
<1> QED
  BY <1>3, <1>4, <1>7, <1>8, <1>9 DEF FsInv

\* The three places get_blocks fills.
LEMMA DataFilled ==
    ASSUME NEW f, FsInv(f), NEW i \in Inodes, NEW n \in Places, f.data[i][n] = NoBlock,
           NEW g, g = [Take(f) EXCEPT !.data[i][n] = NewBlock(f)], ~g.failed
    PROVE  FsInv(g) /\ Grows(f, g) /\ ~f.failed /\ g.data[i][n] \in Blocks \ {NoBlock}
<1>1. ~Take(f).failed
  BY DEF FsInv, FsType, Take
<1>2. PICK h, v : h = Take(f) /\ v = NewBlock(f) /\ Took(f, h, v) /\ ~f.failed
  BY <1>1, TookOne
<1>3. h = [f EXCEPT !.used = h.used]
  BY <1>2 DEF Took
<1>4. h.data = f.data /\ h.pointers = f.pointers /\ h.mapped = f.mapped /\ h.failed = f.failed
  BY <1>3 DEF FsInv, FsType
<1>5. FsType(h)
  BY <1>2, <1>3 DEF Took, FsInv, FsType
<1>6. /\ g.data = [f.data EXCEPT ![i] = [f.data[i] EXCEPT ![n] = v]]
      /\ g.pointers = f.pointers /\ g.mapped = f.mapped /\ g.used = h.used
  BY <1>2, <1>4, <1>5 DEF FsType
<1>7. FsType(g)
  <2>1. g.data \in [Inodes -> [Places -> Blocks \cup {NoBlock}]]
    BY <1>2, <1>6 DEF Took, FsInv, FsType
  <2>2. g = [h EXCEPT !.data = g.data]
    BY <1>2, <1>5 DEF FsType
  <2> QED
    BY <1>5, <2>1, <2>2 DEF FsType
<1>8. /\ f.data \in [Inodes -> [Places -> Blocks \cup {NoBlock}]]
      /\ f.data[i] \in [Places -> Blocks \cup {NoBlock}]
  BY DEF FsInv, FsType
<1>9. PICK s \in Slots : s = <<"inode", i, n>> /\ Val(f, s) = NoBlock
  BY InodeSlot
<1>10. ASSUME NEW t \in Slots PROVE Val(g, t) = IF t = s THEN v ELSE Val(f, t)
  <2>1. CASE \E j \in Inodes, m \in Places : t = <<"inode", j, m>>
    <3>1. PICK j \in Inodes, m \in Places : t = <<"inode", j, m>>
      BY <2>1
    <3>2. Val(g, t) = g.data[j][m] /\ Val(f, t) = f.data[j][m]
      BY <3>1, InodeSlot
    <3>3. g.data[j][m] = IF j = i /\ m = n THEN v ELSE f.data[j][m]
      BY <1>6, <1>8
    <3>4. t = s <=> j = i /\ m = n
      BY <1>9, <3>1
    <3> QED
      BY <3>2, <3>3, <3>4
  <2>2. CASE \E b \in Blocks, m \in Offsets : t = <<"block", b, m>>
    <3>1. PICK b \in Blocks, m \in Offsets : t = <<"block", b, m>>
      BY <2>2
    <3>2. Val(g, t) = g.pointers[b][m] /\ Val(f, t) = f.pointers[b][m]
      BY <3>1, BlockSlot
    <3>3. t # s
      BY <1>9, <3>1
    <3> QED
      BY <1>6, <3>2, <3>3
  <2> QED
    BY <2>1, <2>2 DEF Slots
<1>11. /\ v \in Blocks /\ v \notin Bits(f) /\ v # NoBlock /\ Bits(g) = Bits(f) \cup {v}
  BY <1>2, <1>6 DEF Took, Bits
<1>12. FsInv(g) /\ Grows(f, g)
  <2>1. Fills(f, g, s, v)
    BY <1>10 DEF Fills
  <2>2. s[1] = "inode" \/ IsIndex(f, s[2])
    BY <1>9
  <2>3. Val(f, s) = NoBlock /\ g.mapped = f.mapped
    BY <1>6, <1>9
  <2> QED
    BY <1>7, <1>11, <2>1, <2>2, <2>3, Filled
<1>13. g.data[i][n] = v
  BY <1>6, <1>8
<1> QED
  BY <1>2, <1>11, <1>12, <1>13

\* A block taken for an empty pointer of a pointer block.
LEMMA PointerFilled ==
    ASSUME NEW f, FsInv(f), NEW b \in Blocks, IsIndex(f, b),
           NEW n \in Offsets, f.pointers[b][n] = NoBlock,
           NEW g, g = [Take(f) EXCEPT !.pointers[b][n] = NewBlock(f)], ~g.failed
    PROVE  FsInv(g) /\ Grows(f, g) /\ ~f.failed /\ g.pointers[b][n] \in Blocks \ {NoBlock}
<1>1. ~Take(f).failed
  BY DEF FsInv, FsType, Take
<1>2. PICK h, v : h = Take(f) /\ v = NewBlock(f) /\ Took(f, h, v) /\ ~f.failed
  BY <1>1, TookOne
<1>3. h = [f EXCEPT !.used = h.used]
  BY <1>2 DEF Took
<1>4. h.data = f.data /\ h.pointers = f.pointers /\ h.mapped = f.mapped /\ h.failed = f.failed
  BY <1>3 DEF FsInv, FsType
<1>5. FsType(h)
  BY <1>2, <1>3 DEF Took, FsInv, FsType
<1>6. /\ g.pointers = [f.pointers EXCEPT ![b] = [f.pointers[b] EXCEPT ![n] = v]]
      /\ g.data = f.data /\ g.mapped = f.mapped /\ g.used = h.used
  BY <1>2, <1>4, <1>5 DEF FsType
<1>7. FsType(g)
  <2>1. g.pointers \in [Blocks -> [Offsets -> Blocks \cup {NoBlock}]]
    BY <1>2, <1>6 DEF Took, FsInv, FsType
  <2>2. g = [h EXCEPT !.pointers = g.pointers]
    BY <1>2, <1>5 DEF FsType
  <2> QED
    BY <1>5, <2>1, <2>2 DEF FsType
<1>8. /\ f.pointers \in [Blocks -> [Offsets -> Blocks \cup {NoBlock}]]
      /\ f.pointers[b] \in [Offsets -> Blocks \cup {NoBlock}]
  BY DEF FsInv, FsType
<1>9. PICK s \in Slots : s = <<"block", b, n>> /\ Val(f, s) = NoBlock
  BY BlockSlot
<1>10. ASSUME NEW t \in Slots PROVE Val(g, t) = IF t = s THEN v ELSE Val(f, t)
  <2>1. CASE \E c \in Blocks, m \in Offsets : t = <<"block", c, m>>
    <3>1. PICK c \in Blocks, m \in Offsets : t = <<"block", c, m>>
      BY <2>1
    <3>2. Val(g, t) = g.pointers[c][m] /\ Val(f, t) = f.pointers[c][m]
      BY <3>1, BlockSlot
    <3>3. g.pointers[c][m] = IF c = b /\ m = n THEN v ELSE f.pointers[c][m]
      BY <1>6, <1>8
    <3>4. t = s <=> c = b /\ m = n
      BY <1>9, <3>1
    <3> QED
      BY <3>2, <3>3, <3>4
  <2>2. CASE \E i \in Inodes, m \in Places : t = <<"inode", i, m>>
    <3>1. PICK i \in Inodes, m \in Places : t = <<"inode", i, m>>
      BY <2>2
    <3>2. Val(g, t) = g.data[i][m] /\ Val(f, t) = f.data[i][m]
      BY <3>1, InodeSlot
    <3>3. t # s
      BY <1>9, <3>1
    <3> QED
      BY <1>6, <3>2, <3>3
  <2> QED
    BY <2>1, <2>2 DEF Slots
<1>11. /\ v \in Blocks /\ v \notin Bits(f) /\ v # NoBlock /\ Bits(g) = Bits(f) \cup {v}
  BY <1>2, <1>6 DEF Took, Bits
<1>12. IsIndex(f, s[2])
  BY <1>9
<1>13. FsInv(g) /\ Grows(f, g)
  <2>1. Fills(f, g, s, v)
    BY <1>10 DEF Fills
  <2>2. s[1] = "inode" \/ IsIndex(f, s[2])
    BY <1>12
  <2>3. Val(f, s) = NoBlock /\ g.mapped = f.mapped
    BY <1>6, <1>9
  <2> QED
    BY <1>7, <1>11, <2>1, <2>2, <2>3, Filled
<1>14. g.pointers[b][n] = v
  BY <1>6, <1>8
<1> QED
  BY <1>2, <1>11, <1>13, <1>14

-----------------------------------------------------------------------------
(* Mapping a block of a file.                                                *)

\* A failure is not forgotten, whatever get_blocks goes on with.
IsFs(f) ==
    DOMAIN f = {"used", "data", "pointers", "mapped", "failed", "shifted"} /\ f.failed \in BOOLEAN

\* A failure is remembered by every step of get_blocks and write_inode.
LEMMA TypeIsFs == ASSUME NEW f, FsType(f) PROVE IsFs(f)
  BY DEF FsType, IsFs

LEMMA TakeFails ==
    ASSUME NEW f, IsFs(f)
    PROVE  IsFs(Take(f)) /\ (f.failed => Take(f).failed)
  BY DEF IsFs, Take

LEMMA IndexFails ==
    ASSUME NEW f, IsFs(f), NEW i
    PROVE  IsFs(WithIndex(f, i)) /\ (f.failed => WithIndex(f, i).failed)
<1>1. PICK h, v : h = Take(f) /\ v = NewBlock(f) /\ IsFs(h) /\ (f.failed => h.failed)
  BY TakeFails
<1>2. WithIndex(f, i) = f \/ WithIndex(f, i) = [h EXCEPT !.data[i][Direct] = v]
  BY <1>1 DEF WithIndex
<1>3. IsFs([h EXCEPT !.data[i][Direct] = v]) /\ [h EXCEPT !.data[i][Direct] = v].failed = h.failed
  BY <1>1 DEF IsFs
<1> QED
  BY <1>1, <1>2, <1>3

LEMMA EntryFails ==
    ASSUME NEW f, IsFs(f), NEW b, NEW n
    PROVE  IsFs(WithEntry(f, b, n)) /\ (f.failed => WithEntry(f, b, n).failed)
<1>1. PICK h, v : h = Take(f) /\ v = NewBlock(f) /\ IsFs(h) /\ (f.failed => h.failed)
  BY TakeFails
<1>2. WithEntry(f, b, n) = f \/ WithEntry(f, b, n) = [h EXCEPT !.pointers[b][n] = v]
  BY <1>1 DEF WithEntry
<1>3. IsFs([h EXCEPT !.pointers[b][n] = v]) /\ [h EXCEPT !.pointers[b][n] = v].failed = h.failed
  BY <1>1 DEF IsFs
<1> QED
  BY <1>1, <1>2, <1>3

LEMMA DirectFails ==
    ASSUME NEW f, IsFs(f), NEW i, NEW n
    PROVE  IsFs(WithDirect(f, i, n)) /\ (f.failed => WithDirect(f, i, n).failed)
<1>1. PICK h, v : h = Take(f) /\ v = NewBlock(f) /\ IsFs(h) /\ (f.failed => h.failed)
  BY TakeFails
<1>2. WithDirect(f, i, n) = f \/ WithDirect(f, i, n) = [h EXCEPT !.data[i][n] = v]
  BY <1>1 DEF WithDirect
<1>3. IsFs([h EXCEPT !.data[i][n] = v]) /\ [h EXCEPT !.data[i][n] = v].failed = h.failed
  BY <1>1 DEF IsFs
<1> QED
  BY <1>1, <1>2, <1>3

LEMMA TreeFails ==
    ASSUME NEW f, IsFs(f), NEW i, NEW n
    PROVE  IsFs(WithTree(f, i, n)) /\ (f.failed => WithTree(f, i, n).failed)
<1>1. CASE n < Direct
  BY <1>1, DirectFails DEF WithTree
<1>2. CASE ~(n < Direct)
  <2>1. PICK f1 : f1 = WithIndex(f, i) /\ IsFs(f1) /\ (f.failed => f1.failed)
    BY IndexFails
  <2>2. PICK f2 : /\ f2 = WithEntry(f1, f1.data[i][Direct], (n - Direct) \div PerBlock)
                  /\ IsFs(f2) /\ (f1.failed => f2.failed)
    BY <2>1, EntryFails
  <2>3. PICK b, r : WithTree(f, i, n) = WithEntry(f2, b, r)
    BY <1>2, <2>1, <2>2 DEF WithTree
  <2> QED
    BY <2>1, <2>2, <2>3, EntryFails
<1> QED
  BY <1>1, <1>2

LEMMA GetFails ==
    ASSUME NEW f, IsFs(f), NEW i, NEW n
    PROVE  IsFs(GetBlocks(f, i, n)) /\ (f.failed => GetBlocks(f, i, n).failed)
<1>1. PICK g : g = WithTree(f, i, n) /\ IsFs(g) /\ (f.failed => g.failed)
  BY TreeFails
<1>2. PICK v : v = Lookup(g, i, n)
  OBVIOUS
<1>3. GetBlocks(f, i, n) = f \/ GetBlocks(f, i, n) = [g EXCEPT !.mapped[i][n] = v]
  BY <1>1, <1>2 DEF GetBlocks
<1>4. IsFs([g EXCEPT !.mapped[i][n] = v]) /\ [g EXCEPT !.mapped[i][n] = v].failed = g.failed
  BY <1>1 DEF IsFs
<1> QED
  BY <1>1, <1>3, <1>4

\* Growing is reflexive
LEMMA GrowsSelf == ASSUME NEW f PROVE Grows(f, f)
  BY DEF Grows, Keeps

\* and transitive.
LEMMA GrowsTwice ==
    ASSUME NEW f, NEW g, NEW h, Grows(f, g), Grows(g, h)
    PROVE  Grows(f, h)
  BY DEF Grows, Keeps

\* What an entry of a pointer block is after it was asked for,
LEMMA EntryIs ==
    ASSUME NEW f, FsInv(f), NEW b \in Blocks, IsIndex(f, b), NEW n \in Offsets,
           NEW g, g = WithEntry(f, b, n), ~g.failed
    PROVE  FsInv(g) /\ Grows(f, g) /\ ~f.failed /\ g.pointers[b][n] \in Blocks \ {NoBlock}
<1>1. CASE f.pointers[b][n] # NoBlock
  <2>1. g = f
    BY <1>1 DEF WithEntry
  <2>2. f.pointers[b][n] \in Blocks \cup {NoBlock}
    BY DEF FsInv, FsType
  <2> QED
    BY <1>1, <2>1, <2>2, GrowsSelf
<1>2. CASE f.pointers[b][n] = NoBlock
  <2>1. g = [Take(f) EXCEPT !.pointers[b][n] = NewBlock(f)]
    BY <1>2 DEF WithEntry
  <2> QED
    BY <1>2, <2>1, PointerFilled
<1> QED
  BY <1>1, <1>2

\* and a pointer of an inode.
LEMMA DirectIs ==
    ASSUME NEW f, FsInv(f), NEW i \in Inodes, NEW n \in Places,
           NEW g, g = WithDirect(f, i, n), ~g.failed
    PROVE  FsInv(g) /\ Grows(f, g) /\ ~f.failed /\ g.data[i][n] \in Blocks \ {NoBlock}
<1>1. CASE f.data[i][n] # NoBlock
  <2>1. g = f
    BY <1>1 DEF WithDirect
  <2>2. f.data[i][n] \in Blocks \cup {NoBlock}
    BY DEF FsInv, FsType
  <2> QED
    BY <1>1, <2>1, <2>2, GrowsSelf
<1>2. CASE f.data[i][n] = NoBlock
  <2>1. g = [Take(f) EXCEPT !.data[i][n] = NewBlock(f)]
    BY <1>2 DEF WithDirect
  <2> QED
    BY <1>2, <2>1, DataFilled
<1> QED
  BY <1>1, <1>2

\* After get_blocks the tree gives a block for block n of the file.
LEMMA TreeIs ==
    ASSUME NEW f, FsInv(f), NEW i \in Inodes, NEW n \in Numbers,
           NEW g, g = WithTree(f, i, n), ~g.failed
    PROVE  FsInv(g) /\ Grows(f, g) /\ ~f.failed /\ Lookup(g, i, n) \in Blocks \ {NoBlock}
<1>1. CASE n < Direct
  <2>1. n \in Places /\ g = WithDirect(f, i, n) /\ Lookup(g, i, n) = g.data[i][n]
    BY <1>1, FBFacts DEF WithTree, Lookup, Places, Numbers
  <2> QED
    BY <2>1, DirectIs
<1>2. CASE ~(n < Direct)
  <2>0. Direct \in Places
    BY FBFacts DEF Places
  <2>1. PICK m \in Offsets, r \in Offsets :
            m = (n - Direct) \div PerBlock /\ r = (n - Direct) % PerBlock
    BY <1>2, OffsetsOf
  <2>2. PICK f1 : f1 = WithIndex(f, i) /\ f1 = WithDirect(f, i, Direct)
    BY DEF WithIndex, WithDirect
  <2>3. PICK top : top = f1.data[i][Direct]
    OBVIOUS
  <2>4. PICK f2 : f2 = WithEntry(f1, top, m)
    OBVIOUS
  <2>5. PICK second : second = f2.pointers[top][m]
    OBVIOUS
  <2>6. g = WithEntry(f2, second, r)
    BY <1>2, <2>1, <2>2, <2>3, <2>4, <2>5 DEF WithTree
  <2>7. ~f2.failed /\ ~f1.failed
    <3>1. IsFs(f1)
      BY <2>2, TypeIsFs, IndexFails DEF FsInv
    <3>2. IsFs(f2) /\ (f1.failed => f2.failed)
      BY <2>4, <3>1, EntryFails
    <3>3. f2.failed => g.failed
      BY <2>6, <3>2, EntryFails
    <3> QED
      BY <3>2, <3>3
  <2>8. FsInv(f1) /\ Grows(f, f1) /\ ~f.failed /\ top \in Blocks \ {NoBlock}
    BY <2>0, <2>2, <2>3, <2>7, DirectIs
  <2>9. IsIndex(f1, top)
    BY <2>3, <2>8 DEF IsIndex
  <2>10. FsInv(f2) /\ Grows(f1, f2) /\ second \in Blocks \ {NoBlock}
    BY <2>1, <2>4, <2>5, <2>7, <2>8, <2>9, EntryIs
  <2>11. f2.data[i][Direct] = top
    BY <2>0, <2>3, <2>8, <2>10, DataStays DEF Grows
  <2>12. IsIndex(f2, second)
    BY <2>1, <2>5, <2>8, <2>10, <2>11 DEF IsIndex
  <2>13. FsInv(g) /\ Grows(f2, g) /\ g.pointers[second][r] \in Blocks \ {NoBlock}
    BY <2>1, <2>6, <2>10, <2>12, EntryIs
  <2>14. g.data[i][Direct] = top
    BY <2>0, <2>8, <2>11, <2>13, DataStays DEF Grows
  <2>15. g.pointers[top][m] = second
    <3>1. top \in Blocks /\ f2.pointers[top][m] # NoBlock /\ Keeps(f2, g)
      BY <2>5, <2>8, <2>10, <2>13 DEF Grows
    <3> QED
      BY <2>1, <2>5, <3>1, PointerStays
  <2>16. Lookup(g, i, n) = g.pointers[second][r]
    BY <1>2, <2>1, <2>14, <2>15 DEF Lookup
  <2> QED
    BY <2>8, <2>10, <2>13, <2>16, GrowsTwice
<1> QED
  BY <1>1, <1>2

\* get_blocks maps the buffer to the block the tree gives.
LEMMA GetIs ==
    ASSUME NEW f, FsInv(f), NEW i \in Inodes, NEW n \in Numbers,
           NEW g, g = GetBlocks(f, i, n), ~g.failed
    PROVE  FsInv(g) /\ Grows(f, g) /\ ~f.failed /\ g.mapped[i][n] # NoBlock
<1>1. CASE f.mapped[i][n] # NoBlock
  <2>1. g = f
    BY <1>1 DEF GetBlocks
  <2> QED
    BY <1>1, <2>1, GrowsSelf
<1>2. CASE f.mapped[i][n] = NoBlock
  <2>1. PICK h, v : h = WithTree(f, i, n) /\ v = Lookup(h, i, n)
    OBVIOUS
  <2>2. g = [h EXCEPT !.mapped[i][n] = v]
    BY <1>2, <2>1 DEF GetBlocks
  <2>3. ~h.failed
    <3>1. IsFs(h)
      BY <2>1, TypeIsFs, TreeFails DEF FsInv
    <3> QED
      BY <2>2, <3>1 DEF IsFs
  <2>4. FsInv(h) /\ Grows(f, h) /\ ~f.failed /\ v \in Blocks \ {NoBlock}
    BY <2>1, <2>3, TreeIs
  <2>5. /\ h.mapped \in [Inodes -> [Numbers -> Blocks \cup {NoBlock}]]
        /\ h.mapped[i] \in [Numbers -> Blocks \cup {NoBlock}]
    BY <2>4 DEF FsInv, FsType
  <2>6. /\ g.mapped = [h.mapped EXCEPT ![i] = [h.mapped[i] EXCEPT ![n] = v]]
        /\ g.data = h.data /\ g.pointers = h.pointers /\ g.used = h.used
        /\ g = [h EXCEPT !.mapped = g.mapped]
    BY <2>2, <2>4 DEF FsInv, FsType
  <2>7. g.mapped \in [Inodes -> [Numbers -> Blocks \cup {NoBlock}]]
    BY <2>4, <2>5, <2>6
  <2>8. FsType(g)
    BY <2>4, <2>6, <2>7 DEF FsInv, FsType
  <2>9. \A s : Val(g, s) = Val(h, s)
    BY <2>6 DEF Val
  <2>10. \A j, m : Lookup(g, j, m) = Lookup(h, j, m)
    BY <2>6 DEF Lookup
  <2>11. \A j \in Inodes : \A m \in Numbers :
            g.mapped[j][m] = IF j = i /\ m = n THEN v ELSE h.mapped[j][m]
    BY <2>5, <2>6
  <2>12. OneReference(g)
    BY <2>4, <2>9 DEF FsInv, OneReference
  <2>13. BitsAreTargets(g)
    <3>1. Targets(g) = Targets(h) /\ Bits(g) = Bits(h)
      BY <2>6, <2>9 DEF Targets, Bits
    <3> QED
      BY <2>4, <3>1 DEF FsInv, BitsAreTargets
  <2>14. OnlyIndexPoints(g)
    BY <2>4, <2>6 DEF FsInv, OnlyIndexPoints, IsIndex
  <2>15. MappedAsTree(g)
    BY <2>1, <2>4, <2>10, <2>11 DEF FsInv, MappedAsTree
  <2>16. FsInv(g)
    BY <2>8, <2>12, <2>13, <2>14, <2>15 DEF FsInv
  <2>17. Grows(f, g)
    <3>1. Keeps(f, g)
      BY <2>4, <2>9 DEF Grows, Keeps
    <3>2. \A j \in Inodes : \A m \in Numbers :
              f.mapped[j][m] # NoBlock => g.mapped[j][m] = f.mapped[j][m]
      BY <1>2, <2>4, <2>11 DEF Grows
    <3> QED
      BY <3>1, <3>2 DEF Grows
  <2>18. g.mapped[i][n] # NoBlock
    BY <2>4, <2>11
  <2> QED
    BY <2>4, <2>16, <2>17, <2>18
<1> QED
  BY <1>1, <1>2

-----------------------------------------------------------------------------
(* Writing.                                                                  *)

\* The file system after the first k blocks of a list.
AfterGets(f, i, blocks, k, w) ==
    w = [x \in 0 .. k |-> IF x = 0 THEN f ELSE GetBlocks(w[x - 1], i, blocks[x])]

\* The loop over the buffers of a write has a result,
LEMMA AfterExists ==
    ASSUME NEW f, NEW i, NEW blocks, NEW n \in Nat
    PROVE  \E w : AfterGets(f, i, blocks, n, w)
<1> DEFINE T == {k \in 0 .. n : \E w : AfterGets(f, i, blocks, k, w)}
<1>1. 0 \in T
  <2> DEFINE w == [x \in 0 .. 0 |-> f]
  <2>1. w = [x \in 0 .. 0 |-> IF x = 0 THEN f ELSE GetBlocks(w[x - 1], i, blocks[x])]
    OBVIOUS
  <2> HIDE DEF w
  <2>2. AfterGets(f, i, blocks, 0, w)
    BY <2>1 DEF AfterGets
  <2> QED
    BY <2>2
<1>2. ASSUME NEW k \in T, k < n PROVE k + 1 \in T
  <2>1. PICK w : AfterGets(f, i, blocks, k, w)
    OBVIOUS
  <2> DEFINE g == [x \in 0 .. k + 1 |-> IF x = k + 1 THEN GetBlocks(w[k], i, blocks[k + 1])
                                        ELSE w[x]]
  <2>2. ASSUME NEW x \in 0 .. k + 1
        PROVE  g[x] = IF x = 0 THEN f ELSE GetBlocks(g[x - 1], i, blocks[x])
    <3>1. k \in Nat
      OBVIOUS
    <3>2. CASE x = k + 1
      <4>1. x # 0 /\ x - 1 = k /\ g[x - 1] = w[k]
        BY <3>1, <3>2
      <4> QED
        BY <3>2, <4>1
    <3>3. CASE x # k + 1
      <4>1. x \in 0 .. k /\ g[x] = w[x]
        BY <3>1, <3>3
      <4>2. w[x] = IF x = 0 THEN f ELSE GetBlocks(w[x - 1], i, blocks[x])
        BY <2>1, <4>1 DEF AfterGets
      <4>3. x # 0 => g[x - 1] = w[x - 1]
        BY <3>1, <4>1
      <4> QED
        BY <4>1, <4>2, <4>3
    <3> QED
      BY <3>2, <3>3
  <2>3. g = [x \in 0 .. k + 1 |-> g[x]]
    OBVIOUS
  <2> HIDE DEF g
  <2>4. g = [x \in 0 .. k + 1 |-> IF x = 0 THEN f ELSE GetBlocks(g[x - 1], i, blocks[x])]
    BY <2>2, <2>3
  <2>5. AfterGets(f, i, blocks, k + 1, g)
    BY <2>4 DEF AfterGets
  <2>6. k + 1 \in 0 .. n
    BY <1>2
  <2> QED
    BY <2>5, <2>6
<1>3. T \subseteq 0 .. n
  OBVIOUS
<1> HIDE DEF T
<1>4. n \in T
  BY <1>1, <1>2, <1>3, UpTo
<1> QED
  BY <1>4 DEF T

\* and after it every block of the write is mapped.
LEMMA AllIs ==
    ASSUME NEW f, FsInv(f), NEW i \in Inodes, NEW blocks \in Seq(Numbers),
           NEW g, g = GetAll(f, i, blocks), ~g.failed
    PROVE  /\ FsInv(g) /\ Grows(f, g) /\ ~f.failed
           /\ \A k \in 1 .. Len(blocks) : g.mapped[i][blocks[k]] # NoBlock
<1>0. PICK n \in Nat : n = Len(blocks)
  OBVIOUS
<1>1. PICK w : AfterGets(f, i, blocks, n, w) /\ g = w[n]
  <2> DEFINE w == CHOOSE w : AfterGets(f, i, blocks, n, w)
  <2>1. AfterGets(f, i, blocks, n, w)
    BY AfterExists
  <2>2. GetAll(f, i, blocks) = w[n]
    BY <1>0 DEF GetAll, AfterGets
  <2> QED
    BY <2>1, <2>2
<1> DEFINE Good(k) == /\ FsInv(w[k]) /\ Grows(f, w[k]) /\ ~f.failed
                      /\ \A x \in 1 .. k : w[k].mapped[i][blocks[x]] # NoBlock
           T == {k \in 0 .. n : IsFs(w[k]) /\ (~w[k].failed => Good(k))}
<1>2. 0 \in T
  <2>1. w[0] = f
    BY <1>1 DEF AfterGets
  <2>2. IsFs(f) /\ Grows(f, f)
    BY TypeIsFs, GrowsSelf DEF FsInv
  <2>3. ~w[0].failed => Good(0)
    <3>1. 1 .. 0 = {}
      OBVIOUS
    <3> QED
      BY <2>1, <2>2, <3>1
  <2> HIDE DEF Good
  <2> QED
    BY <2>1, <2>2, <2>3
<1>3. ASSUME NEW k \in T, k < n PROVE k + 1 \in T
  <2>1. k \in Nat /\ k + 1 \in 1 .. n /\ k + 1 \in 0 .. n /\ (k + 1) - 1 = k /\ k + 1 # 0
    BY <1>3
  <2>2. w[k + 1] = GetBlocks(w[k], i, blocks[k + 1])
    BY <1>1, <2>1 DEF AfterGets
  <2>3. blocks[k + 1] \in Numbers
    BY <1>0, <2>1
  <2>4. IsFs(w[k]) /\ (~w[k].failed => Good(k))
    OBVIOUS
  <2>5. IsFs(w[k + 1]) /\ (w[k].failed => w[k + 1].failed)
    BY <2>2, <2>4, GetFails
  <2>6. ASSUME ~w[k + 1].failed PROVE Good(k + 1)
    <3>1. Good(k)
      BY <2>4, <2>5, <2>6
    <3>2. /\ FsInv(w[k + 1]) /\ Grows(w[k], w[k + 1])
          /\ w[k + 1].mapped[i][blocks[k + 1]] # NoBlock
      BY <2>2, <2>3, <2>6, <3>1, GetIs
    <3>3. Grows(f, w[k + 1])
      BY <3>1, <3>2, GrowsTwice
    <3>4. ASSUME NEW x \in 1 .. k + 1 PROVE w[k + 1].mapped[i][blocks[x]] # NoBlock
      <4>1. CASE x = k + 1
        BY <3>2, <4>1
      <4>2. CASE x # k + 1
        <5>1. x \in 1 .. k /\ x \in 1 .. n
          BY <2>1, <4>2
        <5>2. blocks[x] \in Numbers /\ w[k].mapped[i][blocks[x]] # NoBlock
          BY <1>0, <3>1, <5>1
        <5> QED
          BY <3>2, <5>2 DEF Grows
      <4> QED
        BY <4>1, <4>2
    <3> QED
      BY <3>1, <3>2, <3>3, <3>4
  <2> HIDE DEF Good
  <2> QED
    BY <2>1, <2>5, <2>6
<1>4. T \subseteq 0 .. n
  OBVIOUS
<1> HIDE DEF T
<1>5. n \in T
  BY <1>2, <1>3, <1>4, UpTo
<1>6. Good(n)
  <2> HIDE DEF Good
  <2> QED
    BY <1>1, <1>5 DEF T
<1> QED
  BY <1>0, <1>1, <1>6

\* Multiples of n are ordered as their factors.
LEMMA SumOfProducts ==
    ASSUME NEW a \in Nat, NEW b \in Nat, NEW n \in Nat, n > 0
    PROVE  /\ a * n \in Nat /\ (a + 1) * n = a * n + n
           /\ a * n < b * n <=> a < b
<1>1. a * n \in Nat /\ (a + 1) * n = a * n + n
  OBVIOUS
<1>2. ASSUME a < b PROVE a * n < b * n
  <2>1. (a + 1) * n <= b * n
    BY <1>2
  <2>2. b * n \in Nat
    OBVIOUS
  <2> QED
    BY <1>1, <2>1, <2>2
<1>3. ASSUME ~(a < b) PROVE ~(a * n < b * n)
  <2>1. b * n <= a * n
    BY <1>3
  <2>2. b * n \in Nat
    OBVIOUS
  <2> QED
    BY <1>1, <2>1, <2>2
<1> QED
  BY <1>1, <1>2, <1>3

\* What a pass of write_inode's loop writes lies on one page, and meets blocks
\* of that page only.
LEMMA PageCovers ==
    ASSUME NEW from \in Nat, NEW to \in Nat, from < to, NEW index,
           index = from \div PageSize, to <= (index + 1) * PageSize,
           (index + 1) * BlocksPerPage <= MaxBlocks
    PROVE  /\ PageBlocks(index) \in Seq(Numbers) /\ Len(PageBlocks(index)) = BlocksPerPage
           /\ to <= MaxBlocks * BlockSize
           /\ \A n \in Numbers :
                Meets(n, from, to) => \E k \in 1 .. BlocksPerPage : PageBlocks(index)[k] = n
<1>1. PICK q \in Nat : /\ q = index /\ q * PageSize <= from
                       /\ PageSize \in Nat /\ PageSize > 0 /\ q * PageSize \in Nat
  <2>1. PageSize \in Nat /\ PageSize > 0
    BY FBFacts DEF PageSize
  <2> QED
    BY <2>1, Floor
<1>2. PICK first \in Nat : first = q * BlocksPerPage
  BY FBFacts
<1>3. PICK blocks : /\ blocks = PageBlocks(index)
                    /\ blocks = [k \in 1 .. BlocksPerPage |-> first + k - 1]
  BY <1>1, <1>2 DEF PageBlocks
<1>4. MaxBlocks \in Nat
  <2>1. PerBlock * PerBlock \in Nat
    BY FBFacts
  <2> QED
    BY <2>1, FBFacts DEF MaxBlocks
<1>5. (q + 1) * BlocksPerPage = first + BlocksPerPage /\ first + BlocksPerPage <= MaxBlocks
  BY <1>1, <1>2, FBFacts, SumOfProducts
<1>6. blocks \in Seq(Numbers) /\ Len(blocks) = BlocksPerPage
  <2>1. ASSUME NEW k \in 1 .. BlocksPerPage PROVE first + k - 1 \in Numbers
    <3>1. k \in Nat /\ 1 <= k /\ k <= BlocksPerPage
      BY FBFacts
    <3>2. first + k - 1 \in Nat /\ first + k - 1 <= MaxBlocks - 1
      BY <1>4, <1>5, <3>1, FBFacts
    <3> QED
      BY <1>4, <3>2 DEF Numbers
  <2>2. PICK l \in Nat : l = BlocksPerPage
    BY FBFacts
  <2>3. blocks = [k \in 1 .. l |-> first + k - 1] /\ \A k \in 1 .. l : first + k - 1 \in Numbers
    BY <1>3, <2>1, <2>2
  <2> HIDE DEF Numbers
  <2>4. blocks \in Seq(Numbers) /\ Len(blocks) = l
    BY <2>3
  <2> QED
    BY <2>2, <2>4
\* Pages in blocks, and blocks in units.
<1>7. /\ q * PageSize = first * BlockSize
      /\ (q + 1) * PageSize = (first + BlocksPerPage) * BlockSize
  <2>1. q * (BlockSize * BlocksPerPage) = (q * BlocksPerPage) * BlockSize
    BY FBFacts
  <2>2. (q + 1) * (BlockSize * BlocksPerPage) = ((q + 1) * BlocksPerPage) * BlockSize
    BY FBFacts
  <2> QED
    BY <1>2, <1>5, <2>1, <2>2 DEF PageSize
<1>8. to <= MaxBlocks * BlockSize
  <2>1. (first + BlocksPerPage) * BlockSize <= MaxBlocks * BlockSize
    BY <1>4, <1>5, FBFacts
  <2>2. (first + BlocksPerPage) * BlockSize \in Nat /\ MaxBlocks * BlockSize \in Nat
    BY <1>4, FBFacts
  <2> QED
    BY <1>1, <1>7, <2>1, <2>2
<1>9. ASSUME NEW n \in Numbers, n * BlockSize < to, (n + 1) * BlockSize > from
      PROVE  \E k \in 1 .. BlocksPerPage : blocks[k] = n
  <2>1. n \in Nat /\ n + 1 \in Nat /\ first + BlocksPerPage \in Nat
    BY <1>4, FBFacts DEF Numbers
  <2>2. n < first + BlocksPerPage
    <3>1. n * BlockSize \in Nat /\ (first + BlocksPerPage) * BlockSize \in Nat
      BY <2>1, FBFacts
    <3>2. n * BlockSize < (first + BlocksPerPage) * BlockSize
      BY <1>1, <1>7, <1>9, <3>1
    <3> QED
      BY <2>1, <3>2, FBFacts, SumOfProducts
  <2>3. first < n + 1
    <3>1. first * BlockSize \in Nat /\ (n + 1) * BlockSize \in Nat
      BY <2>1, FBFacts
    <3>2. first * BlockSize < (n + 1) * BlockSize
      BY <1>1, <1>7, <1>9, <3>1
    <3> QED
      BY <2>1, <3>2, FBFacts, SumOfProducts
  <2>4. n - first + 1 \in 1 .. BlocksPerPage /\ first + (n - first + 1) - 1 = n
    BY <2>1, <2>2, <2>3, FBFacts
  <2>5. blocks[n - first + 1] = n
    BY <1>3, <2>4
  <2> QED
    BY <2>4, <2>5
<1> QED
  BY <1>3, <1>6, <1>8, <1>9 DEF Meets

-----------------------------------------------------------------------------
(* The invariant.                                                            *)

\* The blocks a file has units in are mapped, and hold them.
FileMapped ==
    \A i \in Inodes : \A n \in Numbers : n * BlockSize < size[i] => fs.mapped[i][n] # NoBlock
OnDisk ==
    \A i \in Inodes : \A n \in Numbers : \A o \in 0 .. BlockSize - 1 :
        n * BlockSize + o < size[i]
          => disk[fs.mapped[i][n]][o] = <<i, n * BlockSize + o>>
SizesInTree == size \in [Inodes -> Nat] /\ \A i \in Inodes : size[i] <= MaxBlocks * BlockSize

\* What is left to write goes up to a page whose blocks the file may have.
RestFits ==
    /\ rest \in [Inodes -> Nat]
    /\ \A i \in Inodes : rest[i] > 0 =>
          ((size[i] + rest[i] - 1) \div PageSize + 1) * BlocksPerPage <= MaxBlocks

\* Pages hold the units too, and their buffers are up to date.
PagesHold ==
    /\ DOMAIN pages = Inodes /\ uptodate \in [Inodes -> [Numbers -> BOOLEAN]]
    /\ \A i \in Inodes : \A n \in Numbers : n * BlockSize < size[i] => uptodate[i][n]
    /\ \A i \in Inodes : \A n \in Numbers : \A o \in 0 .. BlockSize - 1 :
          n * BlockSize + o < size[i] => pages[i][n][o] = <<i, n * BlockSize + o>>

BlocksInv == FsInv(fs) /\ SizesInTree /\ FileMapped /\ OnDisk /\ RestFits /\ PagesHold

\* A file's largest size is a number.
LEMMA MaxBlocksIs == MaxBlocks \in Nat /\ MaxBlocks * BlockSize \in Nat
<1>1. PerBlock * PerBlock \in Nat
  BY FBFacts
<1>2. MaxBlocks \in Nat
  BY <1>1, FBFacts DEF MaxBlocks
<1> QED
  BY <1>2, FBFacts

\* The invariant holds of the empty file system,
LEMMA BlocksBegin == Init => BlocksInv
<1> SUFFICES ASSUME Init PROVE BlocksInv
  OBVIOUS
<1>1. FsType(fs)
  <2>1. Reserved \subseteq 0 .. GroupBits - 1
    BY FBFacts DEF Reserved
  <2> QED
    BY <2>1 DEF Init, FsType, Places, Offsets, Numbers
<1>2. /\ \A i \in Inodes : \A n \in Places : fs.data[i][n] = NoBlock
      /\ \A b \in Blocks : \A n \in Offsets : fs.pointers[b][n] = NoBlock
      /\ \A i \in Inodes : \A n \in Numbers : fs.mapped[i][n] = NoBlock
      /\ \A g \in Groups : fs.used[g] = Reserved
      /\ \A i \in Inodes : size[i] = 0
      /\ size \in [Inodes -> Nat]
      /\ DOMAIN pages = Inodes /\ uptodate \in [Inodes -> [Numbers -> BOOLEAN]]
      /\ rest \in [Inodes -> Nat] /\ \A i \in Inodes : rest[i] = 0
  BY DEF Init, Places, Offsets, Numbers
<1>3. \A s \in Slots : Val(fs, s) = NoBlock
  BY <1>2 DEF Slots, Val
<1>4. OneReference(fs)
  BY <1>3 DEF OneReference
<1>5. BitsAreTargets(fs)
  <2>1. Targets(fs) = {}
    BY <1>3 DEF Targets
  <2>2. ASSUME NEW b \in Bits(fs) PROVE b \in ReservedBlocks
    <3>1. b \in Blocks /\ b % GroupBits \in fs.used[b \div GroupBits]
      BY DEF Bits
    <3>2. PICK g \in Groups, n \in 0 .. GroupBits - 1 :
              g = b \div GroupBits /\ n = b % GroupBits /\ b = GroupBits * g + n
      BY <3>1, BlockIs
    <3>3. n \in Reserved
      BY <1>2, <3>1, <3>2
    <3> QED
      BY <3>2, <3>3 DEF ReservedBlocks
  <2>3. ASSUME NEW b \in ReservedBlocks PROVE b \in Bits(fs)
    <3>1. PICK g \in Groups, n \in Reserved : b = GroupBits * g + n
      BY DEF ReservedBlocks
    <3>2. n \in 0 .. GroupBits - 1
      BY FBFacts DEF Reserved
    <3>3. b \in Blocks /\ b \div GroupBits = g /\ b % GroupBits = n
      BY <3>1, <3>2, NumberIs
    <3> QED
      BY <1>2, <3>3 DEF Bits
  <2> QED
    BY <2>1, <2>2, <2>3 DEF BitsAreTargets
<1>6. OnlyIndexPoints(fs) /\ MappedAsTree(fs)
  BY <1>2 DEF OnlyIndexPoints, MappedAsTree
<1>7. FsInv(fs)
  BY <1>1, <1>4, <1>5, <1>6 DEF FsInv
<1>8. SizesInTree
  BY <1>2, MaxBlocksIs DEF SizesInTree
<1>9. ASSUME NEW n \in Numbers PROVE n * BlockSize \in Nat
  <2>1. n \in Nat
    BY MaxBlocksIs DEF Numbers
  <2> QED
    BY <2>1, FBFacts
<1>10. FileMapped
  BY <1>2, <1>9 DEF FileMapped
<1>11. ASSUME NEW i \in Inodes, NEW n \in Numbers, NEW o \in 0 .. BlockSize - 1
       PROVE  ~(n * BlockSize < size[i]) /\ ~(n * BlockSize + o < size[i])
  BY <1>2, <1>9, FBFacts
<1>12. OnDisk
  BY <1>11 DEF OnDisk
<1>13. RestFits
  BY <1>2 DEF RestFits
<1>14. PagesHold
  <2>1. ASSUME NEW i \in Inodes, NEW n \in Numbers PROVE ~(n * BlockSize < size[i])
    BY <1>2, <1>9
  <2> QED
    BY <1>2, <1>11, <2>1 DEF PagesHold
<1> QED
  BY <1>7, <1>8, <1>10, <1>12, <1>13, <1>14 DEF BlocksInv

\* An inode's blocks are mapped to blocks of their own.
LEMMA MappedIsOne ==
    ASSUME NEW f, FsInv(f), NEW i \in Inodes, NEW n \in Numbers,
           NEW j \in Inodes, NEW m \in Numbers,
           f.mapped[i][n] # NoBlock, f.mapped[j][m] = f.mapped[i][n]
    PROVE  i = j /\ n = m
<1>1. f.mapped[i][n] = Lookup(f, i, n) /\ f.mapped[j][m] = Lookup(f, j, m)
  BY DEF FsInv, MappedAsTree
<1>2. f.mapped[i][n] \in Blocks \cup {NoBlock}
  BY DEF FsInv, FsType
<1>3. Lookup(f, i, n) \in Blocks \ {NoBlock} /\ Lookup(f, j, m) = Lookup(f, i, n)
  BY <1>1, <1>2
<1>4. i \in Inodes /\ n \in 0 .. MaxBlocks - 1 /\ j \in Inodes /\ m \in 0 .. MaxBlocks - 1
  BY DEF Numbers
<1> QED
  BY <1>3, <1>4, LookupIsOne

\* What the page has after a pass: the units written, and before them what it had
\* where its buffers were up to date.
PageGot(r, pg, current, i, from, to, n, o, p) ==
    /\ from <= p /\ p < to => r[n][o] = <<i, p>>
    /\ ~(from <= p /\ p < to) /\ (current[n] \/ ~Meets(n, from, to)) => r[n][o] = pg[n][o]

LEMMA PageAfterIs ==
    ASSUME NEW pg, NEW current, NEW d, NEW m, NEW i, NEW from \in Nat, NEW to \in Nat,
           NEW n \in Numbers, NEW o \in 0 .. BlockSize - 1,
           NEW p, p = n * BlockSize + o,
           NEW r, r = PageAfter(pg, current, d, m, i, from, to)
    PROVE  PageGot(r, pg, current, i, from, to, n, o, p)
<1>1. PICK q : q = Read(pg, current, d, m, from, to)
  OBVIOUS
<1>2. n \in 0 .. MaxBlocks - 1
  BY DEF Numbers
<1>3. Copied(q, i, from, to)[n][o] = IF from <= p /\ p < to THEN <<i, p>> ELSE q[n][o]
  BY <1>2 DEF Copied
<1>4. current[n] \/ ~Meets(n, from, to) => q[n] = pg[n]
  BY <1>1, <1>2 DEF Read
<1> QED
  BY <1>1, <1>3, <1>4 DEF PageAfter, PageGot

\* The blocks a pass meets get what the page has, the others keep what they held.
WrittenTo(e, d, pg, f, i, from, to, j, n) ==
    e[f.mapped[j][n]] = IF j = i /\ Meets(n, from, to) THEN pg[n] ELSE d[f.mapped[j][n]]

LEMMA Written ==
    ASSUME NEW f, FsInv(f), NEW i \in Inodes, NEW from \in Nat, NEW to \in Nat,
           NEW j \in Inodes, NEW n \in Numbers, f.mapped[j][n] # NoBlock, NEW d, NEW pg,
           NEW e, e = DiskAfter(d, f.mapped[i], pg, from, to)
    PROVE  WrittenTo(e, d, pg, f, i, from, to, j, n)
<1> DEFINE hits(b) == {k \in 0 .. MaxBlocks - 1 : f.mapped[i][k] = b /\ Meets(k, from, to)}
<1>1. PICK b \in Blocks : b = f.mapped[j][n] /\ b # NoBlock
  <2>1. f.mapped[j][n] \in Blocks \cup {NoBlock}
    BY DEF FsInv, FsType
  <2> QED
    BY <2>1
<1>2. e[b] = IF hits(b) = {} THEN d[b] ELSE pg[Least(hits(b))]
  BY <1>1 DEF DiskAfter
<1>3. ASSUME NEW k \in hits(b) PROVE j = i /\ k = n /\ Meets(n, from, to)
  <2>1. k \in Numbers /\ f.mapped[i][k] = f.mapped[j][n] /\ Meets(k, from, to)
    BY <1>1 DEF Numbers
  <2>2. j = i /\ k = n
    BY <2>1, MappedIsOne
  <2> QED
    BY <2>1, <2>2
<1>4. n \in Nat /\ n \in 0 .. MaxBlocks - 1
  BY MaxBlocksIs DEF Numbers
<1>5. CASE j = i /\ Meets(n, from, to)
  <2>1. n \in hits(b)
    BY <1>1, <1>4, <1>5
  <2> HIDE DEF hits
  <2>2. hits(b) = {n}
    BY <1>3, <2>1
  <2>3. Least(hits(b)) = n
    BY <1>4, <2>2, LeastIsOne
  <2> QED
    BY <1>1, <1>2, <1>5, <2>2, <2>3 DEF WrittenTo
<1>6. CASE ~(j = i /\ Meets(n, from, to))
  <2> HIDE DEF hits
  <2>1. hits(b) = {}
    BY <1>3, <1>6
  <2> QED
    BY <1>1, <1>2, <1>6, <2>1 DEF WrittenTo
<1> QED
  BY <1>5, <1>6

\* The call of write_inode keeps it,
LEMMA CallKeeps ==
    ASSUME BlocksInv, NEW i \in Inodes, Write(i)
    PROVE  BlocksInv'
<1>1. PICK len \in 1 .. MaxLen :
          /\ \A j \in Inodes : rest[j] = 0
          /\ ((size[i] + len - 1) \div PageSize + 1) * BlocksPerPage <= MaxBlocks
          /\ rest' = [rest EXCEPT ![i] = len]
          /\ UNCHANGED <<fs, size, disk, pages, uptodate>>
  BY DEF Write
<1>2. len \in Nat
  BY FBFacts
<1>3. rest' \in [Inodes -> Nat] /\ rest'[i] = len /\ \A j \in Inodes : j # i => rest'[j] = 0
  BY <1>1, <1>2 DEF BlocksInv, RestFits
<1>4. RestFits'
  BY <1>1, <1>3 DEF RestFits
<1> QED
  BY <1>1, <1>4 DEF BlocksInv, SizesInTree, FileMapped, OnDisk, PagesHold

\* a page of what is left to write ends within it and within the page,
LEMMA PassIs ==
    ASSUME BlocksInv, NEW i \in Inodes, rest[i] > 0
    PROVE  LET index == size[i] \div PageSize
               left == (index + 1) * PageSize - size[i]
               nbytes == IF rest[i] < left THEN rest[i] ELSE left
           IN  /\ index \in Nat /\ nbytes \in Nat /\ nbytes > 0 /\ nbytes <= rest[i]
               /\ size[i] + nbytes <= (index + 1) * PageSize
               /\ (index + 1) * BlocksPerPage <= MaxBlocks
<1>1. PICK from \in Nat, r \in Nat : from = size[i] /\ r = rest[i] /\ r > 0
  BY DEF BlocksInv, SizesInTree, RestFits
<1>2. PageSize \in Nat /\ PageSize > 0
  BY FBFacts DEF PageSize
<1>3. PICK q \in Nat, a \in Nat :
          /\ q = from \div PageSize /\ a = q * PageSize /\ a <= from /\ from < a + PageSize
  BY <1>2, Floor
<1>4. (q + 1) * PageSize = a + PageSize
  BY <1>2, <1>3, SumOfProducts
<1>5. PICK p \in Nat, b \in Nat : /\ p = (from + r - 1) \div PageSize /\ b = p * PageSize
                                 /\ from + r - 1 < b + PageSize
  <2>1. from + r - 1 \in Nat
    BY <1>1
  <2> QED
    BY <1>2, <2>1, Floor
<1>6. q + 1 <= p + 1
  <2>1. (p + 1) * PageSize = b + PageSize
    BY <1>2, <1>5, SumOfProducts
  <2>4. a < b + PageSize
    BY <1>1, <1>2, <1>3, <1>5
  <2>2. q * PageSize < (p + 1) * PageSize
    BY <1>3, <2>1, <2>4
  <2>3. p + 1 \in Nat
    OBVIOUS
  <2>5. q < p + 1
    BY <1>2, <2>2, <2>3, SumOfProducts
  <2> QED
    BY <2>5
<1>7. (q + 1) * BlocksPerPage <= MaxBlocks
  <2>1. (p + 1) * BlocksPerPage <= MaxBlocks
    BY <1>1, <1>5 DEF BlocksInv, RestFits
  <2>2. (q + 1) * BlocksPerPage <= (p + 1) * BlocksPerPage
    BY <1>6, FBFacts
  <2>3. (q + 1) * BlocksPerPage \in Nat /\ (p + 1) * BlocksPerPage \in Nat /\ MaxBlocks \in Nat
    BY FBFacts, MaxBlocksIs
  <2> QED
    BY <2>1, <2>2, <2>3
<1> QED
  BY <1>1, <1>2, <1>3, <1>4, <1>7

\* every pass of its loop keeps it,
LEMMA PassKeeps ==
    ASSUME BlocksInv, NEW i \in Inodes, WritePage(i)
    PROVE  BlocksInv'
<1>1. PICK from \in Nat, to \in Nat, nbytes \in Nat, index \in Nat :
          /\ from = size[i] /\ index = from \div PageSize
          /\ nbytes = (IF rest[i] < (index + 1) * PageSize - from THEN rest[i]
                       ELSE (index + 1) * PageSize - from)
          /\ nbytes > 0 /\ nbytes <= rest[i] /\ rest[i] > 0
          /\ to = from + nbytes /\ from < to
          /\ to <= (index + 1) * PageSize /\ (index + 1) * BlocksPerPage <= MaxBlocks
  <2>1. rest[i] > 0
    BY DEF WritePage
  <2>2. PICK from \in Nat : from = size[i]
    BY DEF BlocksInv, SizesInTree
  <2>3. PICK index : index = from \div PageSize
    OBVIOUS
  <2>4. PICK nbytes :
            nbytes = (IF rest[i] < (index + 1) * PageSize - from THEN rest[i]
                      ELSE (index + 1) * PageSize - from)
    OBVIOUS
  <2>5. /\ index \in Nat /\ nbytes \in Nat /\ nbytes > 0 /\ nbytes <= rest[i]
        /\ from + nbytes <= (index + 1) * PageSize
        /\ (index + 1) * BlocksPerPage <= MaxBlocks
    BY <2>1, <2>2, <2>3, <2>4, PassIs
  <2>6. from + nbytes \in Nat /\ from < from + nbytes
    BY <2>5
  <2> QED
    BY <2>1, <2>2, <2>3, <2>4, <2>5, <2>6
<1>2. PICK f, m : f = GetAll(fs, i, PageBlocks(index)) /\ m = f.mapped[i]
  OBVIOUS
<1>3. /\ ~f.failed /\ fs' = f /\ size' = [size EXCEPT ![i] = to]
      /\ rest' = [rest EXCEPT ![i] = @ - nbytes]
  BY <1>1, <1>2 DEF WritePage
<1>3a. PICK garbage \in [1 .. BlocksPerPage -> BOOLEAN] :
          LET current == Flags(i, index, garbage)
              pg == PageAfter(pages[i], current, disk, m, i, from, to)
          IN  /\ pages' = [pages EXCEPT ![i] = pg]
              /\ disk' = DiskAfter(disk, m, pg, from, to)
              /\ uptodate' = [uptodate EXCEPT ![i] = FlagsAfter(current, from, to)]
  <2>1. /\ from = size[i] /\ index = size[i] \div PageSize
        /\ nbytes = (IF rest[i] < (index + 1) * PageSize - size[i] THEN rest[i]
                     ELSE (index + 1) * PageSize - size[i])
        /\ to = size[i] + nbytes
    BY <1>1
  <2> QED
    BY <1>2, <2>1 DEF WritePage
<1>4. PICK current, pg :
          /\ current = Flags(i, index, garbage)
          /\ pg = PageAfter(pages[i], current, disk, m, i, from, to)
          /\ pages' = [pages EXCEPT ![i] = pg]
          /\ disk' = DiskAfter(disk, m, pg, from, to)
          /\ uptodate' = [uptodate EXCEPT ![i] = FlagsAfter(current, from, to)]
  BY <1>3a
<1>5. /\ PageBlocks(index) \in Seq(Numbers) /\ Len(PageBlocks(index)) = BlocksPerPage
      /\ to <= MaxBlocks * BlockSize
      /\ \A n \in Numbers :
           Meets(n, from, to) => \E k \in 1 .. BlocksPerPage : PageBlocks(index)[k] = n
  <2>1. /\ from < to /\ index = from \div PageSize /\ to <= (index + 1) * PageSize
        /\ (index + 1) * BlocksPerPage <= MaxBlocks
    BY <1>1
  <2>2. /\ PageBlocks(index) \in Seq(Numbers) /\ Len(PageBlocks(index)) = BlocksPerPage
        /\ to <= MaxBlocks * BlockSize
        /\ \A n \in Numbers :
             Meets(n, from, to) => \E k \in 1 .. BlocksPerPage : PageBlocks(index)[k] = n
    BY <2>1, PageCovers, SMTT(30)
  <2> QED
    BY <2>2
<1>6. /\ FsInv(f) /\ Grows(fs, f)
      /\ \A k \in 1 .. BlocksPerPage : f.mapped[i][PageBlocks(index)[k]] # NoBlock
  BY <1>2, <1>3, <1>5, AllIs DEF BlocksInv
<1>7. size'[i] = to /\ \A j \in Inodes : j # i => size'[j] = size[j]
  BY <1>3 DEF BlocksInv, SizesInTree
<1>8. SizesInTree'
  BY <1>3, <1>5, <1>7 DEF BlocksInv, SizesInTree
<1>9. ASSUME NEW n \in Numbers
      PROVE  /\ n \in Nat /\ n * BlockSize \in Nat /\ (n + 1) * BlockSize = n * BlockSize + BlockSize
  <2>1. n \in Nat
    BY MaxBlocksIs DEF Numbers
  <2> QED
    BY <2>1, FBFacts
\* A block of the file that is not met was one of the file before.
<1>10. ASSUME NEW j \in Inodes, NEW n \in Numbers, n * BlockSize < size'[j],
              ~(j = i /\ Meets(n, from, to))
       PROVE  n * BlockSize < size[j] /\ (j = i => (n + 1) * BlockSize <= from)
  <2>1. CASE j # i
    BY <1>7, <1>10, <2>1
  <2>2. CASE j = i
    <3>1. n * BlockSize < to
      BY <1>7, <1>10, <2>2
    <3>2. ~((n + 1) * BlockSize > from)
      BY <1>10, <2>2, <3>1 DEF Meets
    <3>3. (n + 1) * BlockSize <= from
      BY <1>1, <1>9, <3>2, FBFacts
    <3> QED
      BY <1>1, <1>9, <2>2, <3>3, FBFacts
  <2> QED
    BY <2>1, <2>2
<1>11. ASSUME NEW j \in Inodes, NEW n \in Numbers, n * BlockSize < size'[j]
       PROVE  f.mapped[j][n] # NoBlock
  <2>1. CASE j = i /\ Meets(n, from, to)
    <3>1. PICK k \in 1 .. BlocksPerPage : PageBlocks(index)[k] = n
      BY <1>5, <2>1
    <3> QED
      BY <1>6, <2>1, <3>1
  <2>2. CASE ~(j = i /\ Meets(n, from, to))
    <3>1. n * BlockSize < size[j]
      BY <1>10, <1>11, <2>2
    <3> QED
      BY <1>6, <3>1 DEF BlocksInv, FileMapped, Grows
  <2> QED
    BY <2>1, <2>2
<1>12. FileMapped'
  BY <1>3, <1>11 DEF FileMapped
\* The buffers of the file's blocks are not new: their flags are what they were.
<1>13. ASSUME NEW n \in Numbers PROVE current[n] \in BOOLEAN
  <2>1. n \in 0 .. MaxBlocks - 1 /\ n \in Nat
    BY <1>9 DEF Numbers
  <2>2. 1 + (n % BlocksPerPage) \in 1 .. BlocksPerPage
    BY <2>1, FBFacts
  <2>3. garbage[1 + (n % BlocksPerPage)] \in BOOLEAN /\ uptodate[i][n] \in BOOLEAN
    BY <2>2 DEF BlocksInv, PagesHold
  <2> QED
    BY <1>4, <2>1, <2>3 DEF Flags
<1>14. ASSUME NEW n \in Numbers, n * BlockSize < from PROVE current[n]
  <2>1. fs.mapped[i][n] # NoBlock /\ uptodate[i][n]
    BY <1>1, <1>14 DEF BlocksInv, FileMapped, PagesHold
  <2>2. n \in 0 .. MaxBlocks - 1
    BY DEF Numbers
  <2> QED
    BY <1>4, <2>1, <2>2 DEF Flags
<1>15. /\ \A n \in Numbers : uptodate'[i][n] = (Meets(n, from, to) \/ current[n])
       /\ \A j \in Inodes : j # i => uptodate'[j] = uptodate[j] /\ pages'[j] = pages[j]
       /\ pages'[i] = pg /\ DOMAIN pages' = Inodes
       /\ uptodate' \in [Inodes -> [Numbers -> BOOLEAN]]
  <2>1. /\ FlagsAfter(current, from, to) \in [Numbers -> BOOLEAN]
        /\ \A n \in Numbers : FlagsAfter(current, from, to)[n] = (Meets(n, from, to) \/ current[n])
    BY DEF FlagsAfter, Numbers
  <2>2. PICK u : u = FlagsAfter(current, from, to) /\ uptodate' = [uptodate EXCEPT ![i] = u]
    BY <1>4
  <2>3. DOMAIN pages = Inodes /\ uptodate \in [Inodes -> [Numbers -> BOOLEAN]]
    BY DEF BlocksInv, PagesHold
  <2>4. uptodate'[i] = u /\ uptodate' \in [Inodes -> [Numbers -> BOOLEAN]]
    BY <2>1, <2>2, <2>3
  <2>5. \A j \in Inodes : j # i => uptodate'[j] = uptodate[j]
    BY <2>2, <2>3
  <2>6. pages'[i] = pg /\ DOMAIN pages' = Inodes /\ \A j \in Inodes : j # i => pages'[j] = pages[j]
    BY <1>4, <2>3
  <2> QED
    BY <2>1, <2>2, <2>4, <2>5, <2>6
<1>16. ASSUME NEW j \in Inodes, NEW n \in Numbers, n * BlockSize < size'[j] PROVE uptodate'[j][n]
  <2>1. CASE j = i /\ Meets(n, from, to)
    BY <1>15, <2>1
  <2>2. CASE ~(j = i /\ Meets(n, from, to))
    <3>1. n * BlockSize < size[j]
      BY <1>10, <1>16, <2>2
    <3>2. CASE j = i
      BY <1>1, <1>14, <1>15, <3>1, <3>2
    <3>3. CASE j # i
      BY <1>15, <3>1, <3>3 DEF BlocksInv, PagesHold
    <3> QED
      BY <3>2, <3>3
  <2> QED
    BY <2>1, <2>2
\* The page has what it had before from, and what is written after.
<1>16a. ASSUME NEW n \in Numbers, NEW o \in 0 .. BlockSize - 1, NEW p, p = n * BlockSize + o
       PROVE  /\ from <= p /\ p < to => pg[n][o] = <<i, p>>
              /\ ~(from <= p /\ p < to) /\ (current[n] \/ ~Meets(n, from, to))
                   => pg[n][o] = pages[i][n][o]
  <2>1. PICK old : old = pages[i] /\ pg = PageAfter(old, current, disk, m, i, from, to)
    BY <1>4
  <2>2. PageGot(pg, old, current, i, from, to, n, o, p)
    BY <1>16a, <2>1, PageAfterIs
  <2> QED
    BY <2>1, <2>2 DEF PageGot
<1>17. ASSUME NEW j \in Inodes, NEW n \in Numbers, NEW o \in 0 .. BlockSize - 1,
              n * BlockSize + o < size'[j]
       PROVE  pages'[j][n][o] = <<j, n * BlockSize + o>>
  <2>1. PICK p \in Nat : p = n * BlockSize + o /\ n * BlockSize <= p
    <3>1. o \in Nat /\ n * BlockSize \in Nat
      BY <1>9, FBFacts
    <3> QED
      BY <3>1
  <2>2. CASE j # i
    BY <1>7, <1>15, <1>17, <2>2 DEF BlocksInv, PagesHold
  <2>3. CASE j = i /\ from <= p
    <3>1. p < to
      BY <1>7, <1>17, <2>1, <2>3
    <3> QED
      BY <1>15, <1>16a, <2>1, <2>3, <3>1
  <2>4. CASE j = i /\ ~(from <= p)
    <3>1. p < from /\ n * BlockSize < from
      BY <1>9, <2>1, <2>4
    <3>2. current[n]
      BY <1>14, <3>1
    <3>3. pg[n][o] = pages[i][n][o]
      BY <1>16a, <2>1, <2>4, <3>2
    <3> QED
      BY <1>1, <1>15, <2>1, <2>4, <3>1, <3>3 DEF BlocksInv, PagesHold
  <2> QED
    BY <2>2, <2>3, <2>4
<1>18. PagesHold'
  BY <1>15, <1>16, <1>17 DEF PagesHold
<1>19. ASSUME NEW j \in Inodes, NEW n \in Numbers, NEW o \in 0 .. BlockSize - 1,
              n * BlockSize + o < size'[j]
       PROVE  disk'[f.mapped[j][n]][o] = <<j, n * BlockSize + o>>
  <2>1. o \in Nat /\ o < BlockSize /\ n * BlockSize < size'[j] /\ size'[j] \in Nat
    BY <1>8, <1>9, <1>19, FBFacts DEF SizesInTree
  <2>2. disk'[f.mapped[j][n]]
          = IF j = i /\ Meets(n, from, to) THEN pg[n] ELSE disk[f.mapped[j][n]]
    <3>1. FsInv(f) /\ f.mapped[j][n] # NoBlock
      BY <1>6, <1>11, <2>1
    <3>2. disk' = DiskAfter(disk, f.mapped[i], pg, from, to)
      BY <1>2, <1>4
    <3>3. PICK d, e : d = disk /\ e = disk' /\ e = DiskAfter(d, f.mapped[i], pg, from, to)
      BY <3>2
    <3>4. WrittenTo(e, d, pg, f, i, from, to, j, n)
      BY <3>1, <3>3, Written
    <3> QED
      BY <3>3, <3>4 DEF WrittenTo
  <2>3. CASE j = i /\ Meets(n, from, to)
    BY <1>15, <1>17, <1>19, <2>2, <2>3
  <2>4. CASE ~(j = i /\ Meets(n, from, to))
    <3>1. n * BlockSize < size[j] /\ (j = i => (n + 1) * BlockSize <= from)
      BY <1>10, <2>1, <2>4
    <3>2. n * BlockSize + o < size[j]
      <4>1. j = i => (n + 1) * BlockSize <= from /\ from = size[j]
        BY <1>1, <3>1
      <4>2. j # i => size'[j] = size[j]
        BY <1>7
      <4> QED
        BY <1>9, <1>19, <2>1, <4>1, <4>2, FBFacts
    <3>3. f.mapped[j][n] = fs.mapped[j][n]
      BY <1>6, <3>1 DEF BlocksInv, FileMapped, Grows
    <3> QED
      BY <2>2, <2>4, <3>2, <3>3 DEF BlocksInv, OnDisk
  <2> QED
    BY <2>3, <2>4
<1>20. OnDisk'
  BY <1>3, <1>19 DEF OnDisk
<1>21. RestFits'
  <2>1. /\ rest'[i] = rest[i] - nbytes /\ rest' \in [Inodes -> Nat]
        /\ \A j \in Inodes : j # i => rest'[j] = rest[j]
    <3>1. rest \in [Inodes -> Nat] /\ rest[i] \in Nat /\ rest[i] - nbytes \in Nat
      BY <1>1 DEF BlocksInv, RestFits
    <3> QED
      BY <1>3, <3>1
  <2>2. size'[i] + rest'[i] - 1 = size[i] + rest[i] - 1
    BY <1>1, <1>7, <2>1 DEF BlocksInv, RestFits
  <2>3. ASSUME NEW j \in Inodes, rest'[j] > 0
        PROVE  ((size'[j] + rest'[j] - 1) \div PageSize + 1) * BlocksPerPage <= MaxBlocks
    <3>1. CASE j = i
      BY <1>1, <2>2, <3>1 DEF BlocksInv, RestFits
    <3>2. CASE j # i
      BY <1>7, <2>1, <2>3, <3>2 DEF BlocksInv, RestFits
    <3> QED
      BY <3>1, <3>2
  <2> QED
    BY <2>1, <2>3 DEF RestFits
<1> QED
  BY <1>3, <1>6, <1>8, <1>12, <1>18, <1>20, <1>21 DEF BlocksInv

\* and so it is one.
LEMMA BlocksHold == Spec => []BlocksInv
<1>1. BlocksInv /\ [Next]_vars => BlocksInv'
  <2> SUFFICES ASSUME BlocksInv, [Next]_vars PROVE BlocksInv'
    OBVIOUS
  <2>1. CASE UNCHANGED vars
    BY <2>1 DEF BlocksInv, SizesInTree, FileMapped, OnDisk, RestFits, PagesHold, vars
  <2>2. CASE Next
    BY <2>2, CallKeeps, PassKeeps DEF Next
  <2> QED
    BY <2>1, <2>2
<1> QED
  BY <1>1, BlocksBegin, PTL DEF Spec

-----------------------------------------------------------------------------
(* What the references are.                                                  *)

\* The pointer blocks of an inode.
OwnIndex(i, b) ==
    /\ b \in Blocks \ {NoBlock}
    /\ \/ b = fs.data[i][Direct]
       \/ /\ fs.data[i][Direct] \in Blocks \ {NoBlock}
          /\ \E m \in Offsets : b = fs.pointers[fs.data[i][Direct]][m]

\* A pointer block belongs to one inode.
LEMMA OwnIndexIsOne ==
    ASSUME FsInv(fs), NEW b, NEW i \in Inodes, NEW j \in Inodes,
           OwnIndex(i, b), OwnIndex(j, b)
    PROVE  i = j
<1>0. Direct \in Places /\ OneReference(fs)
  BY FBFacts DEF Places, FsInv
<1>1. b # NoBlock
  BY DEF OwnIndex
<1>2. CASE b = fs.data[i][Direct] /\ b = fs.data[j][Direct]
  BY <1>0, <1>1, <1>2, OneInInodes
<1>3. ASSUME NEW k \in Inodes, NEW l \in Inodes, b = fs.data[k][Direct],
             fs.data[l][Direct] \in Blocks \ {NoBlock},
             NEW m \in Offsets, b = fs.pointers[fs.data[l][Direct]][m]
      PROVE  FALSE
  <2>1. PICK c \in Blocks : c = fs.data[l][Direct]
    BY <1>3
  <2>2. fs.data[k][Direct] = fs.pointers[c][m] /\ fs.data[k][Direct] # NoBlock
    BY <1>1, <1>3, <2>1
  <2> QED
    BY <1>0, <2>2, NotInBoth
<1>4. ASSUME fs.data[i][Direct] \in Blocks \ {NoBlock}, fs.data[j][Direct] \in Blocks \ {NoBlock},
             NEW m \in Offsets, b = fs.pointers[fs.data[i][Direct]][m],
             NEW n \in Offsets, b = fs.pointers[fs.data[j][Direct]][n]
      PROVE  i = j
  <2>1. PICK c \in Blocks, d \in Blocks : c = fs.data[i][Direct] /\ d = fs.data[j][Direct]
    BY <1>4
  <2>4. fs.pointers[c][m] = fs.pointers[d][n] /\ fs.pointers[c][m] # NoBlock
    BY <1>1, <1>4, <2>1
  <2>2. fs.data[i][Direct] = fs.data[j][Direct]
    BY <1>0, <2>1, <2>4, OneInBlocks
  <2>3. fs.data[i][Direct] # NoBlock
    BY <1>4
  <2> QED
    BY <1>0, <2>2, <2>3, OneInInodes
<1> QED
  BY <1>2, <1>3, <1>4 DEF OwnIndex

\* A reference is a pointer of the inode or of one of its pointer blocks.
Reference(i, r) ==
    \/ \E n \in Places : r = <<-1, n, fs.data[i][n]>> /\ fs.data[i][n] # NoBlock
    \/ \E b \in Blocks, n \in Offsets :
          r = <<b, n, fs.pointers[b][n]>> /\ OwnIndex(i, b) /\ fs.pointers[b][n] # NoBlock

\* The references of an inode are its set pointers and those below it.
LEMMA ReferenceIs ==
    ASSUME FsInv(fs), NEW i \in Inodes, NEW r
    PROVE  r \in References(i) <=> Reference(i, r)
<1> DEFINE top == fs.data[i][Direct]
           entries(b) == IF b = NoBlock THEN {} ELSE {<<b, n>> : n \in Offsets}
           seconds == {fs.pointers[e[1]][e[2]] : e \in entries(top)} \ {NoBlock}
           all == entries(top) \cup UNION {entries(b) : b \in seconds}
<1>1. References(i) = {x \in {<<-1, n, fs.data[i][n]>> : n \in Places}
                             \cup {<<e[1], e[2], fs.pointers[e[1]][e[2]]>> : e \in all} :
                          x[3] # NoBlock}
  BY DEF References, Places, Offsets
<1>2. top \in Blocks \cup {NoBlock}
  <2>1. Direct \in Places
    BY FBFacts DEF Places
  <2> QED
    BY <2>1 DEF FsInv, FsType
<1>3. ASSUME NEW b \in Blocks, NEW n \in Offsets
      PROVE  fs.pointers[b][n] \in Blocks \cup {NoBlock}
  BY DEF FsInv, FsType
<1> HIDE DEF top
<1>4. ASSUME NEW b PROVE b \in seconds <=> /\ top # NoBlock /\ b # NoBlock
                                           /\ \E m \in Offsets : b = fs.pointers[top][m]
  <2>1. ASSUME b \in seconds
        PROVE  top # NoBlock /\ b # NoBlock /\ \E m \in Offsets : b = fs.pointers[top][m]
    BY <2>1
  <2>2. ASSUME top # NoBlock, b # NoBlock, NEW m \in Offsets, b = fs.pointers[top][m]
        PROVE  b \in seconds
    <3>1. <<top, m>> \in entries(top)
      BY <2>2
    <3>2. b = fs.pointers[<<top, m>>[1]][<<top, m>>[2]]
      BY <2>2
    <3> HIDE DEF entries
    <3> QED
      BY <2>2, <3>1, <3>2
  <2> QED
    BY <2>1, <2>2
<1>5. ASSUME NEW b PROVE (b = top /\ b # NoBlock) \/ b \in seconds <=> OwnIndex(i, b)
  BY <1>2, <1>3, <1>4 DEF OwnIndex, top
<1>6. ASSUME NEW e PROVE e \in all <=> \E b, n : n \in Offsets /\ OwnIndex(i, b) /\ e = <<b, n>>
  <2>1. ASSUME NEW b, NEW n \in Offsets, OwnIndex(i, b), e = <<b, n>> PROVE e \in all
    <3>1. b # NoBlock /\ (b = top \/ b \in seconds)
      BY <1>5, <2>1
    <3>2. e \in entries(b)
      BY <2>1, <3>1
    <3> HIDE DEF entries, seconds
    <3> QED
      BY <3>1, <3>2
  <2>2. ASSUME e \in all PROVE \E b, n : n \in Offsets /\ OwnIndex(i, b) /\ e = <<b, n>>
    <3>1. PICK b : e \in entries(b) /\ (b = top \/ b \in seconds)
      <4> HIDE DEF entries, seconds
      <4> QED
        BY <2>2
    <3>2. PICK n \in Offsets : e = <<b, n>> /\ b # NoBlock
      BY <3>1
    <3>3. OwnIndex(i, b)
      BY <1>5, <3>1, <3>2
    <3> QED
      BY <3>2, <3>3
  <2> QED
    BY <2>1, <2>2
<1> HIDE DEF all
<1>7. ASSUME r \in References(i) PROVE Reference(i, r)
  <2>1. r[3] # NoBlock
    BY <1>1, <1>7
  <2>2. CASE \E n \in Places : r = <<-1, n, fs.data[i][n]>>
    BY <2>1, <2>2 DEF Reference
  <2>3. CASE \E e \in all : r = <<e[1], e[2], fs.pointers[e[1]][e[2]]>>
    <3>1. PICK e \in all : r = <<e[1], e[2], fs.pointers[e[1]][e[2]]>>
      BY <2>3
    <3>2. PICK b, n : n \in Offsets /\ OwnIndex(i, b) /\ e = <<b, n>>
      BY <1>6
    <3>3. r = <<b, n, fs.pointers[b][n]>> /\ b \in Blocks /\ fs.pointers[b][n] # NoBlock
      BY <2>1, <3>1, <3>2 DEF OwnIndex
    <3> QED
      BY <3>2, <3>3 DEF Reference
  <2> QED
    BY <1>1, <1>7, <2>2, <2>3
<1>8. ASSUME Reference(i, r) PROVE r \in References(i)
  <2>1. CASE \E n \in Places : r = <<-1, n, fs.data[i][n]>> /\ fs.data[i][n] # NoBlock
    BY <1>1, <2>1
  <2>2. CASE \E b \in Blocks, n \in Offsets :
               r = <<b, n, fs.pointers[b][n]>> /\ OwnIndex(i, b) /\ fs.pointers[b][n] # NoBlock
    <3>1. PICK b \in Blocks, n \in Offsets :
               r = <<b, n, fs.pointers[b][n]>> /\ OwnIndex(i, b) /\ fs.pointers[b][n] # NoBlock
      BY <2>2
    <3>2. PICK e \in all : e = <<b, n>>
      BY <1>6, <3>1
    <3>3. r = <<e[1], e[2], fs.pointers[e[1]][e[2]]>> /\ r[3] # NoBlock
      BY <3>1, <3>2
    <3> QED
      BY <1>1, <3>3
  <2> QED
    BY <1>8, <2>1, <2>2 DEF Reference
<1> QED
  BY <1>7, <1>8

\* The blocks referred to are those whose bits are set.
LEMMA AccountsHold == ASSUME FsInv(fs) PROVE BlocksAccounted
<1> DEFINE taken == {Target(r) : r \in AllReferences}
<1>0. Direct \in Places /\ OneReference(fs)
  BY FBFacts DEF Places, FsInv
<1>1. ASSUME NEW x
      PROVE  x \in AllReferences <=> \E i \in Inodes : \E r : Reference(i, r) /\ x = <<i, r>>
  BY ReferenceIs DEF AllReferences
<1>2. ASSUME NEW i \in Inodes, NEW r, Reference(i, r), NEW j \in Inodes, NEW q, Reference(j, q),
             r[3] = q[3]
      PROVE  i = j /\ r = q
  <2>1. ASSUME NEW n \in Places, r = <<-1, n, fs.data[i][n]>>, fs.data[i][n] # NoBlock,
               NEW m \in Places, q = <<-1, m, fs.data[j][m]>>
        PROVE  i = j /\ r = q
    <3>1. fs.data[i][n] = fs.data[j][m]
      BY <1>2, <2>1
    <3>2. i = j /\ n = m
      BY <1>0, <2>1, <3>1, OneInInodes
    <3> QED
      BY <2>1, <3>2
  <2>2. ASSUME NEW n \in Places, r = <<-1, n, fs.data[i][n]>>, fs.data[i][n] # NoBlock,
               NEW b \in Blocks, NEW m \in Offsets, q = <<b, m, fs.pointers[b][m]>>
        PROVE  FALSE
    <3>1. fs.data[i][n] = fs.pointers[b][m]
      BY <1>2, <2>2
    <3> QED
      BY <1>0, <2>2, <3>1, NotInBoth
  <2>3. ASSUME NEW n \in Places, q = <<-1, n, fs.data[j][n]>>, fs.data[j][n] # NoBlock,
               NEW b \in Blocks, NEW m \in Offsets, r = <<b, m, fs.pointers[b][m]>>
        PROVE  FALSE
    <3>1. fs.data[j][n] = fs.pointers[b][m]
      BY <1>2, <2>3
    <3> QED
      BY <1>0, <2>3, <3>1, NotInBoth
  <2>4. ASSUME NEW b \in Blocks, NEW n \in Offsets, r = <<b, n, fs.pointers[b][n]>>,
               OwnIndex(i, b), fs.pointers[b][n] # NoBlock,
               NEW c \in Blocks, NEW m \in Offsets, q = <<c, m, fs.pointers[c][m]>>,
               OwnIndex(j, c)
        PROVE  i = j /\ r = q
    <3>1. fs.pointers[b][n] = fs.pointers[c][m]
      BY <1>2, <2>4
    <3>2. b = c /\ n = m
      BY <1>0, <2>4, <3>1, OneInBlocks
    <3>3. i = j
      BY <2>4, <3>2, OwnIndexIsOne
    <3> QED
      BY <2>4, <3>2, <3>3
  <2> QED
    BY <1>2, <2>1, <2>2, <2>3, <2>4 DEF Reference
<1>3. \A x, y \in AllReferences : Target(x) = Target(y) => x = y
  <2> SUFFICES ASSUME NEW x \in AllReferences, NEW y \in AllReferences, Target(x) = Target(y)
               PROVE  x = y
    OBVIOUS
  <2>1. PICK i, r : i \in Inodes /\ Reference(i, r) /\ x = <<i, r>>
    BY <1>1
  <2>2. PICK j, q : j \in Inodes /\ Reference(j, q) /\ y = <<j, q>>
    BY <1>1
  <2>3. r[3] = q[3]
    BY <2>1, <2>2 DEF Target
  <2> QED
    BY <1>2, <2>1, <2>2, <2>3
<1>4. taken = Targets(fs)
  <2>1. ASSUME NEW v \in taken PROVE v \in Targets(fs)
    <3>1. PICK i, r : i \in Inodes /\ Reference(i, r) /\ v = r[3]
      <4>1. PICK x \in AllReferences : v = Target(x)
        OBVIOUS
      <4>2. PICK i, r : i \in Inodes /\ Reference(i, r) /\ x = <<i, r>>
        BY <1>1
      <4> QED
        BY <4>1, <4>2 DEF Target
    <3>2. CASE \E n \in Places : r = <<-1, n, fs.data[i][n]>> /\ fs.data[i][n] # NoBlock
      <4>1. PICK n \in Places : v = fs.data[i][n] /\ v # NoBlock
        BY <3>1, <3>2
      <4>2. PICK s \in Slots : Val(fs, s) = v
        BY <3>1, <4>1, InodeSlot
      <4> QED
        BY <4>1, <4>2 DEF Targets
    <3>3. CASE \E b \in Blocks, n \in Offsets :
              r = <<b, n, fs.pointers[b][n]>> /\ OwnIndex(i, b) /\ fs.pointers[b][n] # NoBlock
      <4>1. PICK b \in Blocks, n \in Offsets : v = fs.pointers[b][n] /\ v # NoBlock
        BY <3>1, <3>3
      <4>2. PICK s \in Slots : Val(fs, s) = v
        BY <4>1, BlockSlot
      <4> QED
        BY <4>1, <4>2 DEF Targets
    <3> QED
      BY <3>1, <3>2, <3>3 DEF Reference
  <2>2. ASSUME NEW v \in Targets(fs) PROVE v \in taken
    <3>1. PICK s \in Slots : v = Val(fs, s) /\ v # NoBlock
      BY DEF Targets
    <3>2. \E i, r : i \in Inodes /\ Reference(i, r) /\ r[3] = v
      <4>1. CASE \E i \in Inodes, n \in Places : s = <<"inode", i, n>>
        <5>1. PICK i \in Inodes, n \in Places : s = <<"inode", i, n>>
          BY <4>1
        <5>2. v = fs.data[i][n]
          BY <3>1, <5>1, InodeSlot
        <5>3. PICK r : r = <<-1, n, fs.data[i][n]>>
          OBVIOUS
        <5>4. Reference(i, r)
          BY <3>1, <5>2, <5>3 DEF Reference
        <5> QED
          BY <5>2, <5>3, <5>4
      <4>2. CASE \E b \in Blocks, n \in Offsets : s = <<"block", b, n>>
        <5>1. PICK b \in Blocks, n \in Offsets : s = <<"block", b, n>>
          BY <4>2
        <5>2. v = fs.pointers[b][n]
          BY <3>1, <5>1, BlockSlot
        <5>3. IsIndex(fs, b)
          BY <3>1, <5>2 DEF FsInv, OnlyIndexPoints
        <5>4. PICK i \in Inodes : OwnIndex(i, b)
          <6>1. \A i \in Inodes : fs.data[i][Direct] \in Blocks \cup {NoBlock}
            BY <1>0 DEF FsInv, FsType
          <6> QED
            BY <5>3, <6>1 DEF IsIndex, OwnIndex
        <5>5. PICK r : r = <<b, n, fs.pointers[b][n]>>
          OBVIOUS
        <5>6. Reference(i, r)
          BY <3>1, <5>2, <5>4, <5>5 DEF Reference
        <5> QED
          BY <5>2, <5>5, <5>6
      <4> QED
        BY <4>1, <4>2 DEF Slots
    <3>3. PICK i, r : i \in Inodes /\ Reference(i, r) /\ r[3] = v
      BY <3>2
    <3>4. <<i, r>> \in AllReferences
      BY <1>1, <3>3
    <3>5. Target(<<i, r>>) = v
      BY <3>3 DEF Target
    <3> QED
      BY <3>4, <3>5
  <2> QED
    BY <2>1, <2>2
<1> HIDE DEF taken
<1> QED
  BY <1>3, <1>4 DEF BlocksAccounted, FsInv, BitsAreTargets, Bits, ReservedBlocks, taken

\* What was written to a file stands where its tree says.
LEMMA FilesHold == ASSUME BlocksInv PROVE DiskHoldsFile
<1> SUFFICES ASSUME NEW i \in Inodes, NEW p \in 0 .. size[i] - 1
             PROVE  disk[Lookup(fs, i, p \div BlockSize)][p % BlockSize] = <<i, p>>
  BY DEF DiskHoldsFile
<1>1. p \in Nat /\ p < size[i] /\ size[i] \in Nat /\ size[i] <= MaxBlocks * BlockSize
  BY DEF BlocksInv, SizesInTree
<1>2. PICK n \in Nat, o \in Nat :
          /\ n = p \div BlockSize /\ o = p % BlockSize /\ o < BlockSize
          /\ p = n * BlockSize + o /\ n * BlockSize \in Nat
  <2>1. p \in Int
    BY <1>1
  <2>2. p \div BlockSize \in Nat /\ (p \div BlockSize) * BlockSize \in Nat
    BY <1>1, FBFacts, Floor
  <2>3. p % BlockSize \in 0 .. BlockSize - 1 /\ p = BlockSize * (p \div BlockSize) + (p % BlockSize)
    BY <2>1, FBFacts, DivMod
  <2>4. BlockSize * (p \div BlockSize) = (p \div BlockSize) * BlockSize
    BY <2>2, FBFacts
  <2>5. p % BlockSize \in Nat /\ p % BlockSize < BlockSize
    BY <2>3, FBFacts
  <2> QED
    BY <2>2, <2>3, <2>4, <2>5
<1>3. n \in Numbers
  <2>1. n * BlockSize < MaxBlocks * BlockSize
    BY <1>1, <1>2, MaxBlocksIs
  <2>2. n < MaxBlocks
    BY <1>2, <2>1, MaxBlocksIs, FBFacts, SumOfProducts
  <2> QED
    BY <1>2, <2>2, MaxBlocksIs DEF Numbers
<1>4. o \in 0 .. BlockSize - 1 /\ n * BlockSize < size[i] /\ n * BlockSize + o < size[i]
  BY <1>1, <1>2, FBFacts
<1>5. fs.mapped[i][n] = Lookup(fs, i, n)
  BY <1>3, <1>4 DEF BlocksInv, FileMapped, FsInv, MappedAsTree
<1>6. disk[fs.mapped[i][n]][o] = <<i, n * BlockSize + o>>
  BY <1>3, <1>4 DEF BlocksInv, OnDisk
<1> QED
  BY <1>2, <1>5, <1>6

\* get_blocks and __get_block, whatever appends there are: no block is referred
\* to twice, and the bitmaps are the reserved blocks and those referred to.
THEOREM BlocksAreAccounted == Spec => []BlocksAccounted
<1>1. BlocksInv => BlocksAccounted
  BY AccountsHold DEF BlocksInv
<1> QED
  BY <1>1, BlocksHold, PTL

\* write_inode, for any sizes of blocks, pages and files, and whatever the flags of
\* new buffers are: every unit appended is on disk in the block the tree gives.
THEOREM FilesAreOnDisk == Spec => []DiskHoldsFile
<1>1. BlocksInv => DiskHoldsFile
  BY FilesHold
<1> QED
  BY <1>1, BlocksHold, PTL

-----------------------------------------------------------------------------
(* DirEntries.                                                               *)

\* The constants of DirEntries, one by one.
LEMMA DEFacts ==
    /\ PAGE_SIZE \in Nat /\ PAGE_SIZE > 0 /\ NrPages \in Nat
    /\ \A n \in Names : EntryLen[n] \in Nat /\ EntryLen[n] > 0 /\ EntryLen[n] < PAGE_SIZE
    /\ NoEntry \notin Names
    /\ NrPages * PAGE_SIZE \in Nat
  BY DEAssumption

\* The state of a directory: size s, entries c, histories p.  The addresses
\* where an entry starts, and where it ends.
Used(c) == {a \in Addresses : c[a] # NoEntry}
EndOf(c, a) == a + EntryLen[c[a]]
SamePage(a, b) == a \div PAGE_SIZE = b \div PAGE_SIZE

TypedAs(s, c, p) ==
    /\ s \in Nat /\ s <= NrPages * PAGE_SIZE
    /\ c \in [Addresses -> Names \cup {NoEntry}]
    /\ p \in [Names -> Seq(Addresses)]

\* Entries lie within the file and within their page.
WithinPage(s, c) == \A a \in Used(c) :
    /\ EndOf(c, a) <= s
    /\ (a % PAGE_SIZE) + EntryLen[c[a]] < PAGE_SIZE

\* Between the start of a page and an entry, or the end of the file, there are
\* entries only.
EndsAt(c, b, a) == b \in Used(c) /\ SamePage(a, b) /\ EndOf(c, b) = a
Joined(c, a) == a % PAGE_SIZE = 0 \/ \E b \in Used(c) : EndsAt(c, b, a)
NoHoles(s, c) == \A a \in Used(c) \cup {s} : Joined(c, a)

\* The history of a name is where its entries are, the first one first.
PlacesKept(c, p) == \A n \in Names :
    /\ \A a \in Addresses : c[a] = n <=> \E k \in DOMAIN p[n] : p[n][k] = a
    /\ \A k \in DOMAIN p[n] : p[n][1] <= p[n][k]

Sound(s, c, p) ==
    TypedAs(s, c, p) /\ WithinPage(s, c) /\ NoHoles(s, c) /\ PlacesKept(c, p)

EntriesInv == Sound(isize, content, places)

\* An address is a page and an offset.
LEMMA Parts ==
    ASSUME NEW a \in Nat
    PROVE  /\ a \div PAGE_SIZE \in Nat /\ a % PAGE_SIZE \in Nat /\ a % PAGE_SIZE < PAGE_SIZE
           /\ a = (a \div PAGE_SIZE) * PAGE_SIZE + (a % PAGE_SIZE)
<1>1. a \div PAGE_SIZE \in Nat /\ a % PAGE_SIZE \in 0 .. PAGE_SIZE - 1
      /\ a = PAGE_SIZE * (a \div PAGE_SIZE) + (a % PAGE_SIZE)
  <2>1. a \in Int
    OBVIOUS
  <2> QED
    BY <2>1, DEFacts, DivMod, Floor
<1>2. PAGE_SIZE * (a \div PAGE_SIZE) = (a \div PAGE_SIZE) * PAGE_SIZE
  BY <1>1, DEFacts
<1> QED
  BY <1>1, <1>2, DEFacts

\* The address of an entry.
LEMMA UsedIs ==
    ASSUME NEW s, NEW c, NEW p, TypedAs(s, c, p), NEW a \in Used(c)
    PROVE  /\ a \in Addresses /\ a \in Nat /\ c[a] \in Names
           /\ EntryLen[c[a]] \in Nat /\ EntryLen[c[a]] > 0 /\ EntryLen[c[a]] < PAGE_SIZE
<1>1. a \in Addresses /\ a \in Nat /\ c[a] \in Names
  BY DEFacts DEF Used, Addresses, TypedAs
<1> QED
  BY <1>1, DEFacts

-----------------------------------------------------------------------------
(* Writing.                                                                  *)

\* An entry of length len that is put at place: where PlaceFor says.
Fits(s, len, place) ==
    /\ place \in Nat /\ s <= place
    /\ place = s \/ place % PAGE_SIZE = 0
    /\ (place % PAGE_SIZE) + len < PAGE_SIZE

\* write_inode places an entry in one page, at the end of the file or on a new page.
LEMMA PlaceIs ==
    ASSUME isize \in Nat, NEW len \in Nat, len > 0, len < PAGE_SIZE
    PROVE  Fits(isize, len, PlaceFor(len))
<1>1. PICK q \in Nat, r \in Nat : /\ q = isize \div PAGE_SIZE /\ r = isize % PAGE_SIZE
                                  /\ r < PAGE_SIZE /\ isize = q * PAGE_SIZE + r
  BY Parts
<1>2. CASE r + len < PAGE_SIZE
  <2>1. PlaceFor(len) = isize
    BY <1>1, <1>2 DEF PlaceFor
  <2> QED
    BY <1>1, <1>2, <2>1 DEF Fits
<1>3. CASE ~(r + len < PAGE_SIZE)
  <2>1. PlaceFor(len) = (q + 1) * PAGE_SIZE
    BY <1>1, <1>3 DEF PlaceFor
  <2>2. (q + 1) * PAGE_SIZE = q * PAGE_SIZE + PAGE_SIZE /\ q * PAGE_SIZE \in Nat
    BY <1>1, DEFacts
  <2>3. PlaceFor(len) % PAGE_SIZE = 0
    BY <1>1, <2>1, DEFacts, Multiple
  <2>4. PlaceFor(len) \in Nat /\ isize <= PlaceFor(len)
    BY <1>1, <2>1, <2>2, DEFacts
  <2> QED
    BY <2>3, <2>4, DEFacts DEF Fits
<1> QED
  BY <1>2, <1>3

\* An entry that is written starts behind all others, and what it follows ends
\* where it starts.
LEMMA EntryWritten ==
    ASSUME NEW s, NEW c, NEW p, Sound(s, c, p), NEW n \in Names, NEW place \in Nat,
           Fits(s, EntryLen[n], place), place \div PAGE_SIZE < NrPages
    PROVE  Sound(place + EntryLen[n], [c EXCEPT ![place] = n],
                 [p EXCEPT ![n] = Append(@, place)])
<1>0. PICK len \in Nat : len = EntryLen[n] /\ len > 0 /\ len < PAGE_SIZE
  BY DEFacts
<1>1. PICK c2, p2, s2 : /\ c2 = [c EXCEPT ![place] = n]
                        /\ p2 = [p EXCEPT ![n] = Append(@, place)]
                        /\ s2 = place + len
  OBVIOUS
<1>2. PICK q \in Nat, r \in Nat : /\ q = place \div PAGE_SIZE /\ r = place % PAGE_SIZE
                                  /\ r + len < PAGE_SIZE /\ place = q * PAGE_SIZE + r
                                  /\ q < NrPages
  BY <1>0, Parts DEF Fits
<1>3. /\ s2 \in Nat /\ s2 < NrPages * PAGE_SIZE /\ place < s2 /\ s2 \div PAGE_SIZE = q
      /\ s \in Nat /\ s <= place
  <2>1. (q + 1) * PAGE_SIZE <= NrPages * PAGE_SIZE
        /\ (q + 1) * PAGE_SIZE = q * PAGE_SIZE + PAGE_SIZE /\ q * PAGE_SIZE \in Nat
    BY <1>2, DEFacts
  <2>2. s2 \in Nat /\ q * PAGE_SIZE <= s2 /\ s2 < (q + 1) * PAGE_SIZE
    BY <1>0, <1>1, <1>2, <2>1, DEFacts
  <2>4. s \in Nat /\ s <= place
    BY DEF Fits, Sound, TypedAs
  <2>5. s2 < NrPages * PAGE_SIZE /\ place < s2
    BY <1>0, <1>1, <2>1, <2>2, DEFacts
  <2>3. s2 \div PAGE_SIZE = q
    BY <2>2, DEFacts, InInterval
  <2> QED
    BY <2>2, <2>3, <2>4, <2>5
<1>4. place \in Addresses
  BY <1>3, DEFacts DEF Addresses
<1>5. TypedAs(s2, c2, p2)
  <2>1. c2 \in [Addresses -> Names \cup {NoEntry}]
    BY <1>1 DEF Sound, TypedAs
  <2>2. p2 \in [Names -> Seq(Addresses)]
    BY <1>1, <1>4 DEF Sound, TypedAs
  <2> QED
    BY <1>3, <2>1, <2>2, DEFacts DEF TypedAs
<1>6. ASSUME NEW a \in Used(c) PROVE EndOf(c, a) \in Nat /\ EndOf(c, a) <= s /\ a < place
  <2>1. a \in Nat /\ EntryLen[c[a]] \in Nat /\ EntryLen[c[a]] > 0
    BY UsedIs DEF Sound
  <2>2. EndOf(c, a) <= s
    BY DEF Sound, WithinPage
  <2> QED
    BY <1>3, <2>1, <2>2 DEF EndOf
<1>7. c2[place] = n /\ \A a \in Addresses : a # place => c2[a] = c[a]
  BY <1>1, <1>4 DEF Sound, TypedAs
<1>8. Used(c2) = Used(c) \cup {place} /\ place \notin Used(c)
  <2>1. place \notin Used(c)
    BY <1>6
  <2> QED
    BY <1>4, <1>7, <2>1, DEFacts DEF Used
<1>9. ASSUME NEW a \in Used(c) PROVE c2[a] = c[a] /\ EndOf(c2, a) = EndOf(c, a)
  BY <1>7, <1>8 DEF Used, EndOf
<1>10. EndOf(c2, place) = s2
  BY <1>0, <1>1, <1>7 DEF EndOf
<1>11. WithinPage(s2, c2)
  <2>1. ASSUME NEW a \in Used(c)
        PROVE  EndOf(c2, a) <= s2 /\ (a % PAGE_SIZE) + EntryLen[c2[a]] < PAGE_SIZE
    BY <1>3, <1>6, <1>9 DEF Sound, WithinPage
  <2>2. EndOf(c2, place) <= s2 /\ (place % PAGE_SIZE) + EntryLen[c2[place]] < PAGE_SIZE
    BY <1>0, <1>2, <1>3, <1>7, <1>10
  <2> QED
    BY <1>8, <2>1, <2>2 DEF WithinPage
<1>12. ASSUME NEW a, Joined(c, a) PROVE Joined(c2, a)
  BY <1>8, <1>9, <1>12 DEF Joined, EndsAt
<1>13. NoHoles(s2, c2)
  <2>1. Joined(c, place)
    <3>1. CASE place = s
      BY <3>1 DEF Sound, NoHoles
    <3>2. CASE place % PAGE_SIZE = 0
      BY <3>2 DEF Joined
    <3> QED
      BY <3>1, <3>2 DEF Fits
  <2>2. EndsAt(c2, place, s2)
    BY <1>2, <1>3, <1>8, <1>10 DEF EndsAt, SamePage
  <2>3. Joined(c2, s2)
    BY <1>8, <2>2 DEF Joined
  <2>4. ASSUME NEW a \in Used(c) PROVE Joined(c2, a)
    BY <1>12 DEF Sound, NoHoles
  <2> QED
    BY <1>8, <1>12, <2>1, <2>3, <2>4 DEF NoHoles
<1>14. PlacesKept(c2, p2)
  <2>1. ASSUME NEW m \in Names, m # n
        PROVE  /\ p2[m] = p[m]
               /\ \A a \in Addresses : c2[a] = m <=> c[a] = m
    <3>1. c[place] = NoEntry
      BY <1>4, <1>8 DEF Used
    <3> QED
      BY <1>1, <1>7, <2>1, <3>1, DEFacts DEF Sound, TypedAs
  <2>2. PICK old, new, l :
            /\ old = p[n] /\ new = p2[n] /\ l = Len(old) /\ l \in Nat
            /\ old \in Seq(Addresses) /\ new = Append(old, place)
    <3>1. p[n] \in Seq(Addresses) /\ p2[n] = Append(p[n], place)
      BY <1>1 DEF Sound, TypedAs
    <3>2. Len(p[n]) \in Nat
      BY <3>1
    <3> QED
      BY <3>1, <3>2
  <2>3. /\ DOMAIN old = 1 .. l /\ DOMAIN new = 1 .. l + 1
        /\ new[l + 1] = place /\ \A k \in 1 .. l : new[k] = old[k] /\ old[k] \in Addresses
    BY <1>4, <2>2
  <2>4. /\ \A a \in Addresses : c[a] = n <=> \E k \in 1 .. l : old[k] = a
        /\ \A k \in 1 .. l : old[1] <= old[k]
    BY <2>2, <2>3 DEF Sound, PlacesKept
  <2>5. ASSUME NEW a \in Addresses
        PROVE  c2[a] = n <=> \E k \in 1 .. l + 1 : new[k] = a
    <3>1. CASE a = place
      <4>1. l + 1 \in 1 .. l + 1
        BY <2>2
      <4> QED
        BY <1>7, <2>3, <3>1, <4>1
    <3>2. CASE a # place
      <4>1. \A k \in 1 .. l + 1 : k \in 1 .. l \/ k = l + 1
        BY <2>2
      <4>2. 1 .. l \subseteq 1 .. l + 1
        BY <2>2
      <4> QED
        BY <1>7, <2>3, <2>4, <3>2, <4>1, <4>2
    <3> QED
      BY <3>1, <3>2
  <2>6. ASSUME NEW k \in 1 .. l PROVE old[k] \in Nat /\ old[k] < place
    <3>1. old[k] \in Used(c)
      BY <2>3, <2>4, DEFacts DEF Used
    <3> QED
      BY <1>6, <3>1, UsedIs DEF Sound
  <2>7. ASSUME NEW k \in 1 .. l + 1 PROVE new[1] <= new[k]
    <3>1. CASE l = 0
      BY <2>3, <3>1
    <3>2. CASE l # 0
      <4>1. 1 \in 1 .. l /\ (k \in 1 .. l \/ k = l + 1)
        BY <2>2, <3>2
      <4> QED
        BY <2>3, <2>4, <2>6, <4>1
    <3> QED
      BY <3>1, <3>2
  <2>8. ASSUME NEW m \in Names
        PROVE  /\ \A a \in Addresses : c2[a] = m <=> \E k \in DOMAIN p2[m] : p2[m][k] = a
               /\ \A k \in DOMAIN p2[m] : p2[m][1] <= p2[m][k]
    <3>1. CASE m = n
      <4>1. p2[m] = new /\ DOMAIN p2[m] = 1 .. l + 1
        BY <2>2, <2>3, <3>1
      <4>2. \A a \in Addresses : c2[a] = m <=> \E k \in 1 .. l + 1 : new[k] = a
        BY <2>5, <3>1
      <4>3. \A k \in 1 .. l + 1 : new[1] <= new[k]
        BY <2>7
      <4> QED
        BY <4>1, <4>2, <4>3
    <3>2. CASE m # n
      BY <2>1, <3>2 DEF Sound, PlacesKept
    <3> QED
      BY <3>1, <3>2
  <2> QED
    BY <2>8 DEF PlacesKept
<1> QED
  BY <1>0, <1>1, <1>5, <1>11, <1>13, <1>14 DEF Sound

\* Without a page left for the entry the size stops where the pages end.
LEMMA NoPageLeft ==
    ASSUME NEW s, NEW c, NEW p, Sound(s, c, p), NEW n \in Names, NEW place \in Nat,
           Fits(s, EntryLen[n], place), place \div PAGE_SIZE >= NrPages,
           place <= NrPages * PAGE_SIZE
    PROVE  Sound(place, c, p)
<1>1. PICK q \in Nat, r \in Nat : /\ q = place \div PAGE_SIZE /\ r = place % PAGE_SIZE
                                  /\ place = q * PAGE_SIZE + r
  BY Parts
<1>2. NrPages * PAGE_SIZE <= q * PAGE_SIZE /\ q * PAGE_SIZE \in Nat
  BY <1>1, DEFacts
<1>3. place % PAGE_SIZE = 0
  BY <1>1, <1>2, DEFacts
<1>4. TypedAs(place, c, p)
  BY DEF Sound, TypedAs
<1>5. WithinPage(place, c)
  <2>1. ASSUME NEW a \in Used(c) PROVE EndOf(c, a) \in Nat /\ EndOf(c, a) <= s
    BY UsedIs DEF Sound, WithinPage, EndOf
  <2>2. s \in Nat /\ s <= place
    BY DEF Sound, TypedAs, Fits
  <2> QED
    BY <2>1, <2>2 DEF Sound, WithinPage
<1>6. NoHoles(place, c)
  BY <1>3 DEF Sound, NoHoles, Joined
<1> QED
  BY <1>4, <1>5, <1>6 DEF Sound

\* What is behind the last page is its end.
LEMMA PlaceInFile ==
    ASSUME isize \in Nat, isize <= NrPages * PAGE_SIZE, NEW len \in Nat, len > 0, len < PAGE_SIZE
    PROVE  PlaceFor(len) <= NrPages * PAGE_SIZE
<1>1. PICK q \in Nat, r \in Nat : /\ q = isize \div PAGE_SIZE /\ r = isize % PAGE_SIZE
                                  /\ r < PAGE_SIZE /\ isize = q * PAGE_SIZE + r
  BY Parts
<1>2. CASE r + len < PAGE_SIZE
  BY <1>1, <1>2 DEF PlaceFor
<1>3. CASE ~(r + len < PAGE_SIZE)
  <2>1. PlaceFor(len) = (q + 1) * PAGE_SIZE
    BY <1>1, <1>3 DEF PlaceFor
  <2>2. q + 1 <= NrPages
    <3>1. SUFFICES ASSUME q >= NrPages PROVE FALSE
      BY DEFacts
    <3>2. NrPages * PAGE_SIZE <= q * PAGE_SIZE /\ q * PAGE_SIZE \in Nat
      BY <3>1, DEFacts
    <3>3. r = 0
      BY <1>1, <3>2, DEFacts
    <3> QED
      BY <1>3, <3>3
  <2>3. (q + 1) * PAGE_SIZE <= NrPages * PAGE_SIZE
    BY <2>2, DEFacts
  <2> QED
    BY <2>1, <2>3
<1> QED
  BY <1>2, <1>3

\* The invariant of DirEntries.
LEMMA EntriesHold == EntriesSpec => []EntriesInv
<1>1. EntriesInit => EntriesInv
  <2> SUFFICES ASSUME EntriesInit PROVE EntriesInv
    OBVIOUS
  <2>1. Used(content) = {}
    BY DEF Used, EntriesInit
  <2>2. TypedAs(isize, content, places)
    BY DEFacts DEF TypedAs, EntriesInit
  <2>3. WithinPage(isize, content)
    BY <2>1 DEF WithinPage
  <2>4. isize % PAGE_SIZE = 0
    <3>1. 0 % PAGE_SIZE = 0
      BY DEFacts
    <3> QED
      BY <3>1 DEF EntriesInit
  <2>5. NoHoles(isize, content)
    BY <2>1, <2>4 DEF NoHoles, Joined
  <2>6. PlacesKept(content, places)
    <3>1. ASSUME NEW n \in Names
          PROVE  DOMAIN places[n] = {} /\ \A a \in Addresses : content[a] # n
      <4>1. places[n] = <<>> /\ \A a \in Addresses : content[a] = NoEntry
        BY DEF EntriesInit
      <4>2. NoEntry # n
        BY DEFacts
      <4>3. DOMAIN places[n] = {}
        <5>1. Len(places[n]) = 0 /\ DOMAIN places[n] = 1 .. 0
          BY <4>1
        <5> QED
          BY <5>1
      <4> QED
        BY <4>1, <4>2, <4>3
    <3> QED
      BY <3>1 DEF PlacesKept
  <2> QED
    BY <2>2, <2>3, <2>5, <2>6 DEF EntriesInv, Sound
<1>2. EntriesInv /\ [EntriesNext]_dirVars => EntriesInv'
  <2> SUFFICES ASSUME EntriesInv, [EntriesNext]_dirVars PROVE EntriesInv'
    OBVIOUS
  <2>1. CASE UNCHANGED dirVars
    BY <2>1 DEF EntriesInv, dirVars
  <2>2. ASSUME NEW n \in Names, WriteEntry(n) PROVE EntriesInv'
    <3>1. EntryLen[n] \in Nat /\ EntryLen[n] > 0 /\ EntryLen[n] < PAGE_SIZE
          /\ isize \in Nat /\ isize <= NrPages * PAGE_SIZE
      BY DEFacts DEF EntriesInv, Sound, TypedAs
    <3>2. PICK place : place = PlaceFor(EntryLen[n])
      OBVIOUS
    <3>3. place \in Nat /\ Fits(isize, EntryLen[n], place) /\ place <= NrPages * PAGE_SIZE
      BY <3>1, <3>2, PlaceIs, PlaceInFile DEF Fits
    <3>4. place \div PAGE_SIZE \in Nat
      BY <3>3, Parts
    <3>5. CASE place \div PAGE_SIZE < NrPages
      <4>1. /\ isize' = place + EntryLen[n] /\ content' = [content EXCEPT ![place] = n]
            /\ places' = [places EXCEPT ![n] = Append(@, place)]
        BY <2>2, <3>2, <3>4, <3>5, DEFacts DEF WriteEntry
      <4>2. Sound(place + EntryLen[n], [content EXCEPT ![place] = n],
                  [places EXCEPT ![n] = Append(@, place)])
        BY <3>3, <3>5, EntryWritten DEF EntriesInv
      <4> QED
        BY <4>1, <4>2 DEF EntriesInv
    <3>6. CASE ~(place \div PAGE_SIZE < NrPages)
      <4>1. isize' = place /\ content' = content /\ places' = places
        BY <2>2, <3>2, <3>4, <3>6, DEFacts DEF WriteEntry
      <4>2. place \div PAGE_SIZE >= NrPages
        BY <3>4, <3>6, DEFacts
      <4>3. Sound(place, content, places)
        BY <3>3, <4>2, NoPageLeft DEF EntriesInv
      <4> QED
        BY <4>1, <4>3 DEF EntriesInv
    <3> QED
      BY <3>5, <3>6
  <2> QED
    BY <2>1, <2>2 DEF EntriesNext
<1> QED
  BY <1>1, <1>2, PTL DEF EntriesSpec

-----------------------------------------------------------------------------
(* Searching.                                                                *)

\* A page that has bytes of the file, and what its walk goes over.
InUse(page) == page \in Nat /\ page * PAGE_SIZE < isize

StepOf(n, page, w, o) ==
    IF o > LastBytes(page) - EntryLen[n] \/ content[page * PAGE_SIZE + o] = NoEntry THEN NotFound
    ELSE IF content[page * PAGE_SIZE + o] = n THEN page * PAGE_SIZE + o
    ELSE w[o + EntryLen[content[page * PAGE_SIZE + o]]]

\* The walks from lo on.
Walks(n, page, lo, w) == w = [o \in lo .. PAGE_SIZE |-> StepOf(n, page, w, o)]

\* The part of a page that belongs to the file.
LEMMA LastBytesIs ==
    ASSUME EntriesInv, NEW page, InUse(page)
    PROVE  /\ LastBytes(page) \in Nat /\ LastBytes(page) <= PAGE_SIZE
           /\ page * PAGE_SIZE \in Nat
           /\ page * PAGE_SIZE + LastBytes(page) <= isize
           /\ \A e \in Nat : e <= PAGE_SIZE /\ page * PAGE_SIZE + e <= isize
                             => e <= LastBytes(page)
<1>1. /\ isize \in Nat /\ page \in Nat /\ page * PAGE_SIZE \in Nat
      /\ page * PAGE_SIZE < isize /\ (page + 1) * PAGE_SIZE = page * PAGE_SIZE + PAGE_SIZE
  BY DEFacts DEF InUse, EntriesInv, Sound, TypedAs
<1>2. CASE (page + 1) * PAGE_SIZE > isize
  <2>1. isize \div PAGE_SIZE = page
    BY <1>1, <1>2, DEFacts, InInterval
  <2>2. LastBytes(page) = isize % PAGE_SIZE
    BY <1>2 DEF LastBytes
  <2>3. isize = page * PAGE_SIZE + LastBytes(page)
        /\ LastBytes(page) \in Nat /\ LastBytes(page) < PAGE_SIZE
    BY <1>1, <2>1, <2>2, Parts
  <2> QED
    BY <1>1, <2>3, DEFacts
<1>3. CASE ~((page + 1) * PAGE_SIZE > isize)
  <2>1. LastBytes(page) = PAGE_SIZE
    BY <1>3 DEF LastBytes
  <2> QED
    BY <1>1, <1>3, <2>1, DEFacts
<1> QED
  BY <1>2, <1>3

\* The bytes of a page are addresses.
LEMMA OnPage ==
    ASSUME EntriesInv, NEW page, InUse(page), NEW o \in Nat, o < PAGE_SIZE
    PROVE  /\ page * PAGE_SIZE + o \in Addresses /\ page * PAGE_SIZE + o \in Nat
           /\ (page * PAGE_SIZE + o) \div PAGE_SIZE = page
           /\ (page * PAGE_SIZE + o) % PAGE_SIZE = o
<1>1. /\ isize \in Nat /\ page \in Nat /\ page * PAGE_SIZE \in Nat
      /\ page * PAGE_SIZE < isize /\ isize <= NrPages * PAGE_SIZE
      /\ (page + 1) * PAGE_SIZE = page * PAGE_SIZE + PAGE_SIZE
      /\ PAGE_SIZE * page = page * PAGE_SIZE
  BY DEFacts DEF InUse, EntriesInv, Sound, TypedAs
<1>2. page + 1 <= NrPages
  <2>1. SUFFICES ASSUME page >= NrPages PROVE FALSE
    BY <1>1, DEFacts
  <2>2. NrPages * PAGE_SIZE <= page * PAGE_SIZE
    BY <1>1, <2>1, DEFacts
  <2> QED
    BY <1>1, <2>2, DEFacts
<1>3. (page + 1) * PAGE_SIZE <= NrPages * PAGE_SIZE
  BY <1>1, <1>2, DEFacts
<1>4. (PAGE_SIZE * page + o) \div PAGE_SIZE = page /\ (PAGE_SIZE * page + o) % PAGE_SIZE = o
  BY <1>1, DEFacts, Unique
<1>5. page * PAGE_SIZE + o \in Nat /\ page * PAGE_SIZE + o <= NrPages * PAGE_SIZE - 1
  BY <1>1, <1>3, DEFacts
<1> QED
  BY <1>1, <1>4, <1>5, DEFacts DEF Addresses

\* An entry within the bound of the walk: the next one is on the page.
LEMMA NextOnPage ==
    ASSUME EntriesInv, NEW n \in Names, NEW page, InUse(page), NEW o \in Nat,
           o <= LastBytes(page) - EntryLen[n], content[page * PAGE_SIZE + o] # NoEntry
    PROVE  /\ o < PAGE_SIZE /\ page * PAGE_SIZE + o \in Used(content)
           /\ EntryLen[content[page * PAGE_SIZE + o]] \in Nat
           /\ EntryLen[content[page * PAGE_SIZE + o]] > 0
           /\ o + EntryLen[content[page * PAGE_SIZE + o]] < PAGE_SIZE
<1>1. o < PAGE_SIZE
  BY LastBytesIs, DEFacts
<1>2. PICK a \in Nat : /\ a = page * PAGE_SIZE + o /\ a \in Addresses
                       /\ a % PAGE_SIZE = o
  BY <1>1, OnPage
<1>3. a \in Used(content)
  BY <1>2 DEF Used
<1>4. EntryLen[content[a]] \in Nat /\ EntryLen[content[a]] > 0
      /\ o + EntryLen[content[a]] < PAGE_SIZE
  BY <1>2, <1>3, UsedIs DEF EntriesInv, Sound, WithinPage
<1> QED
  BY <1>1, <1>2, <1>3, <1>4

\* The walk over a page as a function of the offset exists.
LEMMA WalksExist ==
    ASSUME EntriesInv, NEW n \in Names, NEW page, InUse(page)
    PROVE  \E w : Walks(n, page, 0, w)
<1> DEFINE T == {k \in 0 .. PAGE_SIZE : \E w : Walks(n, page, PAGE_SIZE - k, w)}
<1>1. 0 \in T
  <2> DEFINE w == [o \in PAGE_SIZE .. PAGE_SIZE |-> NotFound]
  <2>1. ASSUME NEW o \in PAGE_SIZE .. PAGE_SIZE PROVE StepOf(n, page, w, o) = NotFound
    <3>1. o > LastBytes(page) - EntryLen[n]
      BY LastBytesIs, DEFacts
    <3> QED
      BY <3>1 DEF StepOf
  <2>2. Walks(n, page, PAGE_SIZE, w)
    BY <2>1 DEF Walks
  <2> HIDE DEF w
  <2>3. Walks(n, page, PAGE_SIZE - 0, w)
    BY <2>2, DEFacts
  <2> QED
    BY <2>3, DEFacts
<1>2. ASSUME NEW k \in T, k < PAGE_SIZE PROVE k + 1 \in T
  <2>1. PICK lo \in Nat : lo = PAGE_SIZE - (k + 1) /\ lo + 1 = PAGE_SIZE - k /\ lo + 1 <= PAGE_SIZE
    BY <1>2, DEFacts
  <2>2. PICK w : Walks(n, page, lo + 1, w)
    BY <2>1
  <2> DEFINE g == [o \in lo .. PAGE_SIZE |-> IF o = lo THEN StepOf(n, page, w, lo) ELSE w[o]]
  <2>3. \A o \in lo + 1 .. PAGE_SIZE : o \in lo .. PAGE_SIZE /\ o # lo /\ g[o] = w[o]
    BY <2>1
  <2>4. g[lo] = StepOf(n, page, w, lo) /\ \A o \in lo .. PAGE_SIZE : o = lo \/ o \in lo + 1 .. PAGE_SIZE
    BY <2>1, DEFacts
  <2>5. g = [o \in lo .. PAGE_SIZE |-> g[o]]
    OBVIOUS
  <2> HIDE DEF g
  <2>6. ASSUME NEW o \in lo .. PAGE_SIZE PROVE StepOf(n, page, g, o) = StepOf(n, page, w, o)
    <3>1. CASE o > LastBytes(page) - EntryLen[n] \/ content[page * PAGE_SIZE + o] = NoEntry
      BY <3>1 DEF StepOf
    <3>2. CASE ~(o > LastBytes(page) - EntryLen[n] \/ content[page * PAGE_SIZE + o] = NoEntry)
      <4>1. o \in Nat /\ o <= LastBytes(page) - EntryLen[n]
        BY <2>1, <3>2, LastBytesIs, DEFacts
      <4>2. PICK len \in Nat : len = EntryLen[content[page * PAGE_SIZE + o]] /\ len > 0
                               /\ o + len < PAGE_SIZE
        BY <3>2, <4>1, NextOnPage
      <4>3. o + len \in lo + 1 .. PAGE_SIZE
        BY <2>1, <4>1, <4>2, DEFacts
      <4>4. g[o + len] = w[o + len]
        BY <2>3, <4>3
      <4> QED
        BY <4>2, <4>4 DEF StepOf
    <3> QED
      BY <3>1, <3>2
  <2>7. ASSUME NEW o \in lo .. PAGE_SIZE PROVE g[o] = StepOf(n, page, g, o)
    <3>1. CASE o = lo
      BY <2>4, <2>6, <3>1
    <3>2. CASE o \in lo + 1 .. PAGE_SIZE
      BY <2>2, <2>3, <2>6, <3>2 DEF Walks
    <3> QED
      BY <2>4, <3>1, <3>2
  <2>8. Walks(n, page, lo, g)
    BY <2>5, <2>7 DEF Walks
  <2>9. k + 1 \in 0 .. PAGE_SIZE
    BY <1>2, DEFacts
  <2> QED
    BY <2>1, <2>8, <2>9
<1>3. T \subseteq 0 .. PAGE_SIZE
  OBVIOUS
<1> HIDE DEF T
<1>4. PAGE_SIZE \in T
  BY <1>1, <1>2, <1>3, UpTo, DEFacts
<1>5. PICK w : Walks(n, page, PAGE_SIZE - PAGE_SIZE, w)
  BY <1>4 DEF T
<1>6. PAGE_SIZE - PAGE_SIZE = 0
  BY DEFacts
<1> QED
  BY <1>5, <1>6

\* find_entry is what the walk from the start of the page gives.
LEMMA FindIsWalk ==
    ASSUME EntriesInv, NEW n \in Names, NEW page, InUse(page)
    PROVE  \E w : Walks(n, page, 0, w) /\ FindOn(n, page) = w[0]
<1> DEFINE w == CHOOSE w : Walks(n, page, 0, w)
<1>1. Walks(n, page, 0, w)
  BY WalksExist
<1>2. FindOn(n, page) = w[0]
  BY DEF FindOn, Walks, StepOf
<1> QED
  BY <1>1, <1>2

\* What a walk finds is an entry of that name.
LEMMA WalkFindsName ==
    ASSUME EntriesInv, NEW n \in Names, NEW page, InUse(page), NEW w, Walks(n, page, 0, w)
    PROVE  w[0] = NotFound \/ (w[0] \in Used(content) /\ content[w[0]] = n)
<1> DEFINE Right(o) == w[o] = NotFound \/ (w[o] \in Used(content) /\ content[w[o]] = n)
           T == {k \in 0 .. PAGE_SIZE : \A o \in PAGE_SIZE - k .. PAGE_SIZE : Right(o)}
<1>1. ASSUME NEW o \in 0 .. PAGE_SIZE, \A x \in o + 1 .. PAGE_SIZE : Right(x) PROVE Right(o)
  <2>1. w[o] = StepOf(n, page, w, o)
    BY DEF Walks
  <2>2. CASE o > LastBytes(page) - EntryLen[n] \/ content[page * PAGE_SIZE + o] = NoEntry
    BY <2>1, <2>2 DEF StepOf
  <2>3. CASE ~(o > LastBytes(page) - EntryLen[n] \/ content[page * PAGE_SIZE + o] = NoEntry)
    <3>1. o \in Nat /\ o <= LastBytes(page) - EntryLen[n]
      BY <2>3, LastBytesIs, DEFacts
    <3>2. page * PAGE_SIZE + o \in Used(content)
      BY <2>3, <3>1, NextOnPage
    <3>3. PICK len \in Nat : len = EntryLen[content[page * PAGE_SIZE + o]] /\ len > 0
                             /\ o + len < PAGE_SIZE
      BY <2>3, <3>1, NextOnPage
    <3>4. o + len \in o + 1 .. PAGE_SIZE
      BY <3>1, <3>3, DEFacts
    <3>5. Right(o + len)
      BY <1>1, <3>4
    <3>6. w[o] = IF content[page * PAGE_SIZE + o] = n THEN page * PAGE_SIZE + o ELSE w[o + len]
      BY <2>1, <2>3, <3>3 DEF StepOf
    <3> QED
      BY <3>2, <3>5, <3>6
  <2> QED
    BY <2>2, <2>3
<1> HIDE DEF Right
<1>2. 0 \in T
  <2>1. \A o \in PAGE_SIZE - 0 .. PAGE_SIZE : o = PAGE_SIZE
    BY DEFacts
  <2>2. Right(PAGE_SIZE)
    <3>1. PAGE_SIZE \in 0 .. PAGE_SIZE /\ PAGE_SIZE + 1 .. PAGE_SIZE = {}
      BY DEFacts
    <3> QED
      BY <1>1, <3>1
  <2> QED
    BY <2>1, <2>2, DEFacts
<1>3. ASSUME NEW k \in T, k < PAGE_SIZE PROVE k + 1 \in T
  <2>1. PICK lo \in Nat : lo = PAGE_SIZE - (k + 1) /\ lo + 1 = PAGE_SIZE - k /\ lo <= PAGE_SIZE
    BY <1>3, DEFacts
  <2>2. Right(lo)
    <3>1. \A x \in lo + 1 .. PAGE_SIZE : Right(x)
      BY <2>1
    <3> QED
      BY <1>1, <2>1, <3>1, DEFacts
  <2>3. ASSUME NEW o \in lo .. PAGE_SIZE PROVE Right(o)
    <3>1. o = lo \/ o \in lo + 1 .. PAGE_SIZE
      BY <2>1, DEFacts
    <3> QED
      BY <2>1, <2>2, <3>1
  <2>4. k + 1 \in 0 .. PAGE_SIZE
    BY <1>3, DEFacts
  <2> QED
    BY <2>1, <2>3, <2>4
<1>4. T \subseteq 0 .. PAGE_SIZE
  OBVIOUS
<1>5. PAGE_SIZE \in T
  <2> HIDE DEF T
  <2> QED
    BY <1>2, <1>3, <1>4, UpTo, DEFacts
<1>6. 0 \in PAGE_SIZE - PAGE_SIZE .. PAGE_SIZE
  BY DEFacts
<1> QED
  BY <1>5, <1>6 DEF Right

\* The first entry of a name on a page is what a walk finds: entries lead there
\* from the start of the page, and none before it bears the name.
LEMMA WalkFindsFirst ==
    ASSUME EntriesInv, NEW n \in Names, NEW page, InUse(page), NEW w, Walks(n, page, 0, w),
           NEW a \in Used(content), content[a] = n, a \div PAGE_SIZE = page,
           \A b \in Used(content) : content[b] = n => a <= b
    PROVE  w[0] = a
<1>1. /\ page \in Nat /\ page * PAGE_SIZE \in Nat /\ a \in Nat
      /\ EntryLen[n] \in Nat /\ EntryLen[n] > 0
  BY UsedIs, LastBytesIs DEF EntriesInv, Sound, InUse
<1>2. PICK r \in Nat : r = a % PAGE_SIZE /\ r < PAGE_SIZE /\ a = page * PAGE_SIZE + r
  BY <1>1, Parts
<1>3. r <= LastBytes(page) - EntryLen[n]
  <2>1. EndOf(content, a) <= isize /\ r + EntryLen[n] < PAGE_SIZE
    BY <1>2 DEF EntriesInv, Sound, WithinPage
  <2>2. r + EntryLen[n] \in Nat /\ page * PAGE_SIZE + (r + EntryLen[n]) <= isize
    BY <1>1, <1>2, <2>1 DEF EndOf
  <2>3. r + EntryLen[n] <= LastBytes(page)
    BY <2>1, <2>2, LastBytesIs, DEFacts
  <2> QED
    BY <1>1, <1>2, <2>3, LastBytesIs
<1> DEFINE S == {o \in 0 .. r : page * PAGE_SIZE + o \in Used(content) /\ w[o] = a}
<1>4. r \in S
  <2>1. w[r] = StepOf(n, page, w, r)
    BY <1>2, DEFacts DEF Walks
  <2>2. ~(r > LastBytes(page) - EntryLen[n]) /\ content[a] # NoEntry
    BY <1>1, <1>2, <1>3, LastBytesIs DEF Used
  <2>3. w[r] = a
    BY <1>2, <2>1, <2>2 DEF StepOf
  <2> QED
    BY <1>2, <2>3
<1>5. PICK m \in S : \A o \in S : m <= o
  <2>1. S \in SUBSET Nat /\ S # {}
    BY <1>2, <1>4
  <2> HIDE DEF S
  <2> QED
    BY <2>1, LeastOne
<1>6. SUFFICES ASSUME m # 0 PROVE FALSE
  BY <1>5
<1>7. PICK x \in Nat : /\ x = page * PAGE_SIZE + m /\ x \in Used(content)
                       /\ x % PAGE_SIZE = m /\ x \div PAGE_SIZE = page
  <2>1. m \in Nat /\ m < PAGE_SIZE
    BY <1>2, DEFacts
  <2> QED
    BY <2>1, OnPage
<1>8. PICK b \in Used(content) : EndsAt(content, b, x)
  BY <1>6, <1>7 DEF EntriesInv, Sound, NoHoles, Joined
<1>9. PICK o \in Nat, len \in Nat :
          /\ o = b % PAGE_SIZE /\ b = page * PAGE_SIZE + o /\ len = EntryLen[content[b]]
          /\ len > 0 /\ content[b] # NoEntry
  <2>1. b \in Nat /\ EntryLen[content[b]] \in Nat /\ EntryLen[content[b]] > 0
        /\ content[b] # NoEntry
    BY UsedIs, DEFacts DEF EntriesInv, Sound, Used
  <2>2. b \div PAGE_SIZE = page
    BY <1>7, <1>8 DEF EndsAt, SamePage
  <2>3. b % PAGE_SIZE \in Nat /\ b = page * PAGE_SIZE + (b % PAGE_SIZE)
    BY <2>1, <2>2, Parts
  <2> QED
    BY <2>1, <2>3
<1>10. o + len = m
  <2>1. b + len = x
    BY <1>8, <1>9 DEF EndsAt, EndOf
  <2> QED
    BY <1>1, <1>7, <1>9, <2>1
<1>11. m <= r /\ m \in Nat
  BY <1>5
<1>12. content[b] # n
  <2>1. b < a
    BY <1>1, <1>2, <1>9, <1>10, <1>11
  <2> QED
    BY <1>1, <1>9, <2>1
<1>13. w[o] = w[m]
  <2>1. w[o] = StepOf(n, page, w, o)
    BY <1>2, <1>9, <1>10, <1>11, DEFacts DEF Walks
  <2>2. LastBytes(page) - EntryLen[n] \in Int
    BY <1>1, LastBytesIs
  <2>3. ~(o > LastBytes(page) - EntryLen[n])
    BY <1>2, <1>3, <1>9, <1>10, <1>11, <2>2
  <2> QED
    BY <1>9, <1>10, <1>12, <2>1, <2>3 DEF StepOf
<1>14. o \in S
  BY <1>2, <1>5, <1>9, <1>10, <1>11, <1>13
<1> QED
  BY <1>5, <1>9, <1>10, <1>14

\* The pages the search goes over are those that have bytes of the file.
PagesFound == 0 .. ((isize + PAGE_SIZE - 1) \div PAGE_SIZE) - 1

\* find_entry visits the pages of the file.
LEMMA PagesAre ==
    ASSUME isize \in Nat, NEW page
    PROVE  page \in PagesFound <=> InUse(page)
<1>1. isize + PAGE_SIZE - 1 \in Nat
  BY DEFacts
<1>2. PICK q \in Nat, r \in Nat : /\ q = (isize + PAGE_SIZE - 1) \div PAGE_SIZE /\ r < PAGE_SIZE
                                  /\ isize + PAGE_SIZE - 1 = q * PAGE_SIZE + r
  BY <1>1, Parts
<1>3. PagesFound = 0 .. q - 1
  BY <1>2 DEF PagesFound
<1>4. ASSUME page \in 0 .. q - 1 PROVE InUse(page)
  <2>1. page \in Nat /\ page + 1 <= q
    BY <1>2, <1>4
  <2>2. (page + 1) * PAGE_SIZE <= q * PAGE_SIZE /\ q * PAGE_SIZE \in Nat
        /\ (page + 1) * PAGE_SIZE = page * PAGE_SIZE + PAGE_SIZE /\ page * PAGE_SIZE \in Nat
    BY <1>2, <2>1, DEFacts
  <2>3. page * PAGE_SIZE < isize
    BY <1>2, <2>2, DEFacts
  <2> QED
    BY <2>1, <2>3 DEF InUse
<1>5. ASSUME InUse(page) PROVE page \in 0 .. q - 1
  <2>1. page \in Nat /\ page * PAGE_SIZE < isize
    BY <1>5 DEF InUse
  <2>2. SUFFICES ASSUME page >= q PROVE FALSE
    BY <1>2, <2>1
  <2>3. q * PAGE_SIZE <= page * PAGE_SIZE /\ q * PAGE_SIZE \in Nat /\ page * PAGE_SIZE \in Nat
    BY <1>2, <2>1, <2>2, DEFacts
  <2> QED
    BY <1>2, <2>1, <2>3, DEFacts
<1> QED
  BY <1>3, <1>4, <1>5

\* The invariant makes every search end at the place of the write.
LEMMA FoundThen == ASSUME EntriesInv PROVE FoundWhereWritten
<1> SUFFICES ASSUME NEW n \in Names
             PROVE  Find(n) = IF places[n] = <<>> THEN NotFound ELSE Head(places[n])
  BY DEF FoundWhereWritten
<1> DEFINE hits == {FindOn(n, p) : p \in PagesFound} \ {NotFound}
<1>1. Find(n) = IF hits = {} THEN NotFound ELSE CHOOSE a \in hits : \A b \in hits : a <= b
  BY DEF Find, PagesFound
<1>2. places[n] \in Seq(Addresses) /\ isize \in Nat
  BY DEF EntriesInv, Sound, TypedAs
<1>3. ASSUME NEW h \in hits PROVE h \in Used(content) /\ content[h] = n
  <2>1. PICK p \in PagesFound : h = FindOn(n, p)
    OBVIOUS
  <2>2. InUse(p)
    BY <1>2, PagesAre
  <2>3. PICK w : Walks(n, p, 0, w) /\ FindOn(n, p) = w[0]
    BY <2>2, FindIsWalk
  <2>4. h # NotFound
    OBVIOUS
  <2> QED
    BY <2>1, <2>2, <2>3, <2>4, WalkFindsName
<1> HIDE DEF hits
<1>4. CASE places[n] = <<>>
  <2>1. DOMAIN places[n] = {}
    <3>1. Len(places[n]) = 0 /\ DOMAIN places[n] = 1 .. 0
      BY <1>4
    <3> QED
      BY <3>1
  <2>2. \A a \in Addresses : content[a] # n
    BY <2>1 DEF EntriesInv, Sound, PlacesKept
  <2>3. hits = {}
    BY <1>3, <2>2 DEF Used
  <2> QED
    BY <1>1, <1>4, <2>3
<1>5. CASE places[n] # <<>>
  <2>1. PICK a : /\ a = places[n][1] /\ a = Head(places[n]) /\ a \in Addresses
                 /\ 1 \in DOMAIN places[n]
    <3>1. Len(places[n]) \in Nat /\ Len(places[n]) # 0 /\ DOMAIN places[n] = 1 .. Len(places[n])
      BY <1>2, <1>5, EmptySeq
    <3>2. 1 \in DOMAIN places[n]
      BY <3>1
    <3>3. Head(places[n]) = places[n][1]
      BY <1>2, <1>5
    <3> QED
      BY <1>2, <3>2, <3>3
  <2>2. content[a] = n /\ a \in Used(content)
    BY <2>1, DEFacts DEF EntriesInv, Sound, PlacesKept, Used
  <2>3. ASSUME NEW b \in Used(content), content[b] = n PROVE a <= b
    <3>1. b \in Addresses
      BY DEF Used
    <3> QED
      BY <2>1, <2>3, <3>1 DEF EntriesInv, Sound, PlacesKept
  <2>4. PICK p \in Nat : p = a \div PAGE_SIZE /\ InUse(p)
    <3>1. a \in Nat /\ EntryLen[content[a]] \in Nat /\ EntryLen[content[a]] > 0
          /\ a + EntryLen[content[a]] <= isize
      BY <2>2, UsedIs DEF EntriesInv, Sound, WithinPage, EndOf
    <3>2. PICK p \in Nat, r \in Nat : p = a \div PAGE_SIZE /\ a = p * PAGE_SIZE + r
      BY <3>1, Parts
    <3>3. p * PAGE_SIZE \in Nat
      BY <3>2, DEFacts
    <3>4. p * PAGE_SIZE < isize
      BY <1>2, <3>1, <3>2, <3>3
    <3> QED
      BY <3>2, <3>4 DEF InUse
  <2>5. FindOn(n, p) = a
    <3>1. PICK w : Walks(n, p, 0, w) /\ FindOn(n, p) = w[0]
      BY <2>4, FindIsWalk
    <3> QED
      BY <2>2, <2>3, <2>4, <3>1, WalkFindsFirst
  <2>6. a \in hits
    <3>1. a # NotFound
      BY <2>2, UsedIs DEF EntriesInv, Sound, NotFound
    <3>2. p \in PagesFound
      BY <1>2, <2>4, PagesAre
    <3> QED
      BY <2>5, <3>1, <3>2 DEF hits
  <2>7. \A b \in hits : a <= b /\ b \in Nat /\ a \in Nat
    BY <1>3, <2>2, <2>3, UsedIs DEF EntriesInv, Sound
  <2>8. (CHOOSE x \in hits : \A b \in hits : x <= b) = a
    <3>1. \A x \in hits : (\A b \in hits : x <= b) => x = a
      BY <2>6, <2>7
    <3> QED
      BY <2>6, <2>7, <3>1
  <2> QED
    BY <1>1, <1>5, <2>1, <2>6, <2>8
<1> QED
  BY <1>4, <1>5

\* Whatever is written, for any lengths of entries and any number of pages, a
\* name is found where it was first written, and not if it never was.
THEOREM NamesAreFound == EntriesSpec => []FoundWhereWritten
  BY EntriesHold, FoundThen, PTL

-----------------------------------------------------------------------------
(* Lists.                                                                    *)

LEMMA TakenOut ==
    ASSUME NEW S, NEW s \in Seq(S), IsInjective(s), NEW k \in 1 .. Len(s)
    PROVE  /\ RemoveAt(s, k) \in Seq(S)
           /\ IsInjective(RemoveAt(s, k))
           /\ ToSet(RemoveAt(s, k)) = ToSet(s) \ {s[k]}
<1> DEFINE a == SubSeq(s, 1, k - 1)
           b == SubSeq(s, k + 1, Len(s))
           r == RemoveAt(s, k)
<1>1. \A i, j \in 1 .. Len(s) : s[i] = s[j] => i = j
  BY DEF IsInjective
<1>2. a \in Seq(S) /\ Len(a) = k - 1 /\ \A j \in 1 .. k - 1 : a[j] = s[j]
  OBVIOUS
<1>3. /\ b \in Seq(S) /\ Len(b) = Len(s) - k
      /\ \A j \in 1 .. Len(s) - k : b[j] = s[j + k]
  OBVIOUS
<1>4. r = a \o b
  BY DEF RemoveAt
<1> HIDE DEF a, b, r
<1>5. /\ r \in Seq(S) /\ Len(r) = Len(a) + Len(b)
      /\ \A j \in 1 .. Len(a) + Len(b) :
            r[j] = IF j <= Len(a) THEN a[j] ELSE b[j - Len(a)]
  BY <1>2, <1>3, <1>4, ConcatProperties
<1>6. ASSUME NEW j \in 1 .. Len(s) - 1
      PROVE  r[j] = IF j < k THEN s[j] ELSE s[j + 1]
  <2>1. CASE j < k
    <3>1. j \in 1 .. Len(a) + Len(b) /\ j <= Len(a)
      BY <2>1, <1>2, <1>3
    <3>2. r[j] = a[j]
      BY <3>1, <1>5
    <3> QED
      BY <3>2, <2>1, <1>2
  <2>2. CASE ~(j < k)
    <3>1. j \in 1 .. Len(a) + Len(b) /\ ~(j <= Len(a))
      BY <2>2, <1>2, <1>3
    <3>2. r[j] = b[j - (k - 1)]
      BY <3>1, <1>2, <1>5
    <3>3. j - (k - 1) \in 1 .. Len(s) - k /\ (j - (k - 1)) + k = j + 1
      BY <2>2
    <3> QED
      BY <3>2, <3>3, <2>2, <1>3
  <2> QED
    BY <2>1, <2>2
<1>7. Len(r) = Len(s) - 1 /\ DOMAIN r = 1 .. Len(s) - 1
  BY <1>2, <1>3, <1>5
<1>8. IsInjective(r)
  BY <1>1, <1>6, <1>7 DEF IsInjective
<1>9. ToSet(r) \subseteq ToSet(s) \ {s[k]}
  BY <1>1, <1>6, <1>7 DEF ToSet
<1>10. ASSUME NEW x \in ToSet(s), x # s[k]
       PROVE  x \in ToSet(r)
  <2>1. PICK j \in 1 .. Len(s) : s[j] = x
    BY DEF ToSet
  <2>2. CASE j < k
    BY <2>1, <2>2, <1>6, <1>7 DEF ToSet
  <2>3. CASE j > k
    <3>1. j - 1 \in 1 .. Len(s) - 1 /\ r[j - 1] = x
      BY <2>1, <2>3, <1>6
    <3> QED
      BY <3>1, <1>7 DEF ToSet
  <2> QED
    BY <2>1, <2>2, <2>3, <1>10
<1> QED
  BY <1>5, <1>8, <1>9, <1>10 DEF r

\* An element is appended to a list.
LEMMA AppendedSet ==
    ASSUME NEW S, NEW s \in Seq(S), NEW e \in S
    PROVE  ToSet(Append(s, e)) = ToSet(s) \cup {e}
<1> DEFINE r == Append(s, e)
<1>1. PICK n \in Nat : n = Len(s) + 1
  OBVIOUS
<1>2. /\ DOMAIN s = 1 .. n - 1 /\ DOMAIN r = 1 .. n /\ r[n] = e /\ n \in 1 .. n
      /\ \A i \in 1 .. n - 1 : r[i] = s[i]
  BY <1>1
<1> HIDE DEF r
<1>3. ASSUME NEW x \in ToSet(r) PROVE x \in ToSet(s) \cup {e}
  <2>1. PICK i \in 1 .. n : x = r[i]
    BY <1>2, <1>3 DEF ToSet
  <2>2. i \in 1 .. n - 1 \/ i = n
    OBVIOUS
  <2> QED
    BY <1>2, <2>1, <2>2 DEF ToSet
<1>4. ASSUME NEW x \in ToSet(s) PROVE x \in ToSet(r)
  <2>1. PICK i \in 1 .. n - 1 : x = s[i]
    BY <1>2, <1>4 DEF ToSet
  <2>2. i \in 1 .. n
    OBVIOUS
  <2> QED
    BY <1>2, <2>1, <2>2 DEF ToSet
<1>5. e \in ToSet(r)
  BY <1>2 DEF ToSet
<1> QED
  BY <1>3, <1>4, <1>5 DEF r

-----------------------------------------------------------------------------
(* DentryWalk.                                                               *)

Dirs == Entries \cup {Root}

\* main links each entry once, below its parent.
LEMMA ChildrenListed ==
    ASSUME NEW u \in [Entries -> Nat], NEW d
    PROVE  /\ Children(u, d) \in Seq(Entries)
           /\ IsInjective(Children(u, d))
           /\ ToSet(Children(u, d)) = {e \in Entries : u[e] = d}
           /\ \A j, k \in DOMAIN Children(u, d) :
                 j < k => Children(u, d)[j] < Children(u, d)[k]
<1> DEFINE added == {e \in Entries : u[e] = d}
           upTo(e) == {b \in added : b <= e}
           n == Cardinality(added)
           rank == [e \in added |-> Cardinality(upTo(e))]
           s == Children(u, d)
<1>1. IsFiniteSet(added) /\ n \in Nat
  <2>1. IsFiniteSet(Entries) /\ added \in SUBSET Entries
    BY DWAssumption, FS_Interval DEF Entries
  <2> QED
    BY <2>1, FS_Subset, FS_CardinalityType
<1>2. added \subseteq Nat
  BY DEF Entries
<1>3. ASSUME NEW e \in added
      PROVE  /\ upTo(e) \in SUBSET added /\ IsFiniteSet(upTo(e))
             /\ rank[e] \in 1 .. n
  <2>1. upTo(e) \in SUBSET added /\ e \in upTo(e)
    BY <1>2
  <2>2. IsFiniteSet(upTo(e)) /\ Cardinality(upTo(e)) <= n
    BY <1>1, <2>1, FS_Subset
  <2>3. Cardinality(upTo(e)) \in Nat /\ Cardinality(upTo(e)) # 0
    BY <2>1, <2>2, FS_CardinalityType, FS_EmptySet
  <2> QED
    BY <1>1, <2>1, <2>2, <2>3
<1>4. ASSUME NEW e \in added, NEW b \in added, e < b
      PROVE  rank[e] < rank[b]
  <2>1. upTo(e) \in SUBSET upTo(b) /\ upTo(e) # upTo(b)
    <3>1. b \in upTo(b) /\ b \notin upTo(e)
      BY <1>2, <1>4
    <3>2. upTo(e) \in SUBSET upTo(b)
      BY <1>2, <1>4
    <3> QED
      BY <3>1, <3>2
  <2>2. IsFiniteSet(upTo(b))
    BY <1>3
  <2>3. rank[e] = Cardinality(upTo(e)) /\ rank[b] = Cardinality(upTo(b))
    OBVIOUS
  <2> HIDE DEF upTo
  <2>4. /\ Cardinality(upTo(e)) # Cardinality(upTo(b))
        /\ Cardinality(upTo(e)) <= Cardinality(upTo(b))
        /\ Cardinality(upTo(e)) \in Nat /\ Cardinality(upTo(b)) \in Nat
    BY <2>1, <2>2, FS_Subset, FS_CardinalityType
  <2> HIDE DEF rank
  <2> QED
    BY <2>3, <2>4
<1> HIDE DEF added
<1>5. rank \in [added -> 1 .. n]
  BY <1>3
<1>6. rank \in Injection(added, 1 .. n)
  <2>1. ASSUME NEW e \in added, NEW b \in added, rank[e] = rank[b] PROVE e = b
    <3>1. ~(e < b) /\ ~(b < e)
      BY <1>4, <1>5, <2>1
    <3> QED
      BY <1>2, <3>1
  <2> HIDE DEF rank
  <2> QED
    BY <1>5, <2>1 DEF Injection, IsInjective
<1> HIDE DEF rank, n
<1>7. \A k \in 1 .. n : \E e \in added : rank[e] = k
  <2>1. IsFiniteSet(1 .. n) /\ Cardinality(1 .. n) = n
    BY <1>1, FS_Interval
  <2>2. rank \in Surjection(added, 1 .. n)
    BY <1>6, <2>1, FS_Injection DEF n
  <2> QED
    BY <2>2 DEF Surjection
<1>8. s = [k \in 1 .. n |-> CHOOSE e \in added : rank[e] = k]
  <2>1. s = [k \in 1 .. n |-> CHOOSE e \in added : Cardinality(upTo(e)) = k]
    BY DEF Children, added, n
  <2>2. \A k : (CHOOSE e \in added : Cardinality(upTo(e)) = k)
             = (CHOOSE e \in added : rank[e] = k)
    BY DEF rank
  <2> QED
    BY <2>1, <2>2
<1> HIDE DEF s
<1>9. ASSUME NEW k \in 1 .. n PROVE s[k] \in added /\ rank[s[k]] = k
  BY <1>7, <1>8
<1>10. s \in Seq(Entries) /\ DOMAIN s = 1 .. n
  <2>1. \A k \in 1 .. n : s[k] \in Entries
    BY <1>9 DEF added
  <2>2. s = [k \in 1 .. n |-> s[k]]
    BY <1>8
  <2> QED
    BY <1>1, <2>1, <2>2
<1>11. IsInjective(s)
  BY <1>9, <1>10 DEF IsInjective
<1>12. ToSet(s) = added
  <2>1. ASSUME NEW e \in added PROVE e \in ToSet(s)
    <3>1. rank[e] \in 1 .. n
      BY <1>5
    <3>2. s[rank[e]] \in added /\ rank[s[rank[e]]] = rank[e]
      BY <1>9, <3>1
    <3>3. s[rank[e]] = e
      BY <1>6, <3>2 DEF Injection, IsInjective
    <3> QED
      BY <1>10, <3>1, <3>3 DEF ToSet
  <2> QED
    BY <1>9, <1>10, <2>1 DEF ToSet
<1>13. ASSUME NEW j \in 1 .. n, NEW k \in 1 .. n, j < k PROVE s[j] < s[k]
  <2>1. /\ s[j] \in added /\ s[k] \in added /\ s[j] \in Nat /\ s[k] \in Nat
        /\ rank[s[j]] = j /\ rank[s[k]] = k
    BY <1>2, <1>9
  <2>2. ~(s[k] < s[j]) /\ s[j] # s[k]
    BY <1>1, <1>4, <1>13, <2>1
  <2> QED
    BY <2>1, <2>2
<1> QED
  BY <1>10, <1>11, <1>12, <1>13 DEF s, added

\* The entries that are still linked.
Alive == Entries \ ToSet(freed)

TreeType ==
    /\ up \in [Entries -> Nat] /\ \A e \in Entries : up[e] \in Dirs /\ up[e] < e
    /\ subdirs \in [Dirs -> Seq(Entries)]
    /\ doing \in {"show", "descend", "free", "done"}
    /\ parent \in Dirs /\ entry \in Entries \cup {End}
    /\ freed \in Seq(Entries)

\* An entry is linked once, below its parent, until it is freed.
LinkedUntilFreed ==
    \A d \in Dirs : /\ IsInjective(subdirs[d])
                    /\ ToSet(subdirs[d]) = {e \in Alive : up[e] = d}

\* What is freed has no children left, and is freed once and after them.
FreedLast ==
    /\ IsInjective(freed)
    /\ \A j \in DOMAIN freed : \A i \in DOMAIN freed : up[freed[i]] = freed[j] => i < j
    /\ \A e \in ToSet(freed) : subdirs[e] = <<>>

\* Where the loops stand.
Standing ==
    /\ doing = "show" => freed = <<>>
    /\ doing = "descend" => /\ parent \notin ToSet(freed)
                            /\ parent = Root => subdirs[Root] # <<>>
    /\ doing = "free" => entry \in Alive /\ subdirs[entry] = <<>> /\ up[entry] = parent
    /\ doing = "done" => subdirs[Root] = <<>>

TreeInv == TreeType /\ LinkedUntilFreed /\ FreedLast /\ Standing

\* The root is a directory, but no entry.
LEMMA DirFacts ==
    /\ Root \in Dirs /\ Entries \subseteq Dirs /\ Entries \subseteq Nat \ {0}
    /\ Root \notin Entries /\ End \notin Dirs /\ Dirs = Entries \cup {Root}
  BY DWAssumption DEF Dirs, Entries, Root, End

\* What lives stands below something that lives.
LEMMA AliveBelow ==
    ASSUME TreeInv, NEW e \in Alive
    PROVE  e \in Entries /\ up[e] \in Dirs /\ up[e] \notin ToSet(freed) /\ up[e] # e
<1>1. e \in Entries /\ up[e] \in Dirs /\ up[e] < e
  BY DEF Alive, TreeInv, TreeType
<1>2. e \in ToSet(subdirs[up[e]])
  BY <1>1 DEF TreeInv, LinkedUntilFreed
<1>3. subdirs[up[e]] # <<>>
  BY <1>2 DEF ToSet
<1> QED
  BY <1>1, <1>3, DirFacts DEF TreeInv, FreedLast

\* sibling.next is a brother or the end of the list.
LEMMA BrotherIs ==
    ASSUME TreeInv, NEW e \in Alive
    PROVE  LET s == subdirs[up[e]]
           IN  /\ Place(s, e) \in 1 .. Len(s) /\ s[Place(s, e)] = e
               /\ After(e) = End \/ After(e) \in {b \in Alive : up[b] = up[e] /\ b # e}
<1> DEFINE s == subdirs[up[e]]
<1>1. e \in Entries /\ up[e] \in Dirs
  BY AliveBelow
<1>2. s \in Seq(Entries) /\ IsInjective(s) /\ ToSet(s) = {b \in Alive : up[b] = up[e]}
  BY <1>1 DEF TreeInv, TreeType, LinkedUntilFreed
<1>3. \E k \in DOMAIN s : s[k] = e
  <2>1. e \in ToSet(s)
    BY <1>2
  <2> QED
    BY <2>1 DEF ToSet
<1>4. Place(s, e) \in DOMAIN s /\ s[Place(s, e)] = e
  BY <1>3 DEF Place
<1>5. Place(s, e) \in 1 .. Len(s)
  BY <1>2, <1>4
<1>6. CASE Place(s, e) = Len(s)
  BY <1>4, <1>5, <1>6 DEF After, NextIn
<1>7. CASE Place(s, e) # Len(s)
  <2>1. PICK k \in 1 .. Len(s) : k = Place(s, e)
    BY <1>5
  <2>2. k + 1 \in 1 .. Len(s) /\ k # k + 1
    BY <1>2, <1>7, <2>1
  <2>3. s[k + 1] # e
    BY <1>2, <1>4, <2>1, <2>2 DEF IsInjective
  <2>4. s[k + 1] \in ToSet(s)
    BY <1>2, <2>2 DEF ToSet
  <2>5. After(e) = s[k + 1]
    BY <1>7, <2>1 DEF After, NextIn
  <2> QED
    BY <1>2, <1>4, <1>5, <2>3, <2>4, <2>5
<1> QED
  BY <1>6, <1>7

\* The invariant holds of every tree,
LEMMA TreeBegins == DirInit => TreeInv
<1> SUFFICES ASSUME DirInit PROVE TreeInv
  OBVIOUS
<1>1. up \in [Entries -> Nat] /\ \A e \in Entries : up[e] \in Dirs /\ up[e] < e
  BY DWAssumption DEF DirInit, Dirs, Entries, Root
<1>2. ToSet(freed) = {} /\ Alive = Entries /\ freed = <<>>
  BY DEF DirInit, ToSet, Alive
<1>3. ASSUME NEW d \in Dirs
      PROVE  /\ subdirs[d] \in Seq(Entries) /\ IsInjective(subdirs[d])
             /\ ToSet(subdirs[d]) = {e \in Alive : up[e] = d}
  <2>1. subdirs[d] = Children(up, d)
    BY DEF DirInit, Dirs
  <2> QED
    BY <1>1, <1>2, <2>1, ChildrenListed
<1>4. subdirs \in [Dirs -> Seq(Entries)]
  BY <1>3 DEF DirInit, Dirs
<1>5. entry \in Entries
  <2>1. 1 \in Entries /\ up[1] = Root
    BY <1>1, DWAssumption DEF Entries, Root
  <2>2. 1 \in ToSet(subdirs[Root])
    BY <1>2, <1>3, <2>1, DirFacts
  <2>3. subdirs[Root] \in Seq(Entries) /\ subdirs[Root] # <<>>
    BY <1>3, <2>2, DirFacts DEF ToSet
  <2> QED
    BY <2>3 DEF DirInit
<1>6. TreeType
  BY <1>1, <1>2, <1>4, <1>5, DirFacts DEF TreeType, DirInit
<1>7. LinkedUntilFreed
  BY <1>3 DEF LinkedUntilFreed
<1>8. FreedLast
  BY <1>2 DEF FreedLast, IsInjective
<1>9. Standing
  BY <1>2 DEF Standing, DirInit
<1> QED
  BY <1>6, <1>7, <1>8, <1>9 DEF TreeInv

\* stats_dentry keeps it,
LEMMA ShowKeeps ==
    ASSUME TreeInv, Show \/ Ascend
    PROVE  TreeInv'
<1>1. /\ doing = "show" /\ up' = up /\ subdirs' = subdirs /\ freed' = freed
      /\ ToSet(freed) = {} /\ Alive = Entries /\ freed = <<>>
  BY DEF Show, Ascend, TreeInv, Standing, ToSet, Alive
<1>2. Alive' = Alive
  BY <1>1 DEF Alive
<1>3. ASSUME NEW e \in Entries
      PROVE  After(e) \in Entries \cup {End} /\ up[e] \in Dirs
  BY <1>1, BrotherIs, AliveBelow
<1>4. CASE Show
  <2>1. entry \in Entries
    BY <1>4 DEF Show, TreeInv, TreeType
  <2>2. parent' \in Dirs /\ entry' \in Entries \cup {End} /\ doing' = "show"
    <3>1. CASE subdirs[entry] # <<>>
      <4>1. subdirs[entry] \in Seq(Entries)
        BY <2>1, DirFacts DEF TreeInv, TreeType
      <4>2. parent' = entry /\ entry' = Head(subdirs[entry]) /\ doing' = "show"
        BY <1>4, <3>1 DEF Show
      <4> QED
        BY <3>1, <4>1, <4>2, <2>1, DirFacts
    <3>2. CASE subdirs[entry] = <<>>
      BY <1>3, <1>4, <2>1, <3>2 DEF Show, TreeInv, TreeType
    <3> QED
      BY <3>1, <3>2
  <2> QED
    BY <1>1, <1>2, <2>2
       DEF TreeInv, TreeType, LinkedUntilFreed, FreedLast, Standing
<1>5. CASE Ascend
  <2>1. CASE parent # Root
    <3>1. parent \in Entries
      BY <2>1, DirFacts DEF TreeInv, TreeType
    <3>2. parent' \in Dirs /\ entry' \in Entries \cup {End} /\ doing' = "show"
      BY <1>3, <1>5, <2>1, <3>1 DEF Ascend
    <3> QED
      BY <1>1, <1>2, <3>2
         DEF TreeInv, TreeType, LinkedUntilFreed, FreedLast, Standing
  <2>2. CASE parent = Root
    <3>1. parent' = Root /\ entry' = entry /\ doing' = "descend"
      BY <1>5, <2>2 DEF Ascend
    <3>2. 1 \in Entries /\ up[1] = Root
      BY DWAssumption DEF TreeInv, TreeType, Entries, Root
    <3>3. 1 \in ToSet(subdirs[Root])
      BY <1>1, <3>2, DirFacts DEF TreeInv, LinkedUntilFreed
    <3>4. subdirs[Root] # <<>>
      BY <3>3 DEF ToSet
    <3> QED
      BY <1>1, <1>2, <3>1, <3>4, DirFacts
         DEF TreeInv, TreeType, LinkedUntilFreed, FreedLast, Standing
  <2> QED
    BY <2>1, <2>2
<1> QED
  BY <1>4, <1>5

\* the way down of remove_dentry
LEMMA DescendKeeps ==
    ASSUME TreeInv, Descend
    PROVE  TreeInv'
<1>1. /\ doing = "descend" /\ up' = up /\ subdirs' = subdirs /\ freed' = freed
      /\ Alive' = Alive /\ parent \in Dirs /\ parent \notin ToSet(freed)
      /\ parent = Root => subdirs[Root] # <<>>
  BY DEF Descend, TreeInv, TreeType, Standing, Alive
<1>2. CASE subdirs[parent] # <<>>
  <2>1. parent' = Head(subdirs[parent]) /\ entry' = entry /\ doing' = "descend"
    BY <1>2 DEF Descend
  <2>2. subdirs[parent] \in Seq(Entries) /\ ToSet(subdirs[parent]) \subseteq Alive
    BY <1>1 DEF TreeInv, TreeType, LinkedUntilFreed
  <2>3. Head(subdirs[parent]) \in ToSet(subdirs[parent])
    BY <1>2, <2>2 DEF ToSet
  <2>4. parent' \in Entries /\ parent' \notin ToSet(freed)
    BY <2>1, <2>2, <2>3 DEF Alive
  <2> QED
    BY <1>1, <2>1, <2>4, DirFacts
       DEF TreeInv, TreeType, LinkedUntilFreed, FreedLast, Standing
<1>3. CASE subdirs[parent] = <<>>
  <2>1. entry' = parent /\ parent' = up[parent] /\ doing' = "free"
    BY <1>3 DEF Descend
  <2>2. parent \in Entries /\ parent \in Alive
    BY <1>1, <1>3, DirFacts DEF Alive
  <2>3. up[parent] \in Dirs
    BY <2>2, AliveBelow
  <2> QED
    BY <1>1, <1>3, <2>1, <2>2, <2>3
       DEF TreeInv, TreeType, LinkedUntilFreed, FreedLast, Standing
<1> QED
  BY <1>2, <1>3

\* and its loop over brothers keep it,
LEMMA FreeKeeps ==
    ASSUME TreeInv, FreeEntry
    PROVE  TreeInv'
<1> DEFINE next == After(entry)
           left == [subdirs EXCEPT ![parent] = RemoveAt(@, Place(@, entry))]
<1>1. /\ doing = "free" /\ up' = up /\ subdirs' = left /\ parent' = parent
      /\ freed' = Append(freed, entry)
      /\ IF next # End /\ subdirs[next] = <<>>
         THEN entry' = next /\ doing' = doing
         ELSE /\ doing' = IF parent # Root \/ left[parent] # <<>> THEN "descend" ELSE "done"
              /\ entry' = entry
  BY DEF FreeEntry
<1>2. /\ entry \in Alive /\ entry \in Entries /\ subdirs[entry] = <<>>
      /\ up[entry] = parent /\ parent \in Dirs /\ parent # entry
      /\ parent \notin ToSet(freed) /\ entry \notin ToSet(freed)
  BY <1>1, AliveBelow DEF TreeInv, TreeType, Standing, Alive
<1>3. /\ Place(subdirs[parent], entry) \in 1 .. Len(subdirs[parent])
      /\ subdirs[parent][Place(subdirs[parent], entry)] = entry
      /\ next = End \/ next \in {b \in Alive : up[b] = parent /\ b # entry}
  BY <1>2, BrotherIs
<1> HIDE DEF next
<1>4. freed \in Seq(Entries) /\ freed' \in Seq(Entries) /\ Len(freed') = Len(freed) + 1
      /\ \A i \in 1 .. Len(freed) : freed'[i] = freed[i]
      /\ freed'[Len(freed) + 1] = entry
  BY <1>1, <1>2 DEF TreeInv, TreeType
<1>5. ToSet(freed') = ToSet(freed) \cup {entry} /\ Alive' = Alive \ {entry}
  <2>1. ToSet(freed') = ToSet(freed) \cup {entry}
    BY <1>1, <1>2, <1>4, AppendedSet
  <2> QED
    BY <2>1 DEF Alive
<1>6. left \in [Dirs -> Seq(Entries)] /\ \A d \in Dirs :
         /\ IsInjective(left[d]) /\ ToSet(left[d]) = ToSet(subdirs[d]) \ {entry}
         /\ d # parent => left[d] = subdirs[d]
  <2>1. /\ subdirs \in [Dirs -> Seq(Entries)] /\ subdirs[parent] \in Seq(Entries)
        /\ IsInjective(subdirs[parent])
    BY <1>2 DEF TreeInv, TreeType, LinkedUntilFreed
  <2>2. LET r == RemoveAt(subdirs[parent], Place(subdirs[parent], entry))
        IN  /\ r \in Seq(Entries) /\ IsInjective(r)
            /\ ToSet(r) = ToSet(subdirs[parent]) \ {entry}
    BY <1>3, <2>1, TakenOut
  <2>3. left \in [Dirs -> Seq(Entries)]
    BY <1>2, <2>1, <2>2
  <2>4. ASSUME NEW d \in Dirs, d # parent
        PROVE  /\ left[d] = subdirs[d] /\ IsInjective(subdirs[d])
               /\ entry \notin ToSet(subdirs[d])
    BY <1>2, <2>1, <2>4 DEF TreeInv, LinkedUntilFreed
  <2>5. left[parent] = RemoveAt(subdirs[parent], Place(subdirs[parent], entry))
    BY <1>2, <2>1
  <2> HIDE DEF left
  <2>6. ASSUME NEW d \in Dirs
        PROVE  /\ IsInjective(left[d]) /\ ToSet(left[d]) = ToSet(subdirs[d]) \ {entry}
               /\ d # parent => left[d] = subdirs[d]
    <3>1. CASE d = parent
      BY <2>2, <2>5, <3>1
    <3>2. CASE d # parent
      BY <2>4, <3>2
    <3> QED
      BY <3>1, <3>2
  <2> QED
    BY <2>3, <2>6
<1> HIDE DEF left
<1>7. LinkedUntilFreed'
  <2>1. ASSUME NEW d \in Dirs
        PROVE  ToSet(subdirs'[d]) = {e \in Alive' : up'[e] = d}
    BY <1>1, <1>5, <1>6 DEF TreeInv, LinkedUntilFreed
  <2> QED
    BY <1>1, <1>6, <2>1 DEF LinkedUntilFreed
<1>8. FreedLast'
  <2>1. IsInjective(freed) /\ entry \notin ToSet(freed)
    BY <1>2 DEF TreeInv, FreedLast
  <2>2. ASSUME NEW i \in 1 .. Len(freed) PROVE freed[i] # entry /\ freed[i] # parent
    BY <1>2, <1>4 DEF ToSet
  <2>3. IsInjective(freed')
    <3>1. ASSUME NEW i \in 1 .. Len(freed) + 1, NEW j \in 1 .. Len(freed) + 1,
                 freed'[i] = freed'[j]
          PROVE  i = j
      <4>1. (i \in 1 .. Len(freed) \/ i = Len(freed) + 1)
            /\ (j \in 1 .. Len(freed) \/ j = Len(freed) + 1)
        BY <1>4
      <4>2. \A k, l \in 1 .. Len(freed) : freed[k] = freed[l] => k = l
        BY <1>4, <2>1 DEF IsInjective
      <4> QED
        BY <1>4, <2>2, <3>1, <4>1, <4>2
    <3>2. DOMAIN freed' = 1 .. Len(freed) + 1
      BY <1>4
    <3> QED
      BY <3>1, <3>2 DEF IsInjective
  <2>4. ASSUME NEW j \in DOMAIN freed', NEW i \in DOMAIN freed', up'[freed'[i]] = freed'[j]
        PROVE  i < j
    <3>1. /\ i \in 1 .. Len(freed) \/ i = Len(freed) + 1
          /\ j \in 1 .. Len(freed) \/ j = Len(freed) + 1
      BY <1>4
    <3>2. CASE j = Len(freed) + 1
      <4>1. i # j
        BY <1>1, <1>2, <1>4, <2>4, <3>2
      <4> QED
        BY <1>4, <3>1, <3>2, <4>1
    <3>3. CASE j \in 1 .. Len(freed)
      <4>1. freed'[j] = freed[j] /\ freed[j] # parent
        BY <1>4, <2>2, <3>3
      <4>2. i \in 1 .. Len(freed)
        BY <1>1, <1>2, <1>4, <2>4, <3>1, <4>1
      <4>3. up[freed[i]] = freed[j]
        BY <1>1, <1>4, <2>4, <4>1, <4>2
      <4> QED
        BY <1>4, <3>3, <4>2, <4>3 DEF TreeInv, FreedLast
    <3> QED
      BY <3>1, <3>2, <3>3
  <2>5. ASSUME NEW e \in ToSet(freed') PROVE subdirs'[e] = <<>>
    <3>1. e \in Dirs /\ e # parent /\ subdirs[e] = <<>>
      <4>1. CASE e = entry
        BY <1>2, <4>1, DirFacts
      <4>2. CASE e \in ToSet(freed)
        <5>1. e \in Entries
          BY <1>4, <4>2 DEF ToSet
        <5> QED
          BY <1>2, <4>2, <5>1, DirFacts DEF TreeInv, FreedLast
      <4> QED
        BY <1>5, <4>1, <4>2
    <3> QED
      BY <1>1, <1>6, <3>1
  <2> QED
    BY <2>3, <2>4, <2>5 DEF FreedLast
<1>9. parent' \notin ToSet(freed')
  BY <1>1, <1>2, <1>5
<1>10. CASE next # End /\ subdirs[next] = <<>>
  <2>1. entry' = next /\ doing' = "free"
    BY <1>1, <1>10
  <2>2. next \in Alive' /\ next \in Entries /\ up[next] = parent
    BY <1>3, <1>5, <1>10 DEF Alive
  <2>3. next # parent /\ next \in Dirs
    BY <2>2, DirFacts DEF TreeInv, TreeType
  <2>4. subdirs'[next] = <<>>
    BY <1>1, <1>6, <1>10, <2>3
  <2>5. TreeType'
    BY <1>1, <1>2, <1>4, <1>6, <2>1, <2>2 DEF TreeInv, TreeType
  <2>6. Standing'
    BY <1>1, <2>1, <2>2, <2>4 DEF Standing
  <2> QED
    BY <1>7, <1>8, <2>5, <2>6 DEF TreeInv
<1>11. CASE ~(next # End /\ subdirs[next] = <<>>)
  <2>1. /\ doing' = IF parent # Root \/ left[parent] # <<>> THEN "descend" ELSE "done"
        /\ entry' = entry
    BY <1>1, <1>11
  <2>2. TreeType'
    BY <1>1, <1>2, <1>4, <1>6, <2>1 DEF TreeInv, TreeType
  <2>3. Standing'
    BY <1>1, <1>9, <2>1 DEF Standing
  <2> QED
    BY <1>7, <1>8, <2>2, <2>3 DEF TreeInv
<1> QED
  BY <1>10, <1>11

\* When nothing is linked below the root, nothing is linked at all.
LEMMA AllFreed ==
    ASSUME TreeInv, subdirs[Root] = <<>>
    PROVE  ToSet(freed) = Entries
<1>1. ToSet(freed) \subseteq Entries
  BY DEF TreeInv, TreeType, ToSet
<1>2. SUFFICES ASSUME Alive # {} PROVE FALSE
  BY <1>1 DEF Alive
<1>3. Alive \in SUBSET Nat
  BY DirFacts DEF Alive
<1>4. PICK e \in Alive : \A b \in Alive : e <= b
  BY <1>2, <1>3, LeastOne
<1>5. up[e] \in Dirs /\ up[e] \notin ToSet(freed) /\ up[e] < e /\ up[e] \in Nat /\ e \in Nat
  BY AliveBelow, DirFacts DEF TreeInv, TreeType, Alive
<1>6. up[e] \notin Alive
  BY <1>4, <1>5
<1>7. up[e] = Root
  BY <1>5, <1>6, DirFacts DEF Alive
<1>8. e \in ToSet(subdirs[Root])
  BY <1>7, DirFacts DEF TreeInv, LinkedUntilFreed
<1> QED
  BY <1>8 DEF ToSet

\* and so it is one.
LEMMA TreeInvariant == DirWalkSpec => []TreeInv
<1>1. TreeInv /\ [DirWalkNext]_walkVars => TreeInv'
  <2> SUFFICES ASSUME TreeInv, [DirWalkNext]_walkVars PROVE TreeInv'
    OBVIOUS
  <2>1. CASE Show \/ Ascend
    BY <2>1, ShowKeeps
  <2>2. CASE Descend
    BY <2>2, DescendKeeps
  <2>3. CASE FreeEntry
    BY <2>3, FreeKeeps
  <2>4. CASE UNCHANGED walkVars
    BY <2>4 DEF walkVars, TreeInv, TreeType, LinkedUntilFreed, FreedLast, Standing, Alive
  <2> QED
    BY <2>1, <2>2, <2>3, <2>4 DEF DirWalkNext
<1> QED
  BY <1>1, TreeBegins, PTL DEF DirWalkSpec

\* remove_dentry (dentry-travel/test.cpp) frees every entry of any tree once,
\* children before their parent, and never follows a freed one.
THEOREM TreeIsFreed == DirWalkSpec => []FreesChildrenFirst
<1>1. TreeInv => FreesChildrenFirst
  <2> SUFFICES ASSUME TreeInv PROVE FreesChildrenFirst
    OBVIOUS
  <2>1. doing \in {"descend", "free"} => parent \notin ToSet(freed)
    BY AliveBelow DEF TreeInv, Standing
  <2>2. doing = "free" => entry \notin ToSet(freed)
    BY DEF TreeInv, Standing, Alive
  <2>3. doing = "done" => ToSet(freed) = Entries
    BY AllFreed DEF TreeInv, Standing
  <2> QED
    BY <2>1, <2>2, <2>3 DEF TreeInv, FreedLast, FreesChildrenFirst
<1> QED
  BY <1>1, TreeInvariant, PTL

-----------------------------------------------------------------------------
(* The walk that shows the tree.                                             *)

\* F gives a function's values from those at elements of a lower rank.
FromLower(N, S, V, m, F) ==
    /\ N \in Nat /\ V # {} /\ m \in [S -> 0 .. N] /\ F \in [[S -> V] -> [S -> V]]
    /\ \A g, h \in [S -> V] : \A x \in S :
          (\A y \in S : m[y] < m[x] => g[y] = h[y]) => F[g][x] = F[h][x]

\* There is a function whose values they are.
LEMMA Recursion ==
    ASSUME NEW N, NEW S, NEW V, NEW m, NEW F, FromLower(N, S, V, m, F)
    PROVE  \E f \in [S -> V] : f = F[f]
<1>0. PICK v \in V : TRUE
  BY DEF FromLower
<1> USE DEF FromLower
<1> DEFINE Fixed(f, k) == \A x \in S : m[x] < k => f[x] = F[f][x]
           T == {k \in 0 .. N + 1 : \E f \in [S -> V] : Fixed(f, k)}
<1>1. 0 \in T
  <2>1. Fixed([x \in S |-> v], 0)
    BY <1>0
  <2> QED
    BY <2>1
<1>2. ASSUME NEW k \in T, k < N + 1 PROVE k + 1 \in T
  <2>1. PICK f \in [S -> V] : Fixed(f, k)
    OBVIOUS
  <2>2. PICK g \in [S -> V] : g = F[f]
    OBVIOUS
  <2>3. ASSUME NEW x \in S, m[x] < k + 1 PROVE g[x] = F[g][x]
    <3>1. ASSUME NEW y \in S, m[y] < m[x] PROVE f[y] = g[y]
      <4>1. m[y] < k
        BY <1>2, <2>3, <3>1
      <4> QED
        BY <2>1, <2>2, <4>1
    <3> QED
      BY <2>2, <3>1
  <2>4. Fixed(g, k + 1)
    BY <2>3
  <2>5. k + 1 \in 0 .. N + 1
    BY <1>2
  <2> QED
    BY <2>4, <2>5
<1>3. N + 1 \in T
  <2>1. T \subseteq 0 .. N + 1 /\ N + 1 \in Nat
    OBVIOUS
  <2> HIDE DEF T
  <2> QED
    BY <1>1, <1>2, <2>1, UpTo
<1>4. PICK f \in [S -> V] : Fixed(f, N + 1)
  BY <1>3
<1>5. \A x \in S : f[x] = F[f][x]
  BY <1>4
<1> QED
  BY <1>5

\* A tree as main builds it.
IsTree(u) == u \in [Entries -> Nat] /\ \A e \in Entries : u[e] \in Dirs /\ u[e] < e

\* What the walks go on with: an entry of a higher number, or nothing.
LEMMA GoesOn ==
    ASSUME NEW u, IsTree(u), NEW e \in Entries
    PROVE  /\ \/ FirstIn(Children(u, e)) = End
              \/ FirstIn(Children(u, e)) \in Entries /\ FirstIn(Children(u, e)) > e
           /\ \/ NextIn(Children(u, u[e]), e) = End
              \/ NextIn(Children(u, u[e]), e) \in Entries /\ NextIn(Children(u, u[e]), e) > e
<1>1. u \in [Entries -> Nat]
  BY DEF IsTree
<1>2. \/ FirstIn(Children(u, e)) = End
      \/ FirstIn(Children(u, e)) \in Entries /\ FirstIn(Children(u, e)) > e
  <2>1. PICK s : s = Children(u, e)
    OBVIOUS
  <2>2. s \in Seq(Entries) /\ ToSet(s) = {b \in Entries : u[b] = e}
    BY <1>1, <2>1, ChildrenListed
  <2>3. CASE s = <<>>
    BY <2>1, <2>3 DEF FirstIn
  <2>4. CASE s # <<>>
    <3>1. FirstIn(s) = s[1] /\ 1 \in DOMAIN s
      BY <2>2, <2>4 DEF FirstIn
    <3>2. s[1] \in ToSet(s)
      BY <3>1 DEF ToSet
    <3> QED
      BY <2>1, <2>2, <3>1, <3>2 DEF IsTree
  <2> QED
    BY <2>3, <2>4
<1>3. \/ NextIn(Children(u, u[e]), e) = End
      \/ NextIn(Children(u, u[e]), e) \in Entries /\ NextIn(Children(u, u[e]), e) > e
  <2>1. PICK s : s = Children(u, u[e])
    OBVIOUS
  <2>2. /\ s \in Seq(Entries) /\ ToSet(s) = {b \in Entries : u[b] = u[e]}
        /\ \A j, k \in DOMAIN s : j < k => s[j] < s[k]
    BY <1>1, <2>1, ChildrenListed
  <2>3. \E k \in DOMAIN s : s[k] = e
    <3>1. e \in ToSet(s)
      BY <2>2
    <3> QED
      BY <3>1 DEF ToSet
  <2>4. PICK k \in DOMAIN s : k = Place(s, e) /\ s[k] = e
    BY <2>3 DEF Place
  <2>5. CASE k = Len(s)
    BY <2>1, <2>4, <2>5 DEF NextIn
  <2>6. CASE k # Len(s)
    <3>1. k \in 1 .. Len(s) /\ k + 1 \in DOMAIN s /\ k < k + 1
      BY <2>2, <2>6
    <3>2. NextIn(s, e) = s[k + 1]
      BY <2>4, <2>6 DEF NextIn
    <3>3. s[k] < s[k + 1] /\ s[k + 1] \in Entries
      BY <2>2, <3>1
    <3> QED
      BY <2>1, <2>4, <3>2, <3>3
  <2> QED
    BY <2>5, <2>6
<1> QED
  BY <1>2, <1>3

Turns == Entries \cup {End}

\* The recursive walk as its equation, which has a solution, and a list.
LEMMA WalkIs ==
    ASSUME NEW u, IsTree(u)
    PROVE  /\ Walk(u) \in [Turns -> Seq(Entries)]
           /\ Walk(u)[End] = <<>>
           /\ \A e \in Entries :
                 Walk(u)[e] = <<e>> \o Walk(u)[FirstIn(Children(u, e))]
                                    \o Walk(u)[NextIn(Children(u, u[e]), e)]
<1> DEFINE one(e) == FirstIn(Children(u, e))
           two(e) == NextIn(Children(u, u[e]), e)
           Body(g, e) == IF e = End THEN <<>> ELSE <<e>> \o g[one(e)] \o g[two(e)]
           F == [g \in [Turns -> Seq(Entries)] |-> [e \in Turns |-> Body(g, e)]]
           m == [e \in Turns |-> IF e = End THEN 0 ELSE NrEntries + 1 - e]
<1>1. /\ m \in [Turns -> 0 .. NrEntries] /\ NrEntries \in Nat /\ m[End] = 0
      /\ \A e \in Entries : e # End /\ m[e] = NrEntries + 1 - e /\ e \in 1 .. NrEntries
  BY DWAssumption DEF Turns, Entries, End
<1> HIDE DEF m
<1>2. ASSUME NEW e \in Entries
      PROVE  /\ one(e) \in Turns /\ two(e) \in Turns
             /\ m[one(e)] < m[e] /\ m[two(e)] < m[e]
  <2>1. /\ one(e) = End \/ (one(e) \in Entries /\ one(e) > e)
        /\ two(e) = End \/ (two(e) \in Entries /\ two(e) > e)
    BY GoesOn
  <2> HIDE DEF one, two
  <2> QED
    BY <1>1, <2>1 DEF Turns
<1> HIDE DEF one, two
<1>3. ASSUME NEW g, NEW e \in Entries,
             g[one(e)] \in Seq(Entries), g[two(e)] \in Seq(Entries)
      PROVE  Body(g, e) \in Seq(Entries)
  <2>1. <<e>> \in Seq(Entries)
    OBVIOUS
  <2>2. (<<e>> \o g[one(e)]) \in Seq(Entries)
    BY <1>3, <2>1, ConcatProperties
  <2>3. (<<e>> \o g[one(e)]) \o g[two(e)] \in Seq(Entries)
    BY <1>3, <2>2, ConcatProperties
  <2> QED
    BY <1>1, <2>3
<1>4. <<>> \in Seq(Entries)
  OBVIOUS
<1>5. F \in [[Turns -> Seq(Entries)] -> [Turns -> Seq(Entries)]]
  <2>1. ASSUME NEW g \in [Turns -> Seq(Entries)], NEW e \in Turns
        PROVE  Body(g, e) \in Seq(Entries)
    <3>1. CASE e = End
      BY <1>4, <3>1
    <3>2. CASE e # End
      <4>1. e \in Entries
        BY <3>2 DEF Turns
      <4>2. g[one(e)] \in Seq(Entries) /\ g[two(e)] \in Seq(Entries)
        BY <1>2, <4>1
      <4> HIDE DEF Body
      <4> QED
        BY <1>3, <4>1, <4>2
    <3> QED
      BY <3>1, <3>2
  <2> HIDE DEF Body
  <2> QED
    BY <2>1
<1>6. ASSUME NEW g \in [Turns -> Seq(Entries)], NEW h \in [Turns -> Seq(Entries)],
             NEW e \in Turns, \A b \in Turns : m[b] < m[e] => g[b] = h[b]
      PROVE  F[g][e] = F[h][e]
  <2>1. Body(g, e) = Body(h, e)
    <3>1. CASE e = End
      BY <3>1
    <3>2. CASE e # End
      <4>1. e \in Entries
        BY <3>2 DEF Turns
      <4> QED
        BY <1>2, <1>6, <4>1
    <3> QED
      BY <3>1, <3>2
  <2> HIDE DEF Body
  <2> QED
    BY <2>1
<1>7. \E f \in [Turns -> Seq(Entries)] : f = F[f]
  <2> DEFINE V == Seq(Entries)
  <2>1. m \in [Turns -> 0 .. NrEntries] /\ NrEntries \in Nat /\ <<>> \in V
    BY <1>1, <1>4
  <2>2. F \in [[Turns -> V] -> [Turns -> V]]
    BY <1>5
  <2>3. \A g, h \in [Turns -> V] : \A x \in Turns :
           (\A y \in Turns : m[y] < m[x] => g[y] = h[y]) => F[g][x] = F[h][x]
    <3> HIDE DEF F
    <3> QED
      BY <1>6
  <2> HIDE DEF F, V
  <2>4. FromLower(NrEntries, Turns, V, m, F)
    BY <2>1, <2>2, <2>3 DEF FromLower
  <2>5. \E f \in [Turns -> V] : f = F[f]
    BY <2>4, Recursion
  <2> QED
    BY <2>5 DEF V
<1>8. \E f : f = [e \in Turns |-> Body(f, e)]
  BY <1>7
<1>9. PICK w : w = Walk(u) /\ w = [e \in Turns |-> Body(w, e)]
  <2>1. Walk(u) = CHOOSE f : f = [e \in Turns |-> Body(f, e)]
    BY DEF Walk, Turns, one, two
  <2> HIDE DEF Body
  <2> QED
    BY <1>8, <2>1
<1>10. ASSUME NEW e \in Turns PROVE w[e] \in Seq(Entries)
  <2> DEFINE Bad == {b \in Turns : w[b] \notin Seq(Entries)}
             Ranks == {m[b] : b \in Bad}
  <2>1. SUFFICES ASSUME Bad # {} PROVE FALSE
    BY <1>10
  <2>2. Ranks \in SUBSET Nat /\ Ranks # {}
    BY <1>1, <2>1
  <2>3. PICK k \in Ranks : \A n \in Ranks : k <= n
    <3> HIDE DEF Ranks
    <3> QED
      BY <2>2, LeastOne
  <2>4. PICK b \in Bad : m[b] = k
    BY <2>3
  <2>5. b # End
    BY <1>4, <1>9, <2>4
  <2>6. b \in Entries
    BY <2>4, <2>5 DEF Turns
  <2>7. ASSUME NEW a \in Turns, m[a] < m[b] PROVE a \notin Bad
    <3>1. SUFFICES ASSUME a \in Bad PROVE FALSE
      OBVIOUS
    <3>2. m[a] \in Ranks
      BY <3>1
    <3>3. k <= m[a] /\ m[a] < k
      BY <2>3, <2>4, <2>7, <3>2
    <3>4. k \in Nat /\ m[a] \in Nat
      BY <2>2, <2>3, <3>2
    <3> HIDE DEF Ranks, Bad
    <3> QED
      BY <3>3, <3>4
  <2>8. w[one(b)] \in Seq(Entries) /\ w[two(b)] \in Seq(Entries)
    BY <1>2, <2>6, <2>7
  <2>9. w[b] = Body(w, b)
    BY <1>9, <2>4
  <2> HIDE DEF Body
  <2> QED
    BY <1>3, <2>4, <2>6, <2>8, <2>9
<1>11. w \in [Turns -> Seq(Entries)]
  BY <1>9, <1>10
<1>12. w[End] = <<>>
  BY <1>9 DEF Turns
<1>13. ASSUME NEW e \in Entries PROVE w[e] = <<e>> \o w[one(e)] \o w[two(e)]
  BY <1>1, <1>9 DEF Turns
<1> QED
  BY <1>9, <1>11, <1>12, <1>13 DEF one, two

-----------------------------------------------------------------------------
(* What is left to show.                                                     *)

\* What is left to show when the children of d have been shown.
Remains(u) ==
    LET remains[d \in Dirs] ==
            IF d = Root THEN <<>>
            ELSE Walk(u)[NextIn(Children(u, u[d]), d)] \o remains[u[d]]
    IN  remains

\* It is a list too.
LEMMA RemainsIs ==
    ASSUME NEW u, IsTree(u)
    PROVE  /\ Remains(u) \in [Dirs -> Seq(Entries)]
           /\ Remains(u)[Root] = <<>>
           /\ \A e \in Entries :
                 Remains(u)[e] = Walk(u)[NextIn(Children(u, u[e]), e)] \o Remains(u)[u[e]]
<1> DEFINE next(e) == Walk(u)[NextIn(Children(u, u[e]), e)]
           Body(g, d) == IF d = Root THEN <<>> ELSE next(d) \o g[u[d]]
           F == [g \in [Dirs -> Seq(Entries)] |-> [d \in Dirs |-> Body(g, d)]]
           m == [d \in Dirs |-> d]
<1>1. ASSUME NEW e \in Entries
      PROVE  next(e) \in Seq(Entries) /\ u[e] \in Dirs /\ e # Root /\ m[u[e]] < m[e]
  <2>1. NextIn(Children(u, u[e]), e) \in Turns
    BY GoesOn DEF Turns
  <2>2. next(e) \in Seq(Entries)
    BY <2>1, WalkIs
  <2> QED
    BY <2>2, DirFacts DEF IsTree
<1> HIDE DEF next
<1>2. m \in [Dirs -> 0 .. NrEntries] /\ NrEntries \in Nat
  BY DWAssumption DEF Dirs, Entries, Root
<1> HIDE DEF m
<1>3. ASSUME NEW g, NEW e \in Entries, g[u[e]] \in Seq(Entries)
      PROVE  Body(g, e) \in Seq(Entries)
  BY <1>1, <1>3, ConcatProperties
<1>4. <<>> \in Seq(Entries)
  OBVIOUS
<1>5. F \in [[Dirs -> Seq(Entries)] -> [Dirs -> Seq(Entries)]]
  <2>1. ASSUME NEW g \in [Dirs -> Seq(Entries)], NEW d \in Dirs
        PROVE  Body(g, d) \in Seq(Entries)
    <3>1. CASE d = Root
      BY <1>4, <3>1
    <3>2. CASE d # Root
      <4>1. d \in Entries
        BY <3>2, DirFacts
      <4>2. g[u[d]] \in Seq(Entries)
        BY <1>1, <4>1
      <4> HIDE DEF Body
      <4> QED
        BY <1>3, <4>1, <4>2
    <3> QED
      BY <3>1, <3>2
  <2> HIDE DEF Body
  <2> QED
    BY <2>1
<1>6. ASSUME NEW g \in [Dirs -> Seq(Entries)], NEW h \in [Dirs -> Seq(Entries)],
             NEW d \in Dirs, \A b \in Dirs : m[b] < m[d] => g[b] = h[b]
      PROVE  F[g][d] = F[h][d]
  <2>1. Body(g, d) = Body(h, d)
    <3>1. CASE d = Root
      BY <3>1
    <3>2. CASE d # Root
      <4>1. d \in Entries
        BY <3>2, DirFacts
      <4> QED
        BY <1>1, <1>6, <4>1
    <3> QED
      BY <3>1, <3>2
  <2> HIDE DEF Body
  <2> QED
    BY <2>1
<1>7. \E f \in [Dirs -> Seq(Entries)] : f = F[f]
  <2> DEFINE V == Seq(Entries)
  <2>1. m \in [Dirs -> 0 .. NrEntries] /\ NrEntries \in Nat /\ <<>> \in V
    BY <1>2, <1>4
  <2>2. F \in [[Dirs -> V] -> [Dirs -> V]]
    BY <1>5
  <2>3. \A g, h \in [Dirs -> V] : \A x \in Dirs :
           (\A y \in Dirs : m[y] < m[x] => g[y] = h[y]) => F[g][x] = F[h][x]
    <3> HIDE DEF F
    <3> QED
      BY <1>6
  <2> HIDE DEF F, V
  <2>4. FromLower(NrEntries, Dirs, V, m, F)
    BY <2>1, <2>2, <2>3 DEF FromLower
  <2>5. \E f \in [Dirs -> V] : f = F[f]
    BY <2>4, Recursion
  <2> QED
    BY <2>5 DEF V
<1>8. \E f : f = [d \in Dirs |-> Body(f, d)]
  BY <1>7
<1>9. PICK r : r = Remains(u) /\ r = [d \in Dirs |-> Body(r, d)]
  <2>1. Remains(u) = CHOOSE f : f = [d \in Dirs |-> Body(f, d)]
    BY DEF Remains, next
  <2> HIDE DEF Body
  <2> QED
    BY <1>8, <2>1
<1>10. ASSUME NEW d \in Dirs PROVE r[d] \in Seq(Entries)
  <2> DEFINE Bad == {b \in Dirs : r[b] \notin Seq(Entries)}
  <2>1. SUFFICES ASSUME Bad # {} PROVE FALSE
    BY <1>10
  <2>2. Bad \in SUBSET Nat
    <3>1. Dirs \subseteq Nat
      BY DirFacts DEF Root
    <3> QED
      BY <3>1
  <2>3. PICK b \in Bad : \A n \in Bad : b <= n
    <3> HIDE DEF Bad
    <3> QED
      BY <2>1, <2>2, LeastOne
  <2>4. b # Root
    BY <1>4, <1>9, <2>3
  <2>5. b \in Entries
    BY <2>3, <2>4, DirFacts
  <2>6. u[b] \in Dirs /\ u[b] < b /\ u[b] \in Nat /\ b \in Nat
    BY <2>5, DirFacts DEF IsTree
  <2>7. r[u[b]] \in Seq(Entries)
    BY <2>3, <2>6
  <2>8. r[b] = Body(r, b)
    BY <1>9, <2>3
  <2> HIDE DEF Body
  <2> QED
    BY <1>3, <2>3, <2>5, <2>7, <2>8
<1>11. r \in [Dirs -> Seq(Entries)]
  BY <1>9, <1>10
<1>12. r[Root] = <<>>
  BY <1>9, DirFacts
<1>13. ASSUME NEW e \in Entries PROVE r[e] = next(e) \o r[u[e]]
  BY <1>1, <1>9, DirFacts
<1> QED
  BY <1>9, <1>11, <1>12, <1>13 DEF next

\* What was shown and what is left make up the whole; the walk stands on a
\* child of parent, or behind the last.
ShowInv ==
    /\ doing = "show" => /\ \A d \in Dirs : subdirs[d] = Children(up, d)
                         /\ entry # End => up[entry] = parent
                         /\ shown \in Seq(Entries)
                         /\ shown \o (Walk(up)[entry] \o Remains(up)[parent]) = Preorder(up)
    /\ doing # "show" => shown = Preorder(up)

\* The walk and what is left of it, for the tree of the program.
LEMMA ListsToShow ==
    ASSUME TreeInv
    PROVE  /\ IsTree(up)
           /\ Walk(up) \in [Turns -> Seq(Entries)] /\ Remains(up) \in [Dirs -> Seq(Entries)]
           /\ Preorder(up) \in Seq(Entries)
<1>1. IsTree(up)
  BY DEF TreeInv, TreeType, IsTree
<1>2. Walk(up) \in [Turns -> Seq(Entries)] /\ Remains(up) \in [Dirs -> Seq(Entries)]
  BY <1>1, WalkIs, RemainsIs
<1>3. FirstIn(Children(up, Root)) \in Turns
  <2>1. Children(up, Root) \in Seq(Entries)
    BY <1>1, ChildrenListed DEF IsTree
  <2> QED
    BY <2>1 DEF FirstIn, Turns
<1> QED
  BY <1>1, <1>2, <1>3 DEF Preorder

\* Nothing was shown in the beginning,
LEMMA ShowBegins == DirInit => ShowInv
<1> SUFFICES ASSUME DirInit PROVE ShowInv
  OBVIOUS
<1>1. TreeInv /\ doing = "show" /\ parent = Root /\ shown = <<>>
      /\ entry = Head(subdirs[Root]) /\ freed = <<>>
  BY TreeBegins DEF DirInit
<1>2. \A d \in Dirs : subdirs[d] = Children(up, d)
  BY DEF DirInit, Dirs
<1>3. up[entry] = parent /\ entry = FirstIn(Children(up, Root))
  <2>1. 1 \in Alive /\ up[1] = Root
    BY <1>1, DWAssumption DEF TreeInv, TreeType, Entries, Root, Alive, ToSet
  <2>2. /\ subdirs[Root] \in Seq(Entries)
        /\ ToSet(subdirs[Root]) = {e \in Alive : up[e] = Root}
    BY <1>1, DirFacts DEF TreeInv, TreeType, LinkedUntilFreed
  <2>3. subdirs[Root] # <<>>
    BY <2>1, <2>2 DEF ToSet
  <2>4. entry \in ToSet(subdirs[Root])
    BY <1>1, <2>2, <2>3 DEF ToSet
  <2> QED
    BY <1>1, <1>2, <2>2, <2>3, <2>4, DirFacts DEF FirstIn
<1>4. shown \o (Walk(up)[entry] \o Remains(up)[parent]) = Preorder(up)
  <2>1. Walk(up)[entry] = Preorder(up) /\ Remains(up)[parent] = <<>>
    BY <1>1, <1>3, ListsToShow, RemainsIs DEF Preorder
  <2> QED
    BY <1>1, <2>1, ListsToShow, ConcatEmptySeq
<1>5. shown \in Seq(Entries)
  BY <1>1
<1> QED
  BY <1>1, <1>2, <1>3, <1>4, <1>5 DEF ShowInv

\* an entry that is shown is the next of what is left,
LEMMA ShowGoesOn ==
    ASSUME TreeInv, ShowInv, Show
    PROVE  ShowInv'
<1>1. /\ doing = "show" /\ entry \in Entries /\ parent \in Dirs /\ up[entry] = parent
      /\ doing' = "show" /\ up' = up /\ subdirs' = subdirs /\ shown' = Append(shown, entry)
      /\ shown \in Seq(Entries)
      /\ \A d \in Dirs : subdirs[d] = Children(up, d)
      /\ shown \o (Walk(up)[entry] \o Remains(up)[parent]) = Preorder(up)
  BY DEF Show, TreeInv, TreeType, ShowInv
<1>2. /\ subdirs[entry] = Children(up, entry)
      /\ subdirs[parent] = Children(up, up[entry])
  BY <1>1, DirFacts
<1>3. /\ subdirs[entry] # <<>> => parent' = entry /\ entry' = Head(subdirs[entry])
      /\ subdirs[entry] = <<>> => parent' = parent /\ entry' = After(entry)
  BY DEF Show
<1>4. PICK b : b = NextIn(Children(up, up[entry]), entry)
  OBVIOUS
<1>5. PICK c : c = FirstIn(Children(up, entry))
  OBVIOUS
<1>6. b \in Turns /\ c \in Turns
  BY <1>1, <1>4, <1>5, ListsToShow, GoesOn DEF Turns
<1>7. /\ Walk(up)[entry] = <<entry>> \o Walk(up)[c] \o Walk(up)[b]
      /\ Remains(up)[entry] = Walk(up)[b] \o Remains(up)[parent]
      /\ Walk(up)[End] = <<>>
  BY <1>1, <1>4, <1>5, ListsToShow, WalkIs, RemainsIs
<1>8. PICK w, v, r : w = Walk(up)[c] /\ v = Walk(up)[b] /\ r = Remains(up)[parent]
  OBVIOUS
<1>9. w \in Seq(Entries) /\ v \in Seq(Entries) /\ r \in Seq(Entries)
  BY <1>1, <1>6, <1>8, ListsToShow
<1>10. shown' \in Seq(Entries) /\ shown' = shown \o <<entry>> /\ <<entry>> \in Seq(Entries)
  BY <1>1
<1>11. shown' \o (w \o (v \o r)) = Preorder(up)
  <2>1. shown \o ((<<entry>> \o w \o v) \o r) = Preorder(up)
    BY <1>1, <1>7, <1>8
  <2>2. (<<entry>> \o w) \o v \in Seq(Entries) /\ <<entry>> \o w \in Seq(Entries)
        /\ v \o r \in Seq(Entries) /\ w \o (v \o r) \in Seq(Entries)
    BY <1>9, <1>10, ConcatProperties
  <2>3. ((<<entry>> \o w) \o v) \o r = (<<entry>> \o w) \o (v \o r)
    BY <1>9, <2>2, ConcatAssociative
  <2>4. (<<entry>> \o w) \o (v \o r) = <<entry>> \o (w \o (v \o r))
    BY <1>9, <1>10, <2>2, ConcatAssociative
  <2>5. shown \o (<<entry>> \o (w \o (v \o r))) = (shown \o <<entry>>) \o (w \o (v \o r))
    <3>1. PICK one, t : one = <<entry>> /\ t = w \o (v \o r)
      OBVIOUS
    <3>2. shown \in Seq(Entries) /\ one \in Seq(Entries) /\ t \in Seq(Entries)
      BY <1>1, <1>10, <2>2, <3>1
    <3>3. (shown \o one) \o t = shown \o (one \o t)
      BY <3>2, ConcatAssociative
    <3> QED
      BY <3>1, <3>3
  <2> QED
    BY <1>10, <2>1, <2>3, <2>4, <2>5
<1>12. CASE subdirs[entry] # <<>>
  <2>1. parent' = entry /\ entry' = c
    BY <1>2, <1>3, <1>5, <1>12 DEF FirstIn
  <2>2. up[c] = entry
    <3>1. /\ subdirs[entry] \in Seq(Entries)
          /\ ToSet(subdirs[entry]) = {e \in Alive : up[e] = entry}
      BY <1>1, DirFacts DEF TreeInv, TreeType, LinkedUntilFreed
    <3>2. c \in ToSet(subdirs[entry])
      BY <1>3, <1>12, <2>1, <3>1 DEF ToSet
    <3> QED
      BY <3>1, <3>2
  <2>3. shown' \o (Walk(up)[entry'] \o Remains(up)[parent']) = Preorder(up)
    BY <1>7, <1>8, <1>11, <2>1
  <2> QED
    BY <1>1, <1>10, <2>1, <2>2, <2>3 DEF ShowInv
<1>13. CASE subdirs[entry] = <<>>
  <2>1. parent' = parent /\ entry' = b
    BY <1>1, <1>2, <1>3, <1>4, <1>13 DEF After
  <2>2. b = End \/ up[b] = parent
    <3>1. entry \in Alive
      BY <1>1 DEF TreeInv, Standing, Alive, ToSet
    <3>2. After(entry) = b
      BY <1>3, <1>13, <2>1
    <3> QED
      BY <1>1, <3>1, <3>2, BrotherIs
  <2>3. w = <<>>
    BY <1>2, <1>5, <1>7, <1>8, <1>13 DEF FirstIn
  <2>4. w \o (v \o r) = v \o r
    BY <1>9, <2>3, ConcatProperties, ConcatEmptySeq
  <2>5. shown' \o (Walk(up)[entry'] \o Remains(up)[parent']) = Preorder(up)
    BY <1>8, <1>11, <2>1, <2>4
  <2> QED
    BY <1>1, <1>10, <2>1, <2>2, <2>5 DEF ShowInv
<1> QED
  BY <1>12, <1>13

\* behind the last child the walk goes on with what is left of the parent,
LEMMA AscendGoesOn ==
    ASSUME TreeInv, ShowInv, Ascend
    PROVE  ShowInv'
<1>1. /\ doing = "show" /\ entry = End /\ parent \in Dirs
      /\ up' = up /\ subdirs' = subdirs /\ shown' = shown
      /\ shown \in Seq(Entries)
      /\ \A d \in Dirs : subdirs[d] = Children(up, d)
      /\ shown \o (Walk(up)[End] \o Remains(up)[parent]) = Preorder(up)
  BY DEF Ascend, TreeInv, TreeType, ShowInv
<1>2. PICK r \in Seq(Entries) : r = Remains(up)[parent]
  BY <1>1, ListsToShow
<1>3. shown \o r = Preorder(up)
  <2>1. Walk(up)[End] = <<>>
    BY ListsToShow, WalkIs
  <2> QED
    BY <1>1, <1>2, <2>1, ConcatEmptySeq
<1>4. CASE parent # Root
  <2>1. /\ parent \in Entries /\ entry' = After(parent) /\ parent' = up[parent]
        /\ doing' = "show"
    BY <1>1, <1>4, DirFacts DEF Ascend
  <2>2. parent \in Alive /\ up[parent] \in Dirs
    BY <1>1, <2>1 DEF TreeInv, TreeType, Standing, Alive, ToSet
  <2>3. entry' = End \/ up[entry'] = up[parent]
    BY <2>1, <2>2, BrotherIs
  <2>4. entry' = NextIn(Children(up, up[parent]), parent)
    BY <1>1, <2>1, <2>2 DEF After
  <2>5. r = Walk(up)[entry'] \o Remains(up)[parent']
    BY <1>2, <2>1, <2>4, ListsToShow, RemainsIs
  <2> QED
    BY <1>1, <1>3, <2>1, <2>3, <2>5 DEF ShowInv
<1>5. CASE parent = Root
  <2>1. r = <<>>
    BY <1>2, <1>5, ListsToShow, RemainsIs
  <2>2. shown = Preorder(up)
    BY <1>1, <1>3, <2>1, ConcatEmptySeq
  <2>3. doing' = "descend"
    BY <1>5 DEF Ascend
  <2> QED
    BY <1>1, <2>2, <2>3 DEF ShowInv
<1> QED
  BY <1>4, <1>5

\* and remove_dentry shows nothing.
LEMMA ShowInvariant == DirWalkSpec => []ShowInv
<1>1. TreeInv /\ ShowInv /\ [DirWalkNext]_walkVars => ShowInv'
  <2> SUFFICES ASSUME TreeInv, ShowInv, [DirWalkNext]_walkVars PROVE ShowInv'
    OBVIOUS
  <2>1. CASE Show
    BY <2>1, ShowGoesOn
  <2>2. CASE Ascend
    BY <2>2, AscendGoesOn
  <2>3. CASE Descend \/ FreeEntry
    <3>1. doing # "show" /\ doing' # "show" /\ up' = up /\ shown' = shown
      BY <2>3 DEF Descend, FreeEntry
    <3> QED
      BY <3>1 DEF ShowInv
  <2>4. CASE UNCHANGED walkVars
    BY <2>4 DEF walkVars, ShowInv
  <2> QED
    BY <2>1, <2>2, <2>3, <2>4 DEF DirWalkNext
<1> QED
  BY <1>1, ShowBegins, TreeInvariant, PTL DEF DirWalkSpec

\* stats_dentry (dentry-travel/test.cpp) shows what the recursive walk over the
\* same tree shows, in its order, for any tree.
THEOREM WalkIsPreorder == DirWalkSpec => []WalksPreorder
<1>1. TreeInv /\ ShowInv => WalksPreorder
  <2> SUFFICES ASSUME TreeInv, ShowInv PROVE IsPrefix(shown, Preorder(up))
    BY DEF ShowInv, WalksPreorder
  <2>1. CASE doing = "show"
    <3>1. PICK r : r = Walk(up)[entry] \o Remains(up)[parent]
      OBVIOUS
    <3>2. shown \in Seq(Entries) /\ shown \o r = Preorder(up)
      BY <2>1, <3>1 DEF ShowInv
    <3>3. r \in Seq(Entries)
      <4>1. entry \in Turns /\ parent \in Dirs
        BY DEF TreeInv, TreeType, Turns
      <4>2. Walk(up)[entry] \in Seq(Entries) /\ Remains(up)[parent] \in Seq(Entries)
        BY <4>1, ListsToShow
      <4> QED
        BY <3>1, <4>2, ConcatProperties
    <3>4. SubSeq(shown \o r, 1, Len(shown)) = SubSeq(shown, 1, Len(shown))
      BY <3>2, <3>3
    <3>5. Len(shown) <= Len(shown \o r)
      BY <3>2, <3>3
    <3> QED
      BY <3>2, <3>4, <3>5 DEF IsPrefix
  <2>2. CASE doing # "show"
    <3>1. shown = Preorder(up) /\ Len(shown) \in Nat
      BY <2>2, ListsToShow DEF ShowInv
    <3> QED
      BY <3>1 DEF IsPrefix
  <2> QED
    BY <2>1, <2>2
<1> QED
  BY <1>1, TreeInvariant, ShowInvariant, PTL

=============================================================================
