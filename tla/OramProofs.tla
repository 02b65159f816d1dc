----------------------------- MODULE OramProofs -----------------------------
(***************************************************************************)
(* Proofs about Oram, for every number of keys, levels, slots and entries: *)
(* the tree, then where the entries are, then that Oram implements         *)
(* KvStore.  The second part is also about OramReinit.                     *)
(***************************************************************************)
EXTENDS OramReinit, OramKv, SequenceTheorems, FiniteSetTheorems, WellFoundedInduction, TLAPS

-----------------------------------------------------------------------------
(* The tree of OramTree: the nodes of a path, and what one more level does. *)

(***************************************************************************)
(* A set of naturals has a least element.  Inductions are written with it: *)
(* a property that fails somewhere fails at a least number.  The order of  *)
(* the numbers is that of the intervals below them.                        *)
(***************************************************************************)
LEMMA LeastElement ==
  ASSUME NEW T \in SUBSET Nat, T # {}
  PROVE  \E x \in T : \A y \in T : x <= y
<1> DEFINE Below == {1 .. n : n \in T}
           R == StrictSubsetOrdering(Nat)
<1>1. IsWellFoundedOn(R, FiniteSubsetsOf(Nat))
  BY FS_StrictSubsetOrderingWellFounded
<1>2. Below \subseteq FiniteSubsetsOf(Nat)
  <2>1. \A n \in T : IsFiniteSet(1 .. n)
    BY FS_Interval
  <2>2. \A n \in T : 1 .. n \in SUBSET Nat
    OBVIOUS
  <2>3. \A n \in T : 1 .. n \in FiniteSubsetsOf(Nat)
    BY <2>1, <2>2 DEF FiniteSubsetsOf
  <2> QED BY <2>3
<1>3. Below # {}
  OBVIOUS
<1>4. PICK s \in Below : \A t \in Below : <<t, s>> \notin R
  <2> HIDE DEF Below, R
  <2> QED BY <1>1, <1>2, <1>3, WFMin
<1>5. PICK x \in T : s = 1 .. x
  OBVIOUS
<1>6. ASSUME NEW y \in T, y < x PROVE FALSE
  <2>1. x \in 1 .. x /\ x \notin 1 .. y
    BY <1>6
  <2>2. 1 .. y \subseteq 1 .. x /\ 1 .. y # 1 .. x
    BY <1>6, <2>1
  <2>3. <<1 .. y, 1 .. x>> \in R
    BY <2>2 DEF StrictSubsetOrdering
  <2> QED BY <1>4, <1>5, <2>3
<1> QED BY <1>6

-----------------------------------------------------------------------------
(* Powers of two up to the level bound. *)
LEMMA Powers ==
  /\ 2^0 = 1 /\ 2^1 = 2 /\ 2^2 = 4
  /\ \A n \in 0 .. LEVELMAX : 2^n \in Nat /\ 2^n > 0
  /\ \A n \in 0 .. LEVELMAX : 2^(n + 1) = 2 * 2^n
  /\ \A n \in 1 .. LEVELMAX : 2^n = 2 * 2^(n - 1)
<1>1. 2^0 = 1 /\ 2^1 = 2 /\ 2^2 = 4
  OBVIOUS
<1>2. /\ \A n \in 0 .. LEVELMAX : 2^n \in Nat /\ 2^n > 0
      /\ \A n \in 0 .. LEVELMAX : 2^(n + 1) = 2 * 2^n
  BY PowerAssumption
<1>3. ASSUME NEW n \in 1 .. LEVELMAX PROVE 2^n = 2 * 2^(n - 1)
  <2>1. n - 1 \in 0 .. LEVELMAX /\ (n - 1) + 1 = n
    BY LevelAssumption
  <2> QED BY <2>1, <1>2
<1> QED BY <1>1, <1>2, <1>3

(* Two divisions are one by the product. *)
LEMMA HalfOfQuotient ==
  ASSUME NEW x \in Nat, NEW p \in Nat, p > 0
  PROVE  x \div (2 * p) = (x \div p) \div 2
<1> DEFINE q == x \div p
           h == q \div 2
<1>1. q \in Nat /\ q * p <= x /\ x < (q + 1) * p
  OBVIOUS
<1>2. h \in Nat /\ 2 * h <= q /\ q + 1 <= 2 * (h + 1)
  BY <1>1
<1> HIDE DEF q, h
<1>3. h * (2 * p) <= x
  <2>1. (2 * h) * p <= q * p
    BY <1>1, <1>2
  <2>2. (2 * h) * p = h * (2 * p)
    BY <1>2
  <2> QED BY <1>1, <1>2, <2>1, <2>2
<1>4. x < (h + 1) * (2 * p)
  <2>1. (q + 1) * p <= (2 * (h + 1)) * p
    BY <1>1, <1>2
  <2>2. (2 * (h + 1)) * p = (h + 1) * (2 * p)
    BY <1>2
  <2> QED BY <1>1, <1>2, <2>1, <2>2
<1>5. x \div (2 * p) = h
  <2> DEFINE d == 2 * p
  <2>1. d \in Nat /\ d > 0 /\ h * d <= x /\ x < (h + 1) * d
    BY <1>3, <1>4
  <2> HIDE DEF d
  <2>2. x \div d = h
    BY <1>2, <2>1
  <2> QED BY <2>2 DEF d
<1> QED BY <1>5 DEF h, q

(* NodeAt takes one step of Parent at a time. *)
LEMMA NodeAtParent ==
  ASSUME NEW leaf \in Nat, leaf > 0, NEW h \in 0 .. LEVELMAX - 1
  PROVE  /\ NodeAt(leaf, 0) = leaf
         /\ NodeAt(leaf, h) \in Nat /\ NodeAt(leaf, h) > 0
         /\ NodeAt(leaf, h + 1) = Parent(NodeAt(leaf, h))
<1> DEFINE p == 2^h
           q == (leaf - 1) \div p
<1>1. p \in Nat /\ p > 0 /\ 2^(h + 1) = 2 * p /\ 2^0 = 1
  BY Powers, LevelAssumption
<1>2. NodeAt(leaf, h) = q + 1
  BY DEF NodeAt
<1>3. NodeAt(leaf, h + 1) = (leaf - 1) \div (2 * p) + 1
  BY <1>1 DEF NodeAt
<1>4. NodeAt(leaf, 0) = leaf
  BY <1>1 DEF NodeAt
<1> HIDE DEF p
<1>5. q \in Nat
  BY <1>1
<1>6. (leaf - 1) \div (2 * p) = q \div 2
  <2> DEFINE x == leaf - 1
  <2>1. x \in Nat
    OBVIOUS
  <2> HIDE DEF x
  <2>2. x \div (2 * p) = (x \div p) \div 2
    BY <1>1, <2>1, HalfOfQuotient
  <2> QED BY <2>2 DEF x
<1> HIDE DEF q
<1>7. Parent(q + 1) = q \div 2 + 1
  BY <1>5 DEF Parent
<1> QED BY <1>2, <1>3, <1>4, <1>5, <1>6, <1>7

(* The leaf level is at h = 0 and every step halves the range of nodes. *)
LEMMA PathRange ==
  ASSUME NEW level \in 1 .. LEVELMAX, NEW leaf \in Leaves(level), NEW h \in 0 .. level - 1
  PROVE  NodeAt(leaf, h) \in 2^(level - 1 - h) + 1 .. 2^(level - h)
<1> DEFINE Holds(i) == NodeAt(leaf, i) \in 2^(level - 1 - i) + 1 .. 2^(level - i)
           Bad == {i \in 0 .. level - 1 : ~Holds(i)}
<1>1. leaf \in Nat /\ leaf > 0
  BY Powers, LevelAssumption DEF Leaves
<1>2. Holds(0)
  BY <1>1, NodeAtParent, LevelAssumption DEF Leaves
<1>3. ASSUME NEW i \in 0 .. level - 2, Holds(i) PROVE Holds(i + 1)
  <2> DEFINE p == 2^(level - 2 - i)
             n == NodeAt(leaf, i)
  <2>1. p \in Nat /\ p > 0 /\ 2^(level - 1 - i) = 2 * p /\ 2^(level - i) = 2 * (2 * p)
    <3>1. level - 2 - i \in 0 .. LEVELMAX /\ level - 1 - i \in 1 .. LEVELMAX
            /\ level - i \in 1 .. LEVELMAX
      BY LevelAssumption
    <3>2. (level - 1 - i) - 1 = level - 2 - i /\ (level - i) - 1 = level - 1 - i
      BY LevelAssumption
    <3> QED BY <3>1, <3>2, Powers
  <2>2. NodeAt(leaf, i + 1) = Parent(n)
    BY <1>1, NodeAtParent, LevelAssumption
  <2>3. n \in 2 * p + 1 .. 2 * (2 * p)
    BY <1>3, <2>1
  <2>4. level - 1 - (i + 1) = level - 2 - i /\ level - (i + 1) = level - 1 - i
    BY LevelAssumption
  <2> HIDE DEF p, n
  <2>5. Parent(n) \in p + 1 .. 2 * p
    BY <2>1, <2>3 DEF Parent
  <2> QED BY <2>1, <2>2, <2>4, <2>5 DEF p
<1> HIDE DEF Holds
<1>4. ASSUME Bad # {} PROVE FALSE
  <2>1. PICK i \in Bad : \A j \in Bad : i <= j
    <3>1. Bad \in SUBSET Nat
      BY LevelAssumption
    <3> HIDE DEF Bad
    <3> QED BY <1>4, <3>1, LeastElement
  <2>2. i # 0
    BY <1>2
  <2>3. i - 1 \in 0 .. level - 2 /\ i - 1 \notin Bad /\ (i - 1) + 1 = i
    BY <2>1, <2>2, LevelAssumption
  <2>4. Holds(i - 1)
    BY <2>3, LevelAssumption
  <2> QED BY <1>3, <2>1, <2>3, <2>4
<1>5. Holds(h)
  BY <1>4
<1> QED BY <1>5 DEF Holds

LEMMA PowerMonotone ==
  ASSUME NEW m \in 0 .. LEVELMAX, NEW n \in m .. LEVELMAX
  PROVE  2^m <= 2^n
<1> DEFINE Bad == {i \in m .. LEVELMAX : ~(2^m <= 2^i)}
<1>1. \A i \in 0 .. LEVELMAX : 2^i \in Nat
  BY Powers
<1>2. ASSUME NEW i \in m + 1 .. LEVELMAX PROVE 2^(i - 1) <= 2^i
  <2>1. i \in 1 .. LEVELMAX /\ i - 1 \in 0 .. LEVELMAX
    BY LevelAssumption
  <2> QED BY <2>1, Powers
<1>3. ASSUME Bad # {} PROVE FALSE
  <2>1. PICK i \in Bad : \A j \in Bad : i <= j
    <3>1. Bad \in SUBSET Nat
      BY LevelAssumption
    <3> HIDE DEF Bad
    <3> QED BY <1>3, <3>1, LeastElement
  <2>2. i # m
    BY <1>1
  <2>3. i \in m + 1 .. LEVELMAX /\ i - 1 \in m .. LEVELMAX /\ i - 1 \notin Bad
    BY <2>1, <2>2, LevelAssumption
  <2>4. 2^m <= 2^(i - 1) /\ 2^(i - 1) <= 2^i /\ ~(2^m <= 2^i)
    BY <1>2, <2>3
  <2>5. 2^m \in Nat /\ 2^(i - 1) \in Nat /\ 2^i \in Nat
    BY <1>1, <2>3, LevelAssumption
  <2> QED BY <2>4, <2>5
<1> QED BY <1>3

(* Every node of a path is a node of the tree, and the last is the root. *)
LEMMA PathInTree ==
  ASSUME NEW level \in Levels, NEW leaf \in Leaves(level), NEW h \in 0 .. level - 1
  PROVE  /\ NodeAt(leaf, h) \in 2 .. 2^level
         /\ Offset(NodeAt(leaf, h)) \in FileOffsets(level)
         /\ h = level - 1 => NodeAt(leaf, h) = 2
<1>1. level \in 1 .. LEVELMAX /\ level - 1 - h \in 0 .. LEVELMAX
        /\ level - h \in 1 .. level /\ level \in level - h .. LEVELMAX
  BY LevelAssumption DEF Levels
<1> DEFINE n == NodeAt(leaf, h)
           a == 2^(level - 1 - h)
           b == 2^(level - h)
           c == 2^level
<1>2. a \in Nat /\ a > 0 /\ b \in Nat /\ c \in Nat
  BY <1>1, Powers, LevelAssumption
<1>3. b <= c
  BY <1>1, PowerMonotone, LevelAssumption
<1>4. n \in a + 1 .. b
  BY <1>1, PathRange
<1>5. h = level - 1 => b = 2
  <2>1. h = level - 1 => level - h = 1
    BY <1>1
  <2> QED BY <2>1, Powers
<1> HIDE DEF n, a, b, c
<1>6. n \in 2 .. c /\ (h = level - 1 => n = 2)
  BY <1>2, <1>3, <1>4, <1>5
<1>7. n - 2 \in 0 .. c - 2
  BY <1>2, <1>6
<1> QED BY <1>6, <1>7 DEF n, c, Offset, FileOffsets

(* The tree fits in the file, and grows by exactly the new level's blocks. *)
LEMMA FileGrows ==
  ASSUME NEW level \in Levels
  PROVE  /\ FileOffsets(level) \subseteq FileOffsets(LEVELMAX)
         /\ level < LEVELMAX =>
              FileOffsets(level + 1) = FileOffsets(level) \cup (2^level - 1 .. 2^(level + 1) - 2)
<1>1. level \in 0 .. LEVELMAX /\ LEVELMAX \in level .. LEVELMAX /\ LEVELMAX \in 0 .. LEVELMAX
  BY LevelAssumption DEF Levels
<1>2. 2^level <= 2^LEVELMAX /\ 2^level \in Nat /\ 2^LEVELMAX \in Nat /\ 2^level > 0
        /\ 2^(level + 1) = 2 * 2^level
  BY <1>1, PowerMonotone, Powers
<1> QED BY <1>2 DEF FileOffsets

(* resize moves a leaf of the old tree to a leaf of the new one below it. *)
LEMMA AdjustedFlag ==
  ASSUME NEW level \in Levels, level < LEVELMAX, NEW leaf \in Leaves(level), NEW bit \in 0 .. 1
  PROVE  /\ AdjustEntryFlag(leaf, level + 1, bit) \in Leaves(level + 1)
         /\ Parent(AdjustEntryFlag(leaf, level + 1, bit)) = leaf
<1> DEFINE p == 2^(level - 1)
<1>1. level \in 1 .. LEVELMAX /\ level - 1 \in 0 .. LEVELMAX /\ (level + 1) - 1 = level
  BY LevelAssumption DEF Levels
<1>2. p \in Nat /\ p > 0 /\ 2^level = 2 * p /\ 2^(level + 1) = 2 * (2 * p)
  BY <1>1, Powers
<1>3. leaf \in p + 1 .. 2 * p
  BY <1>2 DEF Leaves
<1>4. AdjustEntryFlag(leaf, level + 1, bit) = 2 * leaf - bit
  BY <1>1, <1>2, <1>3 DEF AdjustEntryFlag
<1> HIDE DEF p
<1>5. 2 * leaf - bit \in 2 * p + 1 .. 2 * (2 * p)
  BY <1>2, <1>3
<1>6. Parent(2 * leaf - bit) = leaf
  <2>1. CASE bit = 0
    BY <1>2, <1>3, <2>1 DEF Parent
  <2>2. CASE bit = 1
    BY <1>2, <1>3, <2>2 DEF Parent
  <2> QED BY <2>1, <2>2
<1> QED BY <1>1, <1>2, <1>4, <1>5, <1>6 DEF Leaves

-----------------------------------------------------------------------------
(* How far up a path is tells its nodes apart. *)
LEMMA PathInjective ==
  ASSUME NEW level \in 1 .. LEVELMAX, NEW leaf \in Leaves(level), NEW other \in Leaves(level),
         NEW g \in 0 .. level - 1, NEW h \in 0 .. level - 1,
         NodeAt(leaf, g) = NodeAt(other, h)
  PROVE  g = h
<1>1. ASSUME NEW a \in Leaves(level), NEW b \in Leaves(level),
             NEW i \in 0 .. level - 1, NEW j \in 0 .. level - 1, i < j
      PROVE  NodeAt(b, j) < NodeAt(a, i)
  <2> DEFINE m == 2^(level - j)
             n == 2^(level - 1 - i)
             x == NodeAt(a, i)
             y == NodeAt(b, j)
             l == 2^(level - 1 - j)
             r == 2^(level - i)
  <2>1. /\ level - j \in 0 .. LEVELMAX /\ level - 1 - i \in level - j .. LEVELMAX
        /\ level - 1 - i \in 0 .. LEVELMAX /\ level - 1 - j \in 0 .. LEVELMAX
        /\ level - i \in 0 .. LEVELMAX
    BY <1>1, LevelAssumption
  <2>2. m <= n
    BY <2>1, PowerMonotone
  <2>3. m \in Nat /\ n \in Nat /\ l \in Nat /\ r \in Nat
    BY <2>1, Powers
  <2>4. x \in n + 1 .. r /\ y \in l + 1 .. m
    BY PathRange
  <2> HIDE DEF m, n, x, y, l, r
  <2>5. y < x
    BY <2>2, <2>3, <2>4
  <2> QED BY <2>5 DEF x, y
<1>2. CASE g < h
  <2>1. NodeAt(other, h) < NodeAt(leaf, g)
    BY <1>1, <1>2
  <2>2. NodeAt(leaf, g) \in Int
    <3>1. level - 1 - g \in 0 .. LEVELMAX /\ level - g \in 0 .. LEVELMAX
      BY LevelAssumption
    <3> QED BY <3>1, PathRange, Powers
  <2> QED BY <2>1, <2>2
<1>3. CASE h < g
  <2>1. NodeAt(leaf, g) < NodeAt(other, h)
    BY <1>1, <1>3
  <2>2. NodeAt(leaf, g) \in Int
    <3>1. level - 1 - g \in 0 .. LEVELMAX /\ level - g \in 0 .. LEVELMAX
      BY LevelAssumption
    <3> QED BY <3>1, PathRange, Powers
  <2> QED BY <2>1, <2>2
<1> QED BY <1>2, <1>3

(* The eviction test takes a block exactly if it is on the path of the leaf. *)
LEMMA CoversItsPath ==
  ASSUME NEW level \in Levels, NEW leaf \in Leaves(level), NEW other \in Leaves(level),
         NEW h \in 0 .. level - 1
  PROVE  Covers(NodeAt(leaf, h), h, other) <=> NodeAt(other, h) = NodeAt(leaf, h)
<1> DEFINE p == 2^h
           n == NodeAt(leaf, h)
           x == other - 1
           q == x \div p
<1>1. h \in 0 .. LEVELMAX /\ p \in Nat /\ p > 0
  BY Powers, LevelAssumption DEF Levels
<1>2. n \in Nat /\ n > 0
  BY PathInTree
<1>3. x \in Nat /\ other = x + 1
  <2>1. level - 1 \in 0 .. LEVELMAX
    BY LevelAssumption DEF Levels
  <2> QED BY <2>1, Powers DEF Leaves
<1>4. NodeAt(other, h) = q + 1
  BY DEF NodeAt
<1>5. Covers(n, h, other) <=> other >= (n - 1) * p + 1 /\ other <= n * p
  BY DEF Covers
<1> HIDE DEF p, n, x
<1>6. q \in Nat /\ q * p <= x /\ x < (q + 1) * p
  BY <1>1, <1>3
<1>7. ASSUME q + 1 = n PROVE other >= (n - 1) * p + 1 /\ other <= n * p
  <2>1. n - 1 = q
    BY <1>2, <1>6, <1>7
  <2>2. (n - 1) * p = q * p /\ n * p = (q + 1) * p /\ q * p \in Nat /\ (q + 1) * p \in Nat
    BY <1>1, <1>6, <1>7, <2>1
  <2> QED BY <1>3, <1>6, <2>2
<1>8. ASSUME other >= (n - 1) * p + 1, other <= n * p PROVE q + 1 = n
  <2> DEFINE k == n - 1
  <2>1. k \in Nat /\ n = k + 1
    BY <1>2
  <2> HIDE DEF k
  <2>2. k * p <= x /\ x < (k + 1) * p
    <3>1. (n - 1) * p = k * p /\ n * p = (k + 1) * p /\ k * p \in Nat /\ (k + 1) * p \in Nat
      BY <1>1, <2>1
    <3> QED BY <1>3, <1>8, <3>1
  <2>3. x \div p = k
    BY <1>1, <1>3, <2>1, <2>2
  <2> QED BY <2>1, <2>3
<1> QED BY <1>4, <1>5, <1>7, <1>8 DEF n

(* What resize does to a leaf keeps every node of its path, one step higher. *)
LEMMA AdjustedPath ==
  ASSUME NEW level \in Levels, level < LEVELMAX, NEW leaf \in Leaves(level),
         NEW bit \in 0 .. 1, NEW h \in 0 .. level - 1
  PROVE  NodeAt(AdjustEntryFlag(leaf, level + 1, bit), h + 1) = NodeAt(leaf, h)
<1> DEFINE p == 2^h
           y == leaf - 1
           q == y \div p
           a == AdjustEntryFlag(leaf, level + 1, bit)
           x == a - 1
<1>1. h \in 0 .. LEVELMAX /\ p \in Nat /\ p > 0 /\ 2^(h + 1) = 2 * p
  BY Powers, LevelAssumption DEF Levels
<1>2. y \in Nat /\ leaf = y + 1
  <2>1. level - 1 \in 0 .. LEVELMAX
    BY LevelAssumption DEF Levels
  <2> QED BY <2>1, Powers DEF Leaves
<1>3. x = 2 * y + 1 - bit
  <2>1. (level + 1) - 1 = level
    BY LevelAssumption DEF Levels
  <2>2. leaf <= 2^level
    BY DEF Leaves
  <2>3. a = 2 * leaf - bit
    BY <2>1, <2>2 DEF AdjustEntryFlag
  <2> QED BY <1>2, <2>3
<1>4. NodeAt(leaf, h) = q + 1 /\ NodeAt(a, h + 1) = x \div (2 * p) + 1
  BY <1>1 DEF NodeAt
<1> HIDE DEF p, y, a, x
<1>5. q \in Nat /\ q * p <= y /\ y + 1 <= (q + 1) * p
  BY <1>1, <1>2
<1>6. x \in Nat /\ 2 * y <= x /\ x < 2 * (y + 1)
  BY <1>2, <1>3
<1> HIDE DEF q
<1> DEFINE d == 2 * p
<1>7. d \in Nat /\ d > 0
  BY <1>1
<1>8. q * d <= x /\ x < (q + 1) * d
  <2>1. q * d = 2 * (q * p) /\ (q + 1) * d = 2 * ((q + 1) * p)
          /\ q * p \in Nat /\ (q + 1) * p \in Nat
    BY <1>1, <1>5
  <2> HIDE DEF d
  <2> QED BY <1>2, <1>5, <1>6, <2>1
<1>9. x \div d = q
  <2> HIDE DEF d
  <2> QED BY <1>5, <1>6, <1>7, <1>8
<1> QED BY <1>4, <1>9 DEF a

-----------------------------------------------------------------------------
(* The store.                                                              *)

Running == pc \in {"loop", "read", "evict"}

(* A call in progress has a key; the walk up a path is inside the tree, and *)
(* it is the path of a group of that key, or of the entry just added.       *)
WalkInTree ==
  /\ Running => /\ op \in Op /\ group \in Nat \ {0}
                /\ success => op.type = "write"
  /\ pc = "read" => /\ height \in 0 .. tree_level
                    /\ success \/ group \in 1 .. Len(bitmap[op.key])

(* The inductive invariant behind TypeOK, FlagsAreLeaves and FreshTree.     *)
TreeInv == TypeOK /\ FlagsAreLeaves /\ FreshTree /\ WalkInTree

-----------------------------------------------------------------------------
LEMMA LevelBounds ==
  /\ 2 \in Levels /\ LEVELMAX \in Levels
  /\ \A level \in Levels : level \in Nat /\ level >= 2 /\ level <= LEVELMAX
  /\ \A level \in Levels : level < LEVELMAX => level + 1 \in Levels
BY LevelAssumption DEF Levels

LEMMA LeavesAreInt == \A level \in Levels : Leaves(level) \subseteq Int
<1> SUFFICES ASSUME NEW level \in Levels PROVE Leaves(level) \subseteq Int
  OBVIOUS
<1> QED BY LevelBounds DEF Leaves

(* The path of a leaf of the tree is in the file.                           *)
LEMMA PathInFile ==
  ASSUME tree_level \in Levels,
         NEW leaf \in Leaves(tree_level), NEW h \in 0 .. tree_level - 1
  PROVE  /\ Offset(NodeAt(leaf, h)) \in FileOffsets(tree_level)
         /\ Offset(NodeAt(leaf, h)) \in Offsets
<1>1. Offset(NodeAt(leaf, h)) \in FileOffsets(tree_level)
  BY PathInTree
<1> QED BY <1>1, FileGrows DEF Offsets

(* What an action leaves alone keeps its type.                              *)
LEMMA UnchangedTypes ==
  /\ UNCHANGED treeVars /\ TreeTypes => TreeTypes'
  /\ UNCHANGED stashVars /\ StashTypes => StashTypes'
  /\ UNCHANGED fileVars /\ FileTypes => FileTypes'
  /\ UNCHANGED callVars /\ CallTypes => CallTypes'
  /\ UNCHANGED pathVars /\ PathTypes => PathTypes'
  /\ UNCHANGED evictVars /\ EvictTypes => EvictTypes'
<1>1. UNCHANGED treeVars /\ TreeTypes => TreeTypes'
  BY DEF treeVars, TreeTypes
<1>2. UNCHANGED stashVars /\ StashTypes => StashTypes'
  BY DEF stashVars, StashTypes
<1>3. UNCHANGED fileVars /\ FileTypes => FileTypes'
  BY DEF fileVars, FileTypes
<1>4. UNCHANGED callVars /\ CallTypes => CallTypes'
  BY DEF callVars, CallTypes
<1>5. UNCHANGED pathVars /\ PathTypes => PathTypes'
  BY DEF pathVars, PathTypes
<1>6. UNCHANGED evictVars /\ EvictTypes => EvictTypes'
  BY DEF evictVars, EvictTypes
<1> QED BY <1>1, <1>2, <1>3, <1>4, <1>5, <1>6

(* The values that Init gives, and Restart gives again. *)
LEMMA NothingYet ==
  /\ \A S : <<>> \in Seq(S)
  /\ [k \in Keys |-> <<>>] \in [Keys -> Seq(Int)]
  /\ [o \in Offsets |-> {}] \in [Offsets -> SUBSET Entry]
  /\ [h \in Heights |-> {}] \in [Heights -> SUBSET Entry]
<1>1. \A S : <<>> \in Seq(S)
  BY EmptySeq
<1> QED BY <1>1

LEMMA InitTreeInv == Init => TreeInv
<1> SUFFICES ASSUME Init PROVE TreeInv
  OBVIOUS
<1>1. TreeTypes
  BY NothingYet, LevelBounds DEF Init, TreeTypes
<1>2. StashTypes /\ FileTypes /\ PathTypes /\ EvictTypes
  BY NothingYet DEF Init, StashTypes, FileTypes, PathTypes, EvictTypes
<1>3. CallTypes
  BY NothingYet DEF Init, CallTypes
<1>4. FlagsAreLeaves /\ FreshTree /\ WalkInTree
  BY DEF Init, FlagsAreLeaves, FreshTree, WalkInTree, Running
<1>5. pc = "created"
  BY DEF Init
<1> QED BY <1>1, <1>2, <1>3, <1>4, <1>5 DEF TreeInv, TypeOK

LEMMA RestartTreeInv == ASSUME Restart PROVE TreeInv'
<1>1. TreeTypes'
  BY NothingYet, LevelBounds DEF Restart, TreeTypes
<1>2. StashTypes' /\ FileTypes' /\ PathTypes' /\ EvictTypes'
  BY NothingYet DEF Restart, StashTypes, FileTypes, PathTypes, EvictTypes
<1>3. CallTypes'
  BY NothingYet DEF Restart, CallTypes
<1>4. FlagsAreLeaves' /\ FreshTree' /\ WalkInTree'
  BY DEF Restart, FlagsAreLeaves, FreshTree, WalkInTree, Running
<1>5. pc' = "created"
  BY DEF Restart
<1> QED BY <1>1, <1>2, <1>3, <1>4, <1>5 DEF TreeInv, TypeOK

LEMMA OramInitTreeInv == ASSUME TreeInv, OramInit PROVE TreeInv'
<1>1. TreeTypes' /\ StashTypes' /\ CallTypes' /\ PathTypes' /\ EvictTypes'
  BY UnchangedTypes DEF OramInit, TreeInv, TypeOK
<1>2. FileTypes'
  <2>1. data' \in [Offsets -> SUBSET Entry]
    BY DEF OramInit, NullBlocks, TreeInv, TypeOK, FileTypes
  <2>2. fresh' \in SUBSET Offsets
    BY FileGrows DEF OramInit, TreeInv, TypeOK, TreeTypes, Offsets
  <2> QED BY <2>1, <2>2 DEF FileTypes
<1>3. pc' = "idle" /\ UNCHANGED treeVars
  BY DEF OramInit
<1>4. FlagsAreLeaves' /\ FreshTree' /\ WalkInTree'
  BY <1>3 DEF OramInit, treeVars, TreeInv, FlagsAreLeaves, FreshTree, WalkInTree, Running
<1> QED BY <1>1, <1>2, <1>3, <1>4 DEF TreeInv, TypeOK

-----------------------------------------------------------------------------
(* A group's leaf is appended or replaced. *)
LEMMA AppendedFlag ==
  ASSUME TreeTypes, FlagsAreLeaves, NEW k \in Keys, NEW f \in Leaves(tree_level),
         bitmap' = [bitmap EXCEPT ![k] = Append(@, f)], tree_level' = tree_level
  PROVE  /\ bitmap' \in [Keys -> Seq(Int)]
         /\ \A j \in Keys : \A i \in DOMAIN bitmap'[j] : bitmap'[j][i] \in Leaves(tree_level')
         /\ Len(bitmap'[k]) = Len(bitmap[k]) + 1
<1>1. f \in Int /\ bitmap[k] \in Seq(Int)
  BY LeavesAreInt DEF TreeTypes
<1>2. /\ Append(bitmap[k], f) \in Seq(Int)
      /\ Len(Append(bitmap[k], f)) = Len(bitmap[k]) + 1
      /\ \A i \in 1 .. Len(bitmap[k]) : Append(bitmap[k], f)[i] = bitmap[k][i]
      /\ Append(bitmap[k], f)[Len(bitmap[k]) + 1] = f
  BY <1>1, AppendProperties
<1>3. bitmap' \in [Keys -> Seq(Int)] /\ bitmap'[k] = Append(bitmap[k], f)
        /\ \A j \in Keys \ {k} : bitmap'[j] = bitmap[j]
  BY <1>2 DEF TreeTypes
<1>4. ASSUME NEW i \in DOMAIN bitmap'[k] PROVE bitmap'[k][i] \in Leaves(tree_level)
  <2>1. i \in 1 .. Len(bitmap[k]) + 1 /\ DOMAIN bitmap[k] = 1 .. Len(bitmap[k])
           /\ Len(bitmap[k]) \in Nat
    BY <1>1, <1>2, <1>3, <1>4, LenProperties
  <2>2. CASE i = Len(bitmap[k]) + 1
    BY <1>2, <1>3, <2>2
  <2>3. CASE i \in 1 .. Len(bitmap[k])
    BY <1>2, <1>3, <2>1, <2>3 DEF FlagsAreLeaves
  <2> QED BY <2>1, <2>2, <2>3
<1> QED BY <1>2, <1>3, <1>4 DEF FlagsAreLeaves

LEMMA RemappedFlag ==
  ASSUME TreeTypes, FlagsAreLeaves, op \in Op, group \in 1 .. Len(bitmap[op.key]),
         Remap, tree_level' = tree_level
  PROVE  /\ bitmap' \in [Keys -> Seq(Int)]
         /\ \A j \in Keys : \A i \in DOMAIN bitmap'[j] : bitmap'[j][i] \in Leaves(tree_level')
<1>1. PICK f \in Leaves(tree_level) : bitmap' = [bitmap EXCEPT ![op.key][group] = f]
  BY DEF Remap
<1> DEFINE k == op.key
           s == [bitmap[k] EXCEPT ![group] = f]
<1>2. k \in Keys
  BY DEF Op
<1>3. f \in Int /\ bitmap[k] \in Seq(Int)
  BY <1>2, LeavesAreInt DEF TreeTypes
<1>4. /\ s \in Seq(Int) /\ Len(s) = Len(bitmap[k])
      /\ \A i \in 1 .. Len(bitmap[k]) : s[i] = IF i = group THEN f ELSE bitmap[k][i]
  BY <1>3, ExceptSeq
<1>5. bitmap' = [bitmap EXCEPT ![k] = s]
  BY <1>1
<1> HIDE DEF k, s
<1>6. bitmap' \in [Keys -> Seq(Int)] /\ bitmap'[k] = s
        /\ \A j \in Keys \ {k} : bitmap'[j] = bitmap[j]
  BY <1>2, <1>4, <1>5 DEF TreeTypes
<1>7. DOMAIN s = 1 .. Len(bitmap[k]) /\ DOMAIN bitmap[k] = 1 .. Len(bitmap[k])
  BY <1>3, <1>4, LenProperties
<1>8. \A i \in DOMAIN s : s[i] \in Leaves(tree_level)
  BY <1>2, <1>4, <1>7 DEF FlagsAreLeaves
<1> QED BY <1>2, <1>6, <1>8 DEF FlagsAreLeaves

-----------------------------------------------------------------------------
(* The calls.                                                               *)

LEMMA CallTreeInv ==
  ASSUME TreeInv, NEW c \in Op, Call(c)
  PROVE  TreeInv'
<1>1. TreeTypes' /\ StashTypes' /\ FileTypes' /\ PathTypes' /\ EvictTypes'
  BY UnchangedTypes DEF Call, TreeInv, TypeOK
<1>2. CallTypes'
  BY NothingYet DEF Call, CallTypes
<1>3. pc' = "loop" /\ op' = c /\ group' = 1 /\ UNCHANGED <<treeVars, fileVars>>
  BY DEF Call
<1>4. FlagsAreLeaves' /\ FreshTree' /\ WalkInTree'
  BY <1>3 DEF Call, treeVars, fileVars, TreeInv, FlagsAreLeaves, FreshTree, WalkInTree, Running
<1> QED BY <1>1, <1>2, <1>3, <1>4 DEF TreeInv, TypeOK

LEMMA ReadWriteTreeInv ==
  ASSUME TreeInv, NEW k \in Keys
  PROVE  /\ ReadVal(k) => TreeInv'
         /\ \A v \in Vals : WriteVal(k, v) => TreeInv'
<1>1. [type |-> "read", key |-> k] \in Op
  BY DEF Op
<1>2. \A v \in Vals : [type |-> "write", key |-> k, val |-> v] \in Op
  BY DEF Op
<1> QED BY <1>1, <1>2, CallTreeInv DEF ReadVal, WriteVal

LEMMA JustAddBitmapTreeInv ==
  ASSUME TreeInv, NEW k \in Keys, JustAddBitmap(k)
  PROVE  TreeInv'
<1>1. StashTypes' /\ FileTypes' /\ CallTypes' /\ PathTypes' /\ EvictTypes'
  BY UnchangedTypes DEF JustAddBitmap, TreeInv, TypeOK
<1>2. pc' = "idle" /\ pc = "idle" /\ UNCHANGED <<tree_level, pair_number, fileVars>>
  BY DEF JustAddBitmap
<1>3. PICK f \in Leaves(tree_level) : bitmap' = [bitmap EXCEPT ![k] = Append(@, f)]
  BY DEF JustAddBitmap
<1>4. /\ bitmap' \in [Keys -> Seq(Int)]
      /\ \A j \in Keys : \A i \in DOMAIN bitmap'[j] : bitmap'[j][i] \in Leaves(tree_level')
  BY <1>2, <1>3, AppendedFlag DEF TreeInv, TypeOK
<1>5. TreeTypes'
  BY <1>2, <1>4 DEF TreeInv, TypeOK, TreeTypes
<1>6. FlagsAreLeaves' /\ FreshTree' /\ WalkInTree'
  BY <1>2, <1>4 DEF fileVars, TreeInv, FlagsAreLeaves, FreshTree, WalkInTree, Running
<1> QED BY <1>1, <1>2, <1>5, <1>6 DEF TreeInv, TypeOK

LEMMA EndCallTypes ==
  ASSUME NEW answer \in Seq(Vals), EndCall(answer)
  PROVE  CallTypes' /\ pc' = "idle"
BY NothingYet DEF EndCall, CallTypes

LEMMA ReturnTreeInv == ASSUME TreeInv, ReturnRead \/ ReturnWrite PROVE TreeInv'
<1>1. TreeTypes' /\ StashTypes' /\ FileTypes' /\ PathTypes' /\ EvictTypes'
  BY UnchangedTypes DEF ReturnRead, ReturnWrite, TreeInv, TypeOK
<1>2. CallTypes' /\ pc' = "idle"
  BY NothingYet, EndCallTypes DEF ReturnRead, ReturnWrite, TreeInv, TypeOK, CallTypes
<1>3. pc # "created" /\ UNCHANGED <<treeVars, fileVars>>
  BY DEF ReturnRead, ReturnWrite
<1>4. FlagsAreLeaves' /\ FreshTree' /\ WalkInTree'
  BY <1>2, <1>3 DEF treeVars, fileVars, TreeInv, FlagsAreLeaves, FreshTree, WalkInTree, Running
<1> QED BY <1>1, <1>2, <1>4 DEF TreeInv, TypeOK

LEMMA StartAccessTreeInv == ASSUME TreeInv, StartAccess PROVE TreeInv'
<1>1. TreeTypes' /\ StashTypes' /\ FileTypes' /\ CallTypes' /\ EvictTypes'
  BY UnchangedTypes DEF StartAccess, TreeInv, TypeOK
<1>2. /\ pc = "loop" /\ pc' = "read" /\ flag' = bitmap[op.key][group] /\ height' = 0
      /\ record' = {} /\ group <= Len(bitmap[op.key])
      /\ UNCHANGED <<treeVars, fileVars, op, group, success>>
  BY DEF StartAccess, ReadPath, MoreGroups, callVars
<1>3. op.key \in Keys /\ op \in Op /\ group \in Nat \ {0} /\ bitmap[op.key] \in Seq(Int)
  BY <1>2 DEF TreeInv, TypeOK, TreeTypes, WalkInTree, Running, Op
<1>4. group \in 1 .. Len(bitmap[op.key]) /\ group \in DOMAIN bitmap[op.key]
  BY <1>2, <1>3, LenProperties
<1>5. flag' \in Leaves(tree_level)
  BY <1>2, <1>3, <1>4 DEF TreeInv, FlagsAreLeaves
<1>6. PathTypes'
  BY <1>2, <1>5, LeavesAreInt DEF TreeInv, TypeOK, TreeTypes, PathTypes
<1>7. 0 \in 0 .. tree_level
  BY LevelBounds DEF TreeInv, TypeOK, TreeTypes
<1>8. FlagsAreLeaves' /\ FreshTree' /\ WalkInTree'
  BY <1>2, <1>3, <1>4, <1>5, <1>7
     DEF treeVars, fileVars, TreeInv, FlagsAreLeaves, FreshTree, WalkInTree, Running
<1> QED BY <1>1, <1>2, <1>6, <1>8 DEF TreeInv, TypeOK

LEMMA AddEntryTreeInv == ASSUME TreeInv, AddEntry PROVE TreeInv'
<1>1. FileTypes' /\ EvictTypes' /\ UNCHANGED <<tree_level, fileVars>>
  BY UnchangedTypes DEF AddEntry, TreeInv, TypeOK
<1>2. pc = "loop" /\ op \in Op /\ op.type = "write"
  BY DEF AddEntry, TreeInv, WalkInTree, Running
<1>3. op.key \in Keys /\ op.val \in Vals
  BY <1>2 DEF Op
<1>4. PICK f \in Leaves(tree_level) :
        /\ bitmap' = [bitmap EXCEPT ![op.key] = Append(@, f)]
        /\ IF StashFull
           THEN /\ EndCall(<<>>)
                /\ UNCHANGED <<pair_number, stashVars, pathVars>>
           ELSE /\ PutInStash(NewEntry(op.key, NewGroup(op.key), op.val))
                /\ ReadPath(f)
                /\ UNCHANGED <<op, group, ret_val, reply>>
  BY DEF AddEntry
<1>5. /\ bitmap' \in [Keys -> Seq(Int)]
      /\ \A j \in Keys : \A i \in DOMAIN bitmap'[j] : bitmap'[j][i] \in Leaves(tree_level')
  BY <1>1, <1>3, <1>4, AppendedFlag DEF TreeInv, TypeOK
<1>6. FreshTree' /\ tree_level \in Levels
  <2>1. pc' \in {"idle", "read"}
    BY <1>4 DEF EndCall, ReadPath
  <2> QED BY <1>1, <1>2, <2>1 DEF fileVars, TreeInv, FreshTree, TypeOK, TreeTypes
<1>7. CASE StashFull
  <2>1. CallTypes' /\ pc' = "idle" /\ UNCHANGED <<pair_number, stashVars, pathVars>>
    BY <1>4, <1>7, NothingYet, EndCallTypes
  <2>2. TreeTypes' /\ StashTypes' /\ PathTypes'
    BY <1>1, <1>5, <2>1, UnchangedTypes DEF TreeInv, TypeOK, TreeTypes
  <2>3. FlagsAreLeaves' /\ WalkInTree'
    BY <1>5, <2>1 DEF FlagsAreLeaves, WalkInTree, Running
  <2> QED BY <1>1, <1>6, <2>1, <2>2, <2>3 DEF TreeInv, TypeOK
<1>8. CASE ~StashFull
  <2> DEFINE e == NewEntry(op.key, NewGroup(op.key), op.val)
  <2>1. PutInStash(e) /\ ReadPath(f) /\ UNCHANGED <<op, group, ret_val, reply>>
    BY <1>4, <1>8
  <2>2. e \in Entry
    <3>1. Len(bitmap[op.key]) \in Nat
      BY <1>3, LenProperties DEF TreeInv, TypeOK, TreeTypes
    <3>2. <<op.val>> \in Seq(Vals)
      BY <1>3
    <3> QED BY <1>3, <3>1, <3>2 DEF NewEntry, NewGroup, Entry
  <2> HIDE DEF e
  <2>3. StashTypes'
    BY <2>1, <2>2 DEF PutInStash, TreeInv, TypeOK, StashTypes
  <2>4. TreeTypes'
    BY <1>1, <1>5, <2>1 DEF PutInStash, TreeInv, TypeOK, TreeTypes
  <2>5. CallTypes' /\ success'
    BY <2>1 DEF PutInStash, TreeInv, TypeOK, CallTypes
  <2>6. PathTypes' /\ pc' = "read" /\ flag' = f /\ height' = 0
    BY <1>6, <2>1, LeavesAreInt DEF ReadPath, PathTypes
  <2>7. FlagsAreLeaves' /\ WalkInTree'
    BY <1>1, <1>2, <1>5, <1>6, <2>1, <2>5, <2>6, LevelBounds
       DEF FlagsAreLeaves, TreeInv, WalkInTree, Running
  <2> QED BY <1>1, <1>6, <2>3, <2>4, <2>5, <2>6, <2>7 DEF TreeInv, TypeOK
<1> QED BY <1>7, <1>8

-----------------------------------------------------------------------------
(* read_entries_on_path.                                                    *)

(* The walk has read every block of the path when it reaches the root.      *)
LEMMA WalkStops ==
  ASSUME TreeInv, pc = "read", ~PathRead
  PROVE  height \in 0 .. tree_level - 1
<1>1. tree_level \in Levels /\ height \in 0 .. tree_level /\ flag \in Leaves(tree_level)
  BY DEF TreeInv, TypeOK, TreeTypes, WalkInTree, FlagsAreLeaves
<1>2. ASSUME height = tree_level PROVE FALSE
  <2>1. tree_level - 1 \in 0 .. tree_level - 1 /\ height > 0
    BY <1>1, <1>2, LevelBounds
  <2>2. NodeAt(flag, tree_level - 1) = 2
    BY <1>1, <2>1, PathInTree
  <2> QED BY <1>2, <2>1, <2>2 DEF PathRead
<1> QED BY <1>1, <1>2, LevelBounds

LEMMA ReadBlockTreeInv == ASSUME TreeInv, ReadBlock PROVE TreeInv'
<1>1. TreeTypes' /\ StashTypes' /\ FileTypes' /\ CallTypes' /\ EvictTypes'
  BY UnchangedTypes DEF ReadBlock, TreeInv, TypeOK
<1>2. pc = "read" /\ ~PathRead /\ height' = height + 1
        /\ UNCHANGED <<treeVars, fileVars, callVars, flag>>
  BY DEF ReadBlock
<1>3. tree_level \in Levels /\ flag \in Leaves(tree_level) /\ height \in 0 .. tree_level - 1
  BY <1>2, WalkStops DEF TreeInv, TypeOK, TreeTypes, FlagsAreLeaves
<1> DEFINE o == Offset(NodeAt(flag, height))
<1>4. o \in fresh
  BY <1>2, <1>3, PathInFile DEF TreeInv, FreshTree
<1>5. o \in Offsets
  BY <1>3, PathInFile
<1> HIDE DEF o
<1>6. pc' = "read" /\ record' = data[o]
  BY <1>2, <1>4 DEF ReadBlock, o
<1>7. PathTypes'
  BY <1>2, <1>5, <1>6 DEF TreeInv, TypeOK, FileTypes, PathTypes
<1>8. height' \in 0 .. tree_level
  BY <1>2, <1>3, LevelBounds
<1>9. FlagsAreLeaves' /\ FreshTree' /\ WalkInTree'
  BY <1>2, <1>6, <1>8
     DEF treeVars, fileVars, callVars, TreeInv, FlagsAreLeaves, FreshTree, WalkInTree, Running
<1> QED BY <1>1, <1>6, <1>7, <1>9 DEF TreeInv, TypeOK

LEMMA LoadEntryTreeInv == ASSUME TreeInv, LoadEntry PROVE TreeInv'
<1>1. TreeTypes' /\ FileTypes' /\ CallTypes' /\ EvictTypes'
  BY UnchangedTypes DEF LoadEntry, TreeInv, TypeOK
<1>2. pc = "read" /\ UNCHANGED <<pc, treeVars, fileVars, callVars, flag, height>>
  BY DEF LoadEntry
<1>3. PICK e \in record : record' = record \ {e} /\ FillSlot(e)
  BY DEF LoadEntry
<1>4. PathTypes' /\ e \in Entry
  BY <1>2, <1>3 DEF TreeInv, TypeOK, PathTypes
<1>5. StashTypes'
  BY <1>3, <1>4 DEF FillSlot, TreeInv, TypeOK, StashTypes
<1>6. FlagsAreLeaves' /\ FreshTree' /\ WalkInTree'
  BY <1>2 DEF treeVars, fileVars, callVars, TreeInv, FlagsAreLeaves, FreshTree, WalkInTree, Running
<1> QED BY <1>1, <1>2, <1>4, <1>5, <1>6 DEF TreeInv, TypeOK

-----------------------------------------------------------------------------
(* The use of the entry, and the start of the write-back.                   *)

LEMMA BeginWriteBackTypes ==
  ASSUME TreeInv, NEW entries \in SUBSET Entry, BeginWriteBack(entries)
  PROVE  /\ StashTypes' /\ FileTypes' /\ PathTypes' /\ EvictTypes'
         /\ pc' \in {"evict", "no_heap"}
         /\ UNCHANGED <<tree_level, pair_number, fileVars, op, group, reply, pathVars>>
<1>1. UNCHANGED <<tree_level, pair_number, stash_num, fileVars, op, group, reply, pathVars>>
  BY DEF BeginWriteBack
<1>2. FileTypes' /\ PathTypes'
  BY <1>1, UnchangedTypes DEF TreeInv, TypeOK
<1>3. StashTypes'
  BY <1>1 DEF BeginWriteBack, TreeInv, TypeOK, StashTypes
<1>4. EvictTypes'
  BY NothingYet DEF BeginWriteBack, EvictTypes
<1>5. pc' \in {"evict", "no_heap"}
  BY DEF BeginWriteBack
<1> QED BY <1>1, <1>2, <1>3, <1>4, <1>5

(* A step from "read" into the write-back keeps the invariant if it keeps   *)
(* the types of what it changes and redraws no leaf outside the tree.       *)
LEMMA BeginWriteBackTreeInv ==
  ASSUME TreeInv, Accessing, NEW entries \in SUBSET Entry, BeginWriteBack(entries),
         CallTypes', success' => op.type = "write", bitmap' \in [Keys -> Seq(Int)],
         \A j \in Keys : \A i \in DOMAIN bitmap'[j] : bitmap'[j][i] \in Leaves(tree_level')
  PROVE  TreeInv'
<1>1. /\ StashTypes' /\ FileTypes' /\ PathTypes' /\ EvictTypes'
      /\ pc' \in {"evict", "no_heap"} /\ pc = "read"
      /\ UNCHANGED <<tree_level, pair_number, fileVars, op, group, reply, pathVars>>
  BY BeginWriteBackTypes DEF Accessing
<1>2. TreeTypes'
  BY <1>1 DEF TreeInv, TypeOK, TreeTypes
<1>3. FlagsAreLeaves'
  BY <1>1 DEF pathVars, TreeInv, FlagsAreLeaves
<1>4. FreshTree'
  BY <1>1 DEF fileVars, TreeInv, FreshTree
<1>5. WalkInTree'
  BY <1>1 DEF TreeInv, WalkInTree, Running
<1>6. pc' \in {"created", "idle", "loop", "read", "evict"} \cup Faults
  BY <1>1 DEF Faults
<1> QED BY <1>1, <1>2, <1>3, <1>4, <1>5, <1>6 DEF TreeInv, TypeOK

LEMMA AccessedGroup ==
  ASSUME TreeInv, Accessing
  PROVE  /\ op \in Op /\ op.key \in Keys
         /\ op.type = "write" => op.val \in Vals
         /\ ~success => group \in 1 .. Len(bitmap[op.key])
         /\ tree_level \in Levels
         /\ Found \subseteq Entry /\ stash \in SUBSET Entry
<1>1. op \in Op /\ (~success => group \in 1 .. Len(bitmap[op.key]))
  BY DEF Accessing, TreeInv, WalkInTree, Running
<1>2. op.key \in Keys /\ (op.type = "write" => op.val \in Vals)
  BY <1>1 DEF Op
<1>3. Found \subseteq Entry /\ stash \in SUBSET Entry /\ tree_level \in Levels
  BY DEF Found, TreeInv, TypeOK, StashTypes, TreeTypes
<1> QED BY <1>1, <1>2, <1>3

LEMMA ReadEntryTreeInv == ASSUME TreeInv, ReadEntry PROVE TreeInv'
<1>1. Accessing /\ op.type = "read" /\ Remap /\ BeginWriteBack(stash) /\ UNCHANGED success
  BY DEF ReadEntry
<1>2. PICK e \in Found : ret_val' = ret_val \o e.vals
  BY DEF ReadEntry
<1>3. CallTypes' /\ UNCHANGED tree_level
  <2>1. e.vals \in Seq(Vals)
    BY <1>1, <1>2, AccessedGroup DEF Entry
  <2>2. ret_val' \in Seq(Vals)
    BY <1>2, <2>1, ConcatProperties DEF TreeInv, TypeOK, CallTypes
  <2>3. UNCHANGED <<op, group, reply, tree_level>>
    BY <1>1 DEF BeginWriteBack
  <2> QED BY <1>1, <2>2, <2>3 DEF TreeInv, TypeOK, CallTypes
<1>4. ~success
  BY <1>1 DEF Accessing, TreeInv, WalkInTree, Running
<1> QED BY <1>1, <1>3, <1>4, AccessedGroup, RemappedFlag, BeginWriteBackTreeInv
           DEF TreeInv, TypeOK

LEMMA AppendValTreeInv == ASSUME TreeInv, AppendVal PROVE TreeInv'
<1>1. Accessing /\ op.type = "write" /\ ~success /\ Remap /\ success' /\ UNCHANGED ret_val
  BY DEF AppendVal
<1>2. PICK e \in Found : BeginWriteBack((stash \ {e}) \cup {WithVal(e)})
  BY DEF AppendVal
<1> DEFINE entries == (stash \ {e}) \cup {WithVal(e)}
<1>3. entries \in SUBSET Entry
  <2>1. e \in Entry /\ op.val \in Vals /\ stash \in SUBSET Entry
    BY <1>1, AccessedGroup
  <2>2. e.vals \in Seq(Vals) /\ Append(e.vals, op.val) \in Seq(Vals)
    BY <2>1, AppendProperties DEF Entry
  <2>3. WithVal(e) \in Entry
    BY <2>1, <2>2 DEF WithVal, Entry
  <2> QED BY <2>1, <2>3
<1> HIDE DEF entries
<1>4. BeginWriteBack(entries)
  BY <1>2 DEF entries
<1>5. CallTypes' /\ UNCHANGED tree_level
  <2>1. UNCHANGED <<op, group, reply, tree_level>>
    BY <1>4 DEF BeginWriteBack
  <2>2. success' \in BOOLEAN
    BY DEF AppendVal
  <2> QED BY <1>1, <2>1, <2>2 DEF TreeInv, TypeOK, CallTypes
<1> QED BY <1>1, <1>3, <1>4, <1>5, AccessedGroup, RemappedFlag, BeginWriteBackTreeInv
           DEF TreeInv, TypeOK

(* The steps that leave the leaf of the entry alone. *)
LEMMA KeepLeafTreeInv == ASSUME TreeInv, SkipFullEntry \/ PlaceNewEntry PROVE TreeInv'
<1>1. /\ Accessing /\ BeginWriteBack(stash)
      /\ UNCHANGED <<bitmap, success, ret_val>>
  BY DEF SkipFullEntry, PlaceNewEntry
<1>2. UNCHANGED <<tree_level, op, group, reply>>
  BY <1>1 DEF BeginWriteBack
<1>3. CallTypes'
  BY <1>1, <1>2 DEF TreeInv, TypeOK, CallTypes
<1>4. /\ bitmap' \in [Keys -> Seq(Int)]
      /\ \A j \in Keys : \A i \in DOMAIN bitmap'[j] : bitmap'[j][i] \in Leaves(tree_level')
  BY <1>1, <1>2 DEF TreeInv, TypeOK, TreeTypes, FlagsAreLeaves
<1>5. success' => op.type = "write"
  BY <1>1 DEF Accessing, TreeInv, WalkInTree, Running
<1> QED BY <1>1, <1>3, <1>4, <1>5, AccessedGroup, BeginWriteBackTreeInv

LEMMA DieTreeInv == ASSUME TreeInv, MissingEntry \/ OverrunReply PROVE TreeInv'
<1>1. /\ pc' \in {"null_entry", "overrun"} /\ pc = "read"
      /\ UNCHANGED <<treeVars, stashVars, fileVars, callVars, pathVars, evictVars>>
  BY DEF MissingEntry, OverrunReply, Accessing, Die
<1>2. /\ TreeTypes' /\ StashTypes' /\ FileTypes' /\ CallTypes' /\ PathTypes' /\ EvictTypes'
      /\ pc' \in Faults
  BY <1>1, UnchangedTypes DEF TreeInv, TypeOK, Faults
<1>3. FlagsAreLeaves' /\ FreshTree' /\ WalkInTree'
  BY <1>1 DEF treeVars, fileVars, TreeInv, FlagsAreLeaves, FreshTree, WalkInTree, Running
<1> QED BY <1>2, <1>3 DEF TreeInv, TypeOK

-----------------------------------------------------------------------------
(* The write-back and resize.                                               *)

LEMMA EvictEntryTreeInv == ASSUME TreeInv, EvictEntry PROVE TreeInv'
<1>1. /\ TreeTypes' /\ FileTypes' /\ CallTypes' /\ PathTypes'
      /\ pc = "evict" /\ UNCHANGED <<pc, treeVars, fileVars, callVars, pathVars>>
  BY UnchangedTypes DEF EvictEntry, TreeInv, TypeOK
<1>2. PICK e \in todo :
        /\ todo' = todo \ {e}
        /\ \/ UNCHANGED <<stashVars, write_back>>
           \/ \E h \in Fits(e) : MoveToBlock(e, h)
  BY DEF EvictEntry
<1>3. e \in Entry /\ todo' \in SUBSET Entry
  BY <1>2 DEF TreeInv, TypeOK, EvictTypes
<1>4. CASE UNCHANGED <<stashVars, write_back>>
  BY <1>3, <1>4, UnchangedTypes, <1>1
     DEF treeVars, fileVars, callVars, pathVars, TreeInv, TypeOK, EvictTypes,
         FlagsAreLeaves, FreshTree, WalkInTree, Running
<1>5. ASSUME NEW h \in Fits(e), MoveToBlock(e, h) PROVE TreeInv'
  <2>1. StashTypes'
    BY <1>5 DEF MoveToBlock, TreeInv, TypeOK, StashTypes
  <2>2. EvictTypes'
    BY <1>3, <1>5 DEF MoveToBlock, TreeInv, TypeOK, EvictTypes
  <2>3. FlagsAreLeaves' /\ FreshTree' /\ WalkInTree'
    BY <1>1 DEF treeVars, fileVars, callVars, pathVars, TreeInv, FlagsAreLeaves,
                FreshTree, WalkInTree, Running
  <2> QED BY <1>1, <2>1, <2>2, <2>3 DEF TreeInv, TypeOK
<1> QED BY <1>2, <1>4, <1>5

LEMMA FlushTypes ==
  ASSUME TreeInv, pc = "evict"
  PROVE  /\ FlushedFile \in [Offsets -> SUBSET Entry]
         /\ PathOffsets \subseteq FileOffsets(tree_level)
         /\ PathOffsets \subseteq Offsets
         /\ tree_level \in Levels /\ fresh \in SUBSET Offsets
         /\ FileOffsets(tree_level) \subseteq fresh
<1>1. tree_level \in Levels /\ flag \in Leaves(tree_level)
        /\ fresh \in SUBSET Offsets /\ FileOffsets(tree_level) \subseteq fresh
  BY DEF TreeInv, TypeOK, TreeTypes, FileTypes, FlagsAreLeaves, FreshTree
<1>2. PathOffsets \subseteq FileOffsets(tree_level) /\ PathOffsets \subseteq Offsets
  BY <1>1, PathInFile DEF PathOffsets
<1>3. ASSUME NEW o \in PathOffsets
      PROVE  write_back[CHOOSE h \in 0 .. tree_level - 1 : o = Offset(NodeAt(flag, h))]
               \in SUBSET Entry
  <2>1. \E h \in 0 .. tree_level - 1 : o = Offset(NodeAt(flag, h))
    BY <1>3 DEF PathOffsets
  <2> DEFINE c == CHOOSE h \in 0 .. tree_level - 1 : o = Offset(NodeAt(flag, h))
  <2>2. c \in 0 .. tree_level - 1
    BY <2>1
  <2> HIDE DEF c
  <2>3. c \in Heights
    BY <1>1, <2>2, LevelBounds, LevelAssumption DEF Heights
  <2>4. write_back[c] \in SUBSET Entry
    BY <2>3 DEF TreeInv, TypeOK, EvictTypes
  <2> QED BY <2>4 DEF c
<1>4. \A o \in Offsets : data[o] \in SUBSET Entry
  BY DEF TreeInv, TypeOK, FileTypes
<1>5. FlushedFile \in [Offsets -> SUBSET Entry]
  BY <1>3, <1>4 DEF FlushedFile
<1> QED BY <1>1, <1>2, <1>5

LEMMA EndAccessTypes ==
  ASSUME TreeInv, EndAccess, UNCHANGED <<op, success, ret_val, reply>>
  PROVE  CallTypes' /\ PathTypes' /\ EvictTypes' /\ group' = group + 1
<1>1. group' = group + 1
  BY DEF EndAccess
<1>2. CallTypes'
  BY <1>1 DEF TreeInv, TypeOK, CallTypes
<1>3. PathTypes' /\ EvictTypes'
  BY NothingYet DEF EndAccess, PathTypes, EvictTypes
<1> QED BY <1>1, <1>2, <1>3

(* The write-back without a resize, or with one that the file cannot hold.  *)
LEMMA FlushTreeInv == ASSUME TreeInv, WriteBack \/ ResizeOverflows PROVE TreeInv'
<1>1. /\ pc = "evict" /\ pc' \in {"loop", "alias"} /\ data' = FlushedFile
      /\ fresh' = fresh \cup PathOffsets /\ EndAccess
      /\ UNCHANGED <<treeVars, stashVars, op, success, ret_val, reply>>
  BY DEF WriteBack, ResizeOverflows
<1>2. TreeTypes' /\ StashTypes' /\ CallTypes' /\ PathTypes' /\ EvictTypes'
        /\ group' = group + 1
  BY <1>1, UnchangedTypes, EndAccessTypes DEF TreeInv, TypeOK
<1>3. FileTypes'
  BY <1>1, FlushTypes DEF FileTypes
<1>4. FlagsAreLeaves' /\ FreshTree' /\ WalkInTree'
  BY <1>1, <1>2, FlushTypes
     DEF treeVars, TreeInv, FlagsAreLeaves, FreshTree, WalkInTree, Running
<1>5. pc' \in {"created", "idle", "loop", "read", "evict"} \cup Faults
  BY <1>1 DEF Faults
<1> QED BY <1>2, <1>3, <1>4, <1>5 DEF TreeInv, TypeOK

LEMMA ResizeTreeInv == ASSUME TreeInv, WriteBackAndResize PROVE TreeInv'
<1>1. /\ pc = "evict" /\ pc' = "loop" /\ tree_level < LEVELMAX /\ tree_level' = tree_level + 1
      /\ data' = NullBlocks(NewBlocks(tree_level + 1), FlushedFile)
      /\ fresh' = fresh \cup PathOffsets \cup NewBlocks(tree_level + 1) /\ EndAccess
      /\ UNCHANGED <<pair_number, stashVars, op, success, ret_val, reply>>
  BY DEF WriteBackAndResize
<1>2. PICK bit \in [FlagIds -> 0 .. 1] :
        bitmap' = [k \in Keys |-> [i \in 1 .. Len(bitmap[k]) |->
                     AdjustEntryFlag(bitmap[k][i], tree_level + 1, bit[<<k, i>>])]]
  BY DEF WriteBackAndResize
<1>3. tree_level \in Levels /\ tree_level' \in Levels
  BY <1>1, LevelBounds DEF TreeInv, TypeOK, TreeTypes
<1>4. StashTypes' /\ CallTypes' /\ PathTypes' /\ EvictTypes' /\ group' = group + 1
  BY <1>1, UnchangedTypes, EndAccessTypes DEF TreeInv, TypeOK
<1>5. /\ NewBlocks(tree_level + 1) \subseteq FileOffsets(tree_level')
      /\ FileOffsets(tree_level') = FileOffsets(tree_level) \cup NewBlocks(tree_level + 1)
      /\ FileOffsets(tree_level') \subseteq Offsets
  <2>1. (tree_level + 1) - 1 = tree_level
    BY <1>3, LevelBounds
  <2>2. NewBlocks(tree_level + 1) = 2^tree_level - 1 .. 2^(tree_level + 1) - 2
    BY <2>1 DEF NewBlocks
  <2> QED BY <1>1, <1>3, <2>2, FileGrows DEF Offsets
<1>6. FileTypes'
  <2>1. data' \in [Offsets -> SUBSET Entry]
    BY <1>1, FlushTypes DEF NullBlocks
  <2>2. fresh' \in SUBSET Offsets
    BY <1>1, <1>5, FlushTypes
  <2> QED BY <2>1, <2>2 DEF FileTypes
<1>7. ASSUME NEW k \in Keys
      PROVE  /\ bitmap'[k] \in Seq(Int)
             /\ \A i \in DOMAIN bitmap'[k] : bitmap'[k][i] \in Leaves(tree_level')
  <2> DEFINE n == Len(bitmap[k])
             s == [i \in 1 .. n |-> AdjustEntryFlag(bitmap[k][i], tree_level + 1, bit[<<k, i>>])]
  <2>1. bitmap'[k] = s
    BY <1>2
  <2>2. bitmap[k] \in Seq(Int)
    BY DEF TreeInv, TypeOK, TreeTypes
  <2>3. n \in Nat /\ DOMAIN bitmap[k] = 1 .. n
    BY <2>2, LenProperties
  <2>4. ASSUME NEW i \in 1 .. n PROVE s[i] \in Leaves(tree_level')
    <3>1. bitmap[k][i] \in Leaves(tree_level)
      BY <2>3 DEF TreeInv, FlagsAreLeaves
    <3>2. <<k, i>> \in FlagIds
      <4>1. <<k, i>> \in {k} \X (1 .. Len(bitmap[k]))
        OBVIOUS
      <4> QED BY <4>1 DEF FlagIds
    <3>3. bit[<<k, i>>] \in 0 .. 1
      BY <3>2
    <3> QED BY <1>1, <1>3, <3>1, <3>3, AdjustedFlag
  <2>5. \A i \in 1 .. n : s[i] \in Int
    BY <1>3, <2>4, LeavesAreInt
  <2>6. s \in Seq(Int) /\ DOMAIN s = 1 .. n
    <3>1. s \in [1 .. n -> Int]
      BY <2>5
    <3> QED BY <2>3, <3>1, SeqDef
  <2> QED BY <2>1, <2>4, <2>6
<1>8. TreeTypes'
  <2>1. bitmap' \in [Keys -> Seq(Int)]
    BY <1>2, <1>7
  <2> QED BY <1>1, <1>3, <2>1 DEF TreeInv, TypeOK, TreeTypes
<1>9. FlagsAreLeaves' /\ FreshTree' /\ WalkInTree'
  <2>1. FlagsAreLeaves'
    BY <1>1, <1>7 DEF FlagsAreLeaves
  <2>2. FreshTree'
    BY <1>1, <1>5, FlushTypes DEF FreshTree
  <2>3. WalkInTree'
    BY <1>1, <1>4 DEF TreeInv, TypeOK, CallTypes, WalkInTree, Running
  <2> QED BY <2>1, <2>2, <2>3
<1> QED BY <1>1, <1>4, <1>6, <1>8, <1>9 DEF TreeInv, TypeOK

-----------------------------------------------------------------------------
LEMMA StutterTreeInv == ASSUME TreeInv, UNCHANGED vars PROVE TreeInv'
<1>1. UNCHANGED <<pc, treeVars, stashVars, fileVars, callVars, pathVars, evictVars>>
  BY DEF vars
<1>2. TreeTypes' /\ StashTypes' /\ FileTypes' /\ CallTypes' /\ PathTypes' /\ EvictTypes'
  BY <1>1, UnchangedTypes DEF TreeInv, TypeOK
<1>3. FlagsAreLeaves' /\ FreshTree' /\ WalkInTree'
  BY <1>1 DEF treeVars, fileVars, callVars, pathVars, TreeInv, FlagsAreLeaves, FreshTree,
              WalkInTree, Running
<1> QED BY <1>1, <1>2, <1>3 DEF TreeInv, TypeOK

(* Every step keeps the tree in order. *)
THEOREM NextTreeInv == ASSUME TreeInv, [Next]_vars PROVE TreeInv'
<1>1. CASE OramInit
  BY <1>1, OramInitTreeInv
<1>2. CASE \E k \in Keys : ReadVal(k)
  BY <1>2, ReadWriteTreeInv
<1>3. CASE \E k \in Keys, v \in Vals : WriteVal(k, v)
  BY <1>3, ReadWriteTreeInv
<1>4. CASE \E k \in JustKeys : JustAddBitmap(k)
  BY <1>4, SizeAssumption, JustAddBitmapTreeInv
<1>5. CASE Access
  BY <1>5, StartAccessTreeInv, ReadBlockTreeInv, LoadEntryTreeInv, ReadEntryTreeInv,
     AppendValTreeInv, KeepLeafTreeInv, EvictEntryTreeInv, FlushTreeInv, ResizeTreeInv,
     AddEntryTreeInv, ReturnTreeInv, DieTreeInv DEF Access
<1>6. CASE Restart
  BY <1>6, RestartTreeInv
<1>7. CASE UNCHANGED vars
  BY <1>7, StutterTreeInv
<1> QED BY <1>1, <1>2, <1>3, <1>4, <1>5, <1>6, <1>7 DEF Next

THEOREM TreeInvariant == Spec => []TreeInv
<1>1. TreeInv /\ [Next]_vars => TreeInv'
  BY NextTreeInv
<1> QED BY InitTreeInv, <1>1, PTL DEF Spec

(* Every variable has its type, in particular every block, leaf and group   *)
(* that the code computes is one that exists.                               *)
THEOREM TypeCorrect == Spec => []TypeOK
<1>1. TreeInv => TypeOK
  BY DEF TreeInv
<1> QED BY TreeInvariant, <1>1, PTL

(* Every leaf in bitmap is a leaf of the tree, also after resize.           *)
THEOREM LeavesCorrect == Spec => []FlagsAreLeaves
<1>1. TreeInv => FlagsAreLeaves
  BY DEF TreeInv
<1> QED BY TreeInvariant, <1>1, PTL

(* No access decrypts a block that was not written under the present key.   *)
THEOREM FreshCorrect == Spec => []FreshTree
<1>1. TreeInv => FreshTree
  BY DEF TreeInv
<1> QED BY TreeInvariant, <1>1, PTL

-----------------------------------------------------------------------------
(* LoadFactor is not inductive: an access begins with one pair more than    *)
(* the tree should have, if write_val has just added it, and its resize     *)
(* makes up for that.                                                       *)
LoadInv ==
  /\ pc \in {"created", "idle", "loop"} => pair_number <= PairLimit(tree_level)
  /\ pc \in {"read", "evict"} => pair_number <= PairLimit(tree_level) + 1

(* A level more makes room for at least one pair more. *)
LEMMA PairLimitGrows ==
  ASSUME NEW level \in Levels
  PROVE  /\ PairLimit(level) \in Nat
         /\ 2 * PairLimit(level) <= ENTRYMAXNUM * (2^level - 1)
         /\ level < LEVELMAX => PairLimit(level + 1) >= PairLimit(level) + 1
<1> DEFINE p == 2^level
           x == ENTRYMAXNUM * (p - 1)
<1>1. level \in 0 .. LEVELMAX
  BY LevelBounds
<1>2. p \in Nat \ {0} /\ 2^(level + 1) = 2 * p
  BY <1>1, PowerAssumption
<1>3. ENTRYMAXNUM \in Nat \ {0}
  BY SizeAssumption
<1>4. x \in Nat
  BY <1>2, <1>3
<1>5. PairLimit(level) = x \div 2
  BY DEF PairLimit
<1>6. x \div 2 \in Nat /\ 2 * (x \div 2) <= x
  BY <1>4
<1>7. ASSUME level < LEVELMAX PROVE PairLimit(level + 1) >= PairLimit(level) + 1
  <2> DEFINE y == ENTRYMAXNUM * (2 * p - 1)
  <2>1. p >= 2
    <3>1. level \in 1 .. LEVELMAX /\ level - 1 \in 0 .. LEVELMAX
      BY LevelBounds
    <3>2. 2^level = 2 * 2^(level - 1) /\ 2^(level - 1) \in Nat /\ 2^(level - 1) > 0
      BY <3>1, Powers
    <3> QED BY <3>2
  <2>2. y = x + ENTRYMAXNUM * p
    BY <1>2, <1>3
  <2>3. ENTRYMAXNUM * p \in Nat /\ ENTRYMAXNUM * p >= 2
    BY <1>2, <1>3, <2>1
  <2>4. y \in Nat /\ y >= x + 2
    <3> HIDE DEF x, y
    <3> QED BY <1>4, <2>2, <2>3
  <2>5. y \div 2 >= x \div 2 + 1
    <3> HIDE DEF x, y
    <3> QED BY <1>4, <2>4
  <2>6. PairLimit(level + 1) = y \div 2
    BY <1>2 DEF PairLimit
  <2> QED BY <1>5, <2>5, <2>6
<1> QED BY <1>4, <1>5, <1>6, <1>7

(* The steps that neither add a pair nor end an access. *)
QuietLoad ==
  /\ UNCHANGED <<tree_level, pair_number>>
  /\ pc' \in {"created", "idle", "loop"} => pc \in {"created", "idle", "loop"}
  /\ pc' \in {"read", "evict"} => pc \in {"created", "idle", "loop", "read", "evict"}

LEMMA QuietSteps ==
  /\ OramInit => QuietLoad
  /\ \A k \in Keys : ReadVal(k) \/ JustAddBitmap(k) => QuietLoad
  /\ \A k \in Keys, v \in Vals : WriteVal(k, v) => QuietLoad
  /\ StartAccess \/ ReadBlock \/ LoadEntry => QuietLoad
  /\ ReadEntry \/ AppendVal \/ SkipFullEntry \/ PlaceNewEntry => QuietLoad
  /\ EvictEntry \/ ResizeOverflows => QuietLoad
  /\ ReturnRead \/ ReturnWrite \/ MissingEntry \/ OverrunReply => QuietLoad
  /\ UNCHANGED vars => QuietLoad
<1>1. (OramInit => QuietLoad) /\ \A k \in Keys : ReadVal(k) \/ JustAddBitmap(k) => QuietLoad
  BY DEF OramInit, ReadVal, Call, JustAddBitmap, treeVars, QuietLoad
<1>2. \A k \in Keys, v \in Vals : WriteVal(k, v) => QuietLoad
  BY DEF WriteVal, Call, treeVars, QuietLoad
<1>3. StartAccess \/ ReadBlock \/ LoadEntry => QuietLoad
  BY DEF StartAccess, ReadPath, ReadBlock, LoadEntry, treeVars, QuietLoad
<1>4. ReadEntry \/ AppendVal \/ SkipFullEntry \/ PlaceNewEntry => QuietLoad
  <2>1. ASSUME NEW entries, Accessing, BeginWriteBack(entries) PROVE QuietLoad
    BY <2>1 DEF Accessing, BeginWriteBack, QuietLoad
  <2> QED BY <2>1 DEF ReadEntry, AppendVal, SkipFullEntry, PlaceNewEntry
<1>5. EvictEntry \/ ResizeOverflows => QuietLoad
  BY DEF EvictEntry, ResizeOverflows, treeVars, QuietLoad
<1>6. ReturnRead \/ ReturnWrite \/ MissingEntry \/ OverrunReply => QuietLoad
  BY DEF ReturnRead, ReturnWrite, EndCall, MissingEntry, OverrunReply, Die, treeVars, QuietLoad
<1>7. UNCHANGED vars => QuietLoad
  BY DEF vars, treeVars, QuietLoad
<1> QED BY <1>1, <1>2, <1>3, <1>4, <1>5, <1>6, <1>7

LEMMA NextLoadInv == ASSUME TreeInv, LoadInv, [Next]_vars PROVE LoadInv'
<1>1. /\ tree_level \in Levels /\ pair_number \in Nat
      /\ PairLimit(tree_level) \in Nat
      /\ tree_level < LEVELMAX => PairLimit(tree_level + 1) >= PairLimit(tree_level) + 1
  BY PairLimitGrows DEF TreeInv, TypeOK, TreeTypes
<1>2. QuietLoad => LoadInv'
  BY <1>1 DEF QuietLoad, LoadInv, PairLimit
<1>3. CASE Restart
  <2>1. PairLimit(2) \in Nat
    BY LevelBounds, PairLimitGrows
  <2> QED BY <1>3, <2>1 DEF Restart, LoadInv, PairLimit
<1>4. CASE WriteBack
  BY <1>1, <1>4 DEF WriteBack, MustResize, treeVars, LoadInv, PairLimit
<1>5. CASE WriteBackAndResize
  <2>1. /\ pc = "evict" /\ pc' = "loop" /\ tree_level < LEVELMAX
        /\ tree_level' = tree_level + 1 /\ pair_number' = pair_number
    BY <1>5 DEF WriteBackAndResize
  <2>2. pair_number <= PairLimit(tree_level + 1)
    <3>1. PairLimit(tree_level + 1) \in Nat
      BY <1>1, <2>1, LevelBounds, PairLimitGrows
    <3> QED BY <1>1, <2>1, <3>1 DEF LoadInv
  <2>3. PairLimit(tree_level)' = PairLimit(tree_level + 1)
    BY <2>1 DEF PairLimit
  <2> QED BY <2>1, <2>2, <2>3 DEF LoadInv
<1>6. CASE AddEntry
  <2>1. pc = "loop" /\ tree_level' = tree_level
    BY <1>6 DEF AddEntry
  <2>2. \/ pc' = "idle" /\ pair_number' = pair_number
        \/ pc' = "read" /\ pair_number' = pair_number + 1
    BY <1>6 DEF AddEntry, EndCall, PutInStash, ReadPath
  <2> QED BY <1>1, <2>1, <2>2 DEF LoadInv, PairLimit
<1>7. CASE Next /\ ~Restart /\ ~WriteBack /\ ~WriteBackAndResize /\ ~AddEntry
  <2>1. \A k \in JustKeys : k \in Keys
    BY SizeAssumption
  <2>2. CASE Access
    BY <1>2, <1>7, <2>2, QuietSteps DEF Access
  <2> QED BY <1>2, <1>7, <2>1, <2>2, QuietSteps DEF Next
<1>8. CASE UNCHANGED vars
  BY <1>2, <1>8 DEF vars, treeVars, QuietLoad
<1> QED BY <1>3, <1>4, <1>5, <1>6, <1>7, <1>8

LEMMA InitLoadInv == ASSUME Init PROVE LoadInv
<1>1. PairLimit(2) \in Nat
  BY LevelBounds, PairLimitGrows
<1> QED BY <1>1 DEF Init, LoadInv

LEMMA HalfFull == ASSUME TreeInv, LoadInv PROVE LoadFactor
<1> SUFFICES ASSUME pc \in {"idle", "loop"}
             PROVE  2 * pair_number <= ENTRYMAXNUM * (2^tree_level - 1)
  BY DEF LoadFactor
<1>1. tree_level \in Levels /\ pair_number \in Nat
  BY DEF TreeInv, TypeOK, TreeTypes
<1>2. /\ PairLimit(tree_level) \in Nat
      /\ 2 * PairLimit(tree_level) <= ENTRYMAXNUM * (2^tree_level - 1)
  BY <1>1, PairLimitGrows
<1>3. ENTRYMAXNUM * (2^tree_level - 1) \in Int
  <2>1. 2^tree_level \in Nat /\ ENTRYMAXNUM \in Nat
    BY <1>1, LevelBounds, PowerAssumption, SizeAssumption
  <2> QED BY <2>1
<1>4. pair_number <= PairLimit(tree_level)
  BY DEF LoadInv
<1> QED BY <1>1, <1>2, <1>3, <1>4

(* Between accesses the tree is at most half full, for blocks and stashes   *)
(* of any size: the resize at the end of an access keeps up with write_val. *)
THEOREM LoadCorrect == Spec => []LoadFactor
<1>1. Init => LoadInv
  BY InitLoadInv
<1>2. TreeInv /\ LoadInv => LoadFactor
  BY HalfFull
<1>3. TreeInv /\ LoadInv /\ [Next]_vars => LoadInv'
  BY NextLoadInv
<1> QED BY TreeInvariant, <1>1, <1>2, <1>3, PTL DEF Spec

-----------------------------------------------------------------------------
(***************************************************************************)
(* Where the entries are: no entry is ever in two places or in none, it    *)
(* lies on the path of its leaf, and the stash has room for what an access *)
(* loads.                                                                  *)
(*                                                                         *)
(* The proofs are about Oram and about OramReinit at once.  L stands for   *)
(* the entries that a second call of ecall_handler_init has lost: none in  *)
(* Oram, the variable lost in OramReinit.                                  *)
(***************************************************************************)

(* Where the call stands: outside an access no block is out of the file,   *)
(* during the write-back all of the path is.                               *)
PhaseInv ==
  /\ pc \in {"created", "idle", "loop", "alias"} => height = 0 /\ record = {}
  /\ pc # "evict" => write_back = [h \in Heights |-> {}]
  /\ pc = "evict" => /\ height = tree_level /\ record = {} /\ todo \subseteq stash
                     /\ \A h \in Heights : h >= tree_level => write_back[h] = {}
  /\ pc = "read" /\ ~success => flag = bitmap[op.key][group]
  /\ pc = "created" => /\ bitmap = [k \in Keys |-> <<>>] /\ data = [o \in Offsets |-> {}]
                       /\ stash = {} /\ stash_num = 0

(* An entry is in one place, and the places have no entry in common.       *)
OnePlace ==
  /\ \A e, f \in Live : SameEntry(e, f) => e = f
  /\ \A e \in stash : e \notin record
  /\ \A h \in Heights : \A e \in write_back[h] :
       /\ e \notin stash
       /\ \A g \in Heights : e \in write_back[g] => g = h
  /\ \A o \in Resting : \A e \in data[o] :
       /\ e \notin stash /\ e \notin record
       /\ \A h \in Heights : e \notin write_back[h]
       /\ \A p \in Resting : e \in data[p] => p = o

(* The counters stand for the entries that exist and those that were lost. *)
Account(L) ==
  /\ IsFiniteSet(Live) /\ IsFiniteSet(L)
  /\ pair_number = Cardinality(Live) + Overwritten + Cardinality(L)
  /\ Overwritten >= 0
  /\ \A e \in Live, f \in L : ~SameEntry(e, f)

(* Every entry is that of a group in bitmap.                               *)
Assigned(L) ==
  /\ L \subseteq Entry
  /\ \A e \in Live \cup L : e.group \in DOMAIN bitmap[e.key]

(* The stash is full only inside an access, and then its last slot is.     *)
SlotInv ==
  /\ tail # None => tail \in stash
  /\ Cardinality(stash) <= (IF tail = None THEN STASHMAXSIZE - 1 ELSE STASHMAXSIZE)
  /\ pc \in {"idle", "loop", "alias"} => Cardinality(stash) < STASHMAXSIZE
  /\ pc = "evict" /\ Cardinality(stash) = STASHMAXSIZE =>
       todo # {} /\ \A h \in Heights : write_back[h] = {}

(* No block holds more entries than fit.                                   *)
BlockInv ==
  /\ \A o \in Offsets : IsFiniteSet(data[o]) /\ Cardinality(data[o]) <= ENTRYMAXNUM
  /\ \A h \in Heights : IsFiniteSet(write_back[h]) /\ Cardinality(write_back[h]) <= ENTRYMAXNUM

(* Unless the tree has just grown, the stash has room for what is left of  *)
(* the path.                                                               *)
RoomInv ==
  /\ pc \in {"created", "idle", "loop"} =>
       LeafLevelEmpty \/ stash_num + tree_level * ENTRYMAXNUM < STASHMAXSIZE
  /\ pc = "read" =>
       \/ LeafLevelEmpty
       \/ stash_num + Cardinality(record) + (tree_level - height) * ENTRYMAXNUM <= STASHMAXSIZE

(* write_val has found every group full that it has gone past.             *)
ScanInv ==
  /\ GroupsFillInOrder
  /\ Running /\ op.type = "write" /\ ~success /\ op.key \notin JustKeys =>
       \A e \in Live : e.key = op.key /\ (e.group < group \/ (pc = "evict" /\ e.group = group))
                         => Len(e.vals) = VALMAXNUM

(* A group without an entry is that of a just key, or has lost its entry.  *)
OwnedInv(L) ==
  /\ \A k \in Keys \ JustKeys : \A i \in DOMAIN bitmap[k] :
       Overwritten > 0 \/ \E e \in Live \cup L : e.key = k /\ e.group = i
  /\ pc = "null_entry" =>
       /\ op.key \in JustKeys \/ Overwritten > 0 \/ \E e \in L : e.key = op.key /\ e.group = group
       /\ \A e \in Live : ~(e.key = op.key /\ e.group = group)

PlaceInv(L) ==
  /\ PhaseInv /\ OnePlace /\ Account(L) /\ Assigned(L) /\ SlotInv /\ PathInvariant
  /\ BlockInv /\ RoomInv /\ ScanInv /\ OwnedInv(L)

-----------------------------------------------------------------------------
(* The places.                                                             *)

LEMMA InLive ==
  /\ \A e : e \in Live <=> \/ e \in stash \/ e \in record
                           \/ \E h \in Heights : e \in write_back[h]
                           \/ \E o \in Resting : e \in data[o]
  /\ \A e : e \in Live' <=> \/ e \in stash' \/ e \in record'
                            \/ \E h \in Heights : e \in write_back'[h]
                            \/ \E o \in Resting' : e \in data'[o]
<1>1. ASSUME NEW f, NEW S, NEW e
      PROVE  e \in UNION {f[x] : x \in S} <=> \E x \in S : e \in f[x]
  OBVIOUS
<1>2. ASSUME NEW e
      PROVE  e \in Live <=> \/ e \in stash \/ e \in record
                            \/ \E h \in Heights : e \in write_back[h]
                            \/ \E o \in Resting : e \in data[o]
  <2> DEFINE A == UNION {write_back[h] : h \in Heights}
             B == UNION {data[o] : o \in Resting}
  <2>1. e \in A <=> \E h \in Heights : e \in write_back[h]
    BY <1>1
  <2>2. e \in B <=> \E o \in Resting : e \in data[o]
    BY <1>1
  <2>3. Live = stash \cup record \cup A \cup B
    BY DEF Live
  <2> HIDE DEF A, B
  <2> QED BY <2>1, <2>2, <2>3
<1>3. ASSUME NEW e
      PROVE  e \in Live' <=> \/ e \in stash' \/ e \in record'
                             \/ \E h \in Heights : e \in write_back'[h]
                             \/ \E o \in Resting' : e \in data'[o]
  <2> DEFINE A == UNION {write_back'[h] : h \in Heights}
             B == UNION {data'[o] : o \in Resting'}
  <2>1. e \in A <=> \E h \in Heights : e \in write_back'[h]
    BY <1>1
  <2>2. e \in B <=> \E o \in Resting' : e \in data'[o]
    BY <1>1
  <2>3. Live' = stash' \cup record' \cup A \cup B
    BY DEF Live
  <2> HIDE DEF A, B
  <2> QED BY <2>1, <2>2, <2>3
<1> QED BY <1>2, <1>3

LEMMA LiveEntries ==
  ASSUME TreeInv
  PROVE  /\ Live \subseteq Entry /\ stash \subseteq Entry /\ record \subseteq Entry
         /\ Resting \subseteq Offsets
         /\ \A h \in Heights : write_back[h] \subseteq Entry
         /\ \A o \in Offsets : data[o] \subseteq Entry
<1>1. stash \subseteq Entry /\ record \subseteq Entry
        /\ (\A h \in Heights : write_back[h] \subseteq Entry)
        /\ (\A o \in Offsets : data[o] \subseteq Entry)
  BY DEF TreeInv, TypeOK, StashTypes, PathTypes, EvictTypes, FileTypes
<1>2. Resting \subseteq Offsets
  BY FileGrows DEF Resting, Offsets, TreeInv, TypeOK, TreeTypes
<1>3. Live \subseteq Entry
  BY <1>1, <1>2, InLive
<1> QED BY <1>1, <1>2, <1>3

LEMMA NothingConsumed ==
  /\ height = 0 => Consumed = {}
  /\ height' = 0 => Consumed' = {}
<1>1. 0 .. 0 - 1 = {}
  OBVIOUS
<1> QED BY <1>1 DEF Consumed

LEMMA OffsetsDiffer ==
  \A m, n \in Int : Offset(m) = Offset(n) => m = n
BY DEF Offset

(* An access has read its whole path when it has come to the root.         *)
LEMMA WholePath ==
  ASSUME TreeInv, pc = "read", PathRead
  PROVE  height = tree_level
<1>1. tree_level \in Levels /\ height \in 1 .. tree_level /\ flag \in Leaves(tree_level)
  BY DEF TreeInv, TypeOK, TreeTypes, WalkInTree, FlagsAreLeaves, PathRead
<1>2. height - 1 \in 0 .. tree_level - 1 /\ tree_level - 1 \in 0 .. tree_level - 1
        /\ tree_level \in 1 .. LEVELMAX
  BY <1>1, LevelBounds
<1>3. NodeAt(flag, height - 1) \in 2 .. 2^tree_level /\ NodeAt(flag, height - 1) <= 2
  BY <1>1, <1>2, PathInTree DEF PathRead
<1>4. NodeAt(flag, tree_level - 1) = 2
  BY <1>1, <1>2, PathInTree
<1>5. 2^tree_level \in Int
  BY <1>2, Powers
<1>6. NodeAt(flag, height - 1) = NodeAt(flag, tree_level - 1)
  BY <1>3, <1>4, <1>5
<1>7. height - 1 = tree_level - 1
  BY <1>1, <1>2, <1>6, PathInjective
<1> QED BY <1>1, <1>2, <1>7

LEMMA PathConsumed ==
  height = tree_level => Consumed = PathOffsets
BY DEF Consumed, PathOffsets

-----------------------------------------------------------------------------
(* What the parts of the invariant need to survive a step.                 *)

(* The steps that move no entry.                                           *)
SamePlaces ==
  /\ UNCHANGED <<stash, record, write_back, data>>
  /\ Resting' = Resting

(* No group gets another leaf, or is forgotten.                            *)
KeepsFlags ==
  \A k \in Keys : \A i \in DOMAIN bitmap[k] : i \in DOMAIN bitmap'[k] /\ bitmap'[k][i] = bitmap[k][i]

LEMMA SamePath ==
  /\ UNCHANGED <<tree_level, flag, height>> => Resting' = Resting
  /\ UNCHANGED tree_level /\ height = 0 /\ height' = 0 => Resting' = Resting
<1>1. UNCHANGED <<tree_level, flag, height>> => Resting' = Resting
  BY DEF Resting, Consumed
<1>2. UNCHANGED tree_level /\ height = 0 /\ height' = 0 => Resting' = Resting
  BY NothingConsumed DEF Resting
<1> QED BY <1>1, <1>2

LEMMA SamePlacesKeep ==
  ASSUME SamePlaces
  PROVE  /\ Live' = Live
         /\ OnePlace => OnePlace'
         /\ BlockInv => BlockInv'
<1>1. Live' = Live
  BY DEF SamePlaces, Live
<1>2. OnePlace => OnePlace'
  BY <1>1 DEF SamePlaces, OnePlace
<1>3. BlockInv => BlockInv'
  BY DEF SamePlaces, BlockInv
<1> QED BY <1>1, <1>2, <1>3

LEMMA AccountKept ==
  ASSUME NEW L, Account(L), Live' = Live, Overwritten' = Overwritten, UNCHANGED pair_number
  PROVE  Account(L)'
BY DEF Account

LEMMA AssignedKept ==
  ASSUME NEW L, Assigned(L), Live \subseteq Entry,
         \A k \in Keys : DOMAIN bitmap[k] \subseteq DOMAIN bitmap'[k],
         \A e \in Live' : \E f \in Live : SameEntry(e, f)
  PROVE  Assigned(L)'
<1>1. ASSUME NEW e \in Live' PROVE e.group \in DOMAIN bitmap'[e.key]
  <2>1. PICK f \in Live : SameEntry(e, f)
    OBVIOUS
  <2>2. f.key \in Keys /\ f.group \in DOMAIN bitmap[f.key]
    BY DEF Assigned, Entry
  <2> QED BY <2>1, <2>2 DEF SameEntry
<1>2. ASSUME NEW e \in L PROVE e.group \in DOMAIN bitmap'[e.key]
  <2>1. e.key \in Keys /\ e.group \in DOMAIN bitmap[e.key]
    BY DEF Assigned, Entry
  <2> QED BY <2>1
<1> QED BY <1>1, <1>2 DEF Assigned

LEMMA OwnedKept ==
  ASSUME NEW L, OwnedInv(L), pc' # "null_entry",
         \A k \in Keys \ JustKeys : DOMAIN bitmap'[k] \subseteq DOMAIN bitmap[k],
         Overwritten > 0 => Overwritten' > 0,
         \A e \in Live : \E f \in Live' : SameEntry(e, f)
  PROVE  OwnedInv(L)'
<1>1. ASSUME NEW k \in Keys \ JustKeys, NEW i \in DOMAIN bitmap'[k], ~(Overwritten' > 0)
      PROVE  \E e \in Live' \cup L : e.key = k /\ e.group = i
  <2>1. PICK e \in Live \cup L : e.key = k /\ e.group = i
    BY <1>1 DEF OwnedInv
  <2>2. CASE e \in L
    BY <2>1, <2>2
  <2>3. CASE e \in Live
    BY <2>1, <2>3 DEF SameEntry
  <2> QED BY <2>2, <2>3
<1> QED BY <1>1 DEF OwnedInv

LEMMA PathKept ==
  ASSUME TreeInv, PathInvariant, UNCHANGED <<data, write_back, tree_level>>,
         Resting' \subseteq Resting, KeepsFlags,
         flag' = flag \/ \A h \in Heights : write_back[h] = {}
  PROVE  PathInvariant'
<1>1. ASSUME NEW o \in Resting', NEW e \in data'[o]
      PROVE  /\ e.group \in DOMAIN bitmap'[e.key]
             /\ \E h \in 0 .. tree_level' - 1 : o = Offset(NodeAt(bitmap'[e.key][e.group], h))
  <2>1. o \in Resting /\ e \in data[o] /\ e \in Entry
    BY LiveEntries
  <2>2. e.key \in Keys /\ e.group \in DOMAIN bitmap[e.key]
          /\ \E h \in 0 .. tree_level - 1 : o = Offset(NodeAt(bitmap[e.key][e.group], h))
    BY <2>1 DEF PathInvariant, Entry
  <2> QED BY <2>2 DEF KeepsFlags
<1>2. ASSUME NEW h \in Heights, NEW e \in write_back'[h]
      PROVE  /\ e.group \in DOMAIN bitmap'[e.key]
             /\ NodeAt(bitmap'[e.key][e.group], h) = NodeAt(flag', h)
  <2>1. e \in write_back[h] /\ e \in Entry /\ flag' = flag
    BY LiveEntries
  <2>2. e.key \in Keys /\ e.group \in DOMAIN bitmap[e.key]
          /\ NodeAt(bitmap[e.key][e.group], h) = NodeAt(flag, h)
    BY <2>1 DEF PathInvariant, Entry
  <2> QED BY <2>1, <2>2 DEF KeepsFlags
<1> QED BY <1>1, <1>2 DEF PathInvariant

(* A group more, or the same groups.                                       *)
LEMMA AppendKeepsFlags ==
  ASSUME TreeInv, NEW k \in Keys, NEW f \in Int, bitmap' = [bitmap EXCEPT ![k] = Append(@, f)]
  PROVE  /\ KeepsFlags
         /\ Len(bitmap[k]) \in Nat /\ DOMAIN bitmap[k] = 1 .. Len(bitmap[k])
         /\ DOMAIN bitmap'[k] = 1 .. Len(bitmap[k]) + 1
         /\ Len(bitmap'[k]) = Len(bitmap[k]) + 1
         /\ \A j \in Keys \ {k} : bitmap'[j] = bitmap[j]
<1>1. bitmap \in [Keys -> Seq(Int)]
  BY DEF TreeInv, TypeOK, TreeTypes
<1> DEFINE s == Append(bitmap[k], f)
<1>2. bitmap[k] \in Seq(Int) /\ Len(bitmap[k]) \in Nat /\ DOMAIN bitmap[k] = 1 .. Len(bitmap[k])
  BY <1>1, LenProperties
<1>3. /\ s \in Seq(Int) /\ Len(s) = Len(bitmap[k]) + 1
      /\ \A i \in 1 .. Len(bitmap[k]) : s[i] = bitmap[k][i]
  BY <1>2, AppendProperties
<1>4. DOMAIN s = 1 .. Len(bitmap[k]) + 1
  BY <1>3, LenProperties
<1>5. bitmap'[k] = s /\ \A j \in Keys \ {k} : bitmap'[j] = bitmap[j]
  BY <1>1
<1> HIDE DEF s
<1>6. KeepsFlags
  <2> SUFFICES ASSUME NEW j \in Keys, NEW i \in DOMAIN bitmap[j]
               PROVE  i \in DOMAIN bitmap'[j] /\ bitmap'[j][i] = bitmap[j][i]
    BY DEF KeepsFlags
  <2>1. CASE j = k
    BY <1>2, <1>3, <1>4, <1>5, <2>1
  <2>2. CASE j # k
    BY <1>5, <2>2
  <2> QED BY <2>1, <2>2
<1> QED BY <1>2, <1>3, <1>4, <1>5, <1>6

-----------------------------------------------------------------------------
(* Where the steps of an access move entries.                              *)

LEMMA ReadBlockEffect ==
  ASSUME TreeInv, ReadBlock
  PROVE  \E o \in Resting :
           /\ pc = "read" /\ pc' = "read" /\ height' = height + 1
           /\ height \in 0 .. tree_level - 1
           /\ record = {} /\ record' = data[o] /\ Resting' = Resting \ {o}
           /\ UNCHANGED <<treeVars, stashVars, fileVars, callVars, flag, evictVars>>
<1> DEFINE o == Offset(NodeAt(flag, height))
<1>1. /\ pc = "read" /\ ~PathRead /\ height' = height + 1 /\ record = {}
      /\ UNCHANGED <<treeVars, stashVars, fileVars, callVars, flag, evictVars>>
      /\ IF o \in fresh THEN pc' = pc /\ record' = data[o] ELSE pc' = "garbage" /\ record' = record
  BY DEF ReadBlock
<1>2. tree_level \in Levels /\ flag \in Leaves(tree_level) /\ height \in 0 .. tree_level - 1
  BY <1>1, WalkStops DEF TreeInv, TypeOK, TreeTypes, FlagsAreLeaves
<1>3. tree_level \in 1 .. LEVELMAX
  BY <1>2, LevelBounds
<1>4. o \in FileOffsets(tree_level) /\ o \in fresh
  BY <1>1, <1>2, PathInFile DEF TreeInv, FreshTree
<1>5. o \notin Consumed
  <2> SUFFICES ASSUME NEW h \in 0 .. height - 1, o = Offset(NodeAt(flag, h)) PROVE FALSE
    BY DEF Consumed
  <2>1. h \in 0 .. tree_level - 1 /\ h # height
    BY <1>2, <1>3
  <2>2. NodeAt(flag, h) \in 2 .. 2^tree_level /\ NodeAt(flag, height) \in 2 .. 2^tree_level
    BY <1>2, <2>1, PathInTree
  <2>3. 2^tree_level \in Nat
    BY <1>3, Powers
  <2>4. NodeAt(flag, h) = NodeAt(flag, height)
    BY <2>2, <2>3, OffsetsDiffer
  <2> QED BY <1>2, <1>3, <2>1, <2>4, PathInjective
<1>6. Resting' = Resting \ {o}
  <2>1. 0 .. height' - 1 = 0 .. height /\ 0 .. height = (0 .. height - 1) \cup {height}
    BY <1>1, <1>2, <1>3
  <2>2. Consumed' = {Offset(NodeAt(flag, h)) : h \in 0 .. height}
    BY <1>1, <2>1 DEF Consumed
  <2>3. Consumed' = Consumed \cup {o}
    BY <2>1, <2>2 DEF Consumed
  <2>4. FileOffsets(tree_level)' = FileOffsets(tree_level)
    BY <1>1 DEF treeVars
  <2> QED BY <2>3, <2>4 DEF Resting
<1>7. o \in Resting
  BY <1>4, <1>5 DEF Resting
<1> HIDE DEF o
<1> QED BY <1>1, <1>2, <1>4, <1>6, <1>7

LEMMA ReadBlockPlaces ==
  ASSUME TreeInv, OnePlace, ReadBlock
  PROVE  Live' = Live /\ OnePlace'
<1>1. PICK o \in Resting :
        /\ record = {} /\ record' = data[o] /\ Resting' = Resting \ {o}
        /\ UNCHANGED <<treeVars, stashVars, fileVars, callVars, flag, evictVars>>
  BY ReadBlockEffect
<1>2. UNCHANGED <<stash, data, write_back>>
  BY <1>1 DEF stashVars, fileVars, evictVars
<1>3. ASSUME NEW e PROVE e \in Live' <=> e \in Live
  BY <1>1, <1>2, InLive
<1>4. Live' = Live
  BY <1>3
<1>5. OnePlace'
  BY <1>1, <1>2, <1>4 DEF OnePlace
<1> QED BY <1>4, <1>5

(* The sets of entries are finite. *)
LEMMA FinitePlaces ==
  ASSUME NEW L, Account(L)
  PROVE  /\ IsFiniteSet(Live) /\ IsFiniteSet(stash) /\ IsFiniteSet(record)
         /\ Cardinality(stash) \in Nat /\ Cardinality(record) \in Nat
         /\ Cardinality(Live) \in Nat
<1>1. stash \subseteq Live /\ record \subseteq Live
  BY InLive
<1>2. IsFiniteSet(Live)
  BY DEF Account
<1>3. IsFiniteSet(stash) /\ IsFiniteSet(record)
  BY <1>1, <1>2, FS_Subset
<1> QED BY <1>2, <1>3, FS_CardinalityType

(* One entry more or less. *)
LEMMA Counting ==
  ASSUME NEW S, IsFiniteSet(S), NEW x
  PROVE  /\ x \notin S => Cardinality(S \cup {x}) = Cardinality(S) + 1
         /\ x \in S => Cardinality(S \ {x}) = Cardinality(S) - 1
         /\ x \in S => Cardinality(S) > 0
         /\ IsFiniteSet(S \cup {x}) /\ IsFiniteSet(S \ {x})
         /\ Cardinality(S) \in Nat
<1>1. Cardinality(S) \in Nat /\ IsFiniteSet(S \cup {x}) /\ IsFiniteSet(S \ {x})
  BY FS_CardinalityType, FS_AddElement, FS_RemoveElement
<1>2. x \notin S => Cardinality(S \cup {x}) = Cardinality(S) + 1
  BY FS_AddElement
<1>3. x \in S => Cardinality(S \ {x}) = Cardinality(S) - 1
  BY FS_RemoveElement
<1>4. x \in S => Cardinality(S) # 0
  BY FS_EmptySet
<1> QED BY <1>1, <1>2, <1>3, <1>4

(* Two sets that share nothing. *)
LEMMA DisjointUnion ==
  ASSUME NEW S, NEW T, IsFiniteSet(S), IsFiniteSet(T), \A x \in T : x \notin S
  PROVE  Cardinality(S \cup T) = Cardinality(S) + Cardinality(T)
<1>1. S \cap T = {}
  OBVIOUS
<1>2. Cardinality(S \cap T) = 0
  BY <1>1, FS_EmptySet
<1>3. Cardinality(S) \in Nat /\ Cardinality(T) \in Nat
  BY FS_CardinalityType
<1>4. Cardinality(S \cup T) = Cardinality(S) + Cardinality(T) - Cardinality(S \cap T)
  BY FS_Union
<1> QED BY <1>2, <1>3, <1>4

(* An entry of the block goes to a free slot, or takes the place of the    *)
(* entry in the last slot of a full stash.                                 *)
Loaded(e) ==
  /\ stash' = stash \cup {e}
  /\ Cardinality(stash') = Cardinality(stash) + 1
  /\ tail' = tail \/ tail' = e
  /\ Cardinality(stash') <= (IF tail' = None THEN STASHMAXSIZE - 1 ELSE STASHMAXSIZE)
  /\ Live' = Live /\ Overwritten' = Overwritten

LoadedOver(e) ==
  /\ tail \in stash /\ stash' = (stash \ {tail}) \cup {e} /\ tail' = e
  /\ Cardinality(stash) = STASHMAXSIZE /\ Cardinality(stash') = STASHMAXSIZE
  /\ Live' = Live \ {tail} /\ Overwritten' = Overwritten + 1

LEMMA LoadEntryEffect ==
  ASSUME TreeInv, NEW L, Account(L), OnePlace, SlotInv, LoadEntry
  PROVE  /\ pc = "read" /\ stash_num' = stash_num + 1 /\ Resting' = Resting
         /\ UNCHANGED <<pc, treeVars, fileVars, callVars, flag, height, evictVars>>
         /\ \E e \in record : /\ record' = record \ {e} /\ e \notin stash /\ e # None
                              /\ Cardinality(record') = Cardinality(record) - 1
                              /\ Loaded(e) \/ LoadedOver(e)
<1>1. pc = "read" /\ UNCHANGED <<pc, treeVars, fileVars, callVars, flag, height, evictVars>>
  BY DEF LoadEntry
<1>2. PICK e \in record : record' = record \ {e} /\ FillSlot(e)
  BY DEF LoadEntry
<1>3. Resting' = Resting
  BY <1>1, SamePath DEF treeVars
<1>4. e \notin stash /\ e \in Entry /\ e # None
  BY <1>2, LiveEntries, NoneAssumption DEF OnePlace
<1>5. /\ IsFiniteSet(stash) /\ IsFiniteSet(record)
      /\ Cardinality(record') = Cardinality(record) - 1
      /\ Cardinality(stash) \in Nat /\ STASHMAXSIZE \in Nat /\ stash_num \in Int
  BY <1>2, FinitePlaces, Counting, SizeAssumption DEF TreeInv, TypeOK, StashTypes
<1>6. stash_num' = stash_num + 1
  BY <1>2 DEF FillSlot
<1>7. UNCHANGED <<data, write_back>>
  BY <1>1 DEF fileVars, evictVars
<1>8. ASSUME stash' = stash \cup {e}
      PROVE  /\ Cardinality(stash') = Cardinality(stash) + 1
             /\ Live' = Live /\ Overwritten' = Overwritten
  <2>1. Cardinality(stash') = Cardinality(stash) + 1
    BY <1>4, <1>5, <1>8, Counting
  <2>2. \A f : f \in Live' <=> f \in Live
    BY <1>2, <1>3, <1>7, <1>8, InLive
  <2>3. Live' = Live
    BY <2>2
  <2>4. Overwritten' = Overwritten
    BY <1>5, <1>6, <2>1 DEF Overwritten
  <2> QED BY <2>1, <2>3, <2>4
<1>9. CASE ~LastSlotReached
  <2>1. stash' = stash \cup {e} /\ tail' = tail
    BY <1>2, <1>9 DEF FillSlot
  <2>2. Cardinality(stash) + 1 <= (IF tail = None THEN STASHMAXSIZE - 1 ELSE STASHMAXSIZE)
    BY <1>5, <1>9 DEF LastSlotReached
  <2>3. Loaded(e)
    BY <1>8, <2>1, <2>2 DEF Loaded
  <2> QED BY <1>1, <1>2, <1>3, <1>4, <1>5, <1>6, <2>3
<1>10. CASE LastSlotReached /\ tail = None
  <2>1. stash' = stash \cup {e} /\ tail' = e
    <3>1. None \notin stash
      BY LiveEntries, NoneAssumption
    <3> QED BY <1>2, <1>10, <3>1 DEF FillSlot
  <2>2. Cardinality(stash) + 1 <= STASHMAXSIZE
    BY <1>5, <1>10 DEF SlotInv
  <2>3. Loaded(e)
    BY <1>4, <1>8, <2>1, <2>2 DEF Loaded
  <2> QED BY <1>1, <1>2, <1>3, <1>4, <1>5, <1>6, <2>3
<1>11. CASE LastSlotReached /\ tail # None
  <2>1. tail \in stash /\ Cardinality(stash) = STASHMAXSIZE
    BY <1>5, <1>11 DEF SlotInv, LastSlotReached
  <2>2. stash' = (stash \ {tail}) \cup {e} /\ tail' = e
    BY <1>2, <1>11 DEF FillSlot
  <2>3. Cardinality(stash') = STASHMAXSIZE
    <3>1. /\ IsFiniteSet(stash \ {tail}) /\ e \notin stash \ {tail}
          /\ Cardinality(stash \ {tail}) = Cardinality(stash) - 1
      BY <1>4, <1>5, <2>1, Counting
    <3>2. Cardinality((stash \ {tail}) \cup {e}) = Cardinality(stash \ {tail}) + 1
      BY <3>1, Counting
    <3> QED BY <1>5, <2>1, <2>2, <3>1, <3>2
  <2>4. Overwritten' = Overwritten + 1
    BY <1>5, <1>6, <2>1, <2>3 DEF Overwritten
  <2>5. Live' = Live \ {tail}
    <3>1. /\ tail \notin record
          /\ \A h \in Heights : tail \notin write_back[h]
          /\ \A o \in Resting : tail \notin data[o]
      BY <2>1 DEF OnePlace
    <3>2. \A f : f \in Live' <=> f \in Live /\ f # tail
      BY <1>2, <1>3, <1>7, <2>1, <2>2, <3>1, InLive
    <3> QED BY <3>2
  <2>6. LoadedOver(e)
    BY <2>1, <2>2, <2>3, <2>4, <2>5 DEF LoadedOver
  <2> QED BY <1>1, <1>2, <1>3, <1>4, <1>5, <1>6, <2>6
<1> QED BY <1>9, <1>10, <1>11

LEMMA LoadEntryPlaces ==
  ASSUME TreeInv, NEW L, Account(L), PhaseInv, OnePlace, SlotInv, LoadEntry
  PROVE  OnePlace'
<1>1. Resting' = Resting /\ UNCHANGED <<data, write_back>>
  BY LoadEntryEffect DEF fileVars, evictVars
<1>2. PICK e \in record : record' = record \ {e} /\ e \notin stash /\ (Loaded(e) \/ LoadedOver(e))
  BY LoadEntryEffect
<1>3. Live' \subseteq Live /\ stash' \subseteq stash \cup {e}
  BY <1>2 DEF Loaded, LoadedOver
<1>4. /\ \A h \in Heights : e \notin write_back[h]
      /\ \A o \in Resting : e \notin data[o]
  <2>1. \A o \in Resting : e \notin data[o]
    BY <1>2 DEF OnePlace
  <2>2. write_back = [h \in Heights |-> {}]
    BY DEF LoadEntry, PhaseInv
  <2> QED BY <2>1, <2>2
<1> QED BY <1>1, <1>2, <1>3, <1>4 DEF OnePlace

(* The start of the write-back moves no entry of the stash it is given.    *)
LEMMA BeginWriteBackEffect ==
  ASSUME TreeInv, PhaseInv, Accessing, NEW entries, BeginWriteBack(entries)
  PROVE  /\ pc = "read" /\ pc' \in {"evict", "no_heap"}
         /\ record = {} /\ height = tree_level /\ write_back = [h \in Heights |-> {}]
         /\ stash' = entries /\ todo' = entries /\ write_back' = write_back
         /\ tail' \in entries \cup (IF Cardinality(entries) < STASHMAXSIZE THEN {None} ELSE {})
         /\ Resting' = Resting
         /\ UNCHANGED <<tree_level, pair_number, stash_num, data, op, group, flag, height, record>>
<1>1. pc = "read" /\ record = {} /\ height = tree_level
  BY WholePath DEF Accessing
<1>2. write_back = [h \in Heights |-> {}] /\ write_back' = [h \in Heights |-> {}]
  BY <1>1 DEF PhaseInv, BeginWriteBack
<1>3. UNCHANGED <<tree_level, pair_number, stash_num, data, op, group, flag, height, record>>
  BY DEF BeginWriteBack, fileVars, pathVars
<1>4. Resting' = Resting
  BY <1>3, SamePath
<1> QED BY <1>1, <1>2, <1>3, <1>4 DEF BeginWriteBack

LEMMA KeepEffect ==
  ASSUME TreeInv, PhaseInv, Accessing, BeginWriteBack(stash)
  PROVE  /\ SamePlaces /\ Live' = Live /\ Overwritten' = Overwritten
         /\ UNCHANGED <<tree_level, pair_number, stash_num>>
<1>1. SamePlaces
  BY BeginWriteBackEffect DEF SamePlaces
<1>2. UNCHANGED <<tree_level, pair_number, stash_num, stash>>
  BY BeginWriteBackEffect
<1> QED BY <1>1, <1>2, SamePlacesKeep DEF Overwritten

(* write_val changes one entry of the stash in its place.                  *)
LEMMA AppendValEffect ==
  ASSUME TreeInv, PhaseInv, NEW L, Account(L), OnePlace, AppendVal
  PROVE  \E e \in Found :
           /\ Len(e.vals) < VALMAXNUM /\ e \in stash /\ e \in Entry
           /\ WithVal(e) \in Entry /\ SameEntry(WithVal(e), e)
           /\ WithVal(e).vals = Append(e.vals, op.val) /\ op.val \in Vals
           /\ BeginWriteBack((stash \ {e}) \cup {WithVal(e)})
           /\ Live' = (Live \ {e}) \cup {WithVal(e)}
           /\ WithVal(e) \notin Live \ {e}
           /\ Cardinality(Live') = Cardinality(Live) /\ IsFiniteSet(Live')
           /\ Cardinality(stash') = Cardinality(stash)
           /\ Overwritten' = Overwritten
           /\ OnePlace'
<1>1. Accessing /\ op.type = "write" /\ ~success /\ Remap /\ success' /\ UNCHANGED ret_val
  BY DEF AppendVal
<1>2. PICK e \in Found : Len(e.vals) < VALMAXNUM /\ BeginWriteBack((stash \ {e}) \cup {WithVal(e)})
  BY DEF AppendVal
<1> DEFINE w == WithVal(e)
<1>3. e \in stash /\ e \in Entry /\ op.val \in Vals
  BY <1>1, <1>2, AccessedGroup DEF Found
<1>4. w \in Entry /\ SameEntry(w, e) /\ w.vals = Append(e.vals, op.val)
  <2>1. Append(e.vals, op.val) \in Seq(Vals)
    BY <1>3, AppendProperties DEF Entry
  <2> QED BY <1>3, <2>1 DEF WithVal, Entry, SameEntry
<1>5. BeginWriteBack((stash \ {e}) \cup {w})
  BY <1>2
<1> HIDE DEF w
<1>6. /\ stash' = (stash \ {e}) \cup {w} /\ write_back' = write_back /\ Resting' = Resting
      /\ record = {} /\ write_back = [h \in Heights |-> {}]
      /\ UNCHANGED <<data, record, stash_num>>
  BY <1>1, <1>5, BeginWriteBackEffect
<1>7. e \in Live /\ w \notin Live \ {e}
  <2>1. e \in Live
    BY <1>3, InLive
  <2>2. ASSUME w \in Live PROVE w = e
    BY <1>4, <2>1, <2>2 DEF OnePlace
  <2> QED BY <2>1, <2>2
<1>8. \A o \in Resting : e \notin data[o] /\ w \notin data[o]
  <2>1. \A o \in Resting : e \notin data[o]
    BY <1>3 DEF OnePlace
  <2>2. \A o \in Resting : w \in data[o] => w \in Live
    BY InLive
  <2> QED BY <1>7, <2>1, <2>2
<1>9. Live' = (Live \ {e}) \cup {w}
  <2>1. \A f : f \in Live' <=> f \in (Live \ {e}) \cup {w}
    BY <1>6, <1>8, InLive
  <2> QED BY <2>1
<1>10. Cardinality(Live') = Cardinality(Live) /\ IsFiniteSet(Live')
  <2>1. IsFiniteSet(Live)
    BY FinitePlaces
  <2>2. /\ IsFiniteSet(Live \ {e}) /\ Cardinality(Live \ {e}) = Cardinality(Live) - 1
        /\ Cardinality(Live) \in Nat
    BY <1>7, <2>1, Counting
  <2>3. /\ Cardinality((Live \ {e}) \cup {w}) = Cardinality(Live \ {e}) + 1
        /\ IsFiniteSet((Live \ {e}) \cup {w})
    BY <1>7, <2>2, Counting
  <2> QED BY <1>9, <2>2, <2>3
<1>11. Cardinality(stash') = Cardinality(stash)
  <2>1. IsFiniteSet(stash)
    BY FinitePlaces
  <2>2. /\ IsFiniteSet(stash \ {e}) /\ Cardinality(stash \ {e}) = Cardinality(stash) - 1
        /\ Cardinality(stash) \in Nat
    BY <1>3, <2>1, Counting
  <2>3. w \notin stash \ {e}
    BY <1>7, InLive
  <2>4. Cardinality((stash \ {e}) \cup {w}) = Cardinality(stash \ {e}) + 1
    BY <2>2, <2>3, Counting
  <2> QED BY <1>6, <2>2, <2>4
<1>12. Overwritten' = Overwritten
  BY <1>6, <1>11 DEF Overwritten
<1>13. OnePlace'
  <2>1. \A f, g \in Live' : SameEntry(f, g) => f = g
    <3> SUFFICES ASSUME NEW f \in Live', NEW g \in Live', SameEntry(f, g) PROVE f = g
      OBVIOUS
    <3>1. CASE f \in Live \ {e} /\ g \in Live \ {e}
      BY <3>1 DEF OnePlace
    <3>2. CASE f = w /\ g \in Live \ {e}
      <4>1. SameEntry(e, g)
        BY <1>4, <3>2 DEF SameEntry
      <4> QED BY <1>7, <3>2, <4>1 DEF OnePlace
    <3>3. CASE g = w /\ f \in Live \ {e}
      <4>1. SameEntry(e, f)
        BY <1>4, <3>3 DEF SameEntry
      <4> QED BY <1>7, <3>3, <4>1 DEF OnePlace
    <3> QED BY <1>9, <3>1, <3>2, <3>3
  <2>2. \A o \in Resting' : \A f \in data'[o] :
          /\ f \notin stash' /\ f \notin record'
          /\ \A h \in Heights : f \notin write_back'[h]
          /\ \A p \in Resting' : f \in data'[p] => p = o
    BY <1>6, <1>8 DEF OnePlace
  <2> QED BY <1>6, <2>1, <2>2 DEF OnePlace
<1> QED BY <1>2, <1>3, <1>4, <1>5, <1>7, <1>9, <1>10, <1>11, <1>12, <1>13 DEF w

(* write_val puts a new entry in a stash that has room.                    *)
LEMMA AddEntryEffect ==
  ASSUME TreeInv, PhaseInv, NEW L, Account(L), Assigned(L), OnePlace, SlotInv, AddEntry
  PROVE  \E e \in Entry, f \in Leaves(tree_level) :
           /\ pc = "loop" /\ op.type = "write" /\ op \in Op /\ op.key \in Keys /\ ~success
           /\ ~(group <= Len(bitmap[op.key]))
           /\ e.key = op.key /\ e.group = Len(bitmap[op.key]) + 1 /\ e.vals = <<op.val>>
           /\ f \in Int /\ bitmap' = [bitmap EXCEPT ![op.key] = Append(@, f)]
           /\ PutInStash(e) /\ ReadPath(f)
           /\ \A x \in Live \cup L : ~SameEntry(e, x)
           /\ Live' = Live \cup {e} /\ e \notin Live /\ e \notin stash
           /\ Cardinality(Live') = Cardinality(Live) + 1 /\ IsFiniteSet(Live')
           /\ Cardinality(stash') = Cardinality(stash) + 1 /\ Overwritten' = Overwritten
           /\ Resting' = Resting /\ height = 0 /\ record = {}
           /\ write_back = [h \in Heights |-> {}]
           /\ UNCHANGED <<tree_level, data, write_back, op, group>>
<1>1. pc = "loop" /\ op.type = "write" /\ ~success /\ ~MoreGroups
        /\ UNCHANGED <<tree_level, fileVars, evictVars>>
  BY DEF AddEntry
<1>2. op \in Op /\ op.key \in Keys /\ op.val \in Vals
  <2>1. op \in Op
    BY <1>1 DEF TreeInv, WalkInTree, Running
  <2> QED BY <1>1, <2>1 DEF Op
<1>3. ~StashFull
  BY <1>1, SizeAssumption DEF StashFull, SlotInv
<1> DEFINE e == NewEntry(op.key, NewGroup(op.key), op.val)
<1>4. PICK f \in Leaves(tree_level) :
        /\ bitmap' = [bitmap EXCEPT ![op.key] = Append(@, f)]
        /\ PutInStash(e) /\ ReadPath(f) /\ UNCHANGED <<op, group, ret_val, reply>>
  BY <1>3 DEF AddEntry
<1>5. f \in Int
  BY LeavesAreInt DEF TreeInv, TypeOK, TreeTypes
<1>6. bitmap[op.key] \in Seq(Int) /\ Len(bitmap[op.key]) \in Nat
        /\ DOMAIN bitmap[op.key] = 1 .. Len(bitmap[op.key])
  BY <1>2, LenProperties DEF TreeInv, TypeOK, TreeTypes
<1>7. e \in Entry /\ e.key = op.key /\ e.group = Len(bitmap[op.key]) + 1 /\ e.vals = <<op.val>>
  <2>1. <<op.val>> \in Seq(Vals)
    BY <1>2
  <2> QED BY <1>2, <1>6, <2>1 DEF NewEntry, NewGroup, Entry
<1> HIDE DEF e
<1>8. ASSUME NEW x \in Live \cup L PROVE ~SameEntry(e, x)
  <2>1. x.group \in DOMAIN bitmap[x.key]
    BY DEF Assigned
  <2> QED BY <1>6, <1>7, <2>1 DEF SameEntry
<1>9. e \notin Live /\ e \notin stash
  BY <1>8, InLive DEF SameEntry
<1>10. height = 0 /\ record = {} /\ write_back = [h \in Heights |-> {}]
  BY <1>1 DEF PhaseInv
<1>11. stash' = stash \cup {e} /\ stash_num' = stash_num + 1 /\ height' = 0 /\ record' = {}
  BY <1>4 DEF PutInStash, ReadPath
<1>12. Resting' = Resting
  BY <1>1, <1>10, <1>11, SamePath
<1>13. Live' = Live \cup {e}
  <2>1. UNCHANGED <<data, write_back>>
    BY <1>1 DEF fileVars, evictVars
  <2>2. \A x : x \in Live' <=> x \in Live \cup {e}
    BY <1>10, <1>11, <1>12, <2>1, InLive
  <2> QED BY <2>2
<1>14. /\ Cardinality(Live') = Cardinality(Live) + 1 /\ IsFiniteSet(Live')
       /\ Cardinality(stash') = Cardinality(stash) + 1 /\ Cardinality(stash) \in Nat
  BY <1>9, <1>11, <1>13, FinitePlaces, Counting
<1>15. Overwritten' = Overwritten
  BY <1>11, <1>14 DEF Overwritten, TreeInv, TypeOK, StashTypes
<1>16. ~(group <= Len(bitmap[op.key]))
  BY <1>1 DEF MoreGroups
<1> QED BY <1>1, <1>2, <1>4, <1>5, <1>7, <1>8, <1>9, <1>10, <1>12, <1>13, <1>14, <1>15, <1>16
           DEF fileVars, evictVars

LEMMA AddEntryPlaces ==
  ASSUME TreeInv, PhaseInv, NEW L, Account(L), Assigned(L), OnePlace, SlotInv, AddEntry
  PROVE  OnePlace'
<1>1. PICK e \in Entry :
         /\ \A x \in Live \cup L : ~SameEntry(e, x)
         /\ Live' = Live \cup {e} /\ e \notin Live
         /\ stash' = stash \cup {e} /\ record' = {} /\ Resting' = Resting
         /\ write_back = [h \in Heights |-> {}]
         /\ UNCHANGED <<data, write_back>>
  BY AddEntryEffect DEF PutInStash, ReadPath
<1>2. \A x, y \in Live' : SameEntry(x, y) => x = y
  BY <1>1 DEF OnePlace, SameEntry
<1>3. \A o \in Resting : e \notin data[o]
  BY <1>1, InLive
<1> QED BY <1>1, <1>2, <1>3 DEF OnePlace

(* The root is on every path: an entry finds no block only if that is full. *)
LEMMA RootFits ==
  ASSUME TreeInv, NEW L, Assigned(L), pc = "evict", NEW e \in Live, Fits(e) = {}
  PROVE  \E h \in Heights : write_back[h] # {}
<1> DEFINE r == tree_level - 1
           leaf == bitmap[e.key][e.group]
<1>1. tree_level \in Levels /\ flag \in Leaves(tree_level) /\ e.key \in Keys
        /\ e.group \in DOMAIN bitmap[e.key]
  BY LiveEntries DEF Assigned, Entry, TreeInv, TypeOK, TreeTypes, FlagsAreLeaves
<1>2. leaf \in Leaves(tree_level)
  BY <1>1 DEF TreeInv, FlagsAreLeaves
<1>3. r \in 0 .. tree_level - 1 /\ r \in Heights
  BY <1>1, LevelBounds, LevelAssumption DEF Heights
<1>4. NodeAt(leaf, r) = 2 /\ NodeAt(flag, r) = 2
  BY <1>1, <1>2, <1>3, PathInTree
<1>5. Covers(NodeAt(flag, r), r, leaf)
  BY <1>1, <1>2, <1>3, <1>4, CoversItsPath
<1>6. ~(Cardinality(write_back[r]) < ENTRYMAXNUM)
  BY <1>3, <1>5 DEF Fits
<1>7. write_back[r] # {}
  BY <1>6, FS_EmptySet, SizeAssumption
<1> QED BY <1>3, <1>7

LEMMA MoveEffect ==
  ASSUME TreeInv, PhaseInv, NEW L, Account(L), Assigned(L), OnePlace, BlockInv,
         EvictEntry, NEW e \in todo, NEW h \in Fits(e), MoveToBlock(e, h)
  PROVE  /\ h \in Heights /\ h < tree_level /\ e \in stash /\ e \in Entry
         /\ NodeAt(bitmap[e.key][e.group], h) = NodeAt(flag, h)
         /\ Cardinality(write_back[h]) < ENTRYMAXNUM
         /\ write_back' = [write_back EXCEPT ![h] = @ \cup {e}]
         /\ stash' = stash \ {e} /\ Cardinality(stash') = Cardinality(stash) - 1
         /\ tail' = (IF e = tail THEN None ELSE tail)
         /\ stash_num' = stash_num - 1 /\ Overwritten' = Overwritten
         /\ Resting' = Resting /\ Live' = Live
         /\ OnePlace'
<1>1. pc = "evict" /\ record = {} /\ todo \subseteq stash
        /\ UNCHANGED <<pc, treeVars, fileVars, callVars, pathVars>>
  BY DEF EvictEntry, PhaseInv
<1>2. e \in stash /\ e \in Entry /\ e \in Live
  BY <1>1, LiveEntries, InLive
<1>3. h \in 0 .. tree_level - 1 /\ Covers(NodeAt(flag, h), h, bitmap[e.key][e.group])
        /\ Cardinality(write_back[h]) < ENTRYMAXNUM
  BY DEF Fits
<1>4. tree_level \in Levels /\ flag \in Leaves(tree_level) /\ e.key \in Keys
        /\ e.group \in DOMAIN bitmap[e.key]
  BY <1>1, <1>2 DEF Assigned, Entry, TreeInv, TypeOK, TreeTypes, FlagsAreLeaves
<1>5. bitmap[e.key][e.group] \in Leaves(tree_level)
  BY <1>4 DEF TreeInv, FlagsAreLeaves
<1>6. h \in Heights /\ h < tree_level
  BY <1>3, <1>4, LevelBounds, LevelAssumption DEF Heights
<1>7. NodeAt(bitmap[e.key][e.group], h) = NodeAt(flag, h)
  BY <1>3, <1>4, <1>5, CoversItsPath
<1>8. /\ write_back' = [write_back EXCEPT ![h] = @ \cup {e}]
      /\ stash' = stash \ {e} /\ stash_num' = stash_num - 1
      /\ tail' = (IF e = tail THEN None ELSE tail)
  BY DEF MoveToBlock
<1>9. Cardinality(stash') = Cardinality(stash) - 1 /\ Cardinality(stash) \in Nat
  BY <1>2, <1>8, FinitePlaces, Counting
<1>10. Overwritten' = Overwritten
  BY <1>8, <1>9 DEF Overwritten, TreeInv, TypeOK, StashTypes
<1>11. Resting' = Resting /\ UNCHANGED <<data, record>>
  BY <1>1, SamePath DEF treeVars, pathVars, fileVars
<1>12. \A g \in Heights : write_back'[g] = (IF g = h THEN write_back[g] \cup {e} ELSE write_back[g])
  BY <1>6, <1>8 DEF TreeInv, TypeOK, EvictTypes
<1>13. Live' = Live
  <2>1. \A f : f \in Live' <=> f \in Live
    BY <1>2, <1>6, <1>8, <1>11, <1>12, InLive
  <2> QED BY <2>1
<1>14. /\ \A g \in Heights : e \notin write_back[g]
       /\ \A o \in Resting : e \notin data[o]
  BY <1>2 DEF OnePlace
<1>15. OnePlace'
  <2>1. \A g \in Heights : \A f \in write_back'[g] :
          /\ f \notin stash'
          /\ \A i \in Heights : f \in write_back'[i] => i = g
    <3> SUFFICES ASSUME NEW g \in Heights, NEW f \in write_back'[g]
                 PROVE  /\ f \notin stash'
                        /\ \A i \in Heights : f \in write_back'[i] => i = g
      OBVIOUS
    <3>1. CASE f = e
      BY <1>8, <1>12, <1>14, <3>1
    <3>2. CASE f # e
      BY <1>8, <1>12, <3>2 DEF OnePlace
    <3> QED BY <3>1, <3>2
  <2>2. \A o \in Resting' : \A f \in data'[o] :
          /\ f \notin stash' /\ f \notin record'
          /\ \A g \in Heights : f \notin write_back'[g]
          /\ \A p \in Resting' : f \in data'[p] => p = o
    BY <1>8, <1>11, <1>12, <1>14 DEF OnePlace
  <2>3. \A f \in stash' : f \notin record'
    BY <1>1, <1>11
  <2>4. \A f, g \in Live' : SameEntry(f, g) => f = g
    BY <1>13 DEF OnePlace
  <2> QED BY <2>1, <2>2, <2>3, <2>4 DEF OnePlace
<1> QED BY <1>2, <1>3, <1>6, <1>7, <1>8, <1>9, <1>10, <1>11, <1>13, <1>15

(* The blocks of the path become what write_back holds for their height.   *)
LEMMA FlushedBlock ==
  ASSUME TreeInv, PhaseInv, pc = "evict"
  PROVE  /\ Consumed = PathOffsets /\ Resting = FileOffsets(tree_level) \ PathOffsets
         /\ \A h \in 0 .. tree_level - 1 :
              /\ h \in Heights /\ Offset(NodeAt(flag, h)) \in PathOffsets
              /\ FlushedFile[Offset(NodeAt(flag, h))] = write_back[h]
         /\ \A o \in PathOffsets : \E h \in 0 .. tree_level - 1 :
              /\ h \in Heights /\ o = Offset(NodeAt(flag, h)) /\ FlushedFile[o] = write_back[h]
         /\ \A o \in Offsets \ PathOffsets : FlushedFile[o] = data[o]
<1>1. height = tree_level /\ tree_level \in Levels /\ flag \in Leaves(tree_level)
  BY DEF PhaseInv, TreeInv, TypeOK, TreeTypes, FlagsAreLeaves
<1>2. tree_level \in 1 .. LEVELMAX /\ 2^tree_level \in Nat
  <2>1. tree_level \in 1 .. LEVELMAX /\ tree_level \in 0 .. LEVELMAX
    BY <1>1, LevelBounds, LevelAssumption
  <2> QED BY <2>1, Powers
<1>3. Consumed = PathOffsets /\ Resting = FileOffsets(tree_level) \ PathOffsets
  BY <1>1, PathConsumed DEF Resting
<1>4. ASSUME NEW h \in 0 .. tree_level - 1
      PROVE  /\ h \in Heights /\ Offset(NodeAt(flag, h)) \in PathOffsets
             /\ FlushedFile[Offset(NodeAt(flag, h))] = write_back[h]
  <2> DEFINE o == Offset(NodeAt(flag, h))
             c == CHOOSE g \in 0 .. tree_level - 1 : o = Offset(NodeAt(flag, g))
  <2>1. o \in PathOffsets /\ o \in Offsets
    BY <1>1, PathInFile DEF PathOffsets
  <2>2. c \in 0 .. tree_level - 1 /\ o = Offset(NodeAt(flag, c))
    <3>1. \E g \in 0 .. tree_level - 1 : o = Offset(NodeAt(flag, g))
      OBVIOUS
    <3> HIDE DEF o
    <3> QED BY <3>1
  <2>3. c = h
    <3> HIDE DEF c
    <3>1. NodeAt(flag, c) \in 2 .. 2^tree_level /\ NodeAt(flag, h) \in 2 .. 2^tree_level
      BY <1>1, <2>2, PathInTree
    <3>2. NodeAt(flag, c) = NodeAt(flag, h)
      BY <1>2, <2>2, <3>1, OffsetsDiffer
    <3> QED BY <1>1, <1>2, <2>2, <3>2, PathInjective
  <2>4. FlushedFile[o] = write_back[c]
    BY <2>1 DEF FlushedFile
  <2>5. h \in Heights
    BY <1>2, LevelAssumption DEF Heights
  <2> HIDE DEF o, c
  <2>6. FlushedFile[o] = write_back[h]
    BY <2>3, <2>4
  <2> QED BY <2>1, <2>5, <2>6 DEF o
<1>5. ASSUME NEW o \in PathOffsets
      PROVE  \E h \in 0 .. tree_level - 1 :
               /\ h \in Heights /\ o = Offset(NodeAt(flag, h)) /\ FlushedFile[o] = write_back[h]
  BY <1>4 DEF PathOffsets
<1>6. \A o \in Offsets \ PathOffsets : FlushedFile[o] = data[o]
  BY DEF FlushedFile
<1> QED BY <1>3, <1>4, <1>5, <1>6

(* The three ends of a write-back: what becomes of the file.               *)
Flushes == WriteBack \/ WriteBackAndResize \/ ResizeOverflows

LEMMA GrownFile ==
  ASSUME TreeInv, PhaseInv, Flushes
  PROVE  /\ pc = "evict" /\ todo = {} /\ pc' \in {"loop", "alias"}
         /\ height' = 0 /\ record' = {} /\ write_back' = [h \in Heights |-> {}]
         /\ todo' = {} /\ group' = group + 1
         /\ UNCHANGED <<pair_number, stash, stash_num, tail, op, success, ret_val>>
         /\ tree_level' \in Levels /\ Resting' = FileOffsets(tree_level')
         /\ Resting' \subseteq Offsets
         /\ FileOffsets(tree_level) \subseteq Resting'
         /\ \A o \in FileOffsets(tree_level) : data'[o] = FlushedFile[o]
         /\ \A o \in Resting' \ FileOffsets(tree_level) : data'[o] = {}
         /\ \A o \in Offsets : data'[o] = {} \/ data'[o] = FlushedFile[o]
<1>1. /\ pc = "evict" /\ todo = {} /\ pc' \in {"loop", "alias"} /\ EndAccess
      /\ UNCHANGED <<pair_number, stash, stash_num, tail, op, success, ret_val>>
  BY DEF Flushes, WriteBack, WriteBackAndResize, ResizeOverflows, stashVars, treeVars
<1>2. height' = 0 /\ record' = {} /\ write_back' = [h \in Heights |-> {}]
        /\ todo' = {} /\ group' = group + 1
  BY <1>1 DEF EndAccess
<1>3. Resting' = FileOffsets(tree_level')
  BY <1>2, NothingConsumed DEF Resting
<1>4. tree_level \in Levels
  BY DEF TreeInv, TypeOK, TreeTypes
<1>5. CASE WriteBack \/ ResizeOverflows
  <2>1. tree_level' = tree_level /\ data' = FlushedFile
    BY <1>5 DEF WriteBack, ResizeOverflows, treeVars
  <2>2. FileOffsets(tree_level) \subseteq Offsets
    BY <1>4, FileGrows DEF Offsets
  <2> QED BY <1>1, <1>2, <1>3, <1>4, <2>1, <2>2
<1>6. CASE WriteBackAndResize
  <2>1. /\ tree_level < LEVELMAX /\ tree_level' = tree_level + 1
        /\ data' = NullBlocks(NewBlocks(tree_level + 1), FlushedFile)
    BY <1>6 DEF WriteBackAndResize
  <2>2. tree_level' \in Levels
    BY <1>4, <2>1, LevelBounds
  <2> DEFINE New == NewBlocks(tree_level + 1)
  <2>3. /\ FileOffsets(tree_level') = FileOffsets(tree_level) \cup New
        /\ FileOffsets(tree_level') \subseteq Offsets
        /\ \A o \in FileOffsets(tree_level) : o \notin New
    <3>1. New = 2^tree_level - 1 .. 2^(tree_level + 1) - 2
      <4>1. (tree_level + 1) - 1 = tree_level
        BY <1>4, LevelBounds
      <4> QED BY <4>1 DEF NewBlocks
    <3>2. 2^tree_level \in Nat
      BY <1>4, LevelBounds, Powers
    <3>3. \A o \in FileOffsets(tree_level) : o \notin New
      <4> DEFINE p == 2^tree_level
                 q == 2^(tree_level + 1)
      <4>1. FileOffsets(tree_level) = 0 .. p - 2 /\ New = p - 1 .. q - 2
        BY <3>1 DEF FileOffsets
      <4>2. p \in Nat /\ q \in Nat
        BY <1>4, <2>1, <3>2, LevelBounds, Powers
      <4> HIDE DEF p, q, New
      <4> QED BY <4>1, <4>2
    <3> QED BY <1>4, <2>1, <2>2, <3>1, <3>3, FileGrows DEF Offsets
  <2> HIDE DEF New
  <2>4. \A o \in Offsets : data'[o] = (IF o \in New THEN {} ELSE FlushedFile[o])
    BY <2>1 DEF NullBlocks, New
  <2> QED BY <1>1, <1>2, <1>3, <2>2, <2>3, <2>4
<1> QED BY <1>5, <1>6 DEF Flushes

(* Where an entry in the written file comes from.                          *)
LEMMA FlushedFrom ==
  ASSUME TreeInv, PhaseInv, Flushes, NEW o \in Resting', NEW e \in data'[o]
  PROVE  /\ o \in FileOffsets(tree_level)
         /\ \/ \E h \in 0 .. tree_level - 1 :
                 h \in Heights /\ o = Offset(NodeAt(flag, h)) /\ e \in write_back[h]
            \/ o \in Resting /\ e \in data[o]
<1>1. o \in FileOffsets(tree_level) /\ e \in FlushedFile[o] /\ o \in Offsets /\ pc = "evict"
  BY GrownFile
<1>2. CASE o \in PathOffsets
  BY <1>1, <1>2, FlushedBlock
<1>3. CASE o \notin PathOffsets
  BY <1>1, <1>3, FlushedBlock
<1> QED BY <1>1, <1>2, <1>3

LEMMA FlushPlaces ==
  ASSUME TreeInv, PhaseInv, OnePlace, BlockInv, Flushes
  PROVE  Live' = Live /\ Overwritten' = Overwritten /\ OnePlace' /\ BlockInv'
<1>1. /\ pc = "evict" /\ height' = 0 /\ record' = {} /\ write_back' = [h \in Heights |-> {}]
      /\ UNCHANGED <<stash, stash_num>> /\ record = {}
      /\ \A o \in FileOffsets(tree_level) : o \in Resting' /\ data'[o] = FlushedFile[o]
      /\ \A o \in Offsets : data'[o] = {} \/ data'[o] = FlushedFile[o]
  BY GrownFile DEF PhaseInv
<1>2. ASSUME NEW e \in Live PROVE e \in Live'
  <2>1. CASE e \in stash
    BY <1>1, <2>1, InLive
  <2>2. ASSUME NEW h \in Heights, e \in write_back[h] PROVE e \in Live'
    <3>1. h \in 0 .. tree_level - 1
      <4>1. h \in Nat /\ h < tree_level /\ tree_level \in Nat
        BY <1>1, <2>2, LevelBounds, LevelAssumption
           DEF PhaseInv, Heights, TreeInv, TypeOK, TreeTypes
      <4> QED BY <4>1
    <3> DEFINE o == Offset(NodeAt(flag, h))
    <3>2. o \in PathOffsets /\ FlushedFile[o] = write_back[h]
      BY <1>1, <3>1, FlushedBlock
    <3>3. o \in FileOffsets(tree_level)
      BY <1>1, <3>2, FlushTypes
    <3> HIDE DEF o
    <3> QED BY <1>1, <2>2, <3>2, <3>3, InLive
  <2>3. ASSUME NEW o \in Resting, e \in data[o] PROVE e \in Live'
    <3>1. o \in FileOffsets(tree_level) /\ o \notin PathOffsets /\ o \in Offsets
      BY <1>1, FlushedBlock, LiveEntries
    <3>2. FlushedFile[o] = data[o]
      BY <1>1, <3>1, FlushedBlock
    <3> QED BY <1>1, <2>3, <3>1, <3>2, InLive
  <2> QED BY <1>1, <2>1, <2>2, <2>3, InLive
<1>3. ASSUME NEW e \in Live' PROVE e \in Live
  <2>1. CASE e \in stash'
    BY <1>1, <2>1, InLive
  <2>2. ASSUME NEW o \in Resting', e \in data'[o] PROVE e \in Live
    BY <2>2, FlushedFrom, InLive
  <2> QED BY <1>1, <2>1, <2>2, InLive
<1>4. Live' = Live
  BY <1>2, <1>3
<1>5. Overwritten' = Overwritten
  BY <1>1 DEF Overwritten
<1>6. OnePlace'
  <2>1. ASSUME NEW o \in Resting', NEW e \in data'[o]
        PROVE  e \notin stash' /\ \A p \in Resting' : e \in data'[p] => p = o
    <3>1. e \notin stash'
      BY <1>1, FlushedFrom DEF OnePlace
    <3>2. ASSUME NEW p \in Resting', e \in data'[p] PROVE p = o
      <4>1. \/ \E h \in Heights : o = Offset(NodeAt(flag, h)) /\ e \in write_back[h]
            \/ o \in Resting /\ e \in data[o]
        BY FlushedFrom
      <4>2. \/ \E h \in Heights : p = Offset(NodeAt(flag, h)) /\ e \in write_back[h]
            \/ p \in Resting /\ e \in data[p]
        BY <3>2, FlushedFrom
      <4> QED BY <4>1, <4>2 DEF OnePlace
    <3> QED BY <3>1, <3>2
  <2> QED BY <1>1, <1>4, <2>1 DEF OnePlace
<1>7. BlockInv'
  <2>1. ASSUME NEW o \in Offsets
        PROVE  IsFiniteSet(data'[o]) /\ Cardinality(data'[o]) <= ENTRYMAXNUM
    <3>1. CASE data'[o] = {}
      BY <3>1, FS_EmptySet, SizeAssumption
    <3>2. CASE data'[o] = FlushedFile[o] /\ o \in PathOffsets
      BY <1>1, <3>2, FlushedBlock DEF BlockInv
    <3>3. CASE data'[o] = FlushedFile[o] /\ o \notin PathOffsets
      BY <1>1, <3>3, FlushedBlock DEF BlockInv
    <3> QED BY <1>1, <3>1, <3>2, <3>3
  <2>2. ASSUME NEW h \in Heights
        PROVE  IsFiniteSet(write_back'[h]) /\ Cardinality(write_back'[h]) <= ENTRYMAXNUM
    BY <1>1, FS_EmptySet, SizeAssumption
  <2> QED BY <2>1, <2>2 DEF BlockInv
<1> QED BY <1>4, <1>5, <1>6, <1>7

-----------------------------------------------------------------------------
(* The steps that move no entry keep most of the invariant.                *)

SameGroups ==
  \A k \in Keys \ JustKeys : Len(bitmap'[k]) = Len(bitmap[k]) /\ DOMAIN bitmap'[k] = DOMAIN bitmap[k]

LEMMA FillKept ==
  ASSUME TreeInv, GroupsFillInOrder, Live' \subseteq Live, SameGroups
  PROVE  GroupsFillInOrder'
<1> SUFFICES ASSUME NEW e \in Live', e.key \notin JustKeys
             PROVE  /\ Len(e.vals) \in 1 .. VALMAXNUM
                    /\ e.group < Len(bitmap'[e.key]) => Len(e.vals) = VALMAXNUM
  BY DEF GroupsFillInOrder
<1>1. e \in Live /\ e.key \in Keys \ JustKeys
  BY LiveEntries DEF Entry
<1> QED BY <1>1 DEF GroupsFillInOrder, SameGroups

LEMMA SameBitmap ==
  UNCHANGED bitmap => KeepsFlags /\ SameGroups
BY DEF KeepsFlags, SameGroups

LEMMA CalmStep ==
  ASSUME TreeInv, NEW L, PlaceInv(L), SamePlaces, UNCHANGED <<tree_level, pair_number, stash_num>>,
         KeepsFlags, SameGroups, flag' = flag \/ pc # "evict"
  PROVE  /\ OnePlace' /\ Account(L)' /\ Assigned(L)' /\ PathInvariant' /\ BlockInv'
         /\ Live' = Live /\ Overwritten' = Overwritten /\ GroupsFillInOrder'
         /\ pc' # "null_entry" => OwnedInv(L)'
<1>1. Live' = Live /\ OnePlace' /\ BlockInv'
  BY SamePlacesKeep DEF PlaceInv
<1>2. Overwritten' = Overwritten
  BY DEF SamePlaces, Overwritten
<1>3. Account(L)'
  BY <1>1, <1>2, AccountKept DEF PlaceInv
<1>4. \A e \in Live : SameEntry(e, e)
  BY DEF SameEntry
<1>5. Assigned(L)'
  <2>1. \A k \in Keys : DOMAIN bitmap[k] \subseteq DOMAIN bitmap'[k]
    BY DEF KeepsFlags
  <2> QED BY <1>1, <1>4, <2>1, LiveEntries, AssignedKept DEF PlaceInv
<1>6. PathInvariant'
  <2>1. flag' = flag \/ \A h \in Heights : write_back[h] = {}
    BY DEF PlaceInv, PhaseInv
  <2> QED BY <2>1, PathKept DEF PlaceInv, SamePlaces
<1>7. GroupsFillInOrder'
  BY <1>1, FillKept DEF PlaceInv, ScanInv
<1>8. ASSUME pc' # "null_entry" PROVE OwnedInv(L)'
  <2>1. \A k \in Keys \ JustKeys : DOMAIN bitmap'[k] \subseteq DOMAIN bitmap[k]
    BY DEF SameGroups
  <2> QED BY <1>1, <1>2, <1>4, <1>8, <2>1, OwnedKept DEF PlaceInv
<1> QED BY <1>1, <1>2, <1>3, <1>5, <1>6, <1>7, <1>8

(* Calm steps outside the write-back.                                      *)
Quiet ==
  /\ UNCHANGED <<stash, stash_num, tail, data, write_back, tree_level, pair_number, record>>
  /\ Resting' = Resting /\ UNCHANGED height
  /\ KeepsFlags /\ SameGroups
  /\ pc # "evict" /\ pc' # "evict"

LEMMA QuietStep ==
  ASSUME TreeInv, NEW L, PlaceInv(L), Quiet,
         pc' \in {"created", "idle", "loop", "alias"} => pc \in {"created", "idle", "loop"},
         pc' = "read" => pc = "loop" \/ pc = "read"
  PROVE  /\ OnePlace' /\ Account(L)' /\ Assigned(L)' /\ PathInvariant' /\ BlockInv'
         /\ Live' = Live /\ Overwritten' = Overwritten /\ GroupsFillInOrder'
         /\ SlotInv' /\ RoomInv'
         /\ pc' # "null_entry" => OwnedInv(L)'
<1>1. SamePlaces
  BY DEF Quiet, SamePlaces
<1>2. SlotInv'
  <2>1. pc \in {"created", "idle", "loop"} => Cardinality(stash) < STASHMAXSIZE
    <3>1. pc = "created" => Cardinality(stash) = 0
      BY FS_EmptySet DEF PlaceInv, PhaseInv
    <3> QED BY <3>1, SizeAssumption DEF PlaceInv, SlotInv
  <2> QED BY <2>1 DEF PlaceInv, SlotInv, Quiet
<1>3. RoomInv'
  <2>1. LeafLevelEmpty' <=> LeafLevelEmpty
    BY DEF Quiet, LeafLevelEmpty
  <2>2. CASE pc' \in {"created", "idle", "loop"}
    BY <2>1, <2>2 DEF PlaceInv, RoomInv, Quiet
  <2>3. CASE pc' = "read" /\ pc = "read"
    BY <2>1, <2>3 DEF PlaceInv, RoomInv, Quiet
  <2>4. CASE pc' = "read" /\ pc = "loop"
    <3>1. height' = 0 /\ record' = {} /\ tree_level - height' = tree_level
      BY <2>4, LevelBounds DEF Quiet, PlaceInv, PhaseInv, TreeInv, TypeOK, TreeTypes
    <3>2. Cardinality(record') = 0
      BY <3>1, FS_EmptySet
    <3>3. stash_num \in Int /\ tree_level * ENTRYMAXNUM \in Int /\ STASHMAXSIZE \in Int
      BY LevelBounds, SizeAssumption DEF TreeInv, TypeOK, TreeTypes, StashTypes
    <3>4. LeafLevelEmpty \/ stash_num + tree_level * ENTRYMAXNUM < STASHMAXSIZE
      BY <2>4 DEF PlaceInv, RoomInv
    <3>5. LeafLevelEmpty \/ stash_num + 0 + tree_level * ENTRYMAXNUM <= STASHMAXSIZE
      BY <3>3, <3>4
    <3> QED BY <2>1, <2>4, <3>1, <3>2, <3>5 DEF RoomInv, Quiet
  <2> QED BY <2>2, <2>3, <2>4 DEF RoomInv
<1>4. UNCHANGED <<tree_level, pair_number, stash_num>> /\ KeepsFlags /\ SameGroups /\ pc # "evict"
  BY DEF Quiet
<1> QED BY <1>1, <1>2, <1>3, <1>4, CalmStep

-----------------------------------------------------------------------------
(* The calls.                                                              *)

LEMMA OramInitPlaceInv == ASSUME TreeInv, NEW L, PlaceInv(L), OramInit PROVE PlaceInv(L)'
<1>1. /\ pc = "created" /\ pc' = "idle"
      /\ UNCHANGED <<treeVars, stashVars, callVars, pathVars, evictVars>>
      /\ data = [o \in Offsets |-> {}] /\ data' = NullBlocks(FileOffsets(tree_level), data)
  BY DEF OramInit, PlaceInv, PhaseInv
<1>2. data' = data
  BY <1>1 DEF NullBlocks
<1>3. /\ UNCHANGED <<stash, stash_num, tail, data, write_back, tree_level, pair_number, record>>
      /\ UNCHANGED <<height, flag, bitmap>>
  BY <1>1, <1>2 DEF treeVars, stashVars, pathVars, evictVars
<1>4. Quiet
  BY <1>1, <1>3, SamePath, SameBitmap DEF Quiet
<1>5. PhaseInv'
  BY <1>1, <1>3 DEF PlaceInv, PhaseInv
<1>6. ScanInv'
  BY <1>1, <1>4, QuietStep DEF ScanInv, Running
<1> QED BY <1>1, <1>4, <1>5, <1>6, QuietStep DEF PlaceInv

LEMMA CallPlaceInv ==
  ASSUME TreeInv, NEW L, PlaceInv(L), NEW c, Call(c)
  PROVE  PlaceInv(L)'
<1>1. /\ pc = "idle" /\ pc' = "loop" /\ group' = 1
      /\ UNCHANGED <<stash, stash_num, tail, data, write_back, tree_level, pair_number, record>>
      /\ UNCHANGED <<height, flag, bitmap>>
  BY DEF Call, treeVars, stashVars, fileVars, pathVars, evictVars
<1>2. Quiet
  BY <1>1, SamePath, SameBitmap DEF Quiet
<1>3. PhaseInv'
  BY <1>1 DEF PlaceInv, PhaseInv
<1>4. ScanInv'
  <2>1. \A e \in Live' : ~(e.group < group')
    BY <1>1, <1>2, QuietStep, LiveEntries DEF Entry
  <2> QED BY <1>1, <1>2, <2>1, QuietStep DEF ScanInv
<1> QED BY <1>1, <1>2, <1>3, <1>4, QuietStep DEF PlaceInv

LEMMA JustAddBitmapPlaceInv ==
  ASSUME TreeInv, NEW L, PlaceInv(L), NEW k \in JustKeys, JustAddBitmap(k)
  PROVE  PlaceInv(L)'
<1>1. /\ pc = "idle" /\ pc' = "idle"
      /\ UNCHANGED <<stash, stash_num, tail, data, write_back, tree_level, pair_number, record>>
      /\ UNCHANGED <<height, flag>>
  BY DEF JustAddBitmap, stashVars, fileVars, pathVars, evictVars
<1>2. PICK f \in Leaves(tree_level) : bitmap' = [bitmap EXCEPT ![k] = Append(@, f)]
  BY DEF JustAddBitmap
<1>3. f \in Int /\ k \in Keys
  BY LeavesAreInt, SizeAssumption DEF TreeInv, TypeOK, TreeTypes
<1>4. KeepsFlags /\ SameGroups
  BY <1>2, <1>3, AppendKeepsFlags DEF SameGroups
<1>5. Quiet
  BY <1>1, <1>4, SamePath DEF Quiet
<1>6. PhaseInv'
  BY <1>1 DEF PlaceInv, PhaseInv
<1>7. ScanInv'
  BY <1>1, <1>5, QuietStep DEF ScanInv, Running
<1> QED BY <1>1, <1>5, <1>6, <1>7, QuietStep DEF PlaceInv

LEMMA StartAccessPlaceInv ==
  ASSUME TreeInv, NEW L, PlaceInv(L), StartAccess
  PROVE  PlaceInv(L)'
<1>1. /\ pc = "loop" /\ pc' = "read" /\ flag' = bitmap[op.key][group] /\ height' = 0
      /\ record' = {}
      /\ UNCHANGED <<stash, stash_num, tail, data, write_back, tree_level, pair_number>>
      /\ UNCHANGED <<bitmap, op, group, success>>
  BY DEF StartAccess, ReadPath, treeVars, stashVars, fileVars, callVars, evictVars
<1>2. height = 0 /\ record = {}
  BY <1>1 DEF PlaceInv, PhaseInv
<1>3. Quiet
  BY <1>1, <1>2, SamePath, SameBitmap DEF Quiet
<1>4. PhaseInv'
  BY <1>1 DEF PlaceInv, PhaseInv
<1>5. ScanInv'
  BY <1>1, <1>3, QuietStep DEF PlaceInv, ScanInv, Running
<1> QED BY <1>1, <1>3, <1>4, <1>5, QuietStep DEF PlaceInv

LEMMA ReturnPlaceInv ==
  ASSUME TreeInv, NEW L, PlaceInv(L), ReturnRead \/ ReturnWrite
  PROVE  PlaceInv(L)'
<1>1. /\ pc = "loop" /\ pc' = "idle"
      /\ UNCHANGED <<stash, stash_num, tail, data, write_back, tree_level, pair_number, record>>
      /\ UNCHANGED <<height, flag, bitmap>>
  BY DEF ReturnRead, ReturnWrite, EndCall, treeVars, stashVars, fileVars, pathVars, evictVars
<1>2. Quiet
  BY <1>1, SamePath, SameBitmap DEF Quiet
<1>3. PhaseInv'
  BY <1>1 DEF PlaceInv, PhaseInv
<1>4. ScanInv'
  BY <1>1, <1>2, QuietStep DEF ScanInv, Running
<1> QED BY <1>1, <1>2, <1>3, <1>4, QuietStep DEF PlaceInv

-----------------------------------------------------------------------------
(* get_entry comes back with NULL.                                         *)

(* An entry whose path has been read is not left in the file.              *)
LEMMA NotLeftBehind ==
  ASSUME TreeInv, NEW L, PlaceInv(L), Accessing, ~success, NEW e \in Live,
         e.key = op.key, e.group = group
  PROVE  e \in Found
<1>1. pc = "read" /\ record = {} /\ height = tree_level /\ flag = bitmap[op.key][group]
        /\ write_back = [h \in Heights |-> {}]
  BY WholePath DEF Accessing, PlaceInv, PhaseInv
<1>2. ASSUME NEW o \in Resting, e \in data[o] PROVE FALSE
  <2>1. PICK h \in 0 .. tree_level - 1 : o = Offset(NodeAt(bitmap[e.key][e.group], h))
    BY <1>2 DEF PlaceInv, PathInvariant
  <2>2. o \in Consumed
    BY <1>1, <2>1 DEF Consumed
  <2> QED BY <2>2 DEF Resting
<1>3. e \in stash
  BY <1>1, <1>2, InLive
<1> QED BY <1>3 DEF Found

LEMMA DiePlaceInv ==
  ASSUME TreeInv, NEW L, PlaceInv(L), MissingEntry \/ OverrunReply
  PROVE  PlaceInv(L)'
<1>1. /\ pc = "read" /\ pc' \in {"null_entry", "overrun"}
      /\ UNCHANGED <<stash, stash_num, tail, data, write_back, tree_level, pair_number, record>>
      /\ UNCHANGED <<height, flag, bitmap, op, group>>
  BY DEF MissingEntry, OverrunReply, Accessing, Die, treeVars, stashVars, fileVars, callVars,
         pathVars, evictVars
<1>2. Quiet
  BY <1>1, SamePath, SameBitmap DEF Quiet
<1>3. PhaseInv'
  BY <1>1 DEF PlaceInv, PhaseInv
<1>4. ScanInv'
  BY <1>1, <1>2, QuietStep DEF ScanInv, Running
<1>5. OwnedInv(L)'
  <2>1. CASE OverrunReply
    BY <1>1, <1>2, <2>1, QuietStep DEF OverrunReply, Die
  <2>2. CASE MissingEntry
    <3>1. \A k \in Keys \ JustKeys : \A i \in DOMAIN bitmap[k] :
            Overwritten > 0 \/ \E e \in Live \cup L : e.key = k /\ e.group = i
      BY DEF PlaceInv, OwnedInv
    <3>2. ASSUME op.key \notin JustKeys, ~(Overwritten > 0)
          PROVE  \E e \in L : e.key = op.key /\ e.group = group
      <4>1. Accessing /\ ~success /\ Found = {}
        BY <2>2 DEF MissingEntry
      <4>2. op.key \in Keys \ JustKeys /\ group \in DOMAIN bitmap[op.key]
        <5>1. op.key \in Keys /\ group \in 1 .. Len(bitmap[op.key])
          BY <4>1, AccessedGroup
        <5>2. bitmap[op.key] \in Seq(Int)
          BY <5>1 DEF TreeInv, TypeOK, TreeTypes
        <5> QED BY <3>2, <5>1, <5>2, LenProperties
      <4>3. PICK e \in Live \cup L : e.key = op.key /\ e.group = group
        BY <3>1, <3>2, <4>2
      <4> QED BY <4>1, <4>3, NotLeftBehind
    <3>3. ASSUME NEW e \in Live, e.key = op.key, e.group = group PROVE FALSE
      BY <2>2, <3>3, NotLeftBehind DEF MissingEntry
    <3>4. Live' = Live /\ Overwritten' = Overwritten /\ UNCHANGED <<bitmap, op, group>>
      BY <1>1, <1>2, QuietStep
    <3> QED BY <3>1, <3>2, <3>3, <3>4 DEF OwnedInv
  <2> QED BY <2>1, <2>2
<1> QED BY <1>1, <1>2, <1>3, <1>4, <1>5, QuietStep DEF PlaceInv

-----------------------------------------------------------------------------
(* A new entry.                                                            *)

LEMMA AddEntryPlaceInv == ASSUME TreeInv, NEW L, PlaceInv(L), AddEntry PROVE PlaceInv(L)'
<1>1. PhaseInv /\ OnePlace /\ Account(L) /\ Assigned(L) /\ SlotInv /\ PathInvariant
        /\ BlockInv /\ RoomInv /\ ScanInv /\ OwnedInv(L)
  BY DEF PlaceInv
<1>2. PICK e \in Entry, f \in Leaves(tree_level) :
        /\ pc = "loop" /\ op.type = "write" /\ op \in Op /\ op.key \in Keys /\ ~success
        /\ ~(group <= Len(bitmap[op.key]))
        /\ e.key = op.key /\ e.group = Len(bitmap[op.key]) + 1 /\ e.vals = <<op.val>>
        /\ f \in Int /\ bitmap' = [bitmap EXCEPT ![op.key] = Append(@, f)]
        /\ PutInStash(e) /\ ReadPath(f)
        /\ \A x \in Live \cup L : ~SameEntry(e, x)
        /\ Live' = Live \cup {e} /\ e \notin Live /\ e \notin stash
        /\ Cardinality(Live') = Cardinality(Live) + 1 /\ IsFiniteSet(Live')
        /\ Cardinality(stash') = Cardinality(stash) + 1 /\ Overwritten' = Overwritten
        /\ Resting' = Resting /\ height = 0 /\ record = {}
        /\ write_back = [h \in Heights |-> {}]
        /\ UNCHANGED <<tree_level, data, write_back, op, group>>
  BY <1>1, AddEntryEffect
<1>3. /\ stash' = stash \cup {e} /\ tail' = (IF OnlyTailFree THEN e ELSE tail)
      /\ stash_num' = stash_num + 1 /\ pair_number' = pair_number + 1 /\ success' = TRUE
      /\ pc' = "read" /\ height' = 0 /\ record' = {}
  BY <1>2 DEF PutInStash, ReadPath
<1>4. /\ KeepsFlags
      /\ Len(bitmap[op.key]) \in Nat /\ DOMAIN bitmap[op.key] = 1 .. Len(bitmap[op.key])
      /\ DOMAIN bitmap'[op.key] = 1 .. Len(bitmap[op.key]) + 1
      /\ Len(bitmap'[op.key]) = Len(bitmap[op.key]) + 1
      /\ \A j \in Keys \ {op.key} : bitmap'[j] = bitmap[j]
  BY <1>2, AppendKeepsFlags
<1>5. /\ stash_num \in Int /\ pair_number \in Nat /\ Cardinality(Live) \in Nat
      /\ Cardinality(stash) \in Nat /\ Cardinality(L) \in Nat /\ STASHMAXSIZE \in Nat
      /\ Overwritten \in Int
  BY <1>1, FinitePlaces, FS_CardinalityType, SizeAssumption
     DEF TreeInv, TypeOK, TreeTypes, StashTypes, Account, Overwritten
<1>6. PhaseInv'
  BY <1>2, <1>3 DEF PhaseInv
<1>7. OnePlace'
  BY <1>1, AddEntryPlaces
<1>8. Account(L)'
  <2>1. \A x \in Live', y \in L : ~SameEntry(x, y)
    BY <1>1, <1>2 DEF Account
  <2>2. pair_number' = Cardinality(Live') + Overwritten' + Cardinality(L)
    BY <1>1, <1>2, <1>3, <1>5 DEF Account
  <2> QED BY <1>1, <1>2, <2>1, <2>2 DEF Account
<1>9. Assigned(L)'
  <2>1. ASSUME NEW x \in Live \cup L PROVE x.group \in DOMAIN bitmap'[x.key]
    BY <1>1, <1>4, LiveEntries DEF Assigned, Entry, KeepsFlags
  <2>2. e.group \in DOMAIN bitmap'[e.key]
    BY <1>2, <1>4
  <2> QED BY <1>1, <1>2, <2>1, <2>2 DEF Assigned
<1>10. SlotInv'
  <2>1. CASE OnlyTailFree
    BY <1>2, <1>3, <1>5, <2>1, NoneAssumption DEF OnlyTailFree, SlotInv
  <2>2. CASE ~OnlyTailFree
    <3>1. Cardinality(stash) < STASHMAXSIZE /\ tail' = tail
      BY <1>1, <1>2, <1>3, <2>2 DEF SlotInv
    <3>2. tail = None => Cardinality(stash) + 1 <= STASHMAXSIZE - 1
      BY <1>5, <2>2, <3>1 DEF OnlyTailFree
    <3> QED BY <1>1, <1>2, <1>3, <1>5, <3>1, <3>2 DEF SlotInv
  <2> QED BY <2>1, <2>2
<1>11. PathInvariant'
  BY <1>1, <1>2, <1>4, PathKept
<1>12. BlockInv'
  BY <1>1, <1>2 DEF BlockInv
<1>13. RoomInv'
  <2>1. LeafLevelEmpty' <=> LeafLevelEmpty
    BY <1>2 DEF LeafLevelEmpty
  <2>2. Cardinality(record') = 0 /\ tree_level' - height' = tree_level
    BY <1>2, <1>3, FS_EmptySet, LevelBounds DEF TreeInv, TypeOK, TreeTypes
  <2>3. tree_level * ENTRYMAXNUM \in Int
    BY LevelBounds, SizeAssumption DEF TreeInv, TypeOK, TreeTypes
  <2>4. LeafLevelEmpty \/ stash_num + tree_level * ENTRYMAXNUM < STASHMAXSIZE
    BY <1>1, <1>2 DEF RoomInv
  <2>5. LeafLevelEmpty \/ (stash_num + 1) + 0 + tree_level * ENTRYMAXNUM <= STASHMAXSIZE
    BY <1>5, <2>3, <2>4
  <2> QED BY <1>3, <2>1, <2>2, <2>5 DEF RoomInv
<1>14. ScanInv'
  <2>1. ASSUME NEW x \in Live', x.key \notin JustKeys
        PROVE  /\ Len(x.vals) \in 1 .. VALMAXNUM
               /\ x.group < Len(bitmap'[x.key]) => Len(x.vals) = VALMAXNUM
    <3>1. CASE x = e
      <4>1. Len(x.vals) = 1
        BY <1>2, <3>1
      <4>2. ~(x.group < Len(bitmap'[x.key]))
        <5>1. x.group = Len(bitmap[op.key]) + 1 /\ x.key = op.key
          BY <1>2, <3>1
        <5> QED BY <1>4, <5>1
      <4> QED BY <4>1, <4>2, SizeAssumption
    <3>2. CASE x \in Live /\ x.key = op.key
      <4>1. x.group \in 1 .. Len(bitmap[op.key])
        BY <1>1, <1>4, <3>2 DEF Assigned
      <4>2. x.group < group
        BY <1>2, <1>4, <4>1 DEF TreeInv, TypeOK, CallTypes
      <4>3. Len(x.vals) = VALMAXNUM
        BY <1>1, <1>2, <2>1, <3>2, <4>2 DEF ScanInv, Running
      <4> QED BY <4>3, SizeAssumption
    <3>3. CASE x \in Live /\ x.key # op.key
      <4>1. x.key \in Keys /\ bitmap'[x.key] = bitmap[x.key]
        BY <1>4, <3>3, LiveEntries DEF Entry
      <4>2. GroupsFillInOrder
        BY <1>1 DEF ScanInv
      <4>3. /\ Len(x.vals) \in 1 .. VALMAXNUM
            /\ x.group < Len(bitmap[x.key]) => Len(x.vals) = VALMAXNUM
        BY <2>1, <3>3, <4>2 DEF GroupsFillInOrder
      <4> QED BY <4>1, <4>3
    <3> QED BY <1>2, <3>1, <3>2, <3>3
  <2> QED BY <1>3, <2>1 DEF ScanInv, GroupsFillInOrder
<1>15. OwnedInv(L)'
  <2>1. ASSUME NEW k \in Keys \ JustKeys, NEW i \in DOMAIN bitmap'[k]
        PROVE  Overwritten' > 0 \/ \E x \in Live' \cup L : x.key = k /\ x.group = i
    <3>1. CASE k = op.key /\ i = Len(bitmap[op.key]) + 1
      BY <1>2, <3>1
    <3>2. CASE i \in DOMAIN bitmap[k]
      BY <1>1, <1>2, <3>2 DEF OwnedInv
    <3> QED BY <1>4, <3>1, <3>2
  <2> QED BY <1>3, <2>1 DEF OwnedInv
<1> QED BY <1>6, <1>7, <1>8, <1>9, <1>10, <1>11, <1>12, <1>13, <1>14, <1>15 DEF PlaceInv

-----------------------------------------------------------------------------
(* The walk up the path.                                                   *)

LEMMA ReadBlockPlaceInv == ASSUME TreeInv, NEW L, PlaceInv(L), ReadBlock PROVE PlaceInv(L)'
<1>1. PhaseInv /\ OnePlace /\ Account(L) /\ Assigned(L) /\ SlotInv /\ PathInvariant
        /\ BlockInv /\ RoomInv /\ ScanInv /\ OwnedInv(L)
  BY DEF PlaceInv
<1>2. PICK o \in Resting :
        /\ pc = "read" /\ pc' = "read" /\ height' = height + 1
        /\ height \in 0 .. tree_level - 1
        /\ record = {} /\ record' = data[o] /\ Resting' = Resting \ {o}
        /\ UNCHANGED <<treeVars, stashVars, fileVars, callVars, flag, evictVars>>
  BY ReadBlockEffect
<1>3. UNCHANGED <<tree_level, pair_number, bitmap, stash, stash_num, tail, data, op, group, success,
                  write_back, flag>>
  BY <1>2 DEF treeVars, stashVars, fileVars, callVars, evictVars
<1>4. Live' = Live /\ OnePlace' /\ Overwritten' = Overwritten
  BY <1>1, <1>3, ReadBlockPlaces DEF Overwritten
<1>5. PhaseInv'
  BY <1>1, <1>2, <1>3 DEF PhaseInv
<1>6. Account(L)'
  BY <1>1, <1>3, <1>4, AccountKept
<1>7. KeepsFlags /\ SameGroups
  BY <1>3, SameBitmap
<1>8. Assigned(L)' /\ SlotInv' /\ BlockInv'
  BY <1>1, <1>2, <1>3, <1>4 DEF Assigned, SlotInv, BlockInv
<1>9. PathInvariant'
  BY <1>1, <1>2, <1>3, <1>7, PathKept
<1>10. RoomInv'
  <2> DEFINE n == tree_level - height
             m == tree_level - height'
             E == ENTRYMAXNUM
  <2>1. n \in Nat /\ m \in Nat /\ n = m + 1 /\ E \in Nat
    BY <1>2, <1>3, LevelBounds, SizeAssumption DEF TreeInv, TypeOK, TreeTypes
  <2>2. Cardinality(record) = 0 /\ Cardinality(record') \in Nat /\ Cardinality(record') <= E
    <3>1. o \in Offsets
      BY LiveEntries
    <3>2. IsFiniteSet(data[o]) /\ Cardinality(data[o]) <= ENTRYMAXNUM
      BY <1>1, <3>1 DEF BlockInv
    <3> QED BY <1>2, <3>2, FS_EmptySet, FS_CardinalityType
  <2>3. LeafLevelEmpty \/ stash_num + Cardinality(record) + n * E <= STASHMAXSIZE
    BY <1>1, <1>2 DEF RoomInv
  <2>4. LeafLevelEmpty' <=> LeafLevelEmpty
    BY <1>3 DEF LeafLevelEmpty
  <2>5. stash_num \in Int /\ STASHMAXSIZE \in Nat
    BY SizeAssumption DEF TreeInv, TypeOK, StashTypes
  <2> HIDE DEF n, m, E
  <2>6. n * E = m * E + E /\ m * E \in Nat
    BY <2>1
  <2>7. LeafLevelEmpty \/ stash_num + Cardinality(record') + m * E <= STASHMAXSIZE
    BY <2>1, <2>2, <2>3, <2>5, <2>6
  <2>8. LeafLevelEmpty' \/ stash_num' + Cardinality(record') + (tree_level' - height') * ENTRYMAXNUM <= STASHMAXSIZE
    BY <1>3, <2>4, <2>7 DEF m, E
  <2> QED BY <1>2, <2>8 DEF RoomInv
<1>11. ScanInv'
  <2>1. GroupsFillInOrder'
    BY <1>1, <1>4, <1>7, FillKept DEF ScanInv
  <2> QED BY <1>1, <1>2, <1>3, <1>4, <2>1 DEF ScanInv, Running
<1>12. OwnedInv(L)'
  BY <1>1, <1>2, <1>3, <1>4 DEF OwnedInv
<1> QED BY <1>4, <1>5, <1>6, <1>8, <1>9, <1>10, <1>11, <1>12 DEF PlaceInv

LEMMA LoadEntryPlaceInv == ASSUME TreeInv, NEW L, PlaceInv(L), LoadEntry PROVE PlaceInv(L)'
<1>1. PhaseInv /\ OnePlace /\ Account(L) /\ Assigned(L) /\ SlotInv /\ PathInvariant
        /\ BlockInv /\ RoomInv /\ ScanInv /\ OwnedInv(L)
  BY DEF PlaceInv
<1>2. /\ pc = "read" /\ stash_num' = stash_num + 1 /\ Resting' = Resting
      /\ UNCHANGED <<pc, treeVars, fileVars, callVars, flag, height, evictVars>>
  BY <1>1, LoadEntryEffect
<1>3. UNCHANGED <<pc, tree_level, pair_number, bitmap, data, op, group, success, write_back, flag,
                  height>>
  BY <1>2 DEF treeVars, fileVars, callVars, evictVars
<1>4. PICK e \in record : /\ record' = record \ {e} /\ e \notin stash /\ e # None
                          /\ Cardinality(record') = Cardinality(record) - 1
                          /\ Loaded(e) \/ LoadedOver(e)
  BY <1>1, LoadEntryEffect
<1>5. /\ stash_num \in Int /\ pair_number \in Nat /\ Cardinality(Live) \in Nat
      /\ Cardinality(stash) \in Nat /\ Cardinality(L) \in Nat /\ STASHMAXSIZE \in Nat
      /\ Cardinality(record) \in Nat /\ Overwritten \in Int /\ IsFiniteSet(Live)
  BY <1>1, FinitePlaces, FS_CardinalityType, SizeAssumption
     DEF TreeInv, TypeOK, TreeTypes, StashTypes, Account, Overwritten
<1>6. Live' \subseteq Live /\ \A x \in Live : SameEntry(x, x)
  BY <1>4 DEF Loaded, LoadedOver, SameEntry
<1>7. KeepsFlags /\ SameGroups
  BY <1>3, SameBitmap
<1>8. PhaseInv'
  BY <1>1, <1>2, <1>3 DEF PhaseInv
<1>9. OnePlace'
  BY <1>1, LoadEntryPlaces
<1>10. Account(L)'
  <2>1. CASE Loaded(e)
    BY <1>1, <1>3, <2>1, AccountKept DEF Loaded
  <2>2. CASE LoadedOver(e)
    <3>1. tail \in Live
      BY <2>2, InLive DEF LoadedOver
    <3>2. Cardinality(Live') = Cardinality(Live) - 1 /\ IsFiniteSet(Live')
      BY <1>5, <2>2, <3>1, Counting DEF LoadedOver
    <3>3. Overwritten' = Overwritten + 1
      BY <2>2 DEF LoadedOver
    <3>4. pair_number' = Cardinality(Live') + Overwritten' + Cardinality(L) /\ Overwritten' >= 0
      BY <1>1, <1>3, <1>5, <3>2, <3>3 DEF Account
    <3> QED BY <1>1, <1>6, <3>2, <3>4 DEF Account
  <2> QED BY <1>4, <2>1, <2>2
<1>11. Assigned(L)'
  BY <1>1, <1>3, <1>6, LiveEntries, AssignedKept
<1>12. SlotInv'
  <2>1. CASE Loaded(e)
    BY <1>1, <1>2, <1>3, <1>4, <2>1 DEF Loaded, SlotInv
  <2>2. CASE LoadedOver(e)
    BY <1>2, <1>3, <1>4, <1>5, <2>2 DEF LoadedOver, SlotInv
  <2> QED BY <1>4, <2>1, <2>2
<1>13. PathInvariant' /\ BlockInv'
  BY <1>1, <1>2, <1>3, <1>7, PathKept DEF BlockInv
<1>14. RoomInv'
  <2> DEFINE r == (tree_level - height) * ENTRYMAXNUM
  <2>1. r \in Int
    BY LevelBounds, SizeAssumption DEF TreeInv, TypeOK, TreeTypes, PathTypes
  <2>2. LeafLevelEmpty' <=> LeafLevelEmpty
    BY <1>3 DEF LeafLevelEmpty
  <2>3. LeafLevelEmpty \/ stash_num + Cardinality(record) + r <= STASHMAXSIZE
    BY <1>1, <1>2 DEF RoomInv
  <2> HIDE DEF r
  <2>4. LeafLevelEmpty \/ stash_num' + Cardinality(record') + r <= STASHMAXSIZE
    BY <1>2, <1>4, <1>5, <2>1, <2>3
  <2> QED BY <1>2, <1>3, <2>2, <2>4 DEF RoomInv, r
<1>15. ScanInv'
  <2>1. GroupsFillInOrder'
    BY <1>1, <1>6, <1>7, FillKept DEF ScanInv
  <2> QED BY <1>1, <1>2, <1>3, <1>6, <2>1 DEF ScanInv, Running
<1>16. OwnedInv(L)'
  <2>1. CASE Loaded(e)
    BY <1>1, <1>2, <1>3, <2>1 DEF Loaded, OwnedInv
  <2>2. CASE LoadedOver(e)
    <3>1. Overwritten' > 0
      BY <1>1, <1>5, <2>2 DEF LoadedOver, Account
    <3> QED BY <1>2, <1>3, <3>1 DEF OwnedInv
  <2> QED BY <1>4, <2>1, <2>2
<1> QED BY <1>8, <1>9, <1>10, <1>11, <1>12, <1>13, <1>14, <1>15, <1>16 DEF PlaceInv

(* An entry is lost in the stash only by an access of a tree just grown.   *)
LEMMA LoadOverGrown ==
  ASSUME TreeInv, NEW L, PlaceInv(L), LoadEntry, Overwritten' > Overwritten
  PROVE  LeafLevelEmpty
<1>1. Account(L) /\ OnePlace /\ SlotInv /\ RoomInv
  BY DEF PlaceInv
<1>2. pc = "read"
  BY DEF LoadEntry
<1>3. PICK e \in record : /\ Cardinality(record') = Cardinality(record) - 1
                          /\ Loaded(e) \/ LoadedOver(e)
  BY <1>1, LoadEntryEffect
<1>4. /\ Overwritten \in Int /\ Overwritten >= 0 /\ stash_num \in Int
      /\ Cardinality(stash) \in Nat /\ IsFiniteSet(record) /\ STASHMAXSIZE \in Nat
  BY <1>1, FinitePlaces, SizeAssumption
     DEF TreeInv, TypeOK, StashTypes, Account, Overwritten
<1>5. Cardinality(stash) = STASHMAXSIZE
  BY <1>3, <1>4 DEF Loaded, LoadedOver
<1>6. Cardinality(record) \in Nat /\ Cardinality(record) > 0
  BY <1>3, <1>4, Counting
<1> DEFINE r == (tree_level - height) * ENTRYMAXNUM
<1>7. r \in Nat
  <2>1. tree_level - height \in Nat
    BY <1>2, LevelBounds DEF TreeInv, TypeOK, TreeTypes, WalkInTree
  <2> QED BY <2>1, SizeAssumption
<1>8. LeafLevelEmpty \/ stash_num + Cardinality(record) + r <= STASHMAXSIZE
  BY <1>1, <1>2 DEF RoomInv
<1>9. stash_num >= STASHMAXSIZE
  BY <1>4, <1>5 DEF Overwritten
<1> HIDE DEF r
<1> QED BY <1>4, <1>6, <1>7, <1>8, <1>9

-----------------------------------------------------------------------------
(* The use of the entry, and the start of the write-back.                  *)

LEMMA BeginWriteBackPlaceInv ==
  ASSUME TreeInv, NEW L, PlaceInv(L), Accessing, NEW entries \in SUBSET Entry,
         Cardinality(entries) = Cardinality(stash), BeginWriteBack(entries)
  PROVE  PhaseInv' /\ SlotInv' /\ RoomInv' /\ BlockInv' /\ pc' \in {"evict", "no_heap"}
<1>1. PhaseInv /\ Account(L) /\ SlotInv /\ BlockInv
  BY DEF PlaceInv
<1>2. /\ pc = "read" /\ pc' \in {"evict", "no_heap"}
      /\ record' = {} /\ height' = tree_level' /\ write_back' = [h \in Heights |-> {}]
      /\ stash' = entries /\ todo' = entries
      /\ tail' \in entries \cup (IF Cardinality(entries) < STASHMAXSIZE THEN {None} ELSE {})
      /\ UNCHANGED <<data, write_back>>
  BY <1>1, BeginWriteBackEffect
<1>3. PhaseInv'
  BY <1>2 DEF PhaseInv
<1>4. Cardinality(stash') \in Nat /\ STASHMAXSIZE \in Nat \ {0} /\ Cardinality(stash') <= STASHMAXSIZE
  BY <1>1, <1>2, FinitePlaces, SizeAssumption DEF SlotInv
<1>5. SlotInv'
  <2>1. tail' # None => tail' \in stash'
    BY <1>2
  <2>2. tail' = None => Cardinality(stash') < STASHMAXSIZE
    BY <1>2, NoneAssumption
  <2>3. Cardinality(stash') = STASHMAXSIZE => todo' # {}
    BY <1>2, <1>4, FS_EmptySet
  <2>4. \A h \in Heights : write_back'[h] = {}
    BY <1>2
  <2> QED BY <1>2, <1>4, <2>1, <2>2, <2>3, <2>4 DEF SlotInv
<1>6. RoomInv'
  BY <1>2 DEF RoomInv
<1>7. BlockInv'
  BY <1>1, <1>2 DEF BlockInv
<1> QED BY <1>2, <1>3, <1>5, <1>6, <1>7

LEMMA RemapEffect ==
  ASSUME TreeInv, op.key \in Keys, group \in 1 .. Len(bitmap[op.key]), Remap
  PROVE  /\ SameGroups
         /\ \A k \in Keys : DOMAIN bitmap'[k] = DOMAIN bitmap[k]
         /\ \A k \in Keys : \A i \in DOMAIN bitmap[k] :
              k # op.key \/ i # group => bitmap'[k][i] = bitmap[k][i]
<1>1. PICK f \in Leaves(tree_level) : bitmap' = [bitmap EXCEPT ![op.key][group] = f]
  BY DEF Remap
<1> DEFINE k == op.key
           s == [bitmap[k] EXCEPT ![group] = f]
<1>2. f \in Int /\ bitmap \in [Keys -> Seq(Int)]
  BY LeavesAreInt DEF TreeInv, TypeOK, TreeTypes
<1>3. bitmap[k] \in Seq(Int)
  BY <1>2
<1>4. /\ s \in Seq(Int) /\ Len(s) = Len(bitmap[k])
      /\ \A i \in 1 .. Len(bitmap[k]) : s[i] = IF i = group THEN f ELSE bitmap[k][i]
  BY <1>2, <1>3, ExceptSeq
<1>5. bitmap' = [bitmap EXCEPT ![k] = s]
  BY <1>1
<1>6. k \in Keys
  OBVIOUS
<1>7. DOMAIN bitmap[k] = 1 .. Len(bitmap[k]) /\ DOMAIN s = 1 .. Len(bitmap[k])
  BY <1>3, <1>4, LenProperties
<1> HIDE DEF s
<1>8. bitmap'[k] = s /\ \A j \in Keys \ {k} : bitmap'[j] = bitmap[j]
  BY <1>2, <1>5, <1>6
<1> QED BY <1>4, <1>7, <1>8 DEF SameGroups

(* The entry that gets a new leaf is in the stash, so none in the file is. *)
LEMMA RemapPath ==
  ASSUME TreeInv, PhaseInv, OnePlace, PathInvariant, Accessing, NEW e \in Found,
         \A k \in Keys : DOMAIN bitmap'[k] = DOMAIN bitmap[k],
         \A k \in Keys : \A i \in DOMAIN bitmap[k] :
           k # op.key \/ i # group => bitmap'[k][i] = bitmap[k][i],
         UNCHANGED <<data, write_back, tree_level>>, Resting' = Resting
  PROVE  PathInvariant'
<1>1. e \in stash /\ e \in Live /\ e.key = op.key /\ e.group = group
  BY InLive DEF Found
<1>2. write_back' = [h \in Heights |-> {}]
  BY DEF Accessing, PhaseInv
<1>3. ASSUME NEW o \in Resting', NEW x \in data'[o]
      PROVE  /\ x.group \in DOMAIN bitmap'[x.key]
             /\ \E h \in 0 .. tree_level' - 1 : o = Offset(NodeAt(bitmap'[x.key][x.group], h))
  <2>1. o \in Resting /\ x \in data[o] /\ x \in Live /\ x.key \in Keys
    BY <1>3, InLive, LiveEntries DEF Entry
  <2>2. x.key # op.key \/ x.group # group
    <3> SUFFICES ASSUME x.key = op.key, x.group = group PROVE FALSE
      OBVIOUS
    <3>1. x = e
      BY <1>1, <2>1 DEF OnePlace, SameEntry
    <3> QED BY <1>1, <2>1, <3>1 DEF OnePlace
  <2>3. /\ x.group \in DOMAIN bitmap[x.key]
        /\ \E h \in 0 .. tree_level - 1 : o = Offset(NodeAt(bitmap[x.key][x.group], h))
    BY <2>1 DEF PathInvariant
  <2> QED BY <2>1, <2>2, <2>3
<1> QED BY <1>2, <1>3 DEF PathInvariant

LEMMA ReadEntryPlaceInv == ASSUME TreeInv, NEW L, PlaceInv(L), ReadEntry PROVE PlaceInv(L)'
<1>1. PhaseInv /\ OnePlace /\ Account(L) /\ Assigned(L) /\ PathInvariant /\ ScanInv /\ OwnedInv(L)
  BY DEF PlaceInv
<1>2. Accessing /\ op.type = "read" /\ Remap /\ BeginWriteBack(stash) /\ success' = success
  BY DEF ReadEntry
<1>3. PICK e \in Found : TRUE
  BY DEF ReadEntry
<1>4. op.key \in Keys /\ group \in 1 .. Len(bitmap[op.key]) /\ stash \in SUBSET Entry
  <2>1. ~success
    BY <1>2 DEF Accessing, TreeInv, WalkInTree, Running
  <2> QED BY <1>2, <2>1, AccessedGroup
<1>5. /\ SameGroups
      /\ \A k \in Keys : DOMAIN bitmap'[k] = DOMAIN bitmap[k]
      /\ \A k \in Keys : \A i \in DOMAIN bitmap[k] :
           k # op.key \/ i # group => bitmap'[k][i] = bitmap[k][i]
  BY <1>2, <1>4, RemapEffect
<1>6. /\ SamePlaces /\ Live' = Live /\ Overwritten' = Overwritten
      /\ UNCHANGED <<tree_level, pair_number, data, write_back, op>> /\ Resting' = Resting
  BY <1>1, <1>2, KeepEffect, BeginWriteBackEffect
<1>7. PhaseInv' /\ SlotInv' /\ RoomInv' /\ BlockInv' /\ pc' \in {"evict", "no_heap"}
  BY <1>2, <1>4, BeginWriteBackPlaceInv
<1>8. OnePlace' /\ Account(L)'
  BY <1>1, <1>6, SamePlacesKeep, AccountKept
<1>9. \A x \in Live : SameEntry(x, x)
  BY DEF SameEntry
<1>10. Assigned(L)'
  BY <1>1, <1>5, <1>6, <1>9, LiveEntries, AssignedKept
<1>11. PathInvariant'
  BY <1>1, <1>2, <1>5, <1>6, RemapPath
<1>12. ScanInv'
  <2>1. GroupsFillInOrder'
    BY <1>1, <1>5, <1>6, FillKept DEF ScanInv
  <2>2. op'.type = "read"
    BY <1>2, <1>6
  <2> QED BY <2>1, <2>2 DEF ScanInv
<1>13. OwnedInv(L)'
  BY <1>1, <1>5, <1>6, <1>7, <1>9, OwnedKept
<1> QED BY <1>7, <1>8, <1>10, <1>11, <1>12, <1>13 DEF PlaceInv

(* The entry is full, or it is the new one: nothing changes but the slots. *)
LEMMA KeepPlaceInv ==
  ASSUME TreeInv, NEW L, PlaceInv(L), SkipFullEntry \/ PlaceNewEntry
  PROVE  PlaceInv(L)'
<1>1. Accessing /\ BeginWriteBack(stash) /\ UNCHANGED <<bitmap, success>>
  BY DEF SkipFullEntry, PlaceNewEntry
<1>2. stash \in SUBSET Entry
  BY LiveEntries
<1>3. PhaseInv' /\ SlotInv' /\ RoomInv' /\ BlockInv' /\ pc' \in {"evict", "no_heap"}
  BY <1>1, <1>2, BeginWriteBackPlaceInv
<1>4. /\ SamePlaces /\ Live' = Live /\ pc = "read"
      /\ UNCHANGED <<tree_level, pair_number, stash_num, op, group, flag>>
  BY <1>1, KeepEffect, BeginWriteBackEffect DEF PlaceInv
<1>5. KeepsFlags /\ SameGroups
  BY <1>1, SameBitmap
<1>6. /\ OnePlace' /\ Account(L)' /\ Assigned(L)' /\ PathInvariant' /\ GroupsFillInOrder'
      /\ OwnedInv(L)'
  BY <1>3, <1>4, <1>5, CalmStep
<1>7. ScanInv'
  <2> SUFFICES ASSUME op.type = "write", ~success, op.key \notin JustKeys, NEW x \in Live,
                      x.key = op.key, x.group < group \/ x.group = group
               PROVE  Len(x.vals) = VALMAXNUM
    BY <1>1, <1>4, <1>6 DEF ScanInv
  <2>1. CASE x.group < group
    BY <1>4, <2>1 DEF PlaceInv, ScanInv, Running
  <2>2. CASE x.group = group
    <3>1. PICK e \in Found : Len(e.vals) >= VALMAXNUM
      BY DEF SkipFullEntry, PlaceNewEntry
    <3>2. x = e
      BY <2>2, <3>1, InLive DEF Found, PlaceInv, OnePlace, SameEntry
    <3>3. Len(x.vals) \in 1 .. VALMAXNUM
      BY DEF PlaceInv, ScanInv, GroupsFillInOrder
    <3> QED BY <3>1, <3>2, <3>3, SizeAssumption
  <2> QED BY <2>1, <2>2
<1> QED BY <1>3, <1>6, <1>7 DEF PlaceInv

LEMMA AppendValPlaceInv == ASSUME TreeInv, NEW L, PlaceInv(L), AppendVal PROVE PlaceInv(L)'
<1>1. PhaseInv /\ OnePlace /\ Account(L) /\ Assigned(L) /\ PathInvariant /\ ScanInv /\ OwnedInv(L)
  BY DEF PlaceInv
<1>2. Accessing /\ op.type = "write" /\ ~success /\ Remap /\ success'
  BY DEF AppendVal
<1>3. PICK e \in Found :
        /\ Len(e.vals) < VALMAXNUM /\ e \in stash /\ e \in Entry
        /\ WithVal(e) \in Entry /\ SameEntry(WithVal(e), e)
        /\ WithVal(e).vals = Append(e.vals, op.val) /\ op.val \in Vals
        /\ BeginWriteBack((stash \ {e}) \cup {WithVal(e)})
        /\ Live' = (Live \ {e}) \cup {WithVal(e)}
        /\ WithVal(e) \notin Live \ {e}
        /\ Cardinality(Live') = Cardinality(Live) /\ IsFiniteSet(Live')
        /\ Cardinality(stash') = Cardinality(stash)
        /\ Overwritten' = Overwritten
        /\ OnePlace'
  BY <1>1, AppendValEffect
<1> DEFINE w == WithVal(e)
           entries == (stash \ {e}) \cup {w}
<1>4. /\ op.key \in Keys /\ group \in 1 .. Len(bitmap[op.key]) /\ entries \in SUBSET Entry
      /\ e.key = op.key /\ e.group = group /\ e \in Live /\ w \in Entry
  BY <1>2, <1>3, AccessedGroup, InLive DEF Found
<1>5. BeginWriteBack(entries)
  BY <1>3
<1>6. w.key = e.key /\ w.group = e.group /\ w.vals = Append(e.vals, op.val)
  BY <1>3 DEF SameEntry
<1> HIDE DEF w, entries
<1>7. /\ SameGroups
      /\ \A k \in Keys : DOMAIN bitmap'[k] = DOMAIN bitmap[k]
      /\ \A k \in Keys : \A i \in DOMAIN bitmap[k] :
           k # op.key \/ i # group => bitmap'[k][i] = bitmap[k][i]
  BY <1>2, <1>4, RemapEffect
<1>8. /\ stash' = entries /\ Resting' = Resting
      /\ UNCHANGED <<tree_level, pair_number, data, write_back>>
  BY <1>1, <1>2, <1>5, BeginWriteBackEffect
<1>9. PhaseInv' /\ SlotInv' /\ RoomInv' /\ BlockInv' /\ pc' \in {"evict", "no_heap"}
  BY <1>2, <1>3, <1>4, <1>5, <1>8, BeginWriteBackPlaceInv
<1>10. Live' = (Live \ {e}) \cup {w}
  BY <1>3 DEF w
<1>11. \A x \in Live' : \E y \in Live : SameEntry(x, y)
  BY <1>4, <1>6, <1>10 DEF SameEntry
<1>12. \A y \in Live : \E x \in Live' : SameEntry(y, x)
  BY <1>4, <1>6, <1>10 DEF SameEntry
<1>13. Account(L)'
  <2>1. \A x \in Live', y \in L : ~SameEntry(x, y)
    BY <1>1, <1>11 DEF Account, SameEntry
  <2> QED BY <1>1, <1>3, <1>8, <2>1 DEF Account
<1>14. Assigned(L)'
  BY <1>1, <1>7, <1>11, LiveEntries, AssignedKept
<1>15. PathInvariant'
  BY <1>1, <1>2, <1>7, <1>8, RemapPath
<1>16. ScanInv'
  <2>1. ASSUME NEW x \in Live', x.key \notin JustKeys
        PROVE  /\ Len(x.vals) \in 1 .. VALMAXNUM
               /\ x.group < Len(bitmap'[x.key]) => Len(x.vals) = VALMAXNUM
    <3>1. GroupsFillInOrder
      BY <1>1 DEF ScanInv
    <3>2. CASE x \in Live
      <4>1. x.key \in Keys /\ Len(bitmap'[x.key]) = Len(bitmap[x.key])
        BY <1>7, <2>1, <3>2, LiveEntries DEF Entry, SameGroups
      <4>2. /\ Len(x.vals) \in 1 .. VALMAXNUM
            /\ x.group < Len(bitmap[x.key]) => Len(x.vals) = VALMAXNUM
        BY <2>1, <3>1, <3>2 DEF GroupsFillInOrder
      <4> QED BY <4>1, <4>2
    <3>3. CASE x = w
      <4>1. /\ Len(e.vals) \in 1 .. VALMAXNUM /\ Len(e.vals) < VALMAXNUM
            /\ ~(e.group < Len(bitmap[e.key]))
        BY <1>3, <1>4, <1>6, <2>1, <3>1, <3>3, SizeAssumption DEF GroupsFillInOrder
      <4>2. Len(x.vals) = Len(e.vals) + 1
        BY <1>3, <1>6, <3>3, AppendProperties DEF Entry
      <4>3. x.group = e.group /\ x.key = e.key /\ Len(bitmap'[x.key]) = Len(bitmap[e.key])
        BY <1>4, <1>6, <1>7, <2>1, <3>3 DEF SameGroups
      <4> QED BY <4>1, <4>2, <4>3, SizeAssumption
    <3> QED BY <1>10, <3>2, <3>3
  <2> QED BY <1>2, <2>1 DEF ScanInv, GroupsFillInOrder
<1>17. OwnedInv(L)'
  BY <1>1, <1>3, <1>7, <1>9, <1>12, OwnedKept
<1> QED BY <1>3, <1>9, <1>13, <1>14, <1>15, <1>16, <1>17 DEF PlaceInv

-----------------------------------------------------------------------------
(* The write-back, entry by entry.                                         *)

(* An entry finds no block: it stays in the stash, which has had room for  *)
(* it since another entry went to the block that is full now.              *)
LEMMA StayPlaceInv ==
  ASSUME TreeInv, NEW L, PlaceInv(L), EvictEntry, NEW e \in todo, Fits(e) = {},
         todo' = todo \ {e}, UNCHANGED <<stashVars, write_back>>
  PROVE  PlaceInv(L)'
<1>1. /\ pc = "evict" /\ record = {} /\ todo \subseteq stash
      /\ UNCHANGED <<pc, treeVars, fileVars, callVars, pathVars>>
  BY DEF EvictEntry, PlaceInv, PhaseInv
<1>2. /\ UNCHANGED <<pc, tree_level, pair_number, bitmap, data, op, group, success, flag, height,
                     record, stash, stash_num, tail, write_back>>
  BY <1>1 DEF treeVars, fileVars, callVars, pathVars, stashVars
<1>3. KeepsFlags /\ SameGroups /\ SamePlaces
  BY <1>2, SameBitmap, SamePath DEF SamePlaces
<1>4. /\ OnePlace' /\ Account(L)' /\ Assigned(L)' /\ PathInvariant' /\ BlockInv'
      /\ Live' = Live /\ GroupsFillInOrder' /\ OwnedInv(L)'
  BY <1>1, <1>2, <1>3, CalmStep
<1>5. PhaseInv'
  BY <1>1, <1>2 DEF PlaceInv, PhaseInv
<1>6. SlotInv'
  <2>1. e \in Live
    BY <1>1, InLive
  <2>2. \E h \in Heights : write_back[h] # {}
    BY <1>1, <2>1, RootFits DEF PlaceInv
  <2>3. Cardinality(stash) # STASHMAXSIZE
    BY <1>1, <2>2 DEF PlaceInv, SlotInv
  <2> QED BY <1>1, <1>2, <2>3 DEF PlaceInv, SlotInv
<1>7. RoomInv'
  BY <1>1, <1>2 DEF RoomInv
<1>8. ScanInv'
  BY <1>1, <1>2, <1>4 DEF PlaceInv, ScanInv, Running
<1> QED BY <1>4, <1>5, <1>6, <1>7, <1>8 DEF PlaceInv

(* An entry finds a block of the path.                                     *)
LEMMA MovePlaceInv ==
  ASSUME TreeInv, NEW L, PlaceInv(L), EvictEntry, NEW e \in todo, todo' = todo \ {e},
         NEW h \in Fits(e), MoveToBlock(e, h)
  PROVE  PlaceInv(L)'
<1>1. PhaseInv /\ OnePlace /\ Account(L) /\ Assigned(L) /\ SlotInv /\ PathInvariant
        /\ BlockInv /\ ScanInv /\ OwnedInv(L)
  BY DEF PlaceInv
<1>2. /\ h \in Heights /\ h < tree_level /\ e \in stash /\ e \in Entry
      /\ NodeAt(bitmap[e.key][e.group], h) = NodeAt(flag, h)
      /\ Cardinality(write_back[h]) < ENTRYMAXNUM
      /\ write_back' = [write_back EXCEPT ![h] = @ \cup {e}]
      /\ stash' = stash \ {e} /\ Cardinality(stash') = Cardinality(stash) - 1
      /\ tail' = (IF e = tail THEN None ELSE tail)
      /\ Overwritten' = Overwritten
      /\ Resting' = Resting /\ Live' = Live
      /\ OnePlace'
  BY <1>1, MoveEffect
<1>3. /\ pc = "evict" /\ record = {} /\ todo \subseteq stash /\ height = tree_level
      /\ UNCHANGED <<pc, tree_level, pair_number, bitmap, data, op, group, success, flag, height,
                     record>>
  BY <1>1 DEF EvictEntry, PhaseInv, treeVars, fileVars, callVars, pathVars
<1>4. \A g \in Heights : write_back'[g] = (IF g = h THEN write_back[g] \cup {e} ELSE write_back[g])
  BY <1>2 DEF TreeInv, TypeOK, EvictTypes
<1>5. KeepsFlags /\ SameGroups
  BY <1>3, SameBitmap
<1>6. \A x \in Live : SameEntry(x, x)
  BY DEF SameEntry
<1>7. PhaseInv'
  <2>1. \A g \in Heights : g >= tree_level => write_back'[g] = {}
    <3>1. \A g \in Heights : g >= tree_level => write_back[g] = {} /\ g # h
      <4>1. h \in Int /\ tree_level \in Int
        BY <1>2, LevelBounds, LevelAssumption DEF Heights, TreeInv, TypeOK, TreeTypes
      <4> QED BY <1>1, <1>2, <1>3, <4>1 DEF PhaseInv
    <3> QED BY <1>4, <3>1
  <2>2. todo' \subseteq stash'
    BY <1>2, <1>3
  <2> QED BY <1>3, <2>1, <2>2 DEF PhaseInv
<1>8. Account(L)'
  BY <1>1, <1>2, <1>3, AccountKept
<1>9. Assigned(L)'
  BY <1>1, <1>2, <1>3, <1>6, LiveEntries, AssignedKept
<1>10. SlotInv'
  <2>1. Cardinality(stash) \in Nat /\ STASHMAXSIZE \in Nat
    BY <1>1, FinitePlaces, SizeAssumption
  <2> QED BY <1>1, <1>2, <1>3, <2>1 DEF SlotInv
<1>11. PathInvariant'
  <2>1. ASSUME NEW g \in Heights, NEW x \in write_back'[g]
        PROVE  /\ x.group \in DOMAIN bitmap[x.key]
               /\ NodeAt(bitmap[x.key][x.group], g) = NodeAt(flag, g)
    <3>1. CASE x \in write_back[g]
      BY <1>1, <3>1 DEF PathInvariant
    <3>2. CASE x = e /\ g = h
      BY <1>1, <1>2, <3>2, InLive DEF Assigned
    <3> QED BY <1>4, <3>1, <3>2
  <2>2. ASSUME NEW o \in Resting, NEW x \in data[o]
        PROVE  /\ x.group \in DOMAIN bitmap[x.key]
               /\ \E g \in 0 .. tree_level - 1 : o = Offset(NodeAt(bitmap[x.key][x.group], g))
    BY <1>1 DEF PathInvariant
  <2> QED BY <1>2, <1>3, <2>1, <2>2 DEF PathInvariant
<1>12. BlockInv'
  <2>1. ASSUME NEW g \in Heights
        PROVE  IsFiniteSet(write_back'[g]) /\ Cardinality(write_back'[g]) <= ENTRYMAXNUM
    <3>1. IsFiniteSet(write_back[g]) /\ Cardinality(write_back[g]) <= ENTRYMAXNUM
      BY <1>1 DEF BlockInv
    <3>2. CASE g = h
      <4>1. e \notin write_back[h]
        BY <1>1, <1>2 DEF OnePlace
      <4>2. /\ Cardinality(write_back[h] \cup {e}) = Cardinality(write_back[h]) + 1
            /\ IsFiniteSet(write_back[h] \cup {e}) /\ Cardinality(write_back[h]) \in Nat
        BY <3>1, <3>2, <4>1, Counting
      <4> QED BY <1>2, <1>4, <3>2, <4>2, SizeAssumption
    <3> QED BY <1>4, <3>1, <3>2
  <2> QED BY <1>1, <1>3, <2>1 DEF BlockInv
<1>13. RoomInv'
  BY <1>3 DEF RoomInv
<1>14. ScanInv'
  <2>1. GroupsFillInOrder'
    BY <1>1, <1>2, <1>5, FillKept DEF ScanInv
  <2> QED BY <1>1, <1>2, <1>3, <2>1 DEF ScanInv, Running
<1>15. OwnedInv(L)'
  BY <1>1, <1>2, <1>3, <1>6, OwnedKept
<1> QED BY <1>2, <1>7, <1>8, <1>9, <1>10, <1>11, <1>12, <1>13, <1>14, <1>15 DEF PlaceInv

LEMMA EvictEntryPlaceInv == ASSUME TreeInv, NEW L, PlaceInv(L), EvictEntry PROVE PlaceInv(L)'
<1>1. PICK e \in todo :
        /\ todo' = todo \ {e}
        /\ \/ /\ Fits(e) = {}
              /\ UNCHANGED <<stashVars, write_back>>
           \/ \E h \in Fits(e) : MoveToBlock(e, h)
  BY DEF EvictEntry
<1>2. CASE Fits(e) = {} /\ UNCHANGED <<stashVars, write_back>>
  BY <1>1, <1>2, StayPlaceInv
<1>3. CASE \E h \in Fits(e) : MoveToBlock(e, h)
  BY <1>1, <1>3, MovePlaceInv
<1> QED BY <1>1, <1>2, <1>3

-----------------------------------------------------------------------------
(* The end of the write-back.                                              *)

(* resize gives every group a leaf below its old one, and no group more.   *)
LEMMA FlushedFlags ==
  ASSUME TreeInv, PhaseInv, Flushes
  PROVE  /\ SameGroups
         /\ \A k \in Keys : DOMAIN bitmap'[k] = DOMAIN bitmap[k]
         /\ \A k \in Keys : \A i \in DOMAIN bitmap[k] : \A h \in 0 .. tree_level - 1 :
              \E g \in 0 .. tree_level' - 1 : NodeAt(bitmap'[k][i], g) = NodeAt(bitmap[k][i], h)
<1>1. tree_level \in Levels /\ bitmap \in [Keys -> Seq(Int)]
  BY DEF TreeInv, TypeOK, TreeTypes
<1>2. CASE WriteBack \/ ResizeOverflows
  <2>1. UNCHANGED <<tree_level, bitmap>>
    BY <1>2 DEF WriteBack, ResizeOverflows, treeVars
  <2> QED BY <2>1 DEF SameGroups
<1>3. CASE WriteBackAndResize
  <2>1. tree_level < LEVELMAX /\ tree_level' = tree_level + 1
    BY <1>3 DEF WriteBackAndResize
  <2>2. PICK bit \in [FlagIds -> 0 .. 1] :
          bitmap' = [k \in Keys |-> [i \in 1 .. Len(bitmap[k]) |->
                       AdjustEntryFlag(bitmap[k][i], tree_level + 1, bit[<<k, i>>])]]
    BY <1>3 DEF WriteBackAndResize
  <2>3. ASSUME NEW k \in Keys
        PROVE  /\ Len(bitmap[k]) \in Nat /\ DOMAIN bitmap[k] = 1 .. Len(bitmap[k])
               /\ DOMAIN bitmap'[k] = 1 .. Len(bitmap[k])
               /\ \A i \in 1 .. Len(bitmap[k]) :
                    bitmap'[k][i] = AdjustEntryFlag(bitmap[k][i], tree_level + 1, bit[<<k, i>>])
    BY <1>1, <2>2, LenProperties
  <2>4. bitmap' \in [Keys -> Seq(Int)]
    <3>1. TreeInv'
      BY <1>3, ResizeTreeInv
    <3> QED BY <3>1 DEF TreeInv, TypeOK, TreeTypes
  <2>5. SameGroups
    <3> SUFFICES ASSUME NEW k \in Keys \ JustKeys
                 PROVE  Len(bitmap'[k]) = Len(bitmap[k]) /\ DOMAIN bitmap'[k] = DOMAIN bitmap[k]
      BY DEF SameGroups
    <3>1. bitmap'[k] \in Seq(Int)
      BY <2>4
    <3>2. Len(bitmap'[k]) \in Nat /\ DOMAIN bitmap'[k] = 1 .. Len(bitmap'[k])
      BY <3>1, LenProperties
    <3> QED BY <2>3, <3>2
  <2>6. ASSUME NEW k \in Keys, NEW i \in DOMAIN bitmap[k], NEW h \in 0 .. tree_level - 1
        PROVE  /\ h + 1 \in 0 .. tree_level' - 1
               /\ NodeAt(bitmap'[k][i], h + 1) = NodeAt(bitmap[k][i], h)
    <3>1. bitmap[k][i] \in Leaves(tree_level) /\ i \in 1 .. Len(bitmap[k])
      BY <2>3 DEF TreeInv, FlagsAreLeaves
    <3>2. <<k, i>> \in FlagIds
      <4>1. <<k, i>> \in {k} \X (1 .. Len(bitmap[k]))
        BY <3>1
      <4> QED BY <4>1 DEF FlagIds
    <3>3. bit[<<k, i>>] \in 0 .. 1
      BY <3>2
    <3>4. NodeAt(bitmap'[k][i], h + 1) = NodeAt(bitmap[k][i], h)
      BY <1>1, <2>1, <2>3, <3>1, <3>3, AdjustedPath
    <3>5. h + 1 \in 0 .. tree_level' - 1
      BY <1>1, <2>1, LevelBounds
    <3> QED BY <3>4, <3>5
  <2> QED BY <2>3, <2>5, <2>6
<1> QED BY <1>2, <1>3 DEF Flushes

LEMMA FlushPath ==
  ASSUME TreeInv, PhaseInv, PathInvariant, Flushes
  PROVE  PathInvariant'
<1>1. /\ pc = "evict" /\ write_back' = [h \in Heights |-> {}]
  BY GrownFile
<1>2. ASSUME NEW o \in Resting', NEW e \in data'[o]
      PROVE  /\ e.group \in DOMAIN bitmap'[e.key]
             /\ \E g \in 0 .. tree_level' - 1 : o = Offset(NodeAt(bitmap'[e.key][e.group], g))
  <2>1. /\ e.key \in Keys /\ e.group \in DOMAIN bitmap[e.key]
        /\ \E h \in 0 .. tree_level - 1 : o = Offset(NodeAt(bitmap[e.key][e.group], h))
    <3>1. ASSUME NEW h \in 0 .. tree_level - 1, h \in Heights, o = Offset(NodeAt(flag, h)),
                 e \in write_back[h]
          PROVE  /\ e.key \in Keys /\ e.group \in DOMAIN bitmap[e.key]
                 /\ o = Offset(NodeAt(bitmap[e.key][e.group], h))
      BY <3>1, LiveEntries DEF PathInvariant, Entry
    <3>2. ASSUME o \in Resting, e \in data[o]
          PROVE  /\ e.key \in Keys /\ e.group \in DOMAIN bitmap[e.key]
                 /\ \E h \in 0 .. tree_level - 1 : o = Offset(NodeAt(bitmap[e.key][e.group], h))
      BY <3>2, LiveEntries DEF PathInvariant, Entry
    <3> QED BY <3>1, <3>2, FlushedFrom
  <2>2. PICK h \in 0 .. tree_level - 1 : o = Offset(NodeAt(bitmap[e.key][e.group], h))
    BY <2>1
  <2>3. PICK g \in 0 .. tree_level' - 1 :
          NodeAt(bitmap'[e.key][e.group], g) = NodeAt(bitmap[e.key][e.group], h)
    BY <2>1, FlushedFlags
  <2> QED BY <2>1, <2>2, <2>3, FlushedFlags
<1> QED BY <1>1, <1>2 DEF PathInvariant

(* The room that MustResize has found, or a leaf level just appended.      *)
LEMMA FlushRoom == ASSUME TreeInv, PhaseInv, Flushes PROVE RoomInv'
<1>1. tree_level \in Levels
  BY DEF TreeInv, TypeOK, TreeTypes
<1>2. CASE ResizeOverflows
  BY <1>2 DEF ResizeOverflows, RoomInv
<1>3. CASE WriteBack
  <2>1. /\ pc' = "loop" /\ UNCHANGED <<tree_level, stash_num>> /\ ~MustResize
    BY <1>3 DEF WriteBack, treeVars, stashVars
  <2>2. stash_num \in Int /\ tree_level * ENTRYMAXNUM \in Int /\ STASHMAXSIZE \in Int
    BY <1>1, LevelBounds, SizeAssumption DEF TreeInv, TypeOK, StashTypes
  <2>3. stash_num + tree_level * ENTRYMAXNUM < STASHMAXSIZE
    <3> DEFINE r == tree_level * ENTRYMAXNUM
    <3>1. ~(stash_num + r >= STASHMAXSIZE)
      BY <2>1 DEF MustResize
    <3> HIDE DEF r
    <3>2. stash_num + r < STASHMAXSIZE
      BY <2>2, <3>1 DEF r
    <3> QED BY <3>2 DEF r
  <2> QED BY <2>1, <2>3 DEF RoomInv
<1>4. CASE WriteBackAndResize
  <2>1. /\ pc' = "loop" /\ tree_level' = tree_level + 1 /\ tree_level < LEVELMAX
        /\ data' = NullBlocks(NewBlocks(tree_level + 1), FlushedFile)
    BY <1>4 DEF WriteBackAndResize
  <2>2. NewBlocks(tree_level') \subseteq Offsets
    <3>1. tree_level' \in Levels /\ (tree_level + 1) - 1 = tree_level
      BY <1>1, <2>1, LevelBounds
    <3>2. NewBlocks(tree_level') = 2^tree_level - 1 .. 2^(tree_level + 1) - 2
      BY <2>1, <3>1 DEF NewBlocks
    <3>3. NewBlocks(tree_level') \subseteq FileOffsets(tree_level')
      BY <1>1, <2>1, <3>2, FileGrows
    <3> QED BY <3>1, <3>3, FileGrows DEF Offsets
  <2>3. ASSUME NEW o \in NewBlocks(tree_level') PROVE data'[o] = {}
    BY <2>1, <2>2 DEF NullBlocks
  <2>4. LeafLevelEmpty'
    BY <2>3 DEF LeafLevelEmpty
  <2> QED BY <2>1, <2>4 DEF RoomInv
<1> QED BY <1>2, <1>3, <1>4 DEF Flushes

LEMMA FlushPlaceInv == ASSUME TreeInv, NEW L, PlaceInv(L), Flushes PROVE PlaceInv(L)'
<1>1. PhaseInv /\ OnePlace /\ Account(L) /\ Assigned(L) /\ SlotInv /\ PathInvariant
        /\ BlockInv /\ ScanInv /\ OwnedInv(L)
  BY DEF PlaceInv
<1>2. /\ pc = "evict" /\ todo = {} /\ pc' \in {"loop", "alias"}
      /\ height' = 0 /\ record' = {} /\ write_back' = [h \in Heights |-> {}]
      /\ group' = group + 1
      /\ UNCHANGED <<pair_number, stash, stash_num, tail, op, success>>
  BY <1>1, GrownFile
<1>3. Live' = Live /\ Overwritten' = Overwritten /\ OnePlace' /\ BlockInv'
  BY <1>1, FlushPlaces
<1>4. SameGroups /\ \A k \in Keys : DOMAIN bitmap'[k] = DOMAIN bitmap[k]
  BY <1>1, FlushedFlags
<1>5. \A x \in Live : SameEntry(x, x)
  BY DEF SameEntry
<1>6. PhaseInv'
  BY <1>2 DEF PhaseInv
<1>7. Account(L)'
  BY <1>1, <1>2, <1>3, AccountKept
<1>8. Assigned(L)'
  BY <1>1, <1>3, <1>4, <1>5, LiveEntries, AssignedKept
<1>9. SlotInv'
  <2>1. Cardinality(stash) \in Nat /\ STASHMAXSIZE \in Nat /\ Cardinality(stash) <= STASHMAXSIZE
    BY <1>1, FinitePlaces, SizeAssumption DEF SlotInv
  <2>2. Cardinality(stash) # STASHMAXSIZE
    BY <1>1, <1>2 DEF SlotInv
  <2> QED BY <1>1, <1>2, <2>1, <2>2 DEF SlotInv
<1>10. PathInvariant' /\ RoomInv'
  BY <1>1, FlushPath, FlushRoom
<1>11. ScanInv'
  <2>1. GroupsFillInOrder'
    BY <1>1, <1>3, <1>4, FillKept DEF ScanInv
  <2>2. group \in Nat /\ \A x \in Live : x.group \in Nat
    BY LiveEntries DEF Entry, TreeInv, TypeOK, CallTypes
  <2>3. \A x \in Live : x.group < group + 1 => x.group < group \/ x.group = group
    BY <2>2
  <2> QED BY <1>1, <1>2, <1>3, <2>1, <2>3 DEF ScanInv, Running
<1>12. OwnedInv(L)'
  BY <1>1, <1>2, <1>3, <1>4, <1>5, OwnedKept
<1> QED BY <1>3, <1>6, <1>7, <1>8, <1>9, <1>10, <1>11, <1>12 DEF PlaceInv

-----------------------------------------------------------------------------
(* A run of the program begins.                                            *)

(* The leaf level is part of the file. *)
LEMMA LeafLevelInFile ==
  ASSUME NEW level \in Levels
  PROVE  NewBlocks(level) \subseteq FileOffsets(level) /\ NewBlocks(level) \subseteq Offsets
<1> DEFINE p == 2^(level - 1)
           q == 2^level
<1>1. p \in Nat /\ p > 0 /\ q \in Nat
  BY LevelBounds, Powers
<1>2. NewBlocks(level) = p - 1 .. q - 2 /\ FileOffsets(level) = 0 .. q - 2
  BY DEF NewBlocks, FileOffsets
<1>3. NewBlocks(level) \subseteq FileOffsets(level)
  <2> HIDE DEF p, q
  <2> QED BY <1>1, <1>2
<1> QED BY <1>3, FileGrows DEF Offsets

LEMMA InitPlaceInv == Init => PlaceInv({})
<1> SUFFICES ASSUME Init PROVE PlaceInv({})
  OBVIOUS
<1>1. /\ pc = "created" /\ tree_level = 2 /\ pair_number = 0 /\ bitmap = [k \in Keys |-> <<>>]
      /\ stash = {} /\ stash_num = 0 /\ tail = None /\ data = [o \in Offsets |-> {}]
      /\ height = 0 /\ record = {} /\ write_back = [h \in Heights |-> {}]
  BY DEF Init
<1>2. TreeInv /\ Resting \subseteq Offsets
  BY InitTreeInv, LiveEntries
<1>3. Live = {}
  <2>1. \A e : e \notin Live
    BY <1>1, <1>2, InLive
  <2> QED BY <2>1
<1>4. IsFiniteSet({}) /\ Cardinality({}) = 0
  BY FS_EmptySet
<1>5. Overwritten = 0
  BY <1>1, <1>4 DEF Overwritten
<1>6. \A k \in Keys : DOMAIN bitmap[k] = {}
  <2>1. DOMAIN <<>> = {}
    OBVIOUS
  <2> QED BY <1>1, <2>1
<1>7. PhaseInv
  BY <1>1 DEF PhaseInv
<1>8. OnePlace
  BY <1>1, <1>2, <1>3 DEF OnePlace
<1>9. Account({}) /\ Assigned({})
  BY <1>1, <1>3, <1>4, <1>5 DEF Account, Assigned
<1>10. SlotInv
  BY <1>1, <1>4, SizeAssumption DEF SlotInv
<1>11. PathInvariant
  BY <1>1, <1>2 DEF PathInvariant
<1>12. BlockInv
  BY <1>1, <1>4, SizeAssumption DEF BlockInv
<1>13. RoomInv
  <2>1. LeafLevelEmpty
    BY <1>1, LevelBounds, LeafLevelInFile DEF LeafLevelEmpty
  <2> QED BY <1>1, <2>1 DEF RoomInv
<1>14. ScanInv
  BY <1>1, <1>3 DEF ScanInv, GroupsFillInOrder, Running
<1>15. OwnedInv({})
  BY <1>1, <1>6 DEF OwnedInv
<1> QED BY <1>7, <1>8, <1>9, <1>10, <1>11, <1>12, <1>13, <1>14, <1>15 DEF PlaceInv

LEMMA RestartPlaceInv == Restart => PlaceInv({})'
<1>1. Restart => Init'
  BY DEF Restart, Init
<1> QED BY <1>1, InitPlaceInv, PTL

LEMMA StutterPlaceInv == ASSUME TreeInv, NEW L, PlaceInv(L), UNCHANGED vars PROVE PlaceInv(L)'
<1>1. /\ UNCHANGED <<pc, tree_level, pair_number, bitmap, stash, stash_num, tail, data, op, group>>
      /\ UNCHANGED <<success, flag, height, record, todo, write_back>>
  BY DEF vars, treeVars, stashVars, fileVars, callVars, pathVars, evictVars
<1>2. KeepsFlags /\ SameGroups /\ SamePlaces
  BY <1>1, SameBitmap, SamePath DEF SamePlaces
<1>3. /\ OnePlace' /\ Account(L)' /\ Assigned(L)' /\ PathInvariant' /\ BlockInv'
      /\ Live' = Live /\ Overwritten' = Overwritten /\ GroupsFillInOrder'
  BY <1>1, <1>2, CalmStep
<1>4. PhaseInv' /\ SlotInv'
  BY <1>1 DEF PlaceInv, PhaseInv, SlotInv
<1>5. RoomInv'
  BY <1>1 DEF PlaceInv, RoomInv, LeafLevelEmpty
<1>6. ScanInv'
  BY <1>1, <1>3 DEF PlaceInv, ScanInv, Running
<1>7. OwnedInv(L)'
  BY <1>1, <1>3 DEF PlaceInv, OwnedInv
<1> QED BY <1>3, <1>4, <1>5, <1>6, <1>7 DEF PlaceInv

-----------------------------------------------------------------------------
(* All steps together.                                                     *)

(* Within a run of the program every step keeps the invariant.             *)
LEMMA NextPlaceInv ==
  ASSUME TreeInv, NEW L, PlaceInv(L), Next, ~Restart
  PROVE  PlaceInv(L)'
<1>1. CASE OramInit
  BY <1>1, OramInitPlaceInv
<1>2. CASE \E k \in Keys : ReadVal(k)
  BY <1>2, CallPlaceInv DEF ReadVal
<1>3. CASE \E k \in Keys, v \in Vals : WriteVal(k, v)
  BY <1>3, CallPlaceInv DEF WriteVal
<1>4. CASE \E k \in JustKeys : JustAddBitmap(k)
  BY <1>4, JustAddBitmapPlaceInv
<1>5. CASE Access
  <2>1. CASE StartAccess \/ ReturnRead \/ ReturnWrite \/ MissingEntry \/ OverrunReply
    BY <2>1, StartAccessPlaceInv, ReturnPlaceInv, DiePlaceInv
  <2>2. CASE ReadBlock \/ LoadEntry \/ AddEntry
    BY <2>2, ReadBlockPlaceInv, LoadEntryPlaceInv, AddEntryPlaceInv
  <2>3. CASE ReadEntry \/ AppendVal \/ SkipFullEntry \/ PlaceNewEntry
    BY <2>3, ReadEntryPlaceInv, AppendValPlaceInv, KeepPlaceInv
  <2>4. CASE EvictEntry
    BY <2>4, EvictEntryPlaceInv
  <2>5. CASE WriteBack \/ WriteBackAndResize \/ ResizeOverflows
    BY <2>5, FlushPlaceInv DEF Flushes
  <2> QED BY <1>5, <2>1, <2>2, <2>3, <2>4, <2>5 DEF Access
<1> QED BY <1>1, <1>2, <1>3, <1>4, <1>5 DEF Next

(* Only Restart begins again. *)
LEMMA NoNewRun == ASSUME Next, ~Restart PROVE pc' # "created"
<1>1. ASSUME NEW entries, BeginWriteBack(entries) PROVE pc' # "created"
  BY <1>1 DEF BeginWriteBack
<1>2. CASE Access
  <2>1. CASE ReadEntry \/ AppendVal \/ SkipFullEntry \/ PlaceNewEntry
    BY <1>1, <2>1 DEF ReadEntry, AppendVal, SkipFullEntry, PlaceNewEntry
  <2>2. CASE StartAccess \/ ReadBlock \/ LoadEntry \/ EvictEntry \/ AddEntry
    BY <2>2 DEF StartAccess, ReadBlock, LoadEntry, EvictEntry, AddEntry, ReadPath, EndCall
  <2>3. CASE WriteBack \/ WriteBackAndResize \/ ResizeOverflows
    BY <2>3 DEF WriteBack, WriteBackAndResize, ResizeOverflows
  <2>4. CASE ReturnRead \/ ReturnWrite \/ MissingEntry \/ OverrunReply
    BY <2>4 DEF ReturnRead, ReturnWrite, MissingEntry, OverrunReply, Die, EndCall
  <2> QED BY <1>2, <2>1, <2>2, <2>3, <2>4 DEF Access
<1> QED BY <1>2 DEF Next, OramInit, ReadVal, WriteVal, Call, JustAddBitmap

(* Only read_entries_on_path loses an entry of the stash. *)
LEMMA OverwrittenKept ==
  ASSUME TreeInv, NEW L, PlaceInv(L), Next, ~LoadEntry
  PROVE  ~(Overwritten' > Overwritten)
<1>1. PhaseInv /\ OnePlace /\ Account(L) /\ Assigned(L) /\ SlotInv /\ BlockInv
  BY DEF PlaceInv
<1>2. Overwritten \in Int
  BY <1>1, FinitePlaces DEF Overwritten, TreeInv, TypeOK, StashTypes
<1>3. ASSUME UNCHANGED <<stash, stash_num>> PROVE Overwritten' = Overwritten
  BY <1>3 DEF Overwritten
<1>4. CASE \/ OramInit
           \/ \E k \in Keys : ReadVal(k)
           \/ \E k \in Keys, v \in Vals : WriteVal(k, v)
           \/ \E k \in JustKeys : JustAddBitmap(k)
  <2>1. UNCHANGED <<stash, stash_num>>
    BY <1>4 DEF OramInit, ReadVal, WriteVal, Call, JustAddBitmap, stashVars
  <2> QED BY <1>2, <1>3, <2>1
<1>5. CASE Restart
  <2>1. stash' = {} /\ stash_num' = 0
    BY <1>5 DEF Restart
  <2> QED BY <1>1, <1>2, <2>1, FS_EmptySet DEF Overwritten, Account
<1>6. CASE Access
  <2>1. CASE StartAccess \/ ReadBlock \/ ReturnRead \/ ReturnWrite \/ MissingEntry \/ OverrunReply
    <3>1. UNCHANGED <<stash, stash_num>>
      BY <2>1 DEF StartAccess, ReadBlock, ReturnRead, ReturnWrite, MissingEntry, OverrunReply, Die,
                  stashVars
    <3> QED BY <1>2, <1>3, <3>1
  <2>2. CASE WriteBack \/ WriteBackAndResize \/ ResizeOverflows
    <3>1. UNCHANGED <<stash, stash_num>>
      BY <2>2 DEF WriteBack, WriteBackAndResize, ResizeOverflows, stashVars
    <3> QED BY <1>2, <1>3, <3>1
  <2>3. CASE ReadEntry \/ SkipFullEntry \/ PlaceNewEntry
    <3>1. UNCHANGED <<stash, stash_num>>
      BY <2>3 DEF ReadEntry, SkipFullEntry, PlaceNewEntry, BeginWriteBack
    <3> QED BY <1>2, <1>3, <3>1
  <2>4. CASE AppendVal
    <3>1. Overwritten' = Overwritten
      BY <1>1, <2>4, AppendValEffect
    <3> QED BY <1>2, <3>1
  <2>5. CASE AddEntry
    <3>1. Overwritten' = Overwritten
      BY <1>1, <2>5, AddEntryEffect
    <3> QED BY <1>2, <3>1
  <2>6. CASE EvictEntry
    <3>1. PICK e \in todo : \/ UNCHANGED stashVars
                            \/ \E h \in Fits(e) : MoveToBlock(e, h)
      BY <2>6 DEF EvictEntry
    <3>2. Overwritten' = Overwritten
      BY <1>1, <1>3, <2>6, <3>1, MoveEffect DEF stashVars
    <3> QED BY <1>2, <3>2
  <2> QED BY <1>6, <2>1, <2>2, <2>3, <2>4, <2>5, <2>6 DEF Access
<1> QED BY <1>4, <1>5, <1>6 DEF Next

(* What the invariant says of the properties. *)
LEMMA PlaceFacts ==
  ASSUME TreeInv, NEW L, PlaceInv(L)
  PROVE  PathInvariant /\ GroupsFillInOrder /\ StashHasRoom
<1>1. StashHasRoom
  <2>1. Cardinality(stash) \in Nat /\ STASHMAXSIZE \in Nat
    BY FinitePlaces, SizeAssumption DEF PlaceInv
  <2> QED BY <2>1 DEF PlaceInv, SlotInv, StashHasRoom, StashFull
<1> QED BY <1>1 DEF PlaceInv, ScanInv

-----------------------------------------------------------------------------
(* What holds of the store while ecall_handler_init is called once.        *)

(* The inductive invariant behind the theorems below.                      *)
THEOREM PlaceInvariant == Spec => [](TreeInv /\ PlaceInv({}))
<1>1. Init => TreeInv /\ PlaceInv({})
  BY InitTreeInv, InitPlaceInv
<1>2. ASSUME TreeInv, PlaceInv({}), [Next]_vars PROVE TreeInv' /\ PlaceInv({})'
  <2>1. TreeInv'
    BY <1>2, NextTreeInv
  <2>2. CASE Restart
    BY <2>1, <2>2, RestartPlaceInv
  <2>3. CASE Next /\ ~Restart
    BY <1>2, <2>1, <2>3, NextPlaceInv
  <2>4. CASE UNCHANGED vars
    BY <1>2, <2>1, <2>4, StutterPlaceInv
  <2> QED BY <1>2, <2>2, <2>3, <2>4
<1> QED BY <1>1, <1>2, PTL DEF Spec

(* Every entry write_val ever created is in one place of stash, record,    *)
(* write_back and file, unless it was overwritten in the last slot of the  *)
(* stash: no order of accesses, evictions and resizes loses or doubles one. *)
THEOREM EntriesConserved == Spec => []EntryConservation
<1>1. TreeInv /\ PlaceInv({}) => EntryConservation
  <2> SUFFICES ASSUME TreeInv, PlaceInv({}) PROVE EntryConservation
    OBVIOUS
  <2>1. Cardinality({}) = 0
    BY FS_EmptySet
  <2>2. Cardinality(Live) \in Nat /\ Overwritten \in Int
    BY FinitePlaces DEF PlaceInv, Overwritten, TreeInv, TypeOK, StashTypes
  <2>3. pair_number = Cardinality(Live) + Overwritten
    BY <2>1, <2>2 DEF PlaceInv, Account
  <2> QED BY <2>3 DEF PlaceInv, Account, OnePlace, EntryConservation
<1> QED BY PlaceInvariant, <1>1, PTL

(* An entry in the tree lies on the path of its leaf, while leaves are     *)
(* redrawn by read_val and write_val and moved down by resize.             *)
THEOREM PathsCorrect == Spec => []PathInvariant
<1>1. TreeInv /\ PlaceInv({}) => PathInvariant
  BY PlaceFacts
<1> QED BY PlaceInvariant, <1>1, PTL

(* write_val never meets the full stash whose error its caller drops.      *)
THEOREM StashNeverFull == Spec => []StashHasRoom
<1>1. TreeInv /\ PlaceInv({}) => StashHasRoom
  BY PlaceFacts
<1> QED BY PlaceInvariant, <1>1, PTL

(* read_val returns the values of a key in the order of their writes, as   *)
(* far as that depends on the groups: all but the last are full.           *)
THEOREM GroupsInOrder == Spec => []GroupsFillInOrder
<1>1. TreeInv /\ PlaceInv({}) => GroupsFillInOrder
  BY PlaceFacts
<1> QED BY PlaceInvariant, <1>1, PTL

(* When get_entry returns NULL the entry is in no block and no slot at all, *)
(* and unless handle_just has named the key an entry was overwritten.      *)
THEOREM MissingOrphan == Spec => []MissingOnlyIfOrphan
<1>1. TreeInv /\ PlaceInv({}) => MissingOnlyIfOrphan
  BY DEF PlaceInv, OwnedInv, MissingOnlyIfOrphan
<1> QED BY PlaceInvariant, <1>1, PTL

(* The test at the end of write_entries_to_path reserves room for a path:  *)
(* an entry is overwritten only by the access after a resize.              *)
THEOREM OverwriteGrown == Spec => OverwriteOnlyAfterResize
<1>1. ASSUME TreeInv, PlaceInv({}), [Next]_vars, Overwritten' > Overwritten
      PROVE  LeafLevelEmpty
  <2>1. Overwritten \in Int
    BY <1>1, FinitePlaces DEF PlaceInv, Overwritten, TreeInv, TypeOK, StashTypes
  <2>2. CASE LoadEntry
    BY <1>1, <2>2, LoadOverGrown
  <2>3. CASE Next /\ ~LoadEntry
    BY <1>1, <2>3, OverwrittenKept
  <2>4. CASE UNCHANGED vars
    <3>1. Overwritten' = Overwritten
      BY <2>4 DEF vars, stashVars, Overwritten
    <3> QED BY <1>1, <2>1, <3>1
  <2> QED BY <1>1, <2>2, <2>3, <2>4
<1>2. TreeInv /\ PlaceInv({}) /\ [Next]_vars => [Overwritten' > Overwritten => LeafLevelEmpty]_vars
  BY <1>1
<1> QED BY PlaceInvariant, <1>2, PTL DEF Spec, OverwriteOnlyAfterResize

(* An access of a tree whose path alone fills the stash ends with one more *)
(* level, or with more blocks than the file can address.                   *)
THEOREM AccessGrows == Spec => NoAccessWithoutGrowth
<1> DEFINE Full == pc = "evict" /\ tree_level * ENTRYMAXNUM >= STASHMAXSIZE
           Ends == pc' \notin {"evict", "created"}
           Grown == tree_level' = tree_level + 1 \/ pc' = "alias"
<1>1. ASSUME TreeInv, PlaceInv({}), Full PROVE MustResize
  <2>1. stash_num \in Int /\ tree_level \in Nat
    BY <1>1, LevelAssumption DEF TreeInv, TypeOK, StashTypes, TreeTypes, Levels
  <2>2. stash_num >= 0
    BY <1>1, <2>1, FinitePlaces DEF PlaceInv, Account, Overwritten
  <2>3. ENTRYMAXNUM \in Nat /\ STASHMAXSIZE \in Nat /\ tree_level * ENTRYMAXNUM \in Nat
    BY <2>1, SizeAssumption
  <2>4. tree_level * ENTRYMAXNUM >= STASHMAXSIZE
    BY <1>1
  <2> QED BY <2>1, <2>2, <2>3, <2>4 DEF MustResize
<1>2. ASSUME Next, Full, Ends, MustResize PROVE Grown
  <2>1. CASE WriteBack
    BY <1>2, <2>1 DEF WriteBack
  <2>2. CASE WriteBackAndResize \/ ResizeOverflows
    BY <2>2 DEF WriteBackAndResize, ResizeOverflows
  <2>3. CASE EvictEntry \/ Restart
    BY <1>2, <2>3 DEF EvictEntry, Restart
  <2>4. ~(WriteBack \/ WriteBackAndResize \/ ResizeOverflows \/ EvictEntry \/ Restart) => FALSE
    BY <1>2 DEF Next, Access, OramInit, ReadVal, WriteVal, Call, JustAddBitmap, StartAccess, ReadBlock,
                LoadEntry, ReadEntry, AppendVal, SkipFullEntry, PlaceNewEntry, AddEntry, ReturnRead,
                ReturnWrite, MissingEntry, OverrunReply, Accessing
  <2> QED BY <2>1, <2>2, <2>3, <2>4
<1>3. ASSUME UNCHANGED vars, Full, Ends PROVE FALSE
  BY <1>3 DEF vars
<1>4. TreeInv /\ PlaceInv({}) /\ [Next]_vars => [Full /\ Ends => Grown]_vars
  BY <1>1, <1>2, <1>3
<1>5. [Full /\ Ends => Grown]_vars
        => [pc = "evict" /\ pc' \notin {"evict", "created"} /\ tree_level * ENTRYMAXNUM >= STASHMAXSIZE
              => tree_level' = tree_level + 1 \/ pc' = "alias"]_vars
  OBVIOUS
<1>6. TreeInv /\ PlaceInv({}) /\ [Next]_vars
        => [pc = "evict" /\ pc' \notin {"evict", "created"} /\ tree_level * ENTRYMAXNUM >= STASHMAXSIZE
              => tree_level' = tree_level + 1 \/ pc' = "alias"]_vars
  BY <1>4, <1>5
<1> QED BY PlaceInvariant, <1>6, PTL DEF Spec, NoAccessWithoutGrowth

-----------------------------------------------------------------------------
(* ecall_handler_init is called again.                                     *)

LEMMA ReinitTreeInv == ASSUME TreeInv, Reinit PROVE TreeInv'
<1>1. TreeTypes' /\ StashTypes' /\ CallTypes' /\ PathTypes' /\ EvictTypes'
  BY UnchangedTypes DEF Reinit, TreeInv, TypeOK
<1>2. FileTypes'
  <2>1. data' \in [Offsets -> SUBSET Entry]
    BY DEF Reinit, NullBlocks, TreeInv, TypeOK, FileTypes
  <2>2. fresh' \in SUBSET Offsets
    BY FileGrows DEF Reinit, InitBlocks, TreeInv, TypeOK, TreeTypes, Offsets
  <2> QED BY <2>1, <2>2 DEF FileTypes
<1>3. pc = "idle" /\ UNCHANGED <<pc, treeVars>>
  BY DEF Reinit
<1>4. FlagsAreLeaves' /\ FreshTree' /\ WalkInTree'
  BY <1>3 DEF Reinit, InitBlocks, treeVars, TreeInv, FlagsAreLeaves, FreshTree, WalkInTree,
              Running
<1> QED BY <1>1, <1>2, <1>3, <1>4 DEF TreeInv, TypeOK

(* The entries that the call takes from the file.                          *)
InFile == UNION {data[o] : o \in InitBlocks}

(* The entries that were in the file are lost, those of the stash stay.    *)
LEMMA ReinitEffect ==
  ASSUME TreeInv, NEW L, PlaceInv(L), Reinit
  PROVE  /\ Live = stash \cup InFile /\ Live' = stash /\ stash' = stash
         /\ \A e \in InFile : e \in Live /\ e \notin stash /\ e \notin L
         /\ IsFiniteSet(InFile) /\ IsFiniteSet(stash) /\ IsFiniteSet(L)
         /\ Cardinality(Live) = Cardinality(stash) + Cardinality(InFile)
         /\ Cardinality(L \cup InFile) = Cardinality(L) + Cardinality(InFile)
         /\ Resting' = Resting /\ Resting = InitBlocks
         /\ \A o \in InitBlocks : data'[o] = {}
         /\ \A o \in Offsets : data'[o] = {} \/ data'[o] = data[o]
<1>1. /\ pc = "idle" /\ data' = NullBlocks(InitBlocks, data)
      /\ UNCHANGED <<tree_level, stash, record, height, write_back>>
  BY DEF Reinit, treeVars, stashVars, pathVars, evictVars
<1>2. height = 0 /\ record = {} /\ write_back = [h \in Heights |-> {}]
  BY <1>1 DEF PlaceInv, PhaseInv
<1>3. Resting = InitBlocks /\ Resting' = Resting
  BY <1>1, <1>2, NothingConsumed, SamePath DEF Resting, InitBlocks
<1>4. InitBlocks \subseteq Offsets
  BY <1>3, LiveEntries
<1>5. /\ \A o \in InitBlocks : data'[o] = {}
      /\ \A o \in Offsets : data'[o] = {} \/ data'[o] = data[o]
  BY <1>1, <1>4 DEF NullBlocks
<1>6. \A e : e \in InFile <=> \E o \in Resting : e \in data[o]
  BY <1>3 DEF InFile
<1>7. Live = stash \cup InFile
  <2>1. \A e : e \in Live <=> e \in stash \cup InFile
    BY <1>2, <1>6, InLive
  <2> QED BY <2>1
<1>8. Live' = stash
  <2>1. \A e : e \in Live' <=> e \in stash
    BY <1>1, <1>2, <1>3, <1>5, InLive
  <2> QED BY <2>1
<1>9. \A e \in InFile : e \in Live /\ e \notin stash /\ e \notin L
  BY <1>6, <1>7 DEF PlaceInv, OnePlace, Account, SameEntry
<1>10. IsFiniteSet(InFile) /\ IsFiniteSet(stash) /\ IsFiniteSet(L)
  BY <1>7, FinitePlaces, FS_Subset DEF PlaceInv, Account
<1>11. Cardinality(stash \cup InFile) = Cardinality(stash) + Cardinality(InFile)
  BY <1>9, <1>10, DisjointUnion
<1>12. Cardinality(L \cup InFile) = Cardinality(L) + Cardinality(InFile)
  BY <1>9, <1>10, DisjointUnion
<1> QED BY <1>1, <1>3, <1>5, <1>7, <1>8, <1>9, <1>10, <1>11, <1>12

LEMMA ReinitPlaceInv ==
  ASSUME TreeInv, NEW L, PlaceInv(L), Reinit, NEW M, M = L \cup InFile
  PROVE  PlaceInv(M)'
<1>1. PhaseInv /\ OnePlace /\ Account(L) /\ Assigned(L) /\ SlotInv /\ BlockInv /\ ScanInv
        /\ OwnedInv(L)
  BY DEF PlaceInv
<1>2. /\ pc = "idle" /\ tree_level \in Levels
      /\ UNCHANGED <<pc, tree_level, pair_number, bitmap, stash, stash_num, tail, record, height,
                     write_back>>
  BY DEF Reinit, treeVars, stashVars, pathVars, evictVars, TreeInv, TypeOK, TreeTypes
<1>3. /\ Live = stash \cup InFile /\ Live' = stash /\ stash' = stash
      /\ \A e \in InFile : e \in Live /\ e \notin stash /\ e \notin L
      /\ IsFiniteSet(InFile) /\ IsFiniteSet(stash) /\ IsFiniteSet(L)
      /\ Cardinality(Live) = Cardinality(stash) + Cardinality(InFile)
      /\ Cardinality(L \cup InFile) = Cardinality(L) + Cardinality(InFile)
      /\ Resting' = Resting /\ Resting = InitBlocks
      /\ \A o \in InitBlocks : data'[o] = {}
      /\ \A o \in Offsets : data'[o] = {} \/ data'[o] = data[o]
  BY ReinitEffect
<1>4. record = {} /\ write_back = [h \in Heights |-> {}]
  BY <1>1, <1>2 DEF PhaseInv
<1>5. PhaseInv' /\ SlotInv'
  BY <1>1, <1>2 DEF PhaseInv, SlotInv
<1>6. OnePlace'
  BY <1>1, <1>2, <1>3, <1>4 DEF OnePlace
<1>7. Account(M)'
  <2>1. IsFiniteSet(M)
    BY <1>3, FS_Union
  <2>2. /\ Cardinality(stash) \in Nat /\ Cardinality(InFile) \in Nat /\ Cardinality(L) \in Nat
        /\ Overwritten \in Int
    BY <1>3, FS_CardinalityType DEF Overwritten, TreeInv, TypeOK, StashTypes
  <2>3. Overwritten' = Overwritten
    BY <1>2 DEF Overwritten
  <2>4. pair_number' = Cardinality(Live') + Overwritten' + Cardinality(M) /\ Overwritten' >= 0
    BY <1>1, <1>2, <1>3, <2>2, <2>3 DEF Account
  <2>5. \A e \in Live', f \in M : ~SameEntry(e, f)
    BY <1>1, <1>3 DEF Account, OnePlace
  <2> QED BY <1>3, <2>1, <2>4, <2>5 DEF Account
<1>8. Assigned(M)'
  BY <1>1, <1>2, <1>3, LiveEntries DEF Assigned
<1>9. PathInvariant'
  BY <1>2, <1>3, <1>4 DEF PathInvariant
<1>10. BlockInv'
  <2>1. ASSUME NEW o \in Offsets
        PROVE  IsFiniteSet(data'[o]) /\ Cardinality(data'[o]) <= ENTRYMAXNUM
    <3>1. CASE data'[o] = {}
      BY <3>1, FS_EmptySet, SizeAssumption
    <3>2. CASE data'[o] = data[o]
      BY <1>1, <3>2 DEF BlockInv
    <3> QED BY <1>3, <3>1, <3>2
  <2> QED BY <1>1, <1>2, <2>1 DEF BlockInv
<1>11. RoomInv'
  <2>1. LeafLevelEmpty'
    BY <1>2, <1>3, LeafLevelInFile DEF LeafLevelEmpty, InitBlocks
  <2> QED BY <1>2, <2>1 DEF RoomInv
<1>12. ScanInv'
  <2>1. SameGroups
    BY <1>2, SameBitmap
  <2>2. GroupsFillInOrder'
    BY <1>1, <1>3, <2>1, FillKept DEF ScanInv
  <2> QED BY <1>2, <2>2 DEF ScanInv, Running
<1>13. OwnedInv(M)'
  <2>1. Live' \cup M = Live \cup L
    BY <1>3
  <2>2. Overwritten' = Overwritten
    BY <1>2 DEF Overwritten
  <2> QED BY <1>1, <1>2, <2>1, <2>2 DEF OwnedInv
<1> QED BY <1>5, <1>6, <1>7, <1>8, <1>9, <1>10, <1>11, <1>12, <1>13 DEF PlaceInv

(* The invariant for the lost entries of the state it is about.            *)
LEMMA LostIs == ASSUME NEW L, lost' = L, PlaceInv(L)' PROVE PlaceInv(lost)'
BY DEF PlaceInv, Account, Assigned, OwnedInv

THEOREM PlaceInvariantR == SpecR => [](TreeInv /\ PlaceInv(lost))
<1>1. InitR => TreeInv /\ PlaceInv(lost)
  BY InitTreeInv, InitPlaceInv DEF InitR
<1>2. ASSUME TreeInv, PlaceInv(lost), [NextR]_varsR PROVE TreeInv' /\ PlaceInv(lost)'
  <2>1. PICK L : L = lost
    OBVIOUS
  <2>2. PlaceInv(L)
    BY <1>2, <2>1
  <2>3. CASE Next /\ ~Restart /\ lost' = IF pc' = "created" THEN {} ELSE lost
    <3>1. lost' = L
      BY <2>1, <2>3, NoNewRun
    <3>2. TreeInv' /\ PlaceInv(L)'
      BY <1>2, <2>2, <2>3, NextTreeInv, NextPlaceInv
    <3> QED BY <3>1, <3>2, LostIs
  <2>4. CASE Restart /\ lost' = IF pc' = "created" THEN {} ELSE lost
    <3>1. lost' = {}
      BY <2>4 DEF Restart
    <3>2. TreeInv' /\ PlaceInv({})'
      BY <1>2, <2>4, RestartTreeInv, RestartPlaceInv
    <3> QED BY <3>1, <3>2, LostIs
  <2>5. CASE Reinit
    <3>1. PICK M : M = L \cup InFile
      OBVIOUS
    <3>2. lost' = M
      BY <2>1, <2>5, <3>1 DEF Reinit, InFile
    <3>3. TreeInv' /\ PlaceInv(M)'
      BY <1>2, <2>2, <2>5, <3>1, ReinitTreeInv, ReinitPlaceInv
    <3> QED BY <3>2, <3>3, LostIs
  <2>6. CASE UNCHANGED varsR
    <3>1. UNCHANGED vars /\ lost' = L
      BY <2>1, <2>6 DEF varsR
    <3>2. TreeInv' /\ PlaceInv(L)'
      BY <1>2, <2>2, <3>1, NextTreeInv, StutterPlaceInv
    <3> QED BY <3>1, <3>2, LostIs
  <2> QED BY <1>2, <2>3, <2>4, <2>5, <2>6 DEF NextR
<1> QED BY <1>1, <1>2, PTL DEF SpecR

-----------------------------------------------------------------------------
(* What holds of the store when it is called again and again.              *)

(* However often the application calls ecall_handler_init, no access       *)
(* decrypts a block that was not written under the key of the last call.   *)
THEOREM FreshCorrectR == SpecR => []FreshTree
<1>1. TreeInv => FreshTree
  BY DEF TreeInv
<1> QED BY PlaceInvariantR, <1>1, PTL

(* Nor does it cost the tree its order: types, leaves and load are kept,   *)
(* though pair_number goes on counting the entries that the call has lost. *)
THEOREM TreeCorrectR == SpecR => [](TypeOK /\ FlagsAreLeaves /\ LoadFactor)
<1>1. TreeInv => TypeOK /\ FlagsAreLeaves
  BY DEF TreeInv
<1>2. InitR => LoadInv
  BY InitLoadInv DEF InitR
<1>3. ASSUME TreeInv, LoadInv, [NextR]_varsR PROVE LoadInv'
  <2>1. CASE Next
    BY <1>3, <2>1, NextLoadInv
  <2>2. CASE Reinit
    BY <1>3, <2>2 DEF Reinit, treeVars, LoadInv, PairLimit
  <2>3. CASE UNCHANGED varsR
    <3>1. UNCHANGED vars
      BY <2>3 DEF varsR
    <3> QED BY <1>3, <3>1, NextLoadInv
  <2> QED BY <1>3, <2>1, <2>2, <2>3 DEF NextR
<1>4. TreeInv /\ LoadInv => LoadFactor
  BY HalfFull
<1> QED BY PlaceInvariantR, <1>1, <1>2, <1>3, <1>4, PTL DEF SpecR

(* The entries such calls lose stay in the count of pairs, and no entry    *)
(* that is left, or written later, is one of them.                         *)
THEOREM LostCounted == SpecR => []LostConservation
<1>1. TreeInv /\ PlaceInv(lost) => LostConservation
  BY DEF PlaceInv, Account, LostConservation
<1> QED BY PlaceInvariantR, <1>1, PTL

(* The entries that are left, those of the stash, keep their order: in the *)
(* tree on the path of their leaves, the groups full but the last, and the *)
(* stash with a free slot after every access.                              *)
THEOREM PlacesCorrectR == SpecR => [](PathInvariant /\ GroupsFillInOrder /\ StashHasRoom)
<1>1. TreeInv /\ PlaceInv(lost) => PathInvariant /\ GroupsFillInOrder /\ StashHasRoom
  <2> SUFFICES ASSUME TreeInv, PlaceInv(lost)
               PROVE  PathInvariant /\ GroupsFillInOrder /\ StashHasRoom
    OBVIOUS
  <2>1. PICK L : L = lost
    OBVIOUS
  <2>2. PlaceInv(L)
    BY <2>1
  <2> QED BY <2>2, PlaceFacts
<1> QED BY PlaceInvariantR, <1>1, PTL

(* get_entry returns NULL only for an entry lost by such a call or in the  *)
(* stash, or to a key that handle_just has named.                          *)
THEOREM MissingLost == SpecR => []MissingOnlyIfLost
<1>1. TreeInv /\ PlaceInv(lost) => MissingOnlyIfLost
  BY DEF PlaceInv, OwnedInv, MissingOnlyIfLost
<1> QED BY PlaceInvariantR, <1>1, PTL

-----------------------------------------------------------------------------
(***************************************************************************)
(* The store that the callers see: Oram implements KvStore.                *)
(***************************************************************************)

(***************************************************************************)
(* What FlattenSeq computes.  Its recursive function has a solution: the   *)
(* concatenations of the first elements, one more at a time.               *)
(***************************************************************************)
Cats(s) == CHOOSE f : f = [i \in 1 .. Len(s) |-> IF i = 1 THEN s[i] ELSE f[i - 1] \o s[i]]

LEMMA FlattenIsCats ==
  ASSUME NEW s
  PROVE  FlattenSeq(s) = IF Len(s) = 0 THEN s ELSE Cats(s)[Len(s)]
BY DEF FlattenSeq, Cats

IsCats(g, s, n) == \A i \in 1 .. n : g[i] = IF i = 1 THEN s[i] ELSE g[i - 1] \o s[i]

LEMMA CatsExist == ASSUME NEW s, NEW n \in Nat PROVE \E g : IsCats(g, s, n)
<1> DEFINE Bad == {l \in Nat : ~ \E g : IsCats(g, s, l)}
<1>1. SUFFICES ASSUME Bad # {} PROVE FALSE
  OBVIOUS
<1>2. PICK l \in Bad : \A k \in Bad : l <= k
  <2>1. Bad \in SUBSET Nat
    OBVIOUS
  <2> HIDE DEF Bad
  <2> QED BY <1>1, <2>1, LeastElement
<1>3. l # 0
  <2>1. IsCats(s, s, 0)
    BY DEF IsCats
  <2> QED BY <1>2, <2>1
<1>4. l \in Nat /\ l - 1 \in Nat /\ l - 1 \notin Bad
  BY <1>2, <1>3
<1>5. PICK g : IsCats(g, s, l - 1)
  BY <1>4
<1> DEFINE h == [i \in 1 .. l |-> IF i = l THEN (IF l = 1 THEN s[1] ELSE g[l - 1] \o s[l]) ELSE g[i]]
<1>6. ASSUME NEW i \in 1 .. l PROVE h[i] = IF i = 1 THEN s[i] ELSE h[i - 1] \o s[i]
  <2>1. i # 1 => i - 1 \in 1 .. l /\ i - 1 # l /\ h[i - 1] = g[i - 1]
    BY <1>4
  <2>2. CASE i = l
    <3>1. h[i] = IF l = 1 THEN s[1] ELSE g[l - 1] \o s[l]
      BY <2>2
    <3> HIDE DEF h
    <3> QED BY <2>1, <2>2, <3>1
  <2>3. CASE i # l
    <3>1. i \in 1 .. l - 1 /\ h[i] = g[i]
      BY <1>4, <2>3
    <3>2. g[i] = IF i = 1 THEN s[i] ELSE g[i - 1] \o s[i]
      BY <1>5, <3>1 DEF IsCats
    <3> HIDE DEF h
    <3> QED BY <2>1, <3>1, <3>2
  <2> QED BY <2>2, <2>3
<1>7. IsCats(h, s, l)
  <2> HIDE DEF h
  <2> QED BY <1>6 DEF IsCats
<1> QED BY <1>2, <1>7

LEMMA CatsAre == ASSUME NEW s, Len(s) \in Nat PROVE IsCats(Cats(s), s, Len(s))
<1> DEFINE Def(f) == [i \in 1 .. Len(s) |-> IF i = 1 THEN s[i] ELSE f[i - 1] \o s[i]]
<1>1. PICK g : IsCats(g, s, Len(s))
  BY CatsExist
<1> DEFINE h == [i \in 1 .. Len(s) |-> g[i]]
<1>2. ASSUME NEW i \in 1 .. Len(s) PROVE h[i] = IF i = 1 THEN s[i] ELSE h[i - 1] \o s[i]
  <2>1. i # 1 => i - 1 \in 1 .. Len(s) /\ h[i - 1] = g[i - 1]
    OBVIOUS
  <2>2. h[i] = g[i] /\ g[i] = IF i = 1 THEN s[i] ELSE g[i - 1] \o s[i]
    BY <1>1 DEF IsCats
  <2> HIDE DEF h
  <2> QED BY <2>1, <2>2
<1>3. h = Def(h)
  <2>1. h = [i \in 1 .. Len(s) |-> h[i]]
    OBVIOUS
  <2> HIDE DEF h
  <2> QED BY <1>2, <2>1
<1>4. Cats(s) = Def(Cats(s))
  <2>1. \E f : f = Def(f)
    <3> HIDE DEF h
    <3> QED BY <1>3
  <2>2. Cats(s) = CHOOSE f : f = Def(f)
    BY DEF Cats
  <2> HIDE DEF Def
  <2> QED BY <2>1, <2>2
<1>5. \A i \in 1 .. Len(s) : Cats(s)[i] = Def(Cats(s))[i]
  <2> HIDE DEF Def
  <2> QED BY <1>4
<1> QED BY <1>5 DEF IsCats

SamePrefix(s, t, m) == \A i \in 1 .. m : s[i] = t[i]

LEMMA CatsAgree ==
  ASSUME NEW s, NEW t, NEW f, NEW g, NEW m \in Nat, NEW n \in Nat, IsCats(f, s, m), IsCats(g, t, n),
         m <= n, SamePrefix(s, t, m)
  PROVE  SamePrefix(f, g, m)
<1> SUFFICES ASSUME NEW j \in 1 .. m PROVE f[j] = g[j]
  BY DEF SamePrefix
<1> DEFINE Bad == {l \in 1 .. m : f[l] # g[l]}
<1>1. SUFFICES ASSUME Bad # {} PROVE FALSE
  OBVIOUS
<1>2. PICK l \in Bad : \A k \in Bad : l <= k
  <2>1. Bad \in SUBSET Nat
    OBVIOUS
  <2> HIDE DEF Bad
  <2> QED BY <1>1, <2>1, LeastElement
<1>3. l \in 1 .. m /\ l \in 1 .. n /\ f[l] # g[l] /\ s[l] = t[l]
  BY DEF SamePrefix
<1>4. l # 1
  BY <1>3 DEF IsCats
<1>5. l - 1 \in 1 .. m /\ l - 1 \notin Bad
  BY <1>2, <1>4
<1>6. f[l - 1] = g[l - 1]
  BY <1>5
<1>7. f[l] = f[l - 1] \o s[l] /\ g[l] = g[l - 1] \o t[l]
  BY <1>3, <1>4 DEF IsCats
<1> QED BY <1>3, <1>6, <1>7

LEMMA CatsTyped ==
  ASSUME NEW V, NEW s \in Seq(Seq(V)), NEW j \in 1 .. Len(s)
  PROVE  Cats(s)[j] \in Seq(V)
<1> DEFINE Bad == {l \in 1 .. Len(s) : Cats(s)[l] \notin Seq(V)}
<1>1. SUFFICES ASSUME Bad # {} PROVE FALSE
  OBVIOUS
<1>2. PICK l \in Bad : \A k \in Bad : l <= k
  <2>1. Bad \in SUBSET Nat
    OBVIOUS
  <2> HIDE DEF Bad
  <2> QED BY <1>1, <2>1, LeastElement
<1>3. l \in 1 .. Len(s) /\ Len(s) \in Nat /\ s[l] \in Seq(V)
  OBVIOUS
<1>4. Cats(s)[l] = IF l = 1 THEN s[l] ELSE Cats(s)[l - 1] \o s[l]
  BY <1>3, CatsAre DEF IsCats
<1>5. CASE l = 1
  BY <1>3, <1>4, <1>5
<1>6. CASE l # 1
  <2>1. l - 1 \in 1 .. Len(s) /\ l - 1 \notin Bad
    BY <1>2, <1>6
  <2>2. Cats(s)[l - 1] \in Seq(V)
    BY <2>1
  <2>3. Cats(s)[l - 1] \o s[l] \in Seq(V)
    BY <1>3, <2>2, ConcatProperties
  <2> QED BY <1>4, <1>6, <2>3
<1> QED BY <1>5, <1>6

LEMMA FlattenAppend ==
  ASSUME NEW V, NEW s \in Seq(Seq(V)), NEW v \in Seq(V)
  PROVE  /\ FlattenSeq(s) \in Seq(V)
         /\ FlattenSeq(Append(s, v)) = FlattenSeq(s) \o v
<1> DEFINE t == Append(s, v)
           n == Len(s)
<1>1. /\ t \in Seq(Seq(V)) /\ Len(t) = n + 1 /\ n \in Nat
      /\ t[n + 1] = v /\ \A i \in 1 .. n : s[i] = t[i]
  BY AppendProperties
<1>2. IsCats(Cats(s), s, n) /\ IsCats(Cats(t), t, n + 1)
  <2>1. IsCats(Cats(t), t, Len(t))
    <3>1. Len(t) \in Nat
      BY <1>1
    <3> HIDE DEF t
    <3> QED BY <3>1, CatsAre
  <2> QED BY <1>1, <2>1, CatsAre
<1>3. FlattenSeq(t) = Cats(t)[n + 1]
  <2>1. n + 1 # 0
    BY <1>1
  <2> HIDE DEF t
  <2> QED BY <1>1, <2>1, FlattenIsCats
<1>4. Cats(t)[n + 1] = IF n = 0 THEN v ELSE Cats(t)[n] \o v
  <2>1. n + 1 \in 1 .. n + 1 /\ (n + 1 = 1 <=> n = 0) /\ (n + 1) - 1 = n
    BY <1>1
  <2>2. Cats(t)[n + 1] = IF n + 1 = 1 THEN t[n + 1] ELSE Cats(t)[(n + 1) - 1] \o t[n + 1]
    BY <1>2, <2>1 DEF IsCats
  <2> HIDE DEF t
  <2> QED BY <1>1, <2>1, <2>2
<1>5. CASE n = 0
  <2>1. s = <<>>
    BY <1>5, EmptySeq
  <2>2. FlattenSeq(s) = s
    BY <1>5, FlattenIsCats
  <2>3. <<>> \o v = v /\ <<>> \in Seq(V)
    OBVIOUS
  <2> QED BY <1>3, <1>4, <1>5, <2>1, <2>2, <2>3
<1>6. CASE n # 0
  <2>1. n \in 1 .. n
    BY <1>1, <1>6
  <2>2. Cats(s)[n] = Cats(t)[n]
    <3>1. /\ n \in Nat /\ n + 1 \in Nat /\ n <= n + 1 /\ n \in 1 .. n
          /\ SamePrefix(s, t, n)
          /\ IsCats(Cats(s), s, n) /\ IsCats(Cats(t), t, n + 1)
      BY <1>1, <1>2, <2>1 DEF SamePrefix
    <3> DEFINE f == Cats(s)
               g == Cats(t)
               m == n + 1
    <3>2. IsCats(f, s, n) /\ IsCats(g, t, m) /\ m \in Nat /\ n <= m
      BY <3>1
    <3> HIDE DEF t, n, f, g, m
    <3>3. SamePrefix(f, g, n)
      BY ONLY <3>1, <3>2, CatsAgree
    <3>4. f[n] = g[n]
      BY <3>1, <3>3 DEF SamePrefix
    <3> QED BY <3>4 DEF f, g
  <2>3. FlattenSeq(s) = Cats(s)[n]
    BY <1>6, FlattenIsCats
  <2>4. Cats(s)[n] \in Seq(V)
    BY <2>1, CatsTyped
  <2> HIDE DEF t, n
  <2> QED BY <1>3, <1>4, <1>6, <2>2, <2>3, <2>4 DEF t
<1> QED BY <1>5, <1>6

(* The values that S holds of a group of k, and of its first n groups.     *)
GroupVals(S, k, i) ==
  LET es == {e \in S : e.key = k /\ e.group = i}
  IN  IF es = {} THEN <<>> ELSE (CHOOSE e \in es : TRUE).vals

ValsIn(S, k, n) == FlattenSeq([i \in 1 .. n |-> GroupVals(S, k, i)])

(* No two entries of S are of the same group.                              *)
Single(S) == \A e, f \in S : SameEntry(e, f) => e = f

LEMMA GroupValsTyped ==
  ASSUME NEW S \in SUBSET Entry, NEW k, NEW i
  PROVE  GroupVals(S, k, i) \in Seq(Vals)
<1> DEFINE es == {e \in S : e.key = k /\ e.group = i}
<1>1. <<>> \in Seq(Vals)
  OBVIOUS
<1>2. CASE es = {}
  BY <1>1, <1>2 DEF GroupVals
<1>3. CASE es # {}
  <2>1. (CHOOSE e \in es : TRUE) \in es
    BY <1>3
  <2>2. (CHOOSE e \in es : TRUE) \in Entry
    BY <2>1
  <2>3. (CHOOSE e \in es : TRUE).vals \in Seq(Vals)
    <3> DEFINE x == CHOOSE e \in es : TRUE
    <3> HIDE DEF x
    <3> QED BY <2>2 DEF Entry, x
  <2> QED BY <1>3, <2>3 DEF GroupVals
<1> QED BY <1>2, <1>3

LEMMA GroupValsOf ==
  ASSUME NEW S, Single(S), NEW e \in S
  PROVE  GroupVals(S, e.key, e.group) = e.vals
<1> DEFINE es == {f \in S : f.key = e.key /\ f.group = e.group}
<1>1. e \in es /\ \A f \in es : f = e
  BY DEF Single, SameEntry
<1>2. (CHOOSE f \in es : TRUE) = e
  BY <1>1
<1>3. GroupVals(S, e.key, e.group) = IF es = {} THEN <<>> ELSE (CHOOSE f \in es : TRUE).vals
  BY DEF GroupVals
<1> HIDE DEF es
<1> QED BY <1>1, <1>2, <1>3

LEMMA GroupValsNone ==
  ASSUME NEW S, NEW k, NEW i, \A e \in S : e.key # k \/ e.group # i
  PROVE  GroupVals(S, k, i) = <<>>
BY DEF GroupVals

LEMMA GroupValsSame ==
  ASSUME NEW S, NEW T, NEW k, NEW i,
         \A e : e.key = k /\ e.group = i => (e \in S <=> e \in T)
  PROVE  GroupVals(S, k, i) = GroupVals(T, k, i)
<1> DEFINE a == {e \in S : e.key = k /\ e.group = i}
           b == {e \in T : e.key = k /\ e.group = i}
<1>1. a = b
  OBVIOUS
<1>2. /\ GroupVals(S, k, i) = IF a = {} THEN <<>> ELSE (CHOOSE e \in a : TRUE).vals
      /\ GroupVals(T, k, i) = IF b = {} THEN <<>> ELSE (CHOOSE e \in b : TRUE).vals
  BY DEF GroupVals
<1> HIDE DEF a, b
<1> QED BY <1>1, <1>2

LEMMA ValsInStep ==
  ASSUME NEW S \in SUBSET Entry, NEW k, NEW n \in Nat
  PROVE  /\ ValsIn(S, k, 0) = <<>>
         /\ ValsIn(S, k, n) \in Seq(Vals)
         /\ ValsIn(S, k, n + 1) = ValsIn(S, k, n) \o GroupVals(S, k, n + 1)
<1> DEFINE G(i) == GroupVals(S, k, i)
           s == [i \in 1 .. n |-> G(i)]
           t == [i \in 1 .. n + 1 |-> G(i)]
<1>1. \A i : G(i) \in Seq(Vals)
  BY GroupValsTyped
<1> HIDE DEF G
<1>2. s \in Seq(Seq(Vals)) /\ Len(s) = n
  BY <1>1
<1>3. t = Append(s, G(n + 1))
  <2>1. t \in Seq(Seq(Vals)) /\ Len(t) = n + 1
    BY <1>1
  <2>2. G(n + 1) \in Seq(Vals)
    BY <1>1
  <2>3. /\ Append(s, G(n + 1)) \in Seq(Seq(Vals)) /\ Len(Append(s, G(n + 1))) = n + 1
        /\ \A i \in 1 .. n : Append(s, G(n + 1))[i] = s[i]
        /\ Append(s, G(n + 1))[n + 1] = G(n + 1)
    <3> HIDE DEF s
    <3> QED BY <1>2, <2>2, AppendProperties
  <2>4. ASSUME NEW i \in 1 .. n + 1 PROVE t[i] = Append(s, G(n + 1))[i]
    <3>1. t[i] = G(i)
      OBVIOUS
    <3>2. CASE i \in 1 .. n
      <4>1. s[i] = G(i)
        BY <3>2
      <4> QED BY <2>3, <3>1, <3>2, <4>1
    <3>3. CASE i = n + 1
      BY <2>3, <3>1, <3>3
    <3> QED BY <3>2, <3>3
  <2>5. \A x, y \in Seq(Seq(Vals)) :
          Len(x) = Len(y) /\ (\A i \in 1 .. Len(x) : x[i] = y[i]) => x = y
    BY SeqEqual
  <2> DEFINE u == Append(s, G(n + 1))
  <2>6. u \in Seq(Seq(Vals)) /\ Len(u) = n + 1 /\ \A i \in 1 .. n + 1 : t[i] = u[i]
    BY <2>3, <2>4
  <2> HIDE DEF t, u
  <2>7. t = u
    BY <2>1, <2>5, <2>6
  <2> QED BY <2>7 DEF u
<1>4. ValsIn(S, k, n) = FlattenSeq(s) /\ ValsIn(S, k, n + 1) = FlattenSeq(t)
  BY DEF ValsIn, G
<1>5. /\ FlattenSeq(s) \in Seq(Vals)
      /\ FlattenSeq(Append(s, G(n + 1))) = FlattenSeq(s) \o G(n + 1)
  <2>1. G(n + 1) \in Seq(Vals)
    BY <1>1
  <2> HIDE DEF s
  <2> QED BY <1>2, <2>1, FlattenAppend
<1>6. ValsIn(S, k, 0) = <<>>
  <2> DEFINE z == [i \in 1 .. 0 |-> GroupVals(S, k, i)]
  <2>1. z = <<>> /\ Len(z) = 0
    OBVIOUS
  <2>2. ValsIn(S, k, 0) = FlattenSeq(z)
    BY DEF ValsIn
  <2> HIDE DEF z
  <2> QED BY <2>1, <2>2, FlattenIsCats
<1>7. ValsIn(S, k, n + 1) = FlattenSeq(s) \o G(n + 1)
  <2> HIDE DEF s, t
  <2> QED BY <1>3, <1>4, <1>5
<1> HIDE DEF s, t
<1> QED BY <1>4, <1>5, <1>6, <1>7 DEF G

LEMMA ValsInSame ==
  ASSUME NEW S, NEW T, NEW k, NEW n \in Nat,
         \A i \in 1 .. n : GroupVals(S, k, i) = GroupVals(T, k, i)
  PROVE  ValsIn(S, k, n) = ValsIn(T, k, n)
<1>1. [i \in 1 .. n |-> GroupVals(S, k, i)] = [i \in 1 .. n |-> GroupVals(T, k, i)]
  OBVIOUS
<1> QED BY <1>1 DEF ValsIn

LEMMA ValsInLonger ==
  ASSUME NEW S \in SUBSET Entry, NEW k, NEW m \in Nat, NEW n \in Nat, m <= n
  PROVE  Len(ValsIn(S, k, m)) <= Len(ValsIn(S, k, n))
<1> DEFINE L(i) == Len(ValsIn(S, k, i))
           Bad == {l \in Nat : m <= l /\ ~(L(m) <= L(l))}
<1>1. SUFFICES ASSUME Bad # {} PROVE FALSE
  <2> HIDE DEF L
  <2> QED BY DEF L
<1>2. PICK l \in Bad : \A j \in Bad : l <= j
  <2>1. Bad \in SUBSET Nat
    OBVIOUS
  <2> HIDE DEF Bad
  <2> QED BY <1>1, <2>1, LeastElement
<1>3. \A i \in Nat : L(i) \in Nat
  BY ValsInStep, LenProperties
<1>4. l \in Nat /\ m <= l /\ ~(L(m) <= L(l))
  BY <1>2
<1>5. l # m /\ l - 1 \in Nat /\ m <= l - 1 /\ l - 1 \notin Bad
  <2> HIDE DEF L
  <2> QED BY <1>2, <1>3, <1>4
<1>6. L(m) <= L(l - 1)
  <2> HIDE DEF L
  <2> QED BY <1>5
<1>7. L(l - 1) <= L(l)
  <2>1. /\ ValsIn(S, k, l - 1) \in Seq(Vals)
        /\ ValsIn(S, k, (l - 1) + 1) = ValsIn(S, k, l - 1) \o GroupVals(S, k, (l - 1) + 1)
    BY <1>5, ValsInStep
  <2>2. GroupVals(S, k, (l - 1) + 1) \in Seq(Vals) /\ (l - 1) + 1 = l
    BY <1>4, GroupValsTyped
  <2>3. \A x, y \in Seq(Vals) : Len(x \o y) >= Len(x)
    BY ConcatProperties, LenProperties
  <2> QED BY <2>1, <2>2, <2>3
<1> HIDE DEF L, Bad
<1> QED BY <1>3, <1>4, <1>5, <1>6, <1>7

-----------------------------------------------------------------------------
(* The invariant of the refinement.                                        *)

(* The groups whose values read_val has collected.                         *)
Collected == IF pc = "evict" THEN group ELSE group - 1

(* What a call in progress has done: a read holds the values of the groups *)
(* it has been to, and a write will find room or may create a group.       *)
CallInv ==
  /\ pc \in {"created", "idle"} => op = None /\ ~success
  /\ pc = "created" \/ Running => reply = <<>>
  /\ Running /\ op.type = "write" /\ ~success => Cardinality(Live) < MaxPairs \/ HasRoom(op.key)
  /\ Running /\ op.type = "read" =>
       /\ Collected \in 0 .. Len(bitmap[op.key])
       /\ ret_val = ValsIn(Live, op.key, Collected)

(* No entry is lost, and the tree does not outgrow n levels.               *)
SmallInv(n) ==
  /\ Overwritten = 0
  /\ Cardinality(Live) <= MaxPairs
  /\ tree_level <= n
  /\ pc \in {"created", "idle", "loop", "read", "evict", "overrun"}

KvInv(n) == TreeInv /\ PlaceInv({}) /\ CallInv /\ SmallInv(n)

(* The state of KvStore.                                                   *)
Store == [k \in Keys |-> ValsOf(k)]

Status == CASE pc = "created" -> "down" [] pc \in Faults -> "fault" [] OTHER -> "up"

LEMMA StatusIs ==
  /\ pc = "created" => Status = "down"
  /\ pc \in {"idle", "loop", "read", "evict"} => Status = "up"
  /\ pc = "overrun" => Status = "fault"
  /\ pc' = "created" => Status' = "down"
  /\ pc' \in {"idle", "loop", "read", "evict"} => Status' = "up"
  /\ pc' = "overrun" => Status' = "fault"
BY DEF Status, Faults

LEMMA StoreIs ==
  /\ \A k : ValsOf(k) = ValsIn(Live, k, Len(bitmap[k]))
  /\ Store = [k \in Keys |-> ValsIn(Live, k, Len(bitmap[k]))]
  /\ Store' = [k \in Keys |-> ValsIn(Live', k, Len(bitmap'[k]))]
BY DEF Store, ValsOf, EntriesOf, ValsIn, GroupVals

(* The steps of KvStore in these terms.                                    *)
LEMMA KvSteps ==
  /\ UNCHANGED <<Store, op, success, reply, Status>> => UNCHANGED Kv!vars
  /\ Status = "down" /\ Status' = "up" /\ UNCHANGED <<Store, op, success, reply>> => Kv!Start
  /\ /\ Status = "up" /\ op = None /\ op' \in Op /\ reply' = <<>>
     /\ UNCHANGED <<Store, success, Status>>
     => Kv!Invoke
  /\ /\ Status = "up" /\ op # None /\ op.type = "write" /\ ~success /\ success' = TRUE
     /\ Store' = [Store EXCEPT ![op.key] = Append(@, op.val)]
     /\ UNCHANGED <<op, reply, Status>>
     => Kv!Write
  /\ /\ Status = "up" /\ op # None /\ op.type = "write" /\ success
     /\ op' = None /\ success' = FALSE
     /\ UNCHANGED <<Store, reply, Status>>
     => Kv!ReturnWrite
  /\ /\ Status = "up" /\ op # None /\ op.type = "read" /\ reply' = Store[op.key] /\ op' = None
     /\ UNCHANGED <<Store, success, Status>>
     => Kv!ReturnRead
  /\ /\ Status = "up" /\ op # None /\ op.type = "read" /\ Len(Store[op.key]) > RETMAXNUM
     /\ Status' = "fault" /\ UNCHANGED <<Store, op, success, reply>>
     => Kv!Overrun
  /\ /\ Status # "down" /\ Store' = [k \in Keys |-> <<>>]
     /\ op' = None /\ success' = FALSE /\ reply' = <<>> /\ Status' = "down"
     => Kv!Restart
BY DEF Kv!vars, Kv!Start, Kv!Invoke, Kv!Write, Kv!ReturnWrite, Kv!ReturnRead, Kv!Overrun,
       Kv!Restart, Kv!Calls, Op, Store, Status

LEMMA KvOp ==
  /\ TypeOK /\ op # None => op \in Op /\ op.key \in Keys
  /\ None \notin Op
BY NoneAssumption DEF TypeOK, CallTypes, Op

-----------------------------------------------------------------------------
(* The steps that KvStore does not see.                                    *)

(* What a step keeps that moves entries but changes none.                  *)
Same ==
  /\ Live' = Live /\ Overwritten' = Overwritten
  /\ \A k \in Keys : Len(bitmap'[k]) = Len(bitmap[k])

LEMMA SameStore == ASSUME Same PROVE UNCHANGED Store
<1>1. \A k \in Keys : ValsIn(Live', k, Len(bitmap'[k])) = ValsIn(Live, k, Len(bitmap[k]))
  BY DEF Same
<1> QED BY <1>1, StoreIs

LEMMA SamePlacesSame ==
  ASSUME SamePlaces, UNCHANGED <<stash_num, bitmap>>
  PROVE  Same
<1>1. Live' = Live
  BY SamePlacesKeep
<1> QED BY <1>1 DEF Same, SamePlaces, Overwritten

(* A room that was there still is. *)
LEMMA SameRoom ==
  ASSUME Same, UNCHANGED op
  PROVE  HasRoom(op.key) => HasRoom(op.key)'
BY DEF Same, HasRoom

(* A step keeps the invariant and is one of KvStore's or none.             *)
KvStep(n) == CallInv' /\ SmallInv(n)' /\ [Kv!Next]_(Kv!vars)

(* A step inside a call.                                                   *)
LEMMA InnerStep ==
  ASSUME NEW n, KvInv(n), Running, Running', tree_level' <= n, Same, UNCHANGED <<op, success, reply>>,
         op.type = "read" => UNCHANGED <<Collected, ret_val>>
  PROVE  KvStep(n)
<1>1. UNCHANGED Store
  BY SameStore
<1>2. UNCHANGED Status
  BY StatusIs DEF Running
<1>3. SmallInv(n)'
  BY DEF KvInv, SmallInv, Same, Running
<1>4. op \in Op /\ op.key \in Keys
  <2>1. op \in Op
    BY DEF KvInv, TreeInv, WalkInTree
  <2> QED BY <2>1 DEF Op
<1>5. reply' = <<>>
  BY DEF KvInv, CallInv
<1>6. op'.type = "write" /\ ~success' => Cardinality(Live') < MaxPairs \/ HasRoom(op.key)'
  BY SameRoom DEF KvInv, CallInv, Same
<1>7. ASSUME op'.type = "read"
      PROVE  Collected' \in 0 .. Len(bitmap'[op.key]) /\ ret_val' = ValsIn(Live', op.key, Collected')
  <2>1. /\ Collected \in 0 .. Len(bitmap[op.key]) /\ ret_val = ValsIn(Live, op.key, Collected)
        /\ Collected' = Collected /\ ret_val' = ret_val
    BY <1>7 DEF KvInv, CallInv
  <2>2. Len(bitmap'[op.key]) = Len(bitmap[op.key]) /\ Live' = Live
    BY <1>4 DEF Same
  <2> QED BY <2>1, <2>2
<1>8. CallInv'
  BY <1>5, <1>6, <1>7 DEF CallInv, Running
<1>9. UNCHANGED Kv!vars
  BY <1>1, <1>2, KvSteps
<1> QED BY <1>3, <1>8, <1>9 DEF KvStep

(* What small sizes exclude. *)
LEMMA SmallFacts ==
  ASSUME NEW n \in Levels, Suffices(n), KvInv(n)
  PROVE  /\ Cardinality(Live) \in Nat /\ Cardinality(stash) \in Nat
         /\ Cardinality(stash) <= MaxPairs
         /\ stash_num = Cardinality(stash) /\ pair_number = Cardinality(Live)
         /\ MaxPairs \in Nat /\ ENTRYMAXNUM \in Nat /\ STASHMAXSIZE \in Nat /\ HEAPBLOCKS \in Nat
         /\ n \in Nat /\ tree_level \in Levels /\ tree_level \in Nat /\ tree_level <= n
         /\ MaxPairs < STASHMAXSIZE
<1>1. /\ IsFiniteSet(Live) /\ IsFiniteSet(stash) /\ Cardinality(Live) \in Nat
      /\ Cardinality(stash) \in Nat
  BY FinitePlaces DEF KvInv, PlaceInv
<1>2. Cardinality(stash) <= Cardinality(Live)
  <2>1. stash \subseteq Live
    BY InLive
  <2> QED BY <1>1, <2>1, FS_Subset
<1>3. /\ MaxPairs \in Nat /\ ENTRYMAXNUM \in Nat /\ STASHMAXSIZE \in Nat /\ HEAPBLOCKS \in Nat
      /\ n \in Nat /\ tree_level \in Levels /\ tree_level \in Nat /\ tree_level <= n
      /\ stash_num \in Int /\ pair_number \in Nat
  BY SizeAssumption, LevelBounds DEF KvInv, SmallInv, TreeInv, TypeOK, TreeTypes, StashTypes
<1>4. stash_num = Cardinality(stash)
  BY <1>1, <1>3 DEF KvInv, SmallInv, Overwritten
<1>5. pair_number = Cardinality(Live)
  <2>1. Cardinality({}) = 0
    BY FS_EmptySet
  <2>2. pair_number = Cardinality(Live) + Overwritten + Cardinality({}) /\ Overwritten = 0
    BY DEF KvInv, PlaceInv, Account, SmallInv
  <2> QED BY <1>1, <2>1, <2>2
<1>6. Cardinality(Live) <= MaxPairs /\ MaxPairs + n * ENTRYMAXNUM < STASHMAXSIZE
  BY DEF KvInv, SmallInv, Suffices
<1>7. n * ENTRYMAXNUM \in Nat
  BY <1>3
<1>8. MaxPairs < STASHMAXSIZE /\ Cardinality(stash) <= MaxPairs
  <2> DEFINE m == n * ENTRYMAXNUM
  <2>1. m \in Nat /\ MaxPairs + m < STASHMAXSIZE
    BY <1>6, <1>7
  <2> HIDE DEF m
  <2> QED BY <1>1, <1>2, <1>3, <1>6, <2>1
<1> QED BY <1>1, <1>3, <1>4, <1>5, <1>8

LEMMA StartAccessKv ==
  ASSUME NEW n \in Levels, Suffices(n), KvInv(n), StartAccess
  PROVE  KvStep(n)
<1>1. /\ pc = "loop" /\ pc' = "read" /\ record' = {} /\ height' = 0
      /\ UNCHANGED <<stash, stash_num, data, write_back, tree_level, bitmap>>
      /\ UNCHANGED <<op, group, success, ret_val, reply>>
  BY DEF StartAccess, ReadPath, treeVars, stashVars, fileVars, callVars, evictVars
<1>2. height = 0 /\ record = {}
  BY <1>1 DEF KvInv, PlaceInv, PhaseInv
<1>3. Same
  BY <1>1, <1>2, SamePath, SamePlacesSame DEF SamePlaces
<1>4. Running /\ Running' /\ tree_level' <= n /\ UNCHANGED Collected
  BY <1>1 DEF Running, Collected, KvInv, SmallInv
<1> QED BY <1>1, <1>3, <1>4, InnerStep

LEMMA ReadBlockKv ==
  ASSUME NEW n \in Levels, Suffices(n), KvInv(n), ReadBlock
  PROVE  KvStep(n)
<1>1. /\ pc = "read" /\ pc' = "read"
      /\ UNCHANGED <<treeVars, stashVars, fileVars, callVars, flag, evictVars>>
  BY ReadBlockEffect DEF KvInv
<1>2. Live' = Live
  BY ReadBlockPlaces DEF KvInv, PlaceInv
<1>3. UNCHANGED <<tree_level, bitmap, stash, stash_num, op, group, success, ret_val, reply>>
  BY <1>1 DEF treeVars, stashVars, callVars
<1>4. Same
  BY <1>2, <1>3 DEF Same, Overwritten
<1>5. Running /\ Running' /\ tree_level' <= n /\ UNCHANGED Collected
  BY <1>1, <1>3 DEF Running, Collected, KvInv, SmallInv
<1> QED BY <1>3, <1>4, <1>5, InnerStep

(* The stash has a free slot for every entry of the path. *)
LEMMA LoadEntryKv ==
  ASSUME NEW n \in Levels, Suffices(n), KvInv(n), LoadEntry
  PROVE  KvStep(n)
<1>1. /\ pc = "read" /\ UNCHANGED <<pc, treeVars, fileVars, callVars, flag, height, evictVars>>
      /\ \E e \in record : Loaded(e) \/ LoadedOver(e)
  BY LoadEntryEffect DEF KvInv, PlaceInv
<1>2. PICK e \in record : Loaded(e)
  <2>1. ASSUME NEW e \in record, LoadedOver(e) PROVE FALSE
    BY <2>1, SmallFacts DEF LoadedOver
  <2> QED BY <1>1, <2>1
<1>3. UNCHANGED <<tree_level, bitmap, op, group, success, ret_val, reply>>
  BY <1>1 DEF treeVars, callVars
<1>4. Same
  BY <1>2, <1>3 DEF Same, Loaded
<1>5. Running /\ Running' /\ tree_level' <= n /\ UNCHANGED Collected
  BY <1>1, <1>3 DEF Running, Collected, KvInv, SmallInv
<1> QED BY <1>3, <1>4, <1>5, InnerStep

LEMMA EvictEntryKv ==
  ASSUME NEW n \in Levels, Suffices(n), KvInv(n), EvictEntry
  PROVE  KvStep(n)
<1>1. /\ pc = "evict" /\ UNCHANGED <<pc, treeVars, fileVars, callVars, pathVars>>
      /\ \E e \in todo : \/ UNCHANGED <<stashVars, write_back>>
                         \/ \E h \in Fits(e) : MoveToBlock(e, h)
  BY DEF EvictEntry
<1>2. UNCHANGED <<tree_level, bitmap, data, op, group, success, ret_val, reply, flag, height, record>>
  BY <1>1 DEF treeVars, fileVars, callVars, pathVars
<1>3. Same
  <2>1. CASE UNCHANGED <<stashVars, write_back>>
    <3>1. SamePlaces /\ UNCHANGED stash_num
      BY <1>2, <2>1, SamePath DEF SamePlaces, stashVars
    <3> QED BY <1>2, <3>1, SamePlacesSame
  <2>2. ASSUME NEW e \in todo, NEW h \in Fits(e), MoveToBlock(e, h) PROVE Same
    <3>1. Live' = Live /\ Overwritten' = Overwritten
      BY <2>2, MoveEffect DEF KvInv, PlaceInv
    <3> QED BY <1>2, <3>1 DEF Same
  <2> QED BY <1>1, <2>1, <2>2
<1>4. Running /\ Running' /\ tree_level' <= n /\ UNCHANGED Collected
  BY <1>1, <1>2 DEF Running, Collected, KvInv, SmallInv
<1> QED BY <1>2, <1>3, <1>4, InnerStep

(* A tree of n levels never has to grow. *)
LEMMA NoResize ==
  ASSUME NEW n \in Levels, Suffices(n), KvInv(n), tree_level = n
  PROVE  ~MustResize
<1> DEFINE m == n * ENTRYMAXNUM
           p == PairLimit(n)
<1>1. /\ MaxPairs + m < STASHMAXSIZE /\ MaxPairs <= p /\ Cardinality(Live) <= MaxPairs
      /\ p \in Nat /\ m \in Nat
  BY SmallFacts, PairLimitGrows DEF Suffices, KvInv, SmallInv
<1>2. MustResize <=> stash_num + m >= STASHMAXSIZE \/ pair_number > p
  BY DEF MustResize
<1> HIDE DEF m, p
<1> QED BY <1>1, <1>2, SmallFacts

LEMMA FlushKv ==
  ASSUME NEW n \in Levels, Suffices(n), KvInv(n), Flushes
  PROVE  KvStep(n)
<1>1. /\ pc = "evict" /\ group' = group + 1 /\ UNCHANGED <<op, success, ret_val>>
  BY GrownFile DEF KvInv, PlaceInv
<1>2. /\ Live' = Live /\ Overwritten' = Overwritten
  BY FlushPlaces DEF KvInv, PlaceInv
<1>3. UNCHANGED reply
  BY DEF Flushes, WriteBack, WriteBackAndResize, ResizeOverflows
<1>4. Same
  <2>1. SameGroups /\ JustKeys \subseteq Keys
    BY FlushedFlags, SizeAssumption DEF KvInv, PlaceInv
  <2>2. \A k \in Keys : DOMAIN bitmap'[k] = DOMAIN bitmap[k]
    BY FlushedFlags DEF KvInv, PlaceInv
  <2> QED BY <1>2, <2>1, <2>2 DEF Same, SameGroups
<1>5. tree_level < n \/ ~MustResize
  BY NoResize, SmallFacts
<1>6. n <= LEVELMAX /\ LEVELMAX \in Nat
  BY LevelBounds, LevelAssumption
<1>7. pc' = "loop" /\ tree_level' <= n
  <2>1. CASE WriteBack
    BY <2>1, SmallFacts DEF WriteBack, treeVars
  <2>2. CASE WriteBackAndResize
    <3>1. MustResize /\ tree_level' = tree_level + 1 /\ pc' = "loop"
      BY <2>2 DEF WriteBackAndResize
    <3> QED BY <1>5, <3>1, SmallFacts
  <2>3. CASE ResizeOverflows
    <3>1. MustResize /\ tree_level = LEVELMAX
      BY <2>3 DEF ResizeOverflows
    <3> QED BY <1>5, <1>6, <3>1, SmallFacts
  <2> QED BY <2>1, <2>2, <2>3 DEF Flushes
<1>8. Running /\ Running' /\ UNCHANGED Collected
  <2>1. group \in Nat
    BY DEF KvInv, TreeInv, TypeOK, CallTypes
  <2>2. Collected = group /\ Collected' = group' - 1
    BY <1>1, <1>7 DEF Collected
  <2> QED BY <1>1, <1>7, <2>1, <2>2 DEF Running
<1> QED BY <1>1, <1>3, <1>4, <1>7, <1>8, InnerStep

(* The write-back begins, with heap for all of its blocks.                 *)
LEMMA HeapSuffices ==
  ASSUME NEW n \in Levels, Suffices(n), KvInv(n), Accessing, NEW entries, BeginWriteBack(entries)
  PROVE  pc' = "evict"
<1>1. pc' = IF (IF op.type = "read" THEN 1 ELSE 0) + tree_level < HEAPBLOCKS THEN "evict" ELSE "no_heap"
  BY DEF BeginWriteBack
<1>2. n + 1 < HEAPBLOCKS
  BY DEF Suffices
<1> QED BY <1>1, <1>2, SmallFacts

LEMMA KeepKv ==
  ASSUME NEW n \in Levels, Suffices(n), KvInv(n), SkipFullEntry \/ PlaceNewEntry
  PROVE  KvStep(n)
<1>1. Accessing /\ op.type = "write" /\ BeginWriteBack(stash) /\ UNCHANGED <<bitmap, success, ret_val>>
  BY DEF SkipFullEntry, PlaceNewEntry
<1>2. pc = "read" /\ pc' = "evict"
  BY <1>1, HeapSuffices DEF Accessing
<1>3. /\ SamePlaces /\ UNCHANGED <<tree_level, stash_num>>
  BY <1>1, KeepEffect DEF KvInv, PlaceInv
<1>4. Same
  BY <1>1, <1>3, SamePlacesSame
<1>5. UNCHANGED <<op, reply>>
  BY <1>1 DEF BeginWriteBack
<1>6. Running /\ Running' /\ tree_level' <= n
  BY <1>2, <1>3 DEF Running, KvInv, SmallInv
<1> QED BY <1>1, <1>4, <1>5, <1>6, InnerStep

(* The entry that an access has come for.                                  *)
LEMMA TheEntry ==
  ASSUME NEW n, KvInv(n), Accessing, ~success, NEW e \in Found
  PROVE  /\ op \in Op /\ op.key \in Keys /\ group \in 1 .. Len(bitmap[op.key]) /\ Len(bitmap[op.key]) \in Nat
         /\ e.key = op.key /\ e.group = group /\ e \in Entry /\ e \in Live /\ e.vals \in Seq(Vals)
         /\ Live \in SUBSET Entry /\ Single(Live)
         /\ GroupVals(Live, op.key, group) = e.vals
<1>1. op \in Op /\ op.key \in Keys /\ group \in 1 .. Len(bitmap[op.key])
  BY AccessedGroup DEF KvInv
<1>2. e.key = op.key /\ e.group = group /\ e \in Live
  BY InLive DEF Found
<1>3. Live \in SUBSET Entry
  BY LiveEntries DEF KvInv
<1>4. e \in Entry /\ e.vals \in Seq(Vals)
  BY <1>2, <1>3 DEF Entry
<1>5. Single(Live)
  BY DEF KvInv, PlaceInv, OnePlace, Single
<1>6. GroupVals(Live, op.key, group) = e.vals
  BY <1>2, <1>5, GroupValsOf
<1>7. Len(bitmap[op.key]) \in Nat
  BY <1>1 DEF KvInv, TreeInv, TypeOK, TreeTypes
<1> QED BY <1>1, <1>2, <1>3, <1>4, <1>5, <1>6, <1>7

(* What read_val has after the entry: the values of one group more.        *)
LEMMA OneGroupMore ==
  ASSUME NEW n, KvInv(n), Accessing, op.type = "read", NEW e \in Found
  PROVE  ret_val \o e.vals = ValsIn(Live, op.key, group)
<1>1. pc = "read" /\ Running /\ ~success
  BY DEF Accessing, Running, KvInv, TreeInv, WalkInTree
<1>2. ret_val = ValsIn(Live, op.key, group - 1)
  BY <1>1 DEF KvInv, CallInv, Collected
<1>3. /\ group \in Nat /\ group - 1 \in Nat /\ (group - 1) + 1 = group
      /\ Live \in SUBSET Entry /\ GroupVals(Live, op.key, group) = e.vals
  <2>1. group \in 1 .. Len(bitmap[op.key]) /\ Len(bitmap[op.key]) \in Nat
    BY <1>1, TheEntry
  <2>2. group \in Nat /\ group - 1 \in Nat /\ (group - 1) + 1 = group
    BY <2>1
  <2> QED BY <1>1, <2>2, TheEntry
<1>4. ValsIn(Live, op.key, (group - 1) + 1)
        = ValsIn(Live, op.key, group - 1) \o GroupVals(Live, op.key, (group - 1) + 1)
  BY <1>3, ValsInStep
<1> QED BY <1>2, <1>3, <1>4

LEMMA ReadEntryKv ==
  ASSUME NEW n \in Levels, Suffices(n), KvInv(n), JustKeys = {}, ReadEntry
  PROVE  KvStep(n)
<1>1. /\ Accessing /\ op.type = "read" /\ Remap /\ BeginWriteBack(stash) /\ UNCHANGED success
      /\ \E e \in Found : ret_val' = ret_val \o e.vals
  BY DEF ReadEntry
<1>2. PICK e \in Found : ret_val' = ret_val \o e.vals
  BY <1>1
<1>3. pc = "read" /\ pc' = "evict" /\ Running /\ Running' /\ ~success
  BY <1>1, HeapSuffices DEF Accessing, Running, KvInv, TreeInv, WalkInTree
<1>4. op \in Op /\ op.key \in Keys /\ group \in 1 .. Len(bitmap[op.key]) /\ Len(bitmap[op.key]) \in Nat
  BY <1>1, <1>3, TheEntry
<1>5. SamePlaces /\ Live' = Live /\ Overwritten' = Overwritten /\ UNCHANGED tree_level
  BY <1>1, KeepEffect DEF KvInv, PlaceInv
<1>6. SameGroups
  BY <1>1, <1>4, RemapEffect DEF KvInv
<1>7. Same
  BY <1>5, <1>6 DEF Same, SameGroups
<1>8. UNCHANGED <<op, group, reply>>
  BY <1>1 DEF BeginWriteBack
<1>9. UNCHANGED Kv!vars
  <2>1. UNCHANGED <<Store, Status>>
    BY <1>3, <1>7, SameStore, StatusIs
  <2> QED BY <1>1, <1>8, <2>1, KvSteps
<1>10. SmallInv(n)'
  BY <1>3, <1>5 DEF KvInv, SmallInv
<1>11. CallInv'
  <2>1. reply' = <<>>
    BY <1>3, <1>8 DEF KvInv, CallInv
  <2>2. Collected' = group
    BY <1>3, <1>8 DEF Collected
  <2>3. Collected' \in 0 .. Len(bitmap'[op.key])
    BY <1>4, <1>7, <2>2 DEF Same
  <2>4. ret_val' = ValsIn(Live, op.key, group)
    BY <1>1, <1>2, OneGroupMore
  <2>5. ret_val' = ValsIn(Live', op'.key, Collected')
    BY <1>5, <1>8, <2>2, <2>4
  <2> QED BY <1>1, <1>3, <1>8, <2>1, <2>3, <2>5 DEF CallInv
<1> QED BY <1>9, <1>10, <1>11 DEF KvStep

(* Every group has its entry, and the access finds it.                     *)
LEMMA NothingMissing ==
  ASSUME NEW n, KvInv(n), JustKeys = {}
  PROVE  ~MissingEntry
<1> SUFFICES ASSUME MissingEntry PROVE FALSE
  OBVIOUS
<1>1. Accessing /\ ~success /\ Found = {}
  BY DEF MissingEntry
<1>2. op.key \in Keys /\ group \in 1 .. Len(bitmap[op.key])
  BY <1>1, AccessedGroup DEF KvInv
<1>3. group \in DOMAIN bitmap[op.key]
  BY <1>2 DEF KvInv, TreeInv, TypeOK, TreeTypes
<1>4. PICK e \in Live \cup {} : e.key = op.key /\ e.group = group
  <2>1. ~(Overwritten > 0)
    BY DEF KvInv, SmallInv
  <2> QED BY <1>2, <1>3, <2>1 DEF KvInv, PlaceInv, OwnedInv
<1>5. e \in Found
  BY <1>1, <1>4, NotLeftBehind DEF KvInv
<1> QED BY <1>1, <1>5

LEMMA OverrunReplyKv ==
  ASSUME NEW n \in Levels, Suffices(n), KvInv(n), OverrunReply
  PROVE  KvStep(n)
<1>1. /\ Accessing /\ op.type = "read"
      /\ pc' = "overrun"
      /\ UNCHANGED <<treeVars, stashVars, fileVars, callVars, pathVars, evictVars>>
      /\ \E e \in Found : Len(ret_val) + Len(e.vals) > RETMAXNUM
  BY DEF OverrunReply, Die
<1>2. UNCHANGED <<tree_level, bitmap, stash, stash_num, data, record, height, flag, write_back>>
  BY <1>1 DEF treeVars, stashVars, fileVars, pathVars, evictVars
<1>3. UNCHANGED <<op, success, reply>>
  BY <1>1 DEF callVars
<1>4. Same
  BY <1>2, SamePath, SamePlacesSame DEF SamePlaces
<1>5. PICK e \in Found : Len(ret_val) + Len(e.vals) > RETMAXNUM
  BY <1>1
<1>6. pc = "read" /\ Running /\ ~success
  BY <1>1 DEF Accessing, Running, KvInv, TreeInv, WalkInTree
<1>7. /\ op \in Op /\ op.key \in Keys /\ group \in 1 .. Len(bitmap[op.key])
      /\ Len(bitmap[op.key]) \in Nat /\ e.vals \in Seq(Vals) /\ Live \in SUBSET Entry
  BY <1>1, <1>6, TheEntry
<1>8. Len(ValsIn(Live, op.key, group)) > RETMAXNUM
  <2>1. ret_val \o e.vals = ValsIn(Live, op.key, group)
    BY <1>1, OneGroupMore
  <2>2. ret_val \in Seq(Vals)
    BY DEF KvInv, TreeInv, TypeOK, CallTypes
  <2>3. Len(ret_val \o e.vals) = Len(ret_val) + Len(e.vals)
    BY <1>7, <2>2, ConcatProperties
  <2> QED BY <1>5, <2>1, <2>3
<1>9. Len(Store[op.key]) > RETMAXNUM
  <2> DEFINE a == ValsIn(Live, op.key, group)
             b == ValsIn(Live, op.key, Len(bitmap[op.key]))
  <2>1. Len(a) <= Len(b)
    <3>1. group \in Nat /\ group <= Len(bitmap[op.key])
      BY <1>7
    <3> QED BY <1>7, <3>1, ValsInLonger
  <2>2. Store[op.key] = b
    BY <1>7, StoreIs
  <2>3. Len(a) \in Nat /\ Len(b) \in Nat
    <3>1. \A m \in Nat : ValsIn(Live, op.key, m) \in Seq(Vals)
      BY <1>7, ValsInStep
    <3>2. group \in Nat
      BY <1>7
    <3>3. a \in Seq(Vals)
      BY <3>1, <3>2
    <3>4. b \in Seq(Vals)
      BY <1>7, <3>1
    <3> HIDE DEF a, b
    <3> QED BY <3>3, <3>4, LenProperties
  <2>4. RETMAXNUM \in Nat /\ Len(a) > RETMAXNUM
    BY <1>8, SizeAssumption
  <2> HIDE DEF a, b
  <2> QED BY <2>1, <2>2, <2>3, <2>4
<1>10. op # None
  BY <1>7, KvOp
<1>11. Kv!Overrun
  <2>1. Status = "up" /\ Status' = "fault"
    BY <1>1, <1>6, StatusIs
  <2>2. UNCHANGED Store
    BY <1>4, SameStore
  <2> QED BY <1>1, <1>3, <1>9, <1>10, <2>1, <2>2, KvSteps
<1>12. CallInv' /\ SmallInv(n)'
  BY <1>1, <1>2, <1>4 DEF CallInv, KvInv, SmallInv, Same, Running
<1> QED BY <1>11, <1>12 DEF KvStep, Kv!Next

-----------------------------------------------------------------------------
(* The steps that write.                                                   *)

LEMMA AppendAfter ==
  ASSUME NEW x \in Seq(Vals), NEW y \in Seq(Vals), NEW v \in Vals
  PROVE  x \o Append(y, v) = Append(x \o y, v)
<1>1. <<v>> \in Seq(Vals) /\ x \o y \in Seq(Vals)
  BY ConcatProperties
<1>2. Append(y, v) = y \o <<v>> /\ Append(x \o y, v) = (x \o y) \o <<v>>
  BY <1>1, AppendIsConcat
<1>3. (x \o y) \o <<v>> = x \o (y \o <<v>>)
  BY <1>1, ConcatAssociative
<1> QED BY <1>2, <1>3

(* S and T have the same entries of all groups but group i of k.           *)
AlikeBut(S, T, k, i) == \A x : x.key # k \/ x.group # i => (x \in S <=> x \in T)

(* T has one value more than S, at the end of group i of key k.            *)
Extends(T, S, k, i, v) ==
  /\ S \in SUBSET Entry /\ T \in SUBSET Entry /\ i \in Nat /\ i > 0 /\ v \in Vals
  /\ AlikeBut(S, T, k, i)
  /\ GroupVals(T, k, i) = Append(GroupVals(S, k, i), v)

LEMMA OneValueMore ==
  ASSUME NEW S, NEW T, NEW k, NEW i, NEW v, Extends(T, S, k, i, v)
  PROVE  /\ \A j : \A m \in Nat : j # k \/ m < i => ValsIn(T, j, m) = ValsIn(S, j, m)
         /\ ValsIn(T, k, i) = Append(ValsIn(S, k, i), v)
<1>0. /\ S \in SUBSET Entry /\ T \in SUBSET Entry /\ i \in Nat /\ i > 0 /\ v \in Vals
      /\ AlikeBut(S, T, k, i)
      /\ GroupVals(T, k, i) = Append(GroupVals(S, k, i), v)
  BY DEF Extends
<1>1. ASSUME NEW j, NEW m \in Nat, j # k \/ m < i PROVE ValsIn(T, j, m) = ValsIn(S, j, m)
  <2>1. ASSUME NEW l \in 1 .. m PROVE GroupVals(T, j, l) = GroupVals(S, j, l)
    <3>1. j # k \/ l # i
      BY <1>0, <1>1
    <3>2. \A x : x.key = j /\ x.group = l => (x \in T <=> x \in S)
      BY <1>0, <3>1 DEF AlikeBut
    <3> QED BY <3>2, GroupValsSame
  <2> QED BY <2>1, ValsInSame
<1>2. ValsIn(T, k, i) = Append(ValsIn(S, k, i), v)
  <2> DEFINE n == i - 1
             x == ValsIn(S, k, n)
             y == GroupVals(S, k, i)
  <2>1. n \in Nat /\ n < i /\ n + 1 = i
    BY <1>0
  <2>2. ValsIn(T, k, n) = x
    <3> HIDE DEF n
    <3> QED BY <1>1, <2>1
  <2>3. /\ ValsIn(T, k, n + 1) = ValsIn(T, k, n) \o GroupVals(T, k, n + 1)
        /\ ValsIn(S, k, n + 1) = ValsIn(S, k, n) \o GroupVals(S, k, n + 1)
        /\ x \in Seq(Vals)
    <3> HIDE DEF n
    <3> QED BY <1>0, <2>1, ValsInStep
  <2>4. y \in Seq(Vals)
    BY <1>0, GroupValsTyped
  <2>5. ValsIn(T, k, i) = x \o Append(y, v) /\ ValsIn(S, k, i) = x \o y
    <3> HIDE DEF n
    <3> QED BY <1>0, <2>1, <2>2, <2>3
  <2> HIDE DEF x, y
  <2> QED BY <1>0, <2>3, <2>4, <2>5, AppendAfter
<1> QED BY <1>1, <1>2

LEMMA AppendValKv ==
  ASSUME NEW n \in Levels, Suffices(n), KvInv(n), JustKeys = {}, AppendVal
  PROVE  KvStep(n)
<1>1. Accessing /\ op.type = "write" /\ ~success /\ Remap /\ success' = TRUE
  BY DEF AppendVal
<1>2. PICK e \in Found :
        /\ Len(e.vals) < VALMAXNUM /\ e \in stash /\ e \in Entry
        /\ WithVal(e) \in Entry /\ SameEntry(WithVal(e), e)
        /\ WithVal(e).vals = Append(e.vals, op.val) /\ op.val \in Vals
        /\ BeginWriteBack((stash \ {e}) \cup {WithVal(e)})
        /\ Live' = (Live \ {e}) \cup {WithVal(e)}
        /\ Cardinality(Live') = Cardinality(Live)
        /\ Overwritten' = Overwritten
        /\ OnePlace'
  BY AppendValEffect DEF KvInv, PlaceInv
<1>3. /\ op \in Op /\ op.key \in Keys /\ group \in 1 .. Len(bitmap[op.key]) /\ Len(bitmap[op.key]) \in Nat
      /\ e.key = op.key /\ e.group = group /\ e \in Live /\ e.vals \in Seq(Vals)
      /\ Live \in SUBSET Entry /\ Single(Live)
      /\ GroupVals(Live, op.key, group) = e.vals
  BY <1>1, TheEntry
<1>4. group = Len(bitmap[op.key])
  <2>1. ~(e.group < Len(bitmap[e.key]))
    BY <1>2, <1>3, SizeAssumption DEF KvInv, PlaceInv, ScanInv, GroupsFillInOrder
  <2> QED BY <1>3, <2>1
<1>5. \A k \in Keys : Len(bitmap'[k]) = Len(bitmap[k])
  BY <1>1, <1>3, RemapEffect DEF KvInv, SameGroups
<1> DEFINE w == WithVal(e)
           T == (Live \ {e}) \cup {w}
<1>6. /\ w \in Entry /\ w.key = op.key /\ w.group = group /\ w.vals = Append(e.vals, op.val)
      /\ Live' = T
  BY <1>2, <1>3 DEF SameEntry
<1>7. T \in SUBSET Entry /\ Single(T) /\ w \in T
  <2>1. Single(Live')
    BY <1>2 DEF OnePlace, Single
  <2>2. T \in SUBSET Entry /\ w \in T
    BY <1>3, <1>6
  <2> HIDE DEF T
  <2> QED BY <1>6, <2>1, <2>2
<1>8. GroupVals(T, op.key, group) = Append(GroupVals(Live, op.key, group), op.val)
  <2>1. GroupVals(T, w.key, w.group) = w.vals
    <3> HIDE DEF T, w
    <3> QED BY <1>7, GroupValsOf
  <2> HIDE DEF T, w
  <2> QED BY <1>3, <1>6, <2>1
<1>9. AlikeBut(Live, T, op.key, group)
  <2> HIDE DEF w
  <2> QED BY <1>3, <1>6 DEF AlikeBut
<1>10. /\ \A j : \A m \in Nat : j # op.key \/ m < group => ValsIn(T, j, m) = ValsIn(Live, j, m)
       /\ ValsIn(T, op.key, group) = Append(ValsIn(Live, op.key, group), op.val)
  <2>1. group \in Nat /\ group > 0 /\ op.val \in Vals
    BY <1>2, <1>3
  <2> HIDE DEF T, w
  <2>2. Extends(T, Live, op.key, group, op.val)
    BY <1>3, <1>7, <1>8, <1>9, <2>1 DEF Extends
  <2> QED BY <2>2, OneValueMore
<1>11. Store' = [Store EXCEPT ![op.key] = Append(@, op.val)]
  <2>1. ASSUME NEW k \in Keys
        PROVE  ValsIn(Live', k, Len(bitmap'[k]))
                 = IF k = op.key THEN Append(Store[k], op.val) ELSE Store[k]
    <3>1. Store[k] = ValsIn(Live, k, Len(bitmap[k])) /\ Len(bitmap'[k]) = Len(bitmap[k])
      BY <1>5, StoreIs
    <3>2. Len(bitmap[k]) \in Nat
      BY DEF KvInv, TreeInv, TypeOK, TreeTypes
    <3>3. Live' = T
      BY <1>6
    <3> HIDE DEF T
    <3>4. CASE k = op.key
      BY <1>4, <1>10, <3>1, <3>3, <3>4
    <3>5. CASE k # op.key
      BY <1>10, <3>1, <3>2, <3>3, <3>5
    <3> QED BY <3>4, <3>5
  <2>2. /\ Store' = [k \in Keys |-> ValsIn(Live', k, Len(bitmap'[k]))]
        /\ Store = [k \in Keys |-> Store[k]]
    BY StoreIs
  <2> HIDE DEF T
  <2> QED BY <1>3, <2>1, <2>2
<1>12. pc = "read" /\ pc' = "evict" /\ Running /\ Running'
  BY <1>1, <1>2, HeapSuffices DEF Accessing, Running
<1>13. UNCHANGED <<tree_level, op, reply>>
  BY <1>2 DEF BeginWriteBack
<1>14. Kv!Write
  <2>1. Status = "up" /\ Status' = "up"
    BY <1>12, StatusIs
  <2>2. op # None
    BY <1>3, KvOp
  <2> QED BY <1>1, <1>11, <1>13, <2>1, <2>2, KvSteps
<1>15. SmallInv(n)'
  BY <1>2, <1>12, <1>13 DEF KvInv, SmallInv
<1>16. CallInv'
  <2>1. reply' = <<>> /\ op'.type = "write" /\ success'
    BY <1>1, <1>12, <1>13 DEF KvInv, CallInv
  <2> QED BY <1>12, <2>1 DEF CallInv
<1> QED BY <1>14, <1>15, <1>16 DEF KvStep, Kv!Next

LEMMA AddEntryKv ==
  ASSUME NEW n \in Levels, Suffices(n), KvInv(n), JustKeys = {}, AddEntry
  PROVE  KvStep(n)
<1>1. PICK e \in Entry, f \in Leaves(tree_level) :
        /\ pc = "loop" /\ op.type = "write" /\ op \in Op /\ op.key \in Keys /\ ~success
        /\ ~(group <= Len(bitmap[op.key]))
        /\ e.key = op.key /\ e.group = Len(bitmap[op.key]) + 1 /\ e.vals = <<op.val>>
        /\ f \in Int /\ bitmap' = [bitmap EXCEPT ![op.key] = Append(@, f)]
        /\ PutInStash(e) /\ ReadPath(f)
        /\ \A x \in Live \cup {} : ~SameEntry(e, x)
        /\ Live' = Live \cup {e} /\ e \notin Live
        /\ Cardinality(Live') = Cardinality(Live) + 1 /\ Overwritten' = Overwritten
        /\ UNCHANGED <<tree_level, op>>
  BY AddEntryEffect DEF KvInv, PlaceInv
<1>2. reply' = reply
  <2>1. success' = TRUE
    BY <1>1 DEF PutInStash
  <2>2. pc' = "read"
    BY <1>1 DEF ReadPath
  <2> QED BY <2>2 DEF AddEntry, EndCall
<1>3. Live \in SUBSET Entry /\ \A k \in Keys : Len(bitmap[k]) \in Nat
  BY LiveEntries DEF KvInv, TreeInv, TypeOK, TreeTypes
<1>4. /\ Len(bitmap'[op.key]) = Len(bitmap[op.key]) + 1
      /\ \A j \in Keys \ {op.key} : bitmap'[j] = bitmap[j]
  <2>1. PICK k \in Keys, b \in Int : k = op.key /\ b = f /\ bitmap' = [bitmap EXCEPT ![k] = Append(@, b)]
    BY <1>1
  <2>2. Len(bitmap'[k]) = Len(bitmap[k]) + 1 /\ \A j \in Keys \ {k} : bitmap'[j] = bitmap[j]
    BY <2>1, AppendKeepsFlags DEF KvInv
  <2> QED BY <2>1, <2>2
(* The model's bound on the pairs holds: no entry of the key had room.      *)
<1>5. Cardinality(Live) < MaxPairs
  <2>1. \A x \in Live : x.key = op.key => Len(x.vals) = VALMAXNUM
    <3> SUFFICES ASSUME NEW x \in Live, x.key = op.key PROVE Len(x.vals) = VALMAXNUM
      OBVIOUS
    <3>1. x.group \in DOMAIN bitmap[x.key] /\ x.group \in Nat
      BY <1>3 DEF KvInv, PlaceInv, Assigned, Entry
    <3>2. x.group \in 1 .. Len(bitmap[op.key])
      BY <1>1, <3>1 DEF KvInv, TreeInv, TypeOK, TreeTypes
    <3>3. x.group < group
      <4>1. group \in Nat /\ Len(bitmap[op.key]) \in Nat
        BY <1>1, <1>3 DEF KvInv, TreeInv, TypeOK, CallTypes
      <4> QED BY <1>1, <3>2, <4>1
    <3> QED BY <1>1, <3>3 DEF KvInv, PlaceInv, ScanInv, Running
  <2>2. ~HasRoom(op.key)
    BY <2>1, SizeAssumption DEF HasRoom
  <2> QED BY <1>1, <2>2 DEF KvInv, CallInv, Running
<1> DEFINE i == Len(bitmap[op.key]) + 1
<1>6. Extends(Live', Live, op.key, i, op.val)
  <2>1. i \in Nat /\ i > 0 /\ op.val \in Vals
    BY <1>1, <1>3 DEF Op
  <2>2. Live' \in SUBSET Entry
    BY <1>1, <1>3
  <2>3. AlikeBut(Live, Live', op.key, i)
    BY <1>1 DEF AlikeBut
  <2>4. GroupVals(Live, op.key, i) = <<>>
    <3>1. \A x \in Live : x.key # op.key \/ x.group # i
      BY <1>1 DEF SameEntry
    <3> HIDE DEF i
    <3> QED BY <3>1, GroupValsNone
  <2>5. GroupVals(Live', op.key, i) = <<op.val>>
    <3>1. PICK S : S = Live' /\ e \in S
      BY <1>1
    <3>2. Single(S)
      <4> SUFFICES ASSUME NEW x \in S, NEW y \in S, SameEntry(x, y) PROVE x = y
        BY DEF Single
      <4>1. (x \in Live \/ x = e) /\ (y \in Live \/ y = e)
        BY <1>1, <3>1
      <4>2. \A z \in Live : ~SameEntry(e, z) /\ ~SameEntry(z, e)
        BY <1>1 DEF SameEntry
      <4>3. x \in Live /\ y \in Live => x = y
        BY DEF KvInv, PlaceInv, OnePlace
      <4> QED BY <4>1, <4>2, <4>3
    <3>3. GroupVals(S, e.key, e.group) = e.vals
      BY <3>1, <3>2, GroupValsOf
    <3> QED BY <1>1, <3>1, <3>3
  <2>6. Append(<<>>, op.val) = <<op.val>>
    OBVIOUS
  <2> HIDE DEF i
  <2> QED BY <1>3, <2>1, <2>2, <2>3, <2>4, <2>5, <2>6 DEF Extends
<1>7. /\ \A j : \A m \in Nat : j # op.key \/ m < i => ValsIn(Live', j, m) = ValsIn(Live, j, m)
      /\ ValsIn(Live', op.key, i) = Append(ValsIn(Live, op.key, i), op.val)
  <2>1. PICK S : S = Live'
    OBVIOUS
  <2>2. Extends(S, Live, op.key, i, op.val)
    BY <1>6, <2>1
  <2> HIDE DEF i
  <2>3. /\ \A j : \A m \in Nat : j # op.key \/ m < i => ValsIn(S, j, m) = ValsIn(Live, j, m)
        /\ ValsIn(S, op.key, i) = Append(ValsIn(Live, op.key, i), op.val)
    BY <2>2, OneValueMore
  <2> QED BY <2>1, <2>3
<1>8. ValsIn(Live, op.key, i) = Store[op.key]
  <2> DEFINE l == Len(bitmap[op.key])
  <2>1. l \in Nat /\ i = l + 1 /\ op.key \in Keys
    BY <1>1, <1>3
  <2>2. ValsIn(Live, op.key, l) = Store[op.key]
    BY <1>1, StoreIs
  <2>3. GroupVals(Live, op.key, i) = <<>>
    <3>1. \A x \in Live : x.key # op.key \/ x.group # i
      BY <1>1 DEF SameEntry
    <3> HIDE DEF i
    <3> QED BY <3>1, GroupValsNone
  <2> HIDE DEF l, i
  <2>4. /\ ValsIn(Live, op.key, l) \in Seq(Vals)
        /\ ValsIn(Live, op.key, l + 1) = ValsIn(Live, op.key, l) \o GroupVals(Live, op.key, l + 1)
    BY <1>3, <2>1, ValsInStep
  <2>5. ValsIn(Live, op.key, l) \o <<>> = ValsIn(Live, op.key, l)
    BY <2>4, ConcatEmptySeq
  <2> QED BY <2>1, <2>2, <2>3, <2>4, <2>5
<1>9. Store' = [Store EXCEPT ![op.key] = Append(@, op.val)]
  <2>1. ASSUME NEW k \in Keys
        PROVE  ValsIn(Live', k, Len(bitmap'[k]))
                 = IF k = op.key THEN Append(Store[k], op.val) ELSE Store[k]
    <3>1. Store[k] = ValsIn(Live, k, Len(bitmap[k])) /\ Len(bitmap[k]) \in Nat
      BY <1>3, StoreIs
    <3>2. CASE k = op.key
      BY <1>4, <1>7, <1>8, <3>2
    <3>3. CASE k # op.key
      <4>1. bitmap'[k] = bitmap[k]
        BY <1>4, <3>3
      <4> QED BY <1>7, <3>1, <3>3, <4>1
    <3> QED BY <3>2, <3>3
  <2>2. /\ Store' = [k \in Keys |-> ValsIn(Live', k, Len(bitmap'[k]))]
        /\ Store = [k \in Keys |-> Store[k]]
    BY StoreIs
  <2> QED BY <1>1, <2>1, <2>2
<1>10. success' = TRUE /\ pc' = "read" /\ Running /\ Running'
  BY <1>1 DEF PutInStash, ReadPath, Running
<1>11. Kv!Write
  <2>1. Status = "up" /\ Status' = "up"
    BY <1>1, <1>10, StatusIs
  <2>2. op # None
    BY <1>1, KvOp
  <2> QED BY <1>1, <1>2, <1>9, <1>10, <2>1, <2>2, KvSteps
<1>12. SmallInv(n)'
  <2>1. Cardinality(Live') <= MaxPairs
    BY <1>1, <1>5, SmallFacts
  <2> QED BY <1>1, <1>10, <2>1 DEF KvInv, SmallInv
<1>13. CallInv'
  <2>1. reply' = <<>> /\ op'.type = "write" /\ success'
    BY <1>1, <1>2, <1>10 DEF KvInv, CallInv, Running
  <2> QED BY <1>10, <2>1 DEF CallInv
<1> QED BY <1>11, <1>12, <1>13 DEF KvStep, Kv!Next

-----------------------------------------------------------------------------
(* The calls and their ends.                                               *)

(* The groups in bitmap are as many as the entries.                        *)
LEMMA GroupsAreEntries ==
  ASSUME NEW n, KvInv(n), JustKeys = {}
  PROVE  Cardinality(FlagIds) = Cardinality(Live)
<1> DEFINE f == [e \in Live |-> <<e.key, e.group>>]
<1>1. Live \subseteq Entry /\ \A k \in Keys : DOMAIN bitmap[k] = 1 .. Len(bitmap[k])
  BY LiveEntries DEF KvInv, TreeInv, TypeOK, TreeTypes
<1>2. \A k, i : <<k, i>> \in FlagIds <=> k \in Keys /\ i \in 1 .. Len(bitmap[k])
  BY DEF FlagIds
<1>3. f \in [Live -> FlagIds]
  <2>1. ASSUME NEW e \in Live PROVE <<e.key, e.group>> \in FlagIds
    <3>1. e.key \in Keys
      BY <1>1 DEF Entry
    <3>2. e.group \in DOMAIN bitmap[e.key]
      BY DEF KvInv, PlaceInv, Assigned
    <3> QED BY <1>1, <1>2, <3>1, <3>2
  <2> QED BY <2>1
<1>4. \A a, b \in Live : f[a] = f[b] => a = b
  <2>1. \A a, b \in Live : <<a.key, a.group>> = <<b.key, b.group>> => SameEntry(a, b)
    BY DEF SameEntry
  <2> QED BY <2>1 DEF KvInv, PlaceInv, OnePlace
<1>5. ASSUME NEW t \in FlagIds PROVE \E e \in Live : f[e] = t
  <2>0. PICK k \in Keys : \E i \in 1 .. Len(bitmap[k]) : t = <<k, i>>
    BY DEF FlagIds
  <2>1. PICK i \in 1 .. Len(bitmap[k]) : t = <<k, i>>
    BY <2>0
  <2>2. i \in DOMAIN bitmap[k] /\ ~(Overwritten > 0)
    BY <1>1 DEF KvInv, SmallInv
  <2>3. PICK e \in Live \cup {} : e.key = k /\ e.group = i
    BY <2>2 DEF KvInv, PlaceInv, OwnedInv
  <2>4. e \in Live /\ f[e] = t
    BY <2>1, <2>3
  <2> QED BY <2>4
<1>6. ExistsBijection(Live, FlagIds)
  <2>1. f \in Bijection(Live, FlagIds)
    <3> HIDE DEF f
    <3> QED BY <1>3, <1>4, <1>5 DEF Bijection, Injection, Surjection, IsInjective
  <2> QED BY <2>1 DEF ExistsBijection
<1>7. IsFiniteSet(Live)
  BY FinitePlaces DEF KvInv, PlaceInv
<1> QED BY <1>6, <1>7, FS_Bijection

LEMMA CallKv ==
  ASSUME NEW n \in Levels, Suffices(n), KvInv(n), NEW c \in Op, Call(c),
         c.type = "write" => Cardinality(Live) < MaxPairs \/ HasRoom(c.key)
  PROVE  KvStep(n)
<1>1. /\ pc = "idle" /\ pc' = "loop" /\ op' = c /\ group' = 1 /\ success' = FALSE
      /\ ret_val' = <<>> /\ reply' = <<>>
      /\ UNCHANGED <<tree_level, bitmap, stash, stash_num, data, flag, height, record, write_back>>
  BY DEF Call, treeVars, stashVars, fileVars, pathVars, evictVars
<1>2. Same
  BY <1>1, SamePath, SamePlacesSame DEF SamePlaces
<1>3. op = None /\ success = FALSE
  BY <1>1 DEF KvInv, CallInv, TreeInv, TypeOK, CallTypes
<1>4. Kv!Invoke
  <2>1. Status = "up" /\ Status' = "up" /\ UNCHANGED Store
    BY <1>1, <1>2, StatusIs, SameStore
  <2> QED BY <1>1, <1>3, <2>1, KvSteps
<1>5. SmallInv(n)'
  BY <1>1, <1>2 DEF KvInv, SmallInv, Same
<1>6. c.type = "write" => Cardinality(Live') < MaxPairs \/ HasRoom(op.key)'
  BY <1>1, <1>2 DEF Same, HasRoom
<1>7. ASSUME c.type = "read"
      PROVE  Collected' \in 0 .. Len(bitmap'[c.key]) /\ ret_val' = ValsIn(Live', c.key, Collected')
  <2>1. Collected' = 0
    BY <1>1 DEF Collected
  <2>2. ValsIn(Live, c.key, 0) = <<>>
    BY LiveEntries, ValsInStep DEF KvInv
  <2>3. Len(bitmap[c.key]) \in Nat
    BY DEF Op, KvInv, TreeInv, TypeOK, TreeTypes
  <2> QED BY <1>1, <1>2, <2>1, <2>2, <2>3 DEF Same
<1>8. CallInv'
  BY <1>1, <1>6, <1>7 DEF CallInv, Running
<1> QED BY <1>4, <1>5, <1>8 DEF KvStep, Kv!Next

LEMMA ReturnKv ==
  ASSUME NEW n \in Levels, Suffices(n), KvInv(n), ReturnRead \/ ReturnWrite
  PROVE  KvStep(n)
<1>1. /\ pc = "loop" /\ pc' = "idle" /\ op' = None /\ success' = FALSE
      /\ UNCHANGED <<tree_level, bitmap, stash, stash_num, data, flag, height, record, write_back>>
  BY DEF ReturnRead, ReturnWrite, EndCall, treeVars, stashVars, fileVars, pathVars, evictVars
<1>2. Same
  BY <1>1, SamePath, SamePlacesSame DEF SamePlaces
<1>3. Running /\ op \in Op /\ op # None /\ op.key \in Keys
  <2>1. Running /\ op \in Op
    BY <1>1 DEF Running, KvInv, TreeInv, WalkInTree
  <2> QED BY <2>1, KvOp DEF Op
<1>4. Status = "up" /\ Status' = "up" /\ UNCHANGED Store
  BY <1>1, <1>2, StatusIs, SameStore
<1>5. ASSUME ReturnWrite PROVE Kv!ReturnWrite
  <2>1. op.type = "write" /\ success /\ reply' = <<>> /\ reply = <<>>
    BY <1>3, <1>5 DEF ReturnWrite, EndCall, KvInv, CallInv
  <2> QED BY <1>1, <1>3, <1>4, <2>1, KvSteps
<1>6. ASSUME ReturnRead PROVE Kv!ReturnRead
  <2>1. op.type = "read" /\ ~MoreGroups /\ reply' = ret_val
    BY <1>6 DEF ReturnRead, EndCall
  <2>2. success = FALSE
    BY <1>3, <2>1 DEF KvInv, TreeInv, WalkInTree, TypeOK, CallTypes
  <2>3. /\ group - 1 \in 0 .. Len(bitmap[op.key]) /\ ret_val = ValsIn(Live, op.key, group - 1)
        /\ group \in Nat /\ Len(bitmap[op.key]) \in Nat
    BY <1>1, <1>3, <2>1 DEF Collected, KvInv, CallInv, TreeInv, TypeOK, CallTypes, TreeTypes
  <2>4. group - 1 = Len(bitmap[op.key])
    BY <2>1, <2>2, <2>3 DEF MoreGroups
  <2>5. reply' = Store[op.key]
    BY <1>3, <2>1, <2>3, <2>4, StoreIs
  <2> QED BY <1>1, <1>3, <1>4, <2>1, <2>2, <2>5, KvSteps
<1>7. CallInv' /\ SmallInv(n)'
  BY <1>1, <1>2 DEF CallInv, KvInv, SmallInv, Same, Running
<1>8. Kv!ReturnWrite \/ Kv!ReturnRead
  BY <1>5, <1>6
<1> QED BY <1>7, <1>8 DEF KvStep, Kv!Next

LEMMA OramInitKv ==
  ASSUME NEW n \in Levels, Suffices(n), KvInv(n), OramInit
  PROVE  KvStep(n)
<1>1. /\ pc = "created" /\ pc' = "idle"
      /\ data = [o \in Offsets |-> {}] /\ data' = NullBlocks(FileOffsets(tree_level), data)
      /\ UNCHANGED <<tree_level, bitmap, stash, stash_num, flag, height, record, write_back>>
      /\ UNCHANGED <<op, success, reply>>
  BY DEF OramInit, KvInv, PlaceInv, PhaseInv, treeVars, stashVars, callVars, pathVars, evictVars
<1>2. data' = data
  BY <1>1 DEF NullBlocks
<1>3. Same
  BY <1>1, <1>2, SamePath, SamePlacesSame DEF SamePlaces
<1>4. Kv!Start
  <2>1. Status = "down" /\ Status' = "up" /\ UNCHANGED Store
    BY <1>1, <1>3, StatusIs, SameStore
  <2> QED BY <1>1, <2>1, KvSteps
<1>5. CallInv' /\ SmallInv(n)'
  BY <1>1, <1>3 DEF CallInv, KvInv, SmallInv, Same, Running
<1> QED BY <1>4, <1>5 DEF KvStep, Kv!Next

(* A run of the program begins: nothing is stored.                         *)
LEMMA InitKv ==
  ASSUME NEW n \in Levels, Init
  PROVE  Kv!Init /\ CallInv /\ SmallInv(n)
<1>1. /\ pc = "created" /\ tree_level = 2 /\ bitmap = [k \in Keys |-> <<>>] /\ stash = {}
      /\ stash_num = 0 /\ record = {} /\ op = None /\ success = FALSE /\ reply = <<>>
      /\ data = [o \in Offsets |-> {}] /\ write_back = [h \in Heights |-> {}]
  BY DEF Init
<1>2. Live = {}
  <2>1. Resting \subseteq Offsets
    BY InitTreeInv, LiveEntries
  <2>2. \A e : e \notin Live
    BY <1>1, <2>1, InLive
  <2> QED BY <2>2
<1>3. Store = [k \in Keys |-> <<>>]
  <2>1. ASSUME NEW k \in Keys PROVE ValsIn(Live, k, Len(bitmap[k])) = <<>>
    <3>1. Len(bitmap[k]) = 0
      BY <1>1
    <3>2. ValsIn({}, k, 0) = <<>>
      BY ValsInStep
    <3> QED BY <1>2, <3>1, <3>2
  <2> QED BY <2>1, StoreIs
<1>4. Kv!Init
  <2>1. Status = "down"
    BY <1>1, StatusIs
  <2> QED BY <1>1, <1>3, <2>1 DEF Kv!Init, Store, Status
<1>5. SmallInv(n)
  <2>1. Cardinality({}) = 0
    BY FS_EmptySet
  <2>2. Overwritten = 0 /\ Cardinality(Live) <= MaxPairs
    BY <1>1, <1>2, <2>1, SizeAssumption DEF Overwritten
  <2> QED BY <1>1, <2>2, LevelBounds DEF SmallInv
<1>6. CallInv
  BY <1>1 DEF CallInv, Running
<1> QED BY <1>4, <1>5, <1>6

LEMMA RestartBegins ==
  ASSUME NEW n \in Levels
  PROVE  Restart => (Kv!Init /\ CallInv /\ SmallInv(n))'
<1>1. Restart => Init'
  BY DEF Restart, Init
<1>2. Init => Kv!Init /\ CallInv /\ SmallInv(n)
  BY InitKv
<1> QED BY <1>1, <1>2, PTL

LEMMA RestartKv ==
  ASSUME NEW n \in Levels, KvInv(n), Restart
  PROVE  KvStep(n)
<1>1. /\ pc # "created" /\ pc' = "created" /\ op' = None /\ success' = FALSE /\ reply' = <<>>
  BY DEF Restart
<1>3. Kv!Init' /\ CallInv' /\ SmallInv(n)'
  BY RestartBegins
<1>4. Kv!Restart
  <2>1. Status # "down"
    BY <1>1, StatusIs DEF KvInv, SmallInv
  <2>2. Status' = "down" /\ Store' = [k \in Keys |-> <<>>]
    BY <1>3 DEF Kv!Init, Store, Status
  <2> QED BY <1>1, <2>1, <2>2, KvSteps
<1> QED BY <1>3, <1>4 DEF KvStep, Kv!Next

LEMMA StutterKv ==
  ASSUME NEW n \in Levels, KvInv(n), UNCHANGED vars
  PROVE  KvStep(n)
<1>1. UNCHANGED <<pc, tree_level, bitmap, stash, stash_num, data, flag, height, record, write_back,
                  op, group, success, ret_val, reply>>
  BY DEF vars, treeVars, stashVars, fileVars, callVars, pathVars, evictVars
<1>2. Same
  BY <1>1, SamePath, SamePlacesSame DEF SamePlaces
<1>3. UNCHANGED Kv!vars
  <2>1. UNCHANGED <<Store, Status>>
    BY <1>1, <1>2, SameStore DEF Status
  <2> QED BY <1>1, <2>1, KvSteps
<1>4. CallInv'
  BY <1>1, <1>2 DEF KvInv, CallInv, Same, Running, Collected, HasRoom
<1>5. SmallInv(n)'
  BY <1>1, <1>2 DEF KvInv, SmallInv, Same
<1> QED BY <1>3, <1>4, <1>5 DEF KvStep

(* Every step of Oram is one of KvStore's or none.                         *)
LEMMA NextKv ==
  ASSUME NEW n \in Levels, Suffices(n), JustKeys = {}, KvInv(n), [Next]_vars
  PROVE  KvStep(n)
<1>1. CASE OramInit
  BY <1>1, OramInitKv
<1>2. ASSUME NEW k \in Keys, ReadVal(k) PROVE KvStep(n)
  <2> DEFINE c == [type |-> "read", key |-> k]
  <2>1. c \in Op /\ Call(c) /\ c.type # "write"
    BY <1>2 DEF ReadVal, Op
  <2> HIDE DEF c
  <2> QED BY <2>1, CallKv
<1>3. ASSUME NEW k \in Keys, NEW v \in Vals, WriteVal(k, v) PROVE KvStep(n)
  <2> DEFINE c == [type |-> "write", key |-> k, val |-> v]
  <2>1. c \in Op /\ Call(c) /\ c.key = k
    BY <1>3 DEF WriteVal, Op
  <2>2. Cardinality(Live) < MaxPairs \/ HasRoom(k)
    BY <1>3, GroupsAreEntries DEF WriteVal
  <2> HIDE DEF c
  <2> QED BY <2>1, <2>2, CallKv
<1>4. CASE Access
  <2>1. CASE StartAccess \/ ReadBlock \/ LoadEntry
    BY <2>1, StartAccessKv, ReadBlockKv, LoadEntryKv
  <2>2. CASE ReadEntry \/ AppendVal \/ SkipFullEntry \/ PlaceNewEntry
    BY <2>2, ReadEntryKv, AppendValKv, KeepKv
  <2>3. CASE EvictEntry \/ WriteBack \/ WriteBackAndResize \/ ResizeOverflows
    BY <2>3, EvictEntryKv, FlushKv DEF Flushes
  <2>4. CASE AddEntry
    BY <2>4, AddEntryKv
  <2>5. CASE ReturnRead \/ ReturnWrite
    BY <2>5, ReturnKv
  <2>6. CASE MissingEntry \/ OverrunReply
    BY <2>6, NothingMissing, OverrunReplyKv
  <2> QED BY <1>4, <2>1, <2>2, <2>3, <2>4, <2>5, <2>6 DEF Access
<1>5. CASE Restart
  BY <1>5, RestartKv
<1>6. CASE UNCHANGED vars
  BY <1>6, StutterKv
<1> QED BY <1>1, <1>2, <1>3, <1>4, <1>5, <1>6 DEF Next

(* A store of these sizes is the key-value store that its callers see: no  *)
(* access, eviction or resize loses, doubles or reorders a value, a write  *)
(* takes effect in one step, a read returns all that was written before,   *)
(* and only a read of more values than ret_val holds ends the run.         *)
THEOREM OramIsKvStore == ASSUME KvSizes PROVE Spec => ImplementsKv
<1>1. PICK n \in Levels : Suffices(n)
  BY DEF KvSizes
<1>2. JustKeys = {}
  BY DEF KvSizes
<1>3. Init => TreeInv /\ PlaceInv({}) /\ CallInv /\ SmallInv(n) /\ Kv!Init
  BY InitTreeInv, InitPlaceInv, InitKv
<1>4. KvInv(n) /\ [Next]_vars => CallInv' /\ SmallInv(n)' /\ [Kv!Next]_(Kv!vars)
  BY <1>1, <1>2, NextKv DEF KvStep
<1>5. KvInv(n) <=> TreeInv /\ PlaceInv({}) /\ CallInv /\ SmallInv(n)
  BY DEF KvInv
<1> QED BY <1>3, <1>4, <1>5, PlaceInvariant, PTL DEF Spec, ImplementsKv, Kv!Spec

(* And no access of such a store finds the entry of a group missing.       *)
THEOREM EntryAlwaysFound == ASSUME KvSizes PROVE Spec => []EntryFound
<1>1. PICK n \in Levels : Suffices(n)
  BY DEF KvSizes
<1>2. JustKeys = {}
  BY DEF KvSizes
<1>3. Init => TreeInv /\ PlaceInv({}) /\ CallInv /\ SmallInv(n)
  BY InitTreeInv, InitPlaceInv, InitKv
<1>4. KvInv(n) /\ [Next]_vars => CallInv' /\ SmallInv(n)'
  BY <1>1, <1>2, NextKv DEF KvStep
<1>5. KvInv(n) <=> TreeInv /\ PlaceInv({}) /\ CallInv /\ SmallInv(n)
  BY DEF KvInv
<1>6. SmallInv(n) => EntryFound
  BY DEF SmallInv, EntryFound
<1> QED BY <1>3, <1>4, <1>5, <1>6, PlaceInvariant, PTL DEF Spec
=============================================================================
