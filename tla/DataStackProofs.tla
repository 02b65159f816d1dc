-------------------------- MODULE DataStackProofs ---------------------------
(***************************************************************************)
(* Proofs about DataStack, for trees and stacks of any size, and whatever  *)
(* tree_level and the counts of the blocks start from.                     *)
(*                                                                         *)
(* The walk to the root finds the block that a comparison of ranges finds, *)
(* and the loop that erases from the vector it goes through leaves out no  *)
(* entry and takes none twice.                                             *)
(***************************************************************************)
EXTENDS DataStack, SequenceTheorems, FiniteSetTheorems, WellFoundedInduction, TLAPS

(* Any set of numbers has a least element. *)
LEMMA LeastElement ==
  ASSUME NEW T \in SUBSET Nat, T # {}
  PROVE  \E x \in T : \A y \in T : x <= y
<1> DEFINE Below == {1 .. n : n \in T}
           R == StrictSubsetOrdering(Nat)
<1>1. IsWellFoundedOn(R, FiniteSubsetsOf(Nat))
  BY FS_StrictSubsetOrderingWellFounded
<1>2. Below \subseteq FiniteSubsetsOf(Nat)
  <2>1. \A n \in T : IsFiniteSet(1 .. n)
    BY FS_Interval
  <2>2. \A n \in T : 1 .. n \in SUBSET Nat
    OBVIOUS
  <2>3. \A n \in T : 1 .. n \in FiniteSubsetsOf(Nat)
    BY <2>1, <2>2 DEF FiniteSubsetsOf
  <2> QED BY <2>3
<1>3. Below # {}
  OBVIOUS
<1>4. PICK s \in Below : \A t \in Below : <<t, s>> \notin R
  <2> HIDE DEF Below, R
  <2> QED BY <1>1, <1>2, <1>3, WFMin
<1>5. PICK x \in T : s = 1 .. x
  OBVIOUS
<1>6. ASSUME NEW y \in T, y < x PROVE FALSE
  <2>1. x \in 1 .. x /\ x \notin 1 .. y
    BY <1>6
  <2>2. 1 .. y \subseteq 1 .. x /\ 1 .. y # 1 .. x
    BY <1>6, <2>1
  <2>3. <<1 .. y, 1 .. x>> \in R
    BY <2>2 DEF StrictSubsetOrdering
  <2> QED BY <1>4, <1>5, <2>3
<1> QED BY <1>6

-----------------------------------------------------------------------------
(***************************************************************************)
(*                        The tree of OramTree                             *)
(***************************************************************************)

(* Powers of two up to the level bound. *)
LEMMA Powers ==
  /\ 2^0 = 1 /\ 2^1 = 2 /\ 2^2 = 4
  /\ \A n \in 0 .. LEVELMAX : 2^n \in Nat /\ 2^n > 0
  /\ \A n \in 0 .. LEVELMAX : 2^(n + 1) = 2 * 2^n
  /\ \A n \in 1 .. LEVELMAX : 2^n = 2 * 2^(n - 1)
<1>1. 2^0 = 1 /\ 2^1 = 2 /\ 2^2 = 4
  OBVIOUS
<1>2. /\ \A n \in 0 .. LEVELMAX : 2^n \in Nat /\ 2^n > 0
      /\ \A n \in 0 .. LEVELMAX : 2^(n + 1) = 2 * 2^n
  BY PowerAssumption
<1>3. ASSUME NEW n \in 1 .. LEVELMAX PROVE 2^n = 2 * 2^(n - 1)
  <2>1. n - 1 \in 0 .. LEVELMAX /\ (n - 1) + 1 = n
    BY LevelAssumption
  <2> QED BY <2>1, <1>2
<1> QED BY <1>1, <1>2, <1>3

(* Two divisions are one by the product. *)
LEMMA HalfOfQuotient ==
  ASSUME NEW x \in Nat, NEW p \in Nat, p > 0
  PROVE  x \div (2 * p) = (x \div p) \div 2
<1> DEFINE q == x \div p
           h == q \div 2
<1>1. q \in Nat /\ q * p <= x /\ x < (q + 1) * p
  OBVIOUS
<1>2. h \in Nat /\ 2 * h <= q /\ q + 1 <= 2 * (h + 1)
  BY <1>1
<1> HIDE DEF q, h
<1>3. h * (2 * p) <= x
  <2>1. (2 * h) * p <= q * p
    BY <1>1, <1>2
  <2>2. (2 * h) * p = h * (2 * p)
    BY <1>2
  <2> QED BY <1>1, <1>2, <2>1, <2>2
<1>4. x < (h + 1) * (2 * p)
  <2>1. (q + 1) * p <= (2 * (h + 1)) * p
    BY <1>1, <1>2
  <2>2. (2 * (h + 1)) * p = (h + 1) * (2 * p)
    BY <1>2
  <2> QED BY <1>1, <1>2, <2>1, <2>2
<1>5. x \div (2 * p) = h
  <2> DEFINE d == 2 * p
  <2>1. d \in Nat /\ d > 0 /\ h * d <= x /\ x < (h + 1) * d
    BY <1>3, <1>4
  <2> HIDE DEF d
  <2>2. x \div d = h
    BY <1>2, <2>1
  <2> QED BY <2>2 DEF d
<1> QED BY <1>5 DEF h, q

(* A node and its parent, and the nodes of one level. *)
LEMMA NodeAtParent ==
  ASSUME NEW leaf \in Nat, leaf > 0, NEW h \in 0 .. LEVELMAX - 1
  PROVE  /\ NodeAt(leaf, 0) = leaf
         /\ NodeAt(leaf, h) \in Nat /\ NodeAt(leaf, h) > 0
         /\ NodeAt(leaf, h + 1) = Parent(NodeAt(leaf, h))
<1> DEFINE p == 2^h
           q == (leaf - 1) \div p
<1>1. p \in Nat /\ p > 0 /\ 2^(h + 1) = 2 * p /\ 2^0 = 1
  BY Powers, LevelAssumption
<1>2. NodeAt(leaf, h) = q + 1
  BY DEF NodeAt
<1>3. NodeAt(leaf, h + 1) = (leaf - 1) \div (2 * p) + 1
  BY <1>1 DEF NodeAt
<1>4. NodeAt(leaf, 0) = leaf
  BY <1>1 DEF NodeAt
<1> HIDE DEF p
<1>5. q \in Nat
  BY <1>1
<1>6. (leaf - 1) \div (2 * p) = q \div 2
  <2> DEFINE x == leaf - 1
  <2>1. x \in Nat
    OBVIOUS
  <2> HIDE DEF x
  <2>2. x \div (2 * p) = (x \div p) \div 2
    BY <1>1, <2>1, HalfOfQuotient
  <2> QED BY <2>2 DEF x
<1> HIDE DEF q
<1>7. Parent(q + 1) = q \div 2 + 1
  BY <1>5 DEF Parent
<1> QED BY <1>2, <1>3, <1>4, <1>5, <1>6, <1>7

LEMMA PathRange ==
  ASSUME NEW level \in 1 .. LEVELMAX, NEW leaf \in Leaves(level), NEW h \in 0 .. level - 1
  PROVE  NodeAt(leaf, h) \in 2^(level - 1 - h) + 1 .. 2^(level - h)
<1> DEFINE Holds(i) == NodeAt(leaf, i) \in 2^(level - 1 - i) + 1 .. 2^(level - i)
           Bad == {i \in 0 .. level - 1 : ~Holds(i)}
<1>1. leaf \in Nat /\ leaf > 0
  BY Powers, LevelAssumption DEF Leaves
<1>2. Holds(0)
  BY <1>1, NodeAtParent, LevelAssumption DEF Leaves
<1>3. ASSUME NEW i \in 0 .. level - 2, Holds(i) PROVE Holds(i + 1)
  <2> DEFINE p == 2^(level - 2 - i)
             n == NodeAt(leaf, i)
  <2>1. p \in Nat /\ p > 0 /\ 2^(level - 1 - i) = 2 * p /\ 2^(level - i) = 2 * (2 * p)
    <3>1. level - 2 - i \in 0 .. LEVELMAX /\ level - 1 - i \in 1 .. LEVELMAX
            /\ level - i \in 1 .. LEVELMAX
      BY LevelAssumption
    <3>2. (level - 1 - i) - 1 = level - 2 - i /\ (level - i) - 1 = level - 1 - i
      BY LevelAssumption
    <3> QED BY <3>1, <3>2, Powers
  <2>2. NodeAt(leaf, i + 1) = Parent(n)
    BY <1>1, NodeAtParent, LevelAssumption
  <2>3. n \in 2 * p + 1 .. 2 * (2 * p)
    BY <1>3, <2>1
  <2>4. level - 1 - (i + 1) = level - 2 - i /\ level - (i + 1) = level - 1 - i
    BY LevelAssumption
  <2> HIDE DEF p, n
  <2>5. Parent(n) \in p + 1 .. 2 * p
    BY <2>1, <2>3 DEF Parent
  <2> QED BY <2>1, <2>2, <2>4, <2>5 DEF p
<1> HIDE DEF Holds
<1>4. ASSUME Bad # {} PROVE FALSE
  <2>1. PICK i \in Bad : \A j \in Bad : i <= j
    <3>1. Bad \in SUBSET Nat
      BY LevelAssumption
    <3> HIDE DEF Bad
    <3> QED BY <1>4, <3>1, LeastElement
  <2>2. i # 0
    BY <1>2
  <2>3. i - 1 \in 0 .. level - 2 /\ i - 1 \notin Bad /\ (i - 1) + 1 = i
    BY <2>1, <2>2, LevelAssumption
  <2>4. Holds(i - 1)
    BY <2>3, LevelAssumption
  <2> QED BY <1>3, <2>1, <2>3, <2>4
<1>5. Holds(h)
  BY <1>4
<1> QED BY <1>5 DEF Holds

LEMMA PowerMonotone ==
  ASSUME NEW m \in 0 .. LEVELMAX, NEW n \in m .. LEVELMAX
  PROVE  2^m <= 2^n
<1> DEFINE Bad == {i \in m .. LEVELMAX : ~(2^m <= 2^i)}
<1>1. \A i \in 0 .. LEVELMAX : 2^i \in Nat
  BY Powers
<1>2. ASSUME NEW i \in m + 1 .. LEVELMAX PROVE 2^(i - 1) <= 2^i
  <2>1. i \in 1 .. LEVELMAX /\ i - 1 \in 0 .. LEVELMAX
    BY LevelAssumption
  <2> QED BY <2>1, Powers
<1>3. ASSUME Bad # {} PROVE FALSE
  <2>1. PICK i \in Bad : \A j \in Bad : i <= j
    <3>1. Bad \in SUBSET Nat
      BY LevelAssumption
    <3> HIDE DEF Bad
    <3> QED BY <1>3, <3>1, LeastElement
  <2>2. i # m
    BY <1>1
  <2>3. i \in m + 1 .. LEVELMAX /\ i - 1 \in m .. LEVELMAX /\ i - 1 \notin Bad
    BY <2>1, <2>2, LevelAssumption
  <2>4. 2^m <= 2^(i - 1) /\ 2^(i - 1) <= 2^i /\ ~(2^m <= 2^i)
    BY <1>2, <2>3
  <2>5. 2^m \in Nat /\ 2^(i - 1) \in Nat /\ 2^i \in Nat
    BY <1>1, <2>3, LevelAssumption
  <2> QED BY <2>4, <2>5
<1> QED BY <1>3

(* The test of ranges takes a node exactly if it is on the path of the leaf. *)
LEMMA CoversItsPath ==
  ASSUME NEW level \in Levels, NEW leaf \in Leaves(level), NEW other \in Leaves(level),
         NEW h \in 0 .. level - 1
  PROVE  Covers(NodeAt(leaf, h), h, other) <=> NodeAt(other, h) = NodeAt(leaf, h)
<1> DEFINE p == 2^h
           n == NodeAt(leaf, h)
           x == other - 1
           q == x \div p
<1>1. h \in 0 .. LEVELMAX /\ p \in Nat /\ p > 0
  BY Powers, LevelAssumption DEF Levels
<1>2. n \in Nat /\ n > 0
  <2>1. level - 1 \in 0 .. LEVELMAX /\ h \in 0 .. LEVELMAX - 1
    BY LevelAssumption DEF Levels
  <2>2. leaf \in Nat /\ leaf > 0
    BY <2>1, Powers DEF Leaves
  <2> QED BY <2>1, <2>2, NodeAtParent
<1>3. x \in Nat /\ other = x + 1
  <2>1. level - 1 \in 0 .. LEVELMAX
    BY LevelAssumption DEF Levels
  <2> QED BY <2>1, Powers DEF Leaves
<1>4. NodeAt(other, h) = q + 1
  BY DEF NodeAt
<1>5. Covers(n, h, other) <=> other >= (n - 1) * p + 1 /\ other <= n * p
  BY DEF Covers
<1> HIDE DEF p, n, x
<1>6. q \in Nat /\ q * p <= x /\ x < (q + 1) * p
  BY <1>1, <1>3
<1>7. ASSUME q + 1 = n PROVE other >= (n - 1) * p + 1 /\ other <= n * p
  <2>1. n - 1 = q
    BY <1>2, <1>6, <1>7
  <2>2. (n - 1) * p = q * p /\ n * p = (q + 1) * p /\ q * p \in Nat /\ (q + 1) * p \in Nat
    BY <1>1, <1>6, <1>7, <2>1
  <2> QED BY <1>3, <1>6, <2>2
<1>8. ASSUME other >= (n - 1) * p + 1, other <= n * p PROVE q + 1 = n
  <2> DEFINE k == n - 1
  <2>1. k \in Nat /\ n = k + 1
    BY <1>2
  <2> HIDE DEF k
  <2>2. k * p <= x /\ x < (k + 1) * p
    <3>1. (n - 1) * p = k * p /\ n * p = (k + 1) * p /\ k * p \in Nat /\ (k + 1) * p \in Nat
      BY <1>1, <2>1
    <3> QED BY <1>3, <1>8, <3>1
  <2>3. x \div p = k
    BY <1>1, <1>3, <2>1, <2>2
  <2> QED BY <2>1, <2>3
<1> QED BY <1>4, <1>5, <1>7, <1>8 DEF n

-----------------------------------------------------------------------------
(***************************************************************************)
(*                         The walk to the root                            *)
(***************************************************************************)

(* The nodes that a walk from x meets, in order. *)
Steps(x) == CHOOSE f : f = [j \in Nat |-> IF j = 0 THEN x ELSE get_pos_parent(f[j - 1])]

LEMMA BlockPosSteps == ASSUME NEW j PROVE BlockPos(j) = Steps(path)[j]
BY DEF BlockPos, Steps

IsWalk(g, x, m) == \A j \in 0 .. m : g[j] = IF j = 0 THEN x ELSE get_pos_parent(g[j - 1])

LEMMA WalkExists == ASSUME NEW x, NEW m \in Nat PROVE \E g : IsWalk(g, x, m)
<1> DEFINE Bad == {n \in Nat : ~ \E g : IsWalk(g, x, n)}
<1>1. SUFFICES ASSUME Bad # {} PROVE FALSE
  OBVIOUS
<1>2. PICK n \in Bad : \A l \in Bad : n <= l
  <2>1. Bad \in SUBSET Nat
    OBVIOUS
  <2> HIDE DEF Bad
  <2> QED BY <1>1, <2>1, LeastElement
<1>3. CASE n = 0
  <2>1. IsWalk([l \in 0 .. 0 |-> x], x, 0)
    BY DEF IsWalk
  <2> QED BY <1>2, <1>3, <2>1
<1>4. CASE n # 0
  <2>1. n \in Nat /\ n - 1 \in Nat /\ n - 1 \notin Bad
    BY <1>2, <1>4
  <2>2. PICK g : IsWalk(g, x, n - 1)
    BY <2>1
  <2> DEFINE h == [l \in 0 .. n |-> IF l = n THEN get_pos_parent(g[n - 1]) ELSE g[l]]
  <2>3. ASSUME NEW l \in 0 .. n
        PROVE  h[l] = IF l = 0 THEN x ELSE get_pos_parent(h[l - 1])
    <3>1. l # 0 => l - 1 \in 0 .. n - 1 /\ h[l - 1] = g[l - 1]
      BY <2>1
    <3>2. CASE l = n
      BY <1>4, <3>1, <3>2
    <3>3. CASE l # n
      <4>1. l \in 0 .. n - 1 /\ h[l] = g[l]
        BY <2>1, <3>3
      <4>2. g[l] = IF l = 0 THEN x ELSE get_pos_parent(g[l - 1])
        BY <2>2, <4>1 DEF IsWalk
      <4> HIDE DEF h
      <4> QED BY <3>1, <4>1, <4>2
    <3> QED BY <3>2, <3>3
  <2>4. IsWalk(h, x, n)
    <3> HIDE DEF h
    <3> QED BY <2>3 DEF IsWalk
  <2> QED BY <1>2, <2>4
<1> QED BY <1>3, <1>4

LEMMA WalksAgree ==
  ASSUME NEW x, NEW m \in Nat, NEW n \in Nat, NEW g, NEW h, IsWalk(g, x, m), IsWalk(h, x, n),
         NEW j \in Nat, j <= m, j <= n
  PROVE  g[j] = h[j]
<1> DEFINE Bad == {l \in 0 .. j : g[l] # h[l]}
<1>1. SUFFICES ASSUME Bad # {} PROVE FALSE
  OBVIOUS
<1>2. PICK l \in Bad : \A k \in Bad : l <= k
  <2>1. Bad \in SUBSET Nat
    OBVIOUS
  <2> HIDE DEF Bad
  <2> QED BY <1>1, <2>1, LeastElement
<1>3. l \in 0 .. m /\ l \in 0 .. n /\ g[l] # h[l]
  OBVIOUS
<1>4. l # 0
  BY <1>3 DEF IsWalk
<1>5. l - 1 \notin Bad /\ l - 1 \in 0 .. j
  BY <1>2, <1>4
<1>6. g[l - 1] = h[l - 1]
  BY <1>5
<1> QED BY <1>3, <1>4, <1>6 DEF IsWalk

LEMMA StepsWalk ==
  ASSUME NEW x
  PROVE  Steps(x)[0] = x /\ \A j \in Nat : Steps(x)[j + 1] = get_pos_parent(Steps(x)[j])
<1> DEFINE Def(f) == [j \in Nat |-> IF j = 0 THEN x ELSE get_pos_parent(f[j - 1])]
           Some(m) == CHOOSE g : IsWalk(g, x, m)
           f == [j \in Nat |-> Some(j)[j]]
<1>1. \A m \in Nat : IsWalk(Some(m), x, m)
  BY WalkExists
<1>2. ASSUME NEW j \in Nat PROVE f[j] = Def(f)[j]
  <2>1. CASE j = 0
    BY <1>1, <2>1 DEF IsWalk
  <2>2. CASE j # 0
    <3>1. j - 1 \in Nat /\ f[j - 1] = Some(j - 1)[j - 1] /\ f[j] = Some(j)[j]
      BY <2>2
    <3>2. IsWalk(Some(j), x, j) /\ IsWalk(Some(j - 1), x, j - 1)
      BY <1>1, <3>1
    <3> HIDE DEF Some, f
    <3>3. Some(j)[j] = get_pos_parent(Some(j)[j - 1])
      BY <2>2, <3>2 DEF IsWalk
    <3>4. Some(j)[j - 1] = Some(j - 1)[j - 1]
      BY <3>1, <3>2, WalksAgree
    <3> QED BY <2>2, <3>1, <3>3, <3>4
  <2> QED BY <2>1, <2>2
<1>3. f = Def(f)
  <2>1. f = [j \in Nat |-> f[j]]
    OBVIOUS
  <2> HIDE DEF f
  <2> QED BY <1>2, <2>1
<1>4. Steps(x) = Def(Steps(x))
  <2>1. \E g : g = Def(g)
    <3> HIDE DEF f
    <3> QED BY <1>3
  <2>2. Steps(x) = CHOOSE g : g = Def(g)
    BY DEF Steps
  <2> HIDE DEF Def
  <2> QED BY <2>1, <2>2
<1>5. \A j \in Nat : Steps(x)[j] = Def(Steps(x))[j]
  <2> HIDE DEF Def
  <2> QED BY <1>4
<1> HIDE DEF f
<1> QED BY <1>5

LEMMA ParentDown ==
  ASSUME NEW n \in Nat
  PROVE  /\ get_pos_parent(n) = Parent(n)
         /\ get_pos_parent(n) \in Nat
         /\ n > 1 => get_pos_parent(n) < n
<1>1. n % 2 \in 0 .. 1 /\ n = 2 * (n \div 2) + (n % 2) /\ n \div 2 \in Nat
  OBVIOUS
<1>2. CASE n % 2 = 1
  <2>1. (n + 1) \div 2 = n \div 2 + 1
    BY <1>1, <1>2
  <2> QED BY <1>1, <1>2, <2>1 DEF get_pos_parent, Parent
<1>3. CASE n % 2 # 1
  BY <1>1, <1>3 DEF get_pos_parent, Parent
<1> QED BY <1>2, <1>3

LEMMA StepsNat == ASSUME NEW x \in Nat, NEW j \in Nat PROVE Steps(x)[j] \in Nat
<1> DEFINE Bad == {l \in Nat : Steps(x)[l] \notin Nat}
<1>1. SUFFICES ASSUME Bad # {} PROVE FALSE
  OBVIOUS
<1>2. PICK l \in Bad : \A k \in Bad : l <= k
  <2>1. Bad \in SUBSET Nat
    OBVIOUS
  <2> HIDE DEF Bad
  <2> QED BY <1>1, <2>1, LeastElement
<1>3. l \in Nat /\ l # 0
  BY StepsWalk
<1>4. l - 1 \in Nat /\ l - 1 \notin Bad /\ (l - 1) + 1 = l
  BY <1>2, <1>3
<1>5. Steps(x)[l - 1] \in Nat /\ Steps(x)[l] = get_pos_parent(Steps(x)[l - 1])
  BY <1>4, StepsWalk
<1> QED BY <1>5, ParentDown

(* The steps of a leaf are the nodes of its path. *)
LEMMA StepsAreNodes ==
  ASSUME NEW x \in Nat, x > 0, NEW j \in 0 .. LEVELMAX
  PROVE  Steps(x)[j] = NodeAt(x, j)
<1> DEFINE Bad == {l \in 0 .. LEVELMAX : Steps(x)[l] # NodeAt(x, l)}
<1>1. SUFFICES ASSUME Bad # {} PROVE FALSE
  OBVIOUS
<1>2. PICK l \in Bad : \A k \in Bad : l <= k
  <2>1. Bad \in SUBSET Nat
    BY LevelAssumption
  <2> HIDE DEF Bad
  <2> QED BY <1>1, <2>1, LeastElement
<1>3. 0 \in 0 .. LEVELMAX - 1
  BY LevelAssumption
<1>4. l \in 0 .. LEVELMAX /\ l # 0
  BY <1>3, StepsWalk, NodeAtParent
<1>5. l - 1 \in 0 .. LEVELMAX - 1 /\ l - 1 \in 0 .. LEVELMAX /\ l - 1 \notin Bad
        /\ (l - 1) + 1 = l /\ l - 1 \in Nat
  BY <1>2, <1>4, LevelAssumption
<1>6. Steps(x)[l - 1] = NodeAt(x, l - 1)
  BY <1>5
<1>7. Steps(x)[l] = get_pos_parent(Steps(x)[l - 1])
  BY <1>5, StepsWalk
<1>8. NodeAt(x, l - 1) \in Nat /\ NodeAt(x, l) = Parent(NodeAt(x, l - 1))
  <2>1. NodeAt(x, l - 1) \in Nat /\ NodeAt(x, (l - 1) + 1) = Parent(NodeAt(x, l - 1))
    BY <1>5, NodeAtParent
  <2> QED BY <1>5, <2>1
<1>9. Steps(x)[l] = NodeAt(x, l)
  BY <1>6, <1>7, <1>8, ParentDown
<1> QED BY <1>9

(* A walk is its first node, and the walk of the parent. *)
LEMMA StepsShift ==
  ASSUME NEW x, NEW j \in Nat
  PROVE  Steps(get_pos_parent(x))[j] = Steps(x)[j + 1]
<1> DEFINE Bad == {l \in Nat : Steps(get_pos_parent(x))[l] # Steps(x)[l + 1]}
<1>1. SUFFICES ASSUME Bad # {} PROVE FALSE
  OBVIOUS
<1>2. PICK l \in Bad : \A k \in Bad : l <= k
  <2>1. Bad \in SUBSET Nat
    OBVIOUS
  <2> HIDE DEF Bad
  <2> QED BY <1>1, <2>1, LeastElement
<1>3. Steps(get_pos_parent(x))[0] = Steps(x)[0 + 1]
  <2>1. Steps(get_pos_parent(x))[0] = get_pos_parent(x)
    BY StepsWalk
  <2>2. Steps(x)[0 + 1] = get_pos_parent(Steps(x)[0]) /\ Steps(x)[0] = x
    BY StepsWalk
  <2> QED BY <2>1, <2>2
<1>4. l \in Nat /\ l # 0
  BY <1>3
<1>5. l - 1 \in Nat /\ l - 1 \notin Bad /\ (l - 1) + 1 = l
  BY <1>2, <1>4
<1>6. Steps(get_pos_parent(x))[l - 1] = Steps(x)[(l - 1) + 1]
  BY <1>5
<1>7. Steps(get_pos_parent(x))[(l - 1) + 1] = get_pos_parent(Steps(get_pos_parent(x))[l - 1])
  BY <1>5, StepsWalk
<1>8. Steps(x)[l + 1] = get_pos_parent(Steps(x)[l])
  BY <1>4, StepsWalk
<1> QED BY <1>5, <1>6, <1>7, <1>8

(* A walk gets down to any node but the one above the root. *)
LEMMA Reaches ==
  ASSUME NEW x \in Nat, NEW t \in Nat, t > 0
  PROVE  \E j \in Nat : Steps(x)[j] <= t
<1> DEFINE Met == {Steps(x)[j] : j \in Nat}
<1>1. Met \in SUBSET Nat /\ Met # {}
  BY StepsNat
<1>2. PICK v \in Met : \A w \in Met : v <= w
  <2> HIDE DEF Met
  <2> QED BY <1>1, LeastElement
<1>3. PICK j \in Nat : v = Steps(x)[j]
  OBVIOUS
<1>4. j + 1 \in Nat /\ get_pos_parent(v) = Steps(x)[j + 1]
  BY <1>3, StepsWalk
<1>5. get_pos_parent(v) \in Met /\ v \in Nat
  BY <1>1, <1>4
<1>6. v <= 1
  <2> HIDE DEF Met
  <2>1. v <= get_pos_parent(v) /\ get_pos_parent(v) \in Nat
    BY <1>2, <1>5, ParentDown
  <2> QED BY <1>5, <2>1, ParentDown
<1>7. Steps(x)[j] <= t
  BY <1>3, <1>5, <1>6
<1> QED BY <1>7

-----------------------------------------------------------------------------
(***************************************************************************)
(*                      is_pos_fit_entry_path                              *)
(***************************************************************************)

(* Its walk: where it is once it is no longer above the target. *)
Up(t) == CHOOSE up : up = [pos \in Nat |-> IF pos > t THEN up[get_pos_parent(pos)] ELSE pos]

LEMMA FitIsUp ==
  ASSUME NEW from, NEW t
  PROVE  is_pos_fit_entry_path(from, t) <=> Up(t)[from] = t
BY DEF is_pos_fit_entry_path, Up

LEMMA UpWalk ==
  ASSUME NEW t \in Nat, t > 0, NEW pos \in Nat
  PROVE  Up(t)[pos] = IF pos > t THEN Up(t)[get_pos_parent(pos)] ELSE pos
<1> DEFINE Def(up) == [n \in Nat |-> IF n > t THEN up[get_pos_parent(n)] ELSE n]
           Low(n) == {j \in Nat : Steps(n)[j] <= t}
           First(n) == CHOOSE j \in Low(n) : \A k \in Low(n) : j <= k
           up == [n \in Nat |-> Steps(n)[First(n)]]
<1>1. ASSUME NEW n \in Nat
      PROVE  /\ First(n) \in Nat /\ Steps(n)[First(n)] <= t
             /\ \A k \in Nat : Steps(n)[k] <= t => First(n) <= k
  <2>1. Low(n) \in SUBSET Nat /\ Low(n) # {}
    BY Reaches
  <2>2. \E j \in Low(n) : \A k \in Low(n) : j <= k
    <3> HIDE DEF Low
    <3> QED BY <2>1, LeastElement
  <2>3. First(n) \in Low(n) /\ \A k \in Low(n) : First(n) <= k
    <3> HIDE DEF Low
    <3> QED BY <2>2
  <2> HIDE DEF First
  <2> QED BY <2>3
<1>2. ASSUME NEW n \in Nat PROVE up[n] = Def(up)[n]
  <2> HIDE DEF First
  <2>1. Steps(n)[0] = n
    BY StepsWalk
  <2>2. CASE n > t
    <3> DEFINE m == get_pos_parent(n)
               i == First(n)
               k == First(m)
    <3>1. m \in Nat
      BY ParentDown
    <3>2. i \in Nat /\ k \in Nat /\ Steps(n)[i] <= t /\ Steps(m)[k] <= t
      BY <1>1, <3>1
    <3>3. i # 0
      BY <2>1, <2>2, <3>2
    <3>4. i - 1 \in Nat /\ (i - 1) + 1 = i /\ k + 1 \in Nat
      BY <3>2, <3>3
    <3>5. Steps(m)[i - 1] = Steps(n)[i] /\ Steps(m)[k] = Steps(n)[k + 1]
      <4>1. Steps(m)[i - 1] = Steps(n)[(i - 1) + 1]
        BY <3>4, StepsShift
      <4>2. Steps(m)[k] = Steps(n)[k + 1]
        BY <3>2, StepsShift
      <4> QED BY <3>4, <4>1, <4>2
    <3>6. k <= i - 1 /\ i <= k + 1
      BY <1>1, <3>1, <3>2, <3>4, <3>5
    <3>7. k = i - 1
      BY <3>2, <3>6
    <3>8. up[n] = Steps(n)[i] /\ up[m] = Steps(m)[k]
      BY <3>1
    <3>9. Def(up)[n] = up[m]
      BY <2>2
    <3> HIDE DEF m, i, k, up
    <3> QED BY <3>5, <3>7, <3>8, <3>9
  <2>3. CASE ~(n > t)
    <3>1. First(n) \in Nat /\ First(n) <= 0
      BY <1>1, <2>1, <2>3
    <3>2. First(n) = 0
      BY <3>1
    <3> QED BY <2>1, <2>3, <3>2
  <2> QED BY <2>2, <2>3
<1>3. up = Def(up)
  <2>1. up = [n \in Nat |-> up[n]]
    OBVIOUS
  <2> HIDE DEF up
  <2> QED BY <1>2, <2>1
<1>4. Up(t) = Def(Up(t))
  <2>1. \E f : f = Def(f)
    <3> HIDE DEF up
    <3> QED BY <1>3
  <2>2. Up(t) = CHOOSE f : f = Def(f)
    BY DEF Up
  <2> HIDE DEF Def
  <2> QED BY <2>1, <2>2
<1>5. Up(t)[pos] = Def(Up(t))[pos]
  <2> HIDE DEF Def
  <2> QED BY <1>4
<1> QED BY <1>5

(* It goes through the nodes of the walk that are above the target. *)
LEMMA UpAlong ==
  ASSUME NEW x \in Nat, NEW t \in Nat, t > 0, NEW h \in Nat,
         \A i \in 0 .. h - 1 : Steps(x)[i] > t
  PROVE  Up(t)[x] = Up(t)[Steps(x)[h]]
<1> DEFINE Bad == {l \in 0 .. h : Up(t)[x] # Up(t)[Steps(x)[l]]}
<1>1. SUFFICES ASSUME Bad # {} PROVE FALSE
  OBVIOUS
<1>2. PICK l \in Bad : \A k \in Bad : l <= k
  <2>1. Bad \in SUBSET Nat
    OBVIOUS
  <2> HIDE DEF Bad
  <2> QED BY <1>1, <2>1, LeastElement
<1>3. l \in 0 .. h /\ l # 0
  BY StepsWalk
<1>4. l - 1 \in 0 .. h /\ l - 1 \in 0 .. h - 1 /\ l - 1 \notin Bad /\ (l - 1) + 1 = l /\ l - 1 \in Nat
  BY <1>2, <1>3
<1> DEFINE y == Steps(x)[l - 1]
<1>5. Up(t)[x] = Up(t)[y]
  BY <1>4
<1>6. y > t /\ y \in Nat
  BY <1>4, StepsNat
<1>7. Steps(x)[l] = get_pos_parent(y)
  BY <1>4, StepsWalk
<1>8. Up(t)[y] = Up(t)[Steps(x)[l]]
  <2> HIDE DEF y
  <2> QED BY <1>6, <1>7, UpWalk
<1> QED BY <1>5, <1>8

(* A block of a path fits an entry exactly if the entry's path has it. *)
LEMMA FitIsShared ==
  ASSUME NEW x \in Leaves(LEVEL), NEW y \in Leaves(LEVEL), NEW h \in 0 .. LEVEL - 1
  PROVE  is_pos_fit_entry_path(x, Steps(y)[h]) <=> NodeAt(x, h) = NodeAt(y, h)
<1> DEFINE t == NodeAt(y, h)
           n == NodeAt(x, h)
           a == 2^(LEVEL - 1 - h)
           b == 2^(LEVEL - h)
<1>1. LEVEL \in 1 .. LEVELMAX /\ h \in 0 .. LEVELMAX /\ h \in Nat
        /\ LEVEL - 1 - h \in 0 .. LEVELMAX /\ LEVEL - h \in 1 .. LEVELMAX
        /\ (LEVEL - h) - 1 = LEVEL - 1 - h /\ LEVEL - 1 \in 0 .. LEVELMAX
  BY StackAssumption, LevelAssumption DEF Levels
<1>2. x \in Nat /\ x > 0 /\ y \in Nat /\ y > 0
  BY <1>1, Powers DEF Leaves
<1>3. Steps(y)[h] = t /\ Steps(x)[h] = n
  BY <1>1, <1>2, StepsAreNodes
<1>4. a \in Nat /\ a > 0 /\ b = 2 * a
  BY <1>1, Powers
<1>5. t \in a + 1 .. b /\ n \in a + 1 .. b
  BY <1>1, PathRange
<1>6. \A i \in 0 .. h - 1 : Steps(x)[i] > t
  <2> TAKE i \in 0 .. h - 1
  <2>1. i \in 0 .. LEVEL - 1 /\ i \in 0 .. LEVELMAX /\ LEVEL - 1 - i \in LEVEL - h .. LEVELMAX
          /\ LEVEL - 1 - i \in 0 .. LEVELMAX /\ LEVEL - i \in 0 .. LEVELMAX /\ LEVEL - h \in 0 .. LEVELMAX
    BY <1>1, LevelAssumption
  <2>2. b <= 2^(LEVEL - 1 - i) /\ 2^(LEVEL - 1 - i) \in Nat /\ 2^(LEVEL - i) \in Nat
    BY <2>1, PowerMonotone, Powers
  <2>3. NodeAt(x, i) \in 2^(LEVEL - 1 - i) + 1 .. 2^(LEVEL - i)
    BY <1>1, <2>1, PathRange
  <2>4. Steps(x)[i] = NodeAt(x, i)
    BY <1>2, <2>1, StepsAreNodes
  <2> HIDE DEF t, b, a
  <2> QED BY <1>4, <1>5, <2>2, <2>3, <2>4
<1>7. t \in Nat /\ t > 0 /\ n \in Nat
  <2> HIDE DEF t, n, a, b
  <2> QED BY <1>4, <1>5
<1>8. Up(t)[x] = Up(t)[n]
  <2> HIDE DEF t, n
  <2>1. Up(t)[x] = Up(t)[Steps(x)[h]]
    BY <1>1, <1>2, <1>6, <1>7, UpAlong
  <2> QED BY <2>1, <1>3
<1>9. Up(t)[n] = t <=> n = t
  <2> HIDE DEF t, n
  <2>1. CASE n > t
    <3> DEFINE m == get_pos_parent(n)
    <3>1. m \in Nat /\ m = Parent(n)
      BY <1>7, ParentDown
    <3>2. m <= a
      <4> HIDE DEF a, b, m
      <4> QED BY <1>4, <1>5, <3>1 DEF Parent
    <3>3. m < t
      <4> HIDE DEF a, b, m
      <4> QED BY <1>4, <1>5, <3>1, <3>2
    <3>4. Up(t)[n] = Up(t)[m] /\ Up(t)[m] = m
      <4> HIDE DEF m
      <4>1. Up(t)[n] = Up(t)[m]
        BY <1>7, <2>1, UpWalk DEF m
      <4>2. Up(t)[m] = m
        BY <1>7, <3>1, <3>3, UpWalk
      <4> QED BY <4>1, <4>2
    <3> HIDE DEF m
    <3> QED BY <1>7, <2>1, <3>1, <3>3, <3>4
  <2>2. CASE ~(n > t)
    BY <1>7, <2>2, UpWalk
  <2> QED BY <2>1, <2>2
<1>10. is_pos_fit_entry_path(x, t) <=> Up(t)[x] = t
  BY FitIsUp
<1> HIDE DEF t, n
<1> QED BY <1>3, <1>8, <1>9, <1>10 DEF t, n

-----------------------------------------------------------------------------
(***************************************************************************)
(*                     The inductive invariant                             *)
(*                                                                         *)
(* The iterator never has an entry before it that a block would take: this *)
(* is what the loop keeps as the vector shrinks.  The counts need to know  *)
(* that an entry which is still in the vector is in no block, and so that  *)
(* none is in the vector twice.                                            *)
(***************************************************************************)

StackTypes ==
  /\ stack \in Seq(Entries \cup {Nowhere})
  /\ tree_level \in Nat
  /\ entry_path \in [Entries -> Leaves(LEVEL)]
  /\ it \in Nat \ {0}

CallTypes ==
  /\ path \in Leaves(LEVEL)
  /\ block \in [Heights -> SUBSET Entries]
  /\ \A h \in Heights : IsFiniteSet(block[h])
  /\ entries_num \in [Heights -> Int]
  /\ refused \subseteq Entries

NoneTwice == \A n, m \in DOMAIN stack : stack[n] = stack[m] /\ stack[n] \in Entries => n = m

GoneThrough ==
  /\ it <= Len(stack) + 1
  /\ \A n \in 1 .. it - 1 : stack[n] \in Entries /\ CoveringHeights(stack[n]) = {}

StackInv ==
  /\ StackTypes
  /\ NoneTwice
  /\ pc \in {"idle", "evict", "returned", "bad_index"}
  /\ pc = "idle" => block = <<>> /\ entries_num = <<>> /\ refused = {}
  /\ pc # "idle" => CallTypes
  /\ pc \in {"evict", "returned"} => GoneThrough
  /\ pc = "returned" => it > Len(stack)
  /\ PlacedDeepest
  /\ DroppedOnlyIfFull

-----------------------------------------------------------------------------
(***************************************************************************)
(*                     What each step does to it                           *)
(***************************************************************************)

(* The first block that takes an entry is the lowest on its path; a block  *)
(* beyond the root, where tree_level has one, takes it only if the root    *)
(* does.                                                                   *)
LEMMA FirstFit ==
  ASSUME StackTypes, path \in Leaves(LEVEL), NEW e \in Entries
  PROVE  /\ Fits(e) = {} => CoveringHeights(e) = {}
         /\ \A h \in Fits(e) : (\A other \in Fits(e) : h <= other) =>
              h \in CoveringHeights(e) /\ \A other \in CoveringHeights(e) : h <= other
<1> DEFINE x == entry_path[e]
<1>1. x \in Leaves(LEVEL) /\ LEVEL \in Levels /\ tree_level \in Nat
  BY StackAssumption DEF StackTypes
<1>2. LEVEL \in 1 .. LEVELMAX /\ LEVEL - 1 \in 0 .. LEVELMAX
  BY <1>1, LevelAssumption DEF Levels
<1>3. path \in Nat /\ path > 0
  BY <1>2, Powers DEF Leaves
<1>4. ASSUME NEW h \in Heights, h < LEVEL
      PROVE  h \in Fits(e) <=> h \in CoveringHeights(e)
  <2>1. h \in 0 .. LEVEL - 1 /\ h \in 0 .. LEVELMAX
    BY <1>1, <1>2, <1>4, LevelAssumption DEF Heights
  <2>2. BlockPos(h) = Steps(path)[h] /\ Steps(path)[h] = NodeAt(path, h)
    BY <1>3, <2>1, BlockPosSteps, StepsAreNodes
  <2>3. is_pos_fit_entry_path(x, BlockPos(h)) <=> NodeAt(x, h) = NodeAt(path, h)
    <3>1. is_pos_fit_entry_path(x, Steps(path)[h]) <=> NodeAt(x, h) = NodeAt(path, h)
      BY <1>1, <2>1, FitIsShared
    <3> QED BY <2>2, <3>1
  <2>4. Covers(BlockPos(h), h, x) <=> NodeAt(x, h) = NodeAt(path, h)
    <3>1. Covers(NodeAt(path, h), h, x) <=> NodeAt(x, h) = NodeAt(path, h)
      BY <1>1, <2>1, CoversItsPath
    <3> QED BY <2>2, <3>1
  <2> HIDE DEF x
  <2> QED BY <1>4, <2>3, <2>4 DEF Fits, CoveringHeights, x
<1>5. CoveringHeights(e) \subseteq Fits(e)
  <2>1. \A h \in CoveringHeights(e) : h \in Heights /\ h < LEVEL
    BY DEF CoveringHeights
  <2> QED BY <1>4, <2>1
<1>6. ASSUME NEW h \in Fits(e), \A other \in Fits(e) : h <= other
      PROVE  h < LEVEL
  <2>1. h \in Heights
    BY DEF Fits
  <2> SUFFICES ASSUME LEVEL <= h PROVE FALSE
    BY <1>1, <2>1 DEF Heights, Levels
  <2>2. LEVEL - 1 \in Heights /\ LEVEL - 1 < LEVEL /\ LEVEL - 1 < h /\ LEVEL - 1 \in 0 .. LEVEL - 1
    BY <1>1, <1>2, <2>1 DEF Heights, Levels
  <2>3. NodeAt(x, LEVEL - 1) = 2 /\ NodeAt(path, LEVEL - 1) = 2
    <3>1. LEVEL - 1 - (LEVEL - 1) = 0 /\ LEVEL - (LEVEL - 1) = 1
      BY <1>2
    <3>2. \A y \in Leaves(LEVEL) : NodeAt(y, LEVEL - 1) \in 2^0 + 1 .. 2^1
      <4> TAKE y \in Leaves(LEVEL)
      <4>1. NodeAt(y, LEVEL - 1) \in 2^(LEVEL - 1 - (LEVEL - 1)) + 1 .. 2^(LEVEL - (LEVEL - 1))
        BY <1>2, <2>2, PathRange
      <4> QED BY <3>1, <4>1
    <3>3. \A y \in Leaves(LEVEL) : NodeAt(y, LEVEL - 1) = 2
      BY <3>2, Powers
    <3> QED BY <1>1, <3>3
  <2>4. is_pos_fit_entry_path(x, Steps(path)[LEVEL - 1])
    BY <1>1, <2>2, <2>3, FitIsShared
  <2>5. BlockPos(LEVEL - 1) = Steps(path)[LEVEL - 1]
    BY BlockPosSteps
  <2>6. LEVEL - 1 \in Fits(e)
    BY <2>2, <2>4, <2>5 DEF Fits
  <2>7. h <= LEVEL - 1
    BY <1>6, <2>6
  <2> QED BY <1>1, <2>1, <2>2, <2>7 DEF Heights
<1>7. ASSUME NEW h \in Fits(e), \A other \in Fits(e) : h <= other
      PROVE  h \in CoveringHeights(e) /\ \A other \in CoveringHeights(e) : h <= other
  <2>1. h < LEVEL /\ h \in Heights
    BY <1>6, <1>7 DEF Fits
  <2> QED BY <1>4, <1>5, <1>7, <2>1
<1> QED BY <1>5, <1>7

(* A step that keeps the tree and the two paths keeps what covers what. *)
LEMMA SameCovers ==
  ASSUME UNCHANGED <<tree_level, entry_path, path>>
  PROVE  /\ Heights' = Heights
         /\ \A e : CoveringHeights(e)' = CoveringHeights(e)
<1>1. Heights' = Heights
  BY DEF Heights
<1>2. ASSUME NEW h PROVE BlockPos(h)' = BlockPos(h)
  BY DEF BlockPos
<1> QED BY <1>1, <1>2 DEF CoveringHeights, Covers

LEMMA Removed ==
  ASSUME NEW S, NEW s \in Seq(S), NEW i \in 1 .. Len(s)
  PROVE  /\ RemoveAt(s, i) \in Seq(S)
         /\ Len(RemoveAt(s, i)) = Len(s) - 1
         /\ \A n \in 1 .. Len(s) - 1 : RemoveAt(s, i)[n] = IF n < i THEN s[n] ELSE s[n + 1]
<1> DEFINE a == SubSeq(s, 1, i - 1)
           b == SubSeq(s, i + 1, Len(s))
<1>1. a \in Seq(S) /\ Len(a) = i - 1 /\ \A n \in 1 .. i - 1 : a[n] = s[n]
  OBVIOUS
<1>2. b \in Seq(S) /\ Len(b) = Len(s) - i /\ \A n \in 1 .. Len(s) - i : b[n] = s[i + n]
  OBVIOUS
<1>3. RemoveAt(s, i) = a \o b
  BY DEF RemoveAt
<1> HIDE DEF a, b
<1>4. a \o b \in Seq(S) /\ Len(a \o b) = Len(s) - 1
  BY <1>1, <1>2
<1>5. ASSUME NEW n \in 1 .. Len(s) - 1
      PROVE  (a \o b)[n] = IF n < i THEN s[n] ELSE s[n + 1]
  <2>1. CASE n < i
    <3>1. n \in 1 .. i - 1 /\ (a \o b)[n] = a[n]
      BY <1>1, <1>2, <2>1
    <3> QED BY <1>1, <2>1, <3>1
  <2>2. CASE ~(n < i)
    <3>1. n - (i - 1) \in 1 .. Len(s) - i /\ i + (n - (i - 1)) = n + 1
            /\ (a \o b)[n] = b[n - (i - 1)]
      BY <1>1, <1>2, <2>2
    <3> QED BY <1>2, <2>2, <3>1
  <2> QED BY <2>1, <2>2
<1> QED BY <1>3, <1>4, <1>5

LEMMA InitInv == Init => StackInv
<1> SUFFICES ASSUME Init PROVE StackInv
  OBVIOUS
<1> USE StackAssumption DEF Init
<1>1. StackTypes
  BY DEF StackTypes
<1>2. NoneTwice
  BY DEF NoneTwice
<1>3. PlacedDeepest
  BY DEF PlacedDeepest
<1>4. DroppedOnlyIfFull
  BY DEF DroppedOnlyIfFull, Placed
<1> QED BY <1>1, <1>2, <1>3, <1>4 DEF StackInv

(* Between the calls nothing is placed or refused. *)
LEMMA IdleInv ==
  ASSUME StackTypes', NoneTwice', pc' = "idle", block' = <<>>, entries_num' = <<>>, refused' = {}
  PROVE  StackInv'
<1>1. PlacedDeepest'
  BY DEF PlacedDeepest
<1>2. DroppedOnlyIfFull'
  BY DEF DroppedOnlyIfFull, Placed
<1> QED BY <1>1, <1>2 DEF StackInv

LEMMA AddEntryInv == ASSUME StackInv, NEW e \in Entries, add_entry(e) PROVE StackInv'
<1> USE DEF StackInv, add_entry
<1>1. StackTypes'
  BY DEF StackTypes
<1>2. NoneTwice'
  <2>1. stack \in Seq(Entries \cup {Nowhere}) /\ \A n \in DOMAIN stack : stack[n] # e
    BY DEF StackTypes, Range
  <2>2. DOMAIN stack' = 1 .. Len(stack) + 1 /\ DOMAIN stack = 1 .. Len(stack)
          /\ stack'[Len(stack) + 1] = e /\ \A n \in 1 .. Len(stack) : stack'[n] = stack[n]
    BY <2>1
  <2>3. Len(stack) \in Nat
    BY <2>1
  <2>4. ASSUME NEW n \in DOMAIN stack', NEW m \in DOMAIN stack', stack'[n] = stack'[m], stack'[n] \in Entries
        PROVE  n = m
    <3>1. CASE n = Len(stack) + 1 \/ m = Len(stack) + 1
      BY <2>1, <2>2, <2>3, <2>4, <3>1
    <3>2. CASE n # Len(stack) + 1 /\ m # Len(stack) + 1
      <4>1. n \in 1 .. Len(stack) /\ m \in 1 .. Len(stack)
        BY <2>2, <2>3, <3>2
      <4> QED BY <2>2, <2>4, <4>1 DEF NoneTwice
    <3> QED BY <3>1, <3>2
  <2> QED BY <2>4 DEF NoneTwice
<1> QED BY <1>1, <1>2, IdleInv

LEMMA ReadEntriesInv == ASSUME StackInv, read_entries PROVE StackInv'
<1> USE StackAssumption DEF StackInv, read_entries
<1> DEFINE E == Entries \cup {Nowhere}
<1>1. PICK read \in [1 .. EntryNum -> E] :
        /\ \A n, m \in 1 .. EntryNum : read[n] = read[m] => n = m \/ read[n] = Nowhere
        /\ Range(read) \cap Range(stack) \subseteq {Nowhere}
        /\ stack' = stack \o read
  OBVIOUS
<1>2. stack \in Seq(E) /\ read \in Seq(E) /\ Len(read) = EntryNum /\ Len(stack) \in Nat
  BY <1>1 DEF StackTypes
<1>3. /\ DOMAIN stack' = 1 .. Len(stack) + EntryNum /\ DOMAIN stack = 1 .. Len(stack)
      /\ \A n \in 1 .. Len(stack) : stack'[n] = stack[n]
      /\ \A n \in Len(stack) + 1 .. Len(stack) + EntryNum : stack'[n] = read[n - Len(stack)]
      /\ stack' \in Seq(E)
  BY <1>1, <1>2
<1>4. StackTypes'
  BY <1>3 DEF StackTypes
<1>5. NoneTwice'
  <2>1. \A n \in 1 .. Len(stack), m \in 1 .. EntryNum : stack[n] = read[m] => stack[n] = Nowhere
    <3>1. \A n \in 1 .. Len(stack) : stack[n] \in Range(stack)
      BY <1>3 DEF Range
    <3>2. \A m \in 1 .. EntryNum : read[m] \in Range(read)
      BY DEF Range
    <3> QED BY <1>1, <3>1, <3>2
  <2>2. ASSUME NEW n \in DOMAIN stack', NEW m \in DOMAIN stack', stack'[n] = stack'[m], stack'[n] \in Entries
        PROVE  n = m
    <3> DEFINE l == Len(stack)
    <3>1. stack'[n] # Nowhere
      BY <2>2
    <3>2. /\ n \in 1 .. l \/ (n \in l + 1 .. l + EntryNum /\ n - l \in 1 .. EntryNum)
          /\ m \in 1 .. l \/ (m \in l + 1 .. l + EntryNum /\ m - l \in 1 .. EntryNum)
          /\ n \in Int /\ m \in Int /\ l \in Int
      BY <1>2, <1>3
    <3>3. CASE n \in 1 .. l /\ m \in 1 .. l
      BY <1>3, <2>2, <3>3 DEF NoneTwice
    <3>4. CASE n \notin 1 .. l /\ m \notin 1 .. l
      <4>1. read[n - l] = read[m - l] /\ read[n - l] # Nowhere
        BY <1>3, <2>2, <3>1, <3>2, <3>4
      <4>2. n - l = m - l
        BY <1>1, <3>2, <3>4, <4>1
      <4> QED BY <3>2, <4>2
    <3>5. CASE n \in 1 .. l /\ m \notin 1 .. l
      BY <1>3, <2>1, <2>2, <3>1, <3>2, <3>5
    <3>6. CASE n \notin 1 .. l /\ m \in 1 .. l
      BY <1>3, <2>1, <2>2, <3>1, <3>2, <3>6
    <3> QED BY <3>3, <3>4, <3>5, <3>6
  <2> QED BY <2>2 DEF NoneTwice
<1> QED BY <1>4, <1>5, IdleInv

(* A vector in another order has the same entries, each once. *)
LEMMA Reordered ==
  ASSUME NEW n \in Nat, NEW p \in [1 .. n -> 1 .. n], Range(p) = 1 .. n
  PROVE  \A i, j \in 1 .. n : p[i] = p[j] => i = j
<1> DEFINE S == 1 .. n
<1>1. IsFiniteSet(S)
  BY FS_Interval
<1>2. p \in Surjection(S, S)
  BY DEF Range, Surjection
<1>3. p \in Injection(S, S)
  BY <1>1, <1>2, FS_SurjSameCardinalityImpliesInj
<1> QED BY <1>3 DEF Injection, IsInjective

LEMMA WriteBackInv ==
  ASSUME StackInv, NEW to \in Leaves(LEVEL), write_back_entries(to)
  PROVE  StackInv'
<1> USE StackAssumption DEF StackInv, write_back_entries
<1> DEFINE E == Entries \cup {Nowhere}
<1>1. PICK p \in [DOMAIN stack -> DOMAIN stack] :
        Range(p) = DOMAIN stack /\ stack' = [n \in DOMAIN stack |-> stack[p[n]]]
  OBVIOUS
<1>2. stack \in Seq(E) /\ DOMAIN stack = 1 .. Len(stack) /\ Len(stack) \in Nat
  BY DEF StackTypes
<1>3. /\ stack' \in Seq(E) /\ DOMAIN stack' = 1 .. Len(stack) /\ Len(stack') = Len(stack)
      /\ \A n \in 1 .. Len(stack) : stack'[n] = stack[p[n]] /\ p[n] \in 1 .. Len(stack)
  <2>1. \A n \in 1 .. Len(stack) : p[n] \in 1 .. Len(stack) /\ stack[p[n]] \in E
    BY <1>1, <1>2
  <2>2. stack' = [n \in 1 .. Len(stack) |-> stack[p[n]]]
    BY <1>1, <1>2
  <2> QED BY ONLY <1>2, <2>1, <2>2
<1>4. StackTypes'
  BY <1>3 DEF StackTypes
<1>5. NoneTwice'
  <2>1. \A i, j \in 1 .. Len(stack) : p[i] = p[j] => i = j
    BY <1>1, <1>2, Reordered
  <2> QED BY <1>2, <1>3, <2>1 DEF NoneTwice
<1>6. Heights' = Heights
  BY DEF Heights
<1>7. entries_num' \in [Heights -> StartCounts]
  BY Zenon
<1>8. block' = [h \in Heights |-> {}] /\ DOMAIN block' = Heights /\ \A h \in Heights : block'[h] = {}
  OBVIOUS
<1>9. CallTypes'
  BY <1>6, <1>7, <1>8, FS_EmptySet DEF CallTypes
<1>10. GoneThrough'
  BY <1>3 DEF GoneThrough
<1>11. PlacedDeepest'
  BY <1>8 DEF PlacedDeepest
<1>12. DroppedOnlyIfFull'
  <2>1. Placed' = {}
    BY <1>8 DEF Placed
  <2>2. ASSUME NEW h \in DOMAIN block'
        PROVE  /\ entries_num'[h] - Cardinality(block'[h]) \in StartCounts
               /\ block'[h] # {} => entries_num'[h] <= MaxEntries
    <3>1. entries_num'[h] \in StartCounts /\ StartCounts \subseteq Int /\ Cardinality({}) = 0
      BY <1>7, <1>8, <2>2, FS_EmptySet
    <3>2. entries_num'[h] - 0 = entries_num'[h]
      <4>1. \A v \in Int : v - 0 = v
        OBVIOUS
      <4> QED BY ONLY <3>1, <4>1
    <3> QED BY <1>8, <2>2, <3>1, <3>2
  <2>3. refused' = {}
    OBVIOUS
  <2> QED BY <2>1, <2>2, <2>3 DEF DroppedOnlyIfFull
<1> QED BY <1>4, <1>5, <1>9, <1>10, <1>11, <1>12

(* What erase leaves: the same entries but one, in the same order. *)
LEMMA Erased ==
  ASSUME StackTypes, NoneTwice, it \in 1 .. Len(stack), stack[it] \in Entries,
         stack' = RemoveAt(stack, it), it' = it, UNCHANGED <<tree_level, entry_path>>
  PROVE  /\ StackTypes' /\ NoneTwice'
         /\ Range(stack') \subseteq Range(stack) \ {stack[it]}
         /\ Len(stack') = Len(stack) - 1
         /\ \A n \in 1 .. it - 1 : stack'[n] = stack[n]
<1> DEFINE E == Entries \cup {Nowhere}
           From(n) == IF n < it THEN n ELSE n + 1
<1>1. stack \in Seq(E) /\ Len(stack) \in Nat /\ DOMAIN stack = 1 .. Len(stack) /\ it \in Nat
  BY DEF StackTypes
<1>2. stack' \in Seq(E) /\ Len(stack') = Len(stack) - 1
        /\ \A n \in 1 .. Len(stack) - 1 : stack'[n] = IF n < it THEN stack[n] ELSE stack[n + 1]
  BY <1>1, Removed
<1>3. DOMAIN stack' = 1 .. Len(stack) - 1
  BY <1>2
<1>4. \A n \in DOMAIN stack' : stack'[n] = stack[From(n)] /\ From(n) \in DOMAIN stack /\ From(n) # it
  BY <1>1, <1>2, <1>3
<1>5. \A n, m \in DOMAIN stack' : From(n) = From(m) => n = m
  BY <1>1, <1>3
<1>6. StackTypes'
  BY <1>2 DEF StackTypes
<1> HIDE DEF From
<1>7. NoneTwice'
  BY <1>4, <1>5 DEF NoneTwice
<1>8. Range(stack') \subseteq Range(stack) \ {stack[it]}
  <2>1. ASSUME NEW n \in DOMAIN stack' PROVE stack'[n] \in Range(stack) \ {stack[it]}
    <3>1. stack'[n] \in Range(stack)
      BY <1>4 DEF Range
    <3>2. stack'[n] # stack[it]
      BY <1>1, <1>4 DEF NoneTwice
    <3> QED BY <3>1, <3>2
  <2> QED BY <2>1 DEF Range
<1>9. \A n \in 1 .. it - 1 : stack'[n] = stack[n]
  BY <1>1, <1>2
<1> QED BY <1>2, <1>6, <1>7, <1>8, <1>9

(* A block that takes an entry that was nowhere else. *)
LEMMA Placing ==
  ASSUME CallTypes, PlacedDeepest, DroppedOnlyIfFull, StackTypes, NEW e \in Entries, NEW h \in Heights,
         e \in Range(stack), is_not_full(h), add_to_block(e, h),
         h \in CoveringHeights(e), \A other \in CoveringHeights(e) : h <= other,
         UNCHANGED <<tree_level, entry_path, path>>, Range(stack') \subseteq Range(stack) \ {e}
  PROVE  CallTypes' /\ PlacedDeepest' /\ DroppedOnlyIfFull'
<1>1. Heights' = Heights /\ \A x : CoveringHeights(x)' = CoveringHeights(x)
  BY SameCovers
<1>2. /\ block' = [block EXCEPT ![h] = @ \cup {e}]
      /\ entries_num' = [entries_num EXCEPT ![h] = @ + 1]
      /\ refused' = refused
  BY DEF add_to_block
<1>3. /\ block \in [Heights -> SUBSET Entries] /\ entries_num \in [Heights -> Int]
      /\ \A g \in Heights : IsFiniteSet(block[g])
      /\ MaxEntries \in Nat
  BY StackAssumption DEF CallTypes
<1>4. /\ DOMAIN block' = Heights /\ DOMAIN block = Heights
      /\ block'[h] = block[h] \cup {e} /\ entries_num'[h] = entries_num[h] + 1
      /\ \A g \in Heights : g # h => block'[g] = block[g] /\ entries_num'[g] = entries_num[g]
      /\ entries_num' \in [Heights -> Int] /\ block' \in [Heights -> SUBSET Entries]
  BY <1>2, <1>3
<1>5. e \notin block[h] /\ e \notin refused
  BY <1>4 DEF DroppedOnlyIfFull, Placed
<1>6. IsFiniteSet(block'[h]) /\ Cardinality(block'[h]) = Cardinality(block[h]) + 1
        /\ Cardinality(block[h]) \in Nat
  BY <1>3, <1>4, <1>5, FS_AddElement, FS_CardinalityType
<1>7. CallTypes'
  <2>1. \A g \in Heights : IsFiniteSet(block'[g])
    BY <1>3, <1>4, <1>6
  <2> QED BY <1>1, <1>2, <1>4, <2>1 DEF CallTypes
<1>8. PlacedDeepest'
  <2>1. ASSUME NEW g \in Heights, NEW x \in block'[g]
        PROVE  g \in CoveringHeights(x) /\ \A other \in CoveringHeights(x) : g <= other
    <3>1. CASE g = h /\ x = e
      BY <3>1
    <3>2. CASE ~(g = h /\ x = e)
      <4>1. x \in block[g]
        BY <1>4, <2>1, <3>2
      <4> QED BY <1>4, <4>1 DEF PlacedDeepest
    <3> QED BY <3>1, <3>2
  <2> QED BY <1>1, <1>4, <2>1 DEF PlacedDeepest
<1>9. DroppedOnlyIfFull'
  <2>1. ASSUME NEW x \in refused
        PROVE  \E g \in CoveringHeights(x) :
                 (\A other \in CoveringHeights(x) : g <= other) /\ entries_num'[g] >= MaxEntries
    <3>1. PICK g \in CoveringHeights(x) :
            (\A other \in CoveringHeights(x) : g <= other) /\ entries_num[g] >= MaxEntries
      BY DEF DroppedOnlyIfFull
    <3>2. g \in Heights
      BY DEF CoveringHeights
    <3>3. entries_num'[g] >= entries_num[g] /\ entries_num'[g] \in Int /\ entries_num[g] \in Int
      <4>1. entries_num[g] \in Int /\ entries_num[h] \in Int
        BY <1>3, <3>2
      <4>2. CASE g = h
        BY <1>4, <4>1, <4>2
      <4>3. CASE g # h
        BY <1>4, <3>2, <4>1, <4>3
      <4> QED BY <4>2, <4>3
    <3>4. entries_num'[g] >= MaxEntries
      BY <1>3, <3>1, <3>3
    <3> QED BY <3>1, <3>4
  <2>2. ASSUME NEW g \in Heights
        PROVE  /\ entries_num'[g] - Cardinality(block'[g]) \in StartCounts
               /\ block'[g] # {} => entries_num'[g] <= MaxEntries
    <3>1. CASE g # h
      BY <1>4, <3>1 DEF DroppedOnlyIfFull
    <3>2. CASE g = h
      <4> DEFINE c == Cardinality(block[h])
                 d == Cardinality(block'[h])
      <4>1. entries_num[h] - c \in StartCounts
        BY <1>4 DEF DroppedOnlyIfFull
      <4>2. entries_num[h] \in Int /\ c \in Nat /\ d = c + 1 /\ entries_num[h] < MaxEntries
        BY <1>3, <1>6 DEF is_not_full
      <4> HIDE DEF c, d
      <4>3. (entries_num[h] + 1) - d = entries_num[h] - c /\ entries_num[h] + 1 <= MaxEntries
        BY <1>3, <4>2
      <4>4. entries_num'[h] - d \in StartCounts /\ entries_num'[h] <= MaxEntries
        BY <1>4, <4>1, <4>3
      <4> QED BY <3>2, <4>4 DEF d
    <3> QED BY <3>1, <3>2
  <2>3. Placed' \subseteq Placed \cup {e}
    <3>1. ASSUME NEW g \in Heights, NEW x \in block'[g] PROVE x \in Placed \cup {e}
      BY <1>4, <3>1 DEF Placed
    <3> QED BY <1>4, <3>1 DEF Placed
  <2>4. refused \cap Placed = {} /\ (refused \cup Placed) \cap Range(stack) = {}
    BY DEF DroppedOnlyIfFull
  <2>5. refused' \cap Placed' = {} /\ (refused' \cup Placed') \cap Range(stack') = {}
    BY <1>2, <1>5, <2>3, <2>4
  <2>6. \A x \in refused' : \E g \in CoveringHeights(x)' :
          (\A other \in CoveringHeights(x)' : g <= other) /\ entries_num'[g] >= MaxEntries
    BY <1>1, <1>2, <2>1
  <2>7. Range(stack)' = Range(stack')
    BY DEF Range
  <2> QED BY <1>4, <2>2, <2>5, <2>6, <2>7 DEF DroppedOnlyIfFull
<1> QED BY <1>7, <1>8, <1>9

(* A full block that lets an entry go. *)
LEMMA Refusing ==
  ASSUME CallTypes, PlacedDeepest, DroppedOnlyIfFull, NEW e \in Entries, NEW h \in Heights,
         e \in Range(stack), ~is_not_full(h), add_to_block(e, h),
         h \in CoveringHeights(e), \A other \in CoveringHeights(e) : h <= other,
         UNCHANGED <<tree_level, entry_path, path>>, Range(stack') \subseteq Range(stack) \ {e}
  PROVE  CallTypes' /\ PlacedDeepest' /\ DroppedOnlyIfFull'
<1>1. Heights' = Heights /\ \A x : CoveringHeights(x)' = CoveringHeights(x)
  BY SameCovers
<1>2. refused' = refused \cup {e} /\ block' = block /\ entries_num' = entries_num
  BY DEF add_to_block
<1>3. CallTypes'
  BY <1>1, <1>2 DEF CallTypes
<1>4. PlacedDeepest'
  BY <1>1, <1>2 DEF PlacedDeepest
<1>5. entries_num[h] >= MaxEntries
  <2>1. entries_num[h] \in Int /\ MaxEntries \in Nat
    BY StackAssumption DEF CallTypes
  <2> QED BY <2>1 DEF is_not_full
<1>6. DroppedOnlyIfFull'
  <2>1. ASSUME NEW x \in refused'
        PROVE  \E g \in CoveringHeights(x) :
                 (\A other \in CoveringHeights(x) : g <= other) /\ entries_num[g] >= MaxEntries
    <3>1. CASE x = e
      BY <1>5, <3>1
    <3>2. CASE x # e
      BY <1>2, <3>2 DEF DroppedOnlyIfFull
    <3> QED BY <3>1, <3>2
  <2>2. Placed' = Placed /\ e \notin Placed
    BY <1>2 DEF Placed, DroppedOnlyIfFull
  <2>3. refused' \cap Placed' = {} /\ (refused' \cup Placed') \cap Range(stack') = {}
    <3>1. refused \cap Placed = {} /\ (refused \cup Placed) \cap Range(stack) = {}
      BY DEF DroppedOnlyIfFull
    <3> QED BY <1>2, <2>2, <3>1
  <2>4. \A x \in refused' : \E g \in CoveringHeights(x)' :
          (\A other \in CoveringHeights(x)' : g <= other) /\ entries_num'[g] >= MaxEntries
    BY <1>1, <1>2, <2>1
  <2>5. \A g \in DOMAIN block' :
          /\ entries_num'[g] - Cardinality(block'[g]) \in StartCounts
          /\ block'[g] # {} => entries_num'[g] <= MaxEntries
    BY <1>2 DEF DroppedOnlyIfFull
  <2>6. Range(stack)' = Range(stack')
    BY DEF Range
  <2> QED BY <2>3, <2>4, <2>5, <2>6 DEF DroppedOnlyIfFull
<1> QED BY <1>3, <1>4, <1>6

(* The entry at the iterator, when there is one. *)
LEMMA AtIterator ==
  ASSUME StackInv, EvictEntry
  PROVE  /\ it \in 1 .. Len(stack) /\ Len(stack) \in Nat
         /\ stack[it] \in Entries /\ stack[it] \in Range(stack)
         /\ CallTypes /\ GoneThrough /\ StackTypes
         /\ pc = "evict" /\ pc' = "evict"
         /\ UNCHANGED <<tree_level, entry_path, path>>
<1>1. StackTypes /\ it <= Len(stack) /\ stack[it] # Nowhere /\ pc = "evict"
  BY DEF StackInv, EvictEntry
<1>2. stack \in Seq(Entries \cup {Nowhere}) /\ it \in 1 .. Len(stack) /\ Len(stack) \in Nat
  BY <1>1 DEF StackTypes
<1>3. stack[it] \in Entries /\ stack[it] \in Range(stack)
  <2>1. DOMAIN stack = 1 .. Len(stack) /\ stack[it] \in Entries \cup {Nowhere}
    BY <1>2
  <2> QED BY <1>1, <1>2, <2>1 DEF Range
<1> QED BY <1>1, <1>2, <1>3 DEF StackInv, EvictEntry

LEMMA EraseEntryInv ==
  ASSUME StackInv, EvictEntry, EraseEntry(stack[it])
  PROVE  StackInv'
<1> DEFINE e == stack[it]
<1>1. /\ it \in 1 .. Len(stack) /\ Len(stack) \in Nat
      /\ e \in Entries /\ e \in Range(stack)
      /\ CallTypes /\ GoneThrough /\ StackTypes
      /\ pc = "evict" /\ pc' = "evict"
      /\ UNCHANGED <<tree_level, entry_path, path>>
  BY AtIterator
<1>2. NoneTwice /\ PlacedDeepest /\ DroppedOnlyIfFull
  BY DEF StackInv
<1>3. stack' = RemoveAt(stack, it) /\ it' = it
  BY DEF EraseEntry
<1>4. /\ StackTypes' /\ NoneTwice'
      /\ Range(stack') \subseteq Range(stack) \ {e}
      /\ Len(stack') = Len(stack) - 1
      /\ \A n \in 1 .. it - 1 : stack'[n] = stack[n]
  BY <1>1, <1>2, <1>3, Erased
<1>5. PICK h \in Fits(e) : (\A other \in Fits(e) : h <= other) /\ add_to_block(e, h)
  BY DEF EraseEntry
<1>6. h \in Heights /\ h \in CoveringHeights(e) /\ \A other \in CoveringHeights(e) : h <= other
  <2>1. h \in CoveringHeights(e) /\ \A other \in CoveringHeights(e) : h <= other
    BY <1>1, <1>5, FirstFit DEF CallTypes
  <2> QED BY <2>1 DEF CoveringHeights
<1> HIDE DEF e
<1>7. CallTypes' /\ PlacedDeepest' /\ DroppedOnlyIfFull'
  <2>1. CASE is_not_full(h)
    BY <1>1, <1>2, <1>4, <1>5, <1>6, <2>1, Placing
  <2>2. CASE ~is_not_full(h)
    BY <1>1, <1>2, <1>4, <1>5, <1>6, <2>2, Refusing
  <2> QED BY <2>1, <2>2
<1>8. GoneThrough'
  <2>1. \A x : CoveringHeights(x)' = CoveringHeights(x)
    BY <1>1, SameCovers
  <2>2. it' <= Len(stack') + 1
    BY <1>1, <1>3, <1>4
  <2>3. \A n \in 1 .. it' - 1 : stack'[n] = stack[n] /\ stack[n] \in Entries /\ CoveringHeights(stack[n]) = {}
    BY <1>1, <1>3, <1>4 DEF GoneThrough
  <2>4. \A n \in 1 .. it' - 1 : stack'[n] \in Entries /\ CoveringHeights(stack[n])' = {}
    BY <2>1, <2>3
  <2> QED BY <2>2, <2>4 DEF GoneThrough
<1> QED BY <1>1, <1>4, <1>7, <1>8 DEF StackInv

LEMMA KeepEntryInv ==
  ASSUME StackInv, EvictEntry, KeepEntry(stack[it])
  PROVE  StackInv'
<1> DEFINE e == stack[it]
<1>1. /\ it \in 1 .. Len(stack) /\ Len(stack) \in Nat /\ e \in Entries
      /\ CallTypes /\ GoneThrough /\ StackTypes
      /\ pc = "evict" /\ pc' = "evict"
      /\ UNCHANGED <<tree_level, entry_path, path>>
  BY AtIterator
<1>2. Fits(e) = {} /\ it' = it + 1 /\ UNCHANGED <<stack, block, entries_num, refused>>
  BY DEF KeepEntry
<1>3. CoveringHeights(e) = {}
  BY <1>1, <1>2, FirstFit DEF CallTypes
<1>4. Heights' = Heights /\ \A x : CoveringHeights(x)' = CoveringHeights(x)
  BY <1>1, SameCovers
<1>5. StackTypes' /\ NoneTwice'
  BY <1>1, <1>2 DEF StackInv, StackTypes, NoneTwice
<1>6. CallTypes'
  BY <1>1, <1>2, <1>4 DEF CallTypes
<1>7. GoneThrough'
  <2>1. it' <= Len(stack') + 1
    BY <1>1, <1>2
  <2>2. \A n \in 1 .. it' - 1 : stack[n] \in Entries /\ CoveringHeights(stack[n]) = {}
    <3>1. \A n \in 1 .. it' - 1 : n \in 1 .. it - 1 \/ n = it
      BY <1>1, <1>2
    <3> QED BY <1>1, <1>3, <3>1 DEF GoneThrough
  <2>3. \A n \in 1 .. it' - 1 : stack'[n] \in Entries /\ CoveringHeights(stack[n])' = {}
    BY <1>2, <1>4, <2>2
  <2> QED BY <2>1, <2>3 DEF GoneThrough
<1>8. PlacedDeepest'
  BY <1>2, <1>4 DEF StackInv, PlacedDeepest
<1>9. DroppedOnlyIfFull'
  <2>1. \A x \in refused' : \E h \in CoveringHeights(x)' :
          (\A other \in CoveringHeights(x)' : h <= other) /\ entries_num'[h] >= MaxEntries
    BY <1>2, <1>4 DEF StackInv, DroppedOnlyIfFull
  <2> QED BY <1>2, <2>1 DEF StackInv, DroppedOnlyIfFull, Placed, Range
<1> QED BY <1>1, <1>5, <1>6, <1>7, <1>8, <1>9 DEF StackInv

(* A step that leaves everything but the place in the code. *)
LEMMA LeavesInv ==
  ASSUME StackInv, UNCHANGED <<stack, tree_level, entry_path, path, it, block, entries_num, refused>>
  PROVE  /\ StackTypes' /\ NoneTwice' /\ PlacedDeepest' /\ DroppedOnlyIfFull'
         /\ CallTypes => CallTypes'
         /\ GoneThrough => GoneThrough'
<1>1. Heights' = Heights /\ \A x : CoveringHeights(x)' = CoveringHeights(x)
  BY SameCovers
<1>2. StackTypes' /\ NoneTwice'
  BY DEF StackInv, StackTypes, NoneTwice
<1>3. PlacedDeepest'
  BY <1>1 DEF StackInv, PlacedDeepest
<1>4. DroppedOnlyIfFull'
  <2>1. \A x \in refused' : \E h \in CoveringHeights(x)' :
          (\A other \in CoveringHeights(x)' : h <= other) /\ entries_num'[h] >= MaxEntries
    BY <1>1 DEF StackInv, DroppedOnlyIfFull
  <2> QED BY <2>1 DEF StackInv, DroppedOnlyIfFull, Placed, Range
<1>5. CallTypes => CallTypes'
  BY <1>1 DEF CallTypes
<1>6. GoneThrough => GoneThrough'
  <2> SUFFICES ASSUME GoneThrough PROVE GoneThrough'
    OBVIOUS
  <2>1. \A n \in 1 .. it' - 1 : stack'[n] \in Entries /\ CoveringHeights(stack[n])' = {}
    BY <1>1 DEF GoneThrough
  <2> QED BY <2>1 DEF GoneThrough
<1> QED BY <1>2, <1>3, <1>4, <1>5, <1>6

LEMMA NoPathInv == ASSUME StackInv, NoPath PROVE StackInv'
BY LeavesInv DEF StackInv, NoPath

LEMMA ReturnInv == ASSUME StackInv, Return PROVE StackInv'
BY LeavesInv DEF StackInv, Return

LEMMA StutterInv == ASSUME StackInv, UNCHANGED vars PROVE StackInv'
BY LeavesInv DEF StackInv, vars

LEMMA ContinueInv == ASSUME StackInv, Continue PROVE StackInv'
<1>1. StackTypes' /\ NoneTwice'
  BY DEF StackInv, StackTypes, NoneTwice, Continue
<1> QED BY <1>1, IdleInv DEF Continue

LEMMA NextInv == StackInv /\ [Next]_vars => StackInv'
<1> SUFFICES ASSUME StackInv, [Next]_vars PROVE StackInv'
  OBVIOUS
<1>1. CASE \E e \in Entries : add_entry(e)
  BY <1>1, AddEntryInv
<1>2. CASE read_entries
  BY <1>2, ReadEntriesInv
<1>3. CASE \E to \in Leaves(LEVEL) : write_back_entries(to)
  BY <1>3, WriteBackInv
<1>4. CASE EvictEntry
  <2>1. EraseEntry(stack[it]) \/ KeepEntry(stack[it])
    BY <1>4 DEF EvictEntry
  <2> QED BY <1>4, <2>1, EraseEntryInv, KeepEntryInv
<1>5. CASE NoPath
  BY <1>5, NoPathInv
<1>6. CASE Return
  BY <1>6, ReturnInv
<1>7. CASE Continue
  BY <1>7, ContinueInv
<1>8. CASE UNCHANGED vars
  BY <1>8, StutterInv
<1> QED BY <1>1, <1>2, <1>3, <1>4, <1>5, <1>6, <1>7, <1>8 DEF Next

LEMMA StackInvariant == Spec => []StackInv
<1> QED BY InitInv, NextInv, PTL DEF Spec

-----------------------------------------------------------------------------
(***************************************************************************)
(*                           The theorems                                  *)
(***************************************************************************)

(* write_back_entries puts an entry into the deepest block that its path   *)
(* and the written one share, for a tree of any size and any tree_level:   *)
(* walking up from the entry's leaf finds the same blocks as comparing     *)
(* ranges of leaves.                                                       *)
THEOREM DeepestCorrect == Spec => []PlacedDeepest
<1>1. StackInv => PlacedDeepest
  BY DEF StackInv
<1> QED BY <1>1, StackInvariant, PTL

(* The loop that erases from the vector it goes through leaves out no      *)
(* entry: what write_back_entries leaves has no block on the path.         *)
THEOREM LeftCorrect == Spec => []LeftOnlyIfNoBlock
<1>1. StackInv => LeftOnlyIfNoBlock
  <2> SUFFICES ASSUME StackInv, pc = "returned", NEW n \in DOMAIN stack
               PROVE  CoveringHeights(stack[n]) = {}
    BY DEF LeftOnlyIfNoBlock
  <2>1. GoneThrough /\ it > Len(stack) /\ StackTypes
    BY DEF StackInv
  <2>2. n \in 1 .. it - 1
    BY <2>1 DEF StackTypes
  <2> QED BY <2>1, <2>2 DEF GoneThrough
<1> QED BY <1>1, StackInvariant, PTL

(* The add_entry of a block refuses only when the count of the block has   *)
(* reached the limit, the count goes along with the block from whatever it *)
(* started at, and an entry is in one place only.                          *)
THEOREM DroppedCorrect == Spec => []DroppedOnlyIfFull
<1>1. StackInv => DroppedOnlyIfFull
  BY DEF StackInv
<1> QED BY <1>1, StackInvariant, PTL
=============================================================================
