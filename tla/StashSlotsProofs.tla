-------------------------- MODULE StashSlotsProofs --------------------------
(***************************************************************************)
(* Proofs about StashSlots, for stashes and trees of any size, any number  *)
(* of keys and an int of any width.                                        *)
(*                                                                         *)
(* What rand() does: -ret leaves the least int negative, which takes the   *)
(* shuffle out of its array and no leaf out of the tree.                   *)
(*                                                                         *)
(* What the array does: an entry is in one place at a time, in one slot of *)
(* the array, on the path or in the file, and has all the values that were *)
(* written to its group.  So the filled slots count the stash, get_entry   *)
(* finds the latest state of an entry, and a step on the slots is a step   *)
(* of Oram on the set.                                                     *)
(***************************************************************************)
EXTENDS StashSlots, FiniteSetTheorems, SequenceTheorems, WellFoundedInduction, TLAPS

Drawn == O!Leaves(tree_level)

LEMMA RandRange == ASSUME NEW r \in Rand PROVE r = LEAST \/ r \in Nat
BY DEF Rand

LEMMA LeafDrawn == ASSUME NEW r \in Rand PROVE new_flag(r) \in Drawn
<1> DEFINE p == 2^(LEVELMAX - 1)
           q == 2^(INTBITS - 1)
<1>1. p \in Nat \ {0} /\ 2^LEVELMAX = 2 * p /\ q \in Nat \ {0} /\ q % p = 0
  BY SlotsAssumption
<1>2. Remainder(r, p) \in 0 .. p - 1
  <2>1. CASE r \in Nat
    <3> HIDE DEF p
    <3> QED BY <1>1, <2>1 DEF Remainder
  <2>2. CASE r = LEAST
    <3>1. LEAST = -q
      BY DEF LEAST
    <3>2. r < 0 /\ -r = q
      <4> HIDE DEF p, q
      <4> QED BY <1>1, <2>2, <3>1
    <3>3. Remainder(r, p) = -0
      <4> HIDE DEF p, q
      <4> QED BY <1>1, <3>2 DEF Remainder
    <3> HIDE DEF p
    <3> QED BY <1>1, <3>3
  <2> QED BY <2>1, <2>2, RandRange
<1>3. new_flag(r) = Remainder(r, p) + p + 1
  BY DEF new_flag, tree_level
<1>4. Drawn = p + 1 .. 2 * p
  BY <1>1 DEF Drawn, O!Leaves, tree_level
<1> HIDE DEF p
<1> QED BY <1>1, <1>2, <1>3, <1>4

(* Any other draw gives a slot. *)
LEMMA SlotDrawn ==
  ASSUME NEW r \in Nat, NEW n \in 0 .. Last - 1
  PROVE  new_idx(r, n) \in Slots
<1>1. STASHMAXSIZE \in Nat /\ n \in Nat /\ STASHMAXSIZE - n \in Nat \ {0}
  BY SlotsAssumption DEF Last
<1>2. r % (STASHMAXSIZE - n) \in 0 .. STASHMAXSIZE - n - 1
  BY <1>1
<1>3. new_idx(r, n) = (r % (STASHMAXSIZE - n)) + n
  BY DEF new_idx, Remainder
<1> QED BY <1>1, <1>2, <1>3 DEF Slots

DrawInv ==
  /\ flag \in Drawn
  /\ bitmap \in [Keys -> Seq(Drawn)]
  /\ StrayOnlyForLeast

LEMMA InitDraw == ASSUME Init PROVE DrawInv
<1>1. flag \in Drawn
  <2> DEFINE p == 2^(LEVELMAX - 1)
  <2>1. p \in Nat \ {0} /\ flag = 2 * p /\ Drawn = p + 1 .. 2 * p
    BY SlotsAssumption DEF Init, Drawn, O!Leaves, tree_level
  <2> HIDE DEF p
  <2> QED BY <2>1
<1>2. bitmap \in [Keys -> Seq(Drawn)]
  BY DEF Init
<1> QED BY <1>1, <1>2 DEF Init, DrawInv, StrayOnlyForLeast

LEMMA DrawShuffle ==
  ASSUME DrawInv, NEW array, Shuffle(array), bitmap' \in [Keys -> Seq(Drawn)] PROVE DrawInv'
<1>1. UNCHANGED flag /\ pc' \in {"stray", "evict"}
  BY DEF Shuffle
<1>2. ASSUME pc' = "stray" PROVE \E n \in DOMAIN draws' : draws'[n] = LEAST
  <2>1. PICK rs \in [0 .. Last - 1 -> Rand] :
          draws' = rs /\ \E n \in DOMAIN rs : new_idx(rs[n], n) \notin Slots
    BY <1>2 DEF Shuffle
  <2>2. PICK n \in 0 .. Last - 1 : new_idx(rs[n], n) \notin Slots
    BY <2>1
  <2>3. rs[n] = LEAST
    BY <2>1, <2>2, RandRange, SlotDrawn
  <2> QED BY <2>1, <2>3
<1> QED BY <1>1, <1>2 DEF DrawInv, StrayOnlyForLeast, Drawn

LEMMA RemapDraw == ASSUME DrawInv, Remap PROVE bitmap' \in [Keys -> Seq(Drawn)]
<1>1. PICK r \in Rand : bitmap' = [bitmap EXCEPT ![op.key][group] = new_flag(r)]
  BY DEF Remap
<1>2. new_flag(r) \in Drawn
  BY LeafDrawn
<1>3. ASSUME NEW q \in Seq(Drawn) PROVE [q EXCEPT ![group] = new_flag(r)] \in Seq(Drawn)
  <2>1. Len(q) \in Nat /\ q \in [1 .. Len(q) -> Drawn]
    OBVIOUS
  <2>2. [q EXCEPT ![group] = new_flag(r)] \in [1 .. Len(q) -> Drawn]
    BY <1>2, <2>1
  <2> QED BY <2>1, <2>2
<1> QED BY <1>1, <1>3 DEF DrawInv

LEMMA NextDraw == ASSUME DrawInv, [Next]_vars PROVE DrawInv'
<1>1. ASSUME NEW leaf \in Drawn, ReadPath(leaf), bitmap' \in [Keys -> Seq(Drawn)]
      PROVE  DrawInv'
  BY <1>1 DEF ReadPath, DrawInv, StrayOnlyForLeast, Drawn
<1>2. ASSUME NEW c \in O!Op, NEW g \in DOMAIN bitmap[c.key], StartAccess(c, g) PROVE DrawInv'
  <2>1. c.key \in Keys
    BY DEF O!Op
  <2>2. bitmap[c.key][g] \in Drawn
    BY <2>1 DEF DrawInv
  <2> QED BY <1>1, <1>2, <2>2 DEF StartAccess, DrawInv
<1>3. ASSUME NEW k \in Keys, NEW v \in Vals, AddEntry(k, v) PROVE DrawInv'
  <2>1. PICK r \in Rand :
          bitmap' = [bitmap EXCEPT ![k] = Append(bitmap[k], new_flag(r))] /\ ReadPath(new_flag(r))
    BY <1>3 DEF AddEntry
  <2>2. new_flag(r) \in Drawn /\ bitmap[k] \in Seq(Drawn)
    BY LeafDrawn DEF DrawInv
  <2>3. bitmap' \in [Keys -> Seq(Drawn)]
    BY <2>1, <2>2 DEF DrawInv
  <2> QED BY <1>1, <2>1, <2>2, <2>3
<1>4. CASE ReadEntry \/ AppendVal
  <2>1. Remap /\ \E array : Shuffle(array)
    BY <1>4 DEF ReadEntry, AppendVal
  <2> QED BY <2>1, DrawShuffle, RemapDraw
<1>5. CASE LeaveEntry
  <2>1. Shuffle(Array) /\ bitmap' \in [Keys -> Seq(Drawn)]
    BY <1>5 DEF LeaveEntry, DrawInv
  <2> QED BY <2>1, DrawShuffle
<1>6. CASE LoadEntry \/ MissingEntry \/ SkipSlot \/ EvictSlot \/ EndAccess \/ UNCHANGED vars
  <2>1. UNCHANGED <<flag, bitmap, draws>> /\ (pc' = "stray" => pc = "stray")
    BY <1>6 DEF LoadEntry, MissingEntry, SkipSlot, EvictSlot, EndAccess, evictUnchanged, vars
  <2> QED BY <2>1 DEF DrawInv, StrayOnlyForLeast, Drawn
<1>7. ASSUME NEW k \in JustKeys, JustAddBitmap(k) PROVE DrawInv'
  <2>1. PICK r \in Rand : bitmap' = [bitmap EXCEPT ![k] = Append(bitmap[k], new_flag(r))]
    BY <1>7 DEF JustAddBitmap
  <2>2. k \in Keys /\ new_flag(r) \in Drawn
    BY SlotsAssumption, LeafDrawn
  <2>3. bitmap' \in [Keys -> Seq(Drawn)]
    BY <2>1, <2>2 DEF DrawInv
  <2> QED BY <1>7, <2>3 DEF JustAddBitmap, DrawInv, StrayOnlyForLeast, Drawn
<1> QED BY <1>2, <1>3, <1>4, <1>5, <1>6, <1>7 DEF Next

(* The shuffle leaves its array only if rand() returned the least int.      *)
THEOREM StrayCorrect == Spec => []StrayOnlyForLeast
<1>1. DrawInv => StrayOnlyForLeast
  BY DEF DrawInv
<1> QED BY InitDraw, NextDraw, <1>1, PTL DEF Spec

(* Every leaf that is drawn is a leaf of the tree, for the least int too.   *)
THEOREM DrawnCorrect == Spec => []LeavesDrawn
<1>1. DrawInv => LeavesDrawn
  BY DEF DrawInv, LeavesDrawn, Drawn
<1> QED BY InitDraw, NextDraw, <1>1, PTL DEF Spec

-----------------------------------------------------------------------------
(***************************************************************************)
(*                               The array                                 *)
(***************************************************************************)
Entries == O!Entry

Contents(array) == {array.entry[s] : s \in {n \in Slots : array.filled[n]}}

(* A filled slot holds an entry, and no entry is in two of them. *)
Arranged(array) ==
  /\ array.entry \in [Slots -> Entries \cup {None}]
  /\ array.filled \in [Slots -> BOOLEAN]
  /\ \A s \in Slots : array.filled[s] => array.entry[s] \in Entries
  /\ \A s, t \in Slots :
       array.filled[s] /\ array.filled[t] /\ array.entry[s] = array.entry[t] => s = t

LEMMA StashIsContents == Contents(Array) = Stash
BY DEF Contents, Array, Stash

LEMMA KeyOfEntry ==
  ASSUME NEW e \in Entries
  PROVE  /\ e.key \in Keys /\ e.group \in Nat \ {0} /\ e.vals \in Seq(Vals) /\ e # None
         /\ e = [key |-> e.key, group |-> e.group, vals |-> e.vals]
BY NoneAssumption DEF Entries, O!Entry

LEMMA SlotRange == Last \in Nat /\ Last \in Slots /\ Slots = 0 .. Last /\ STASHMAXSIZE = Last + 1
BY SlotsAssumption DEF Last, Slots

Filled(array) == {s \in Slots : array.filled[s]}

(* The stash has as many entries as there are slots filled. *)
LEMMA StashCounts ==
  ASSUME NEW array, Arranged(array)
  PROVE  /\ IsFiniteSet(Filled(array)) /\ Cardinality(Filled(array)) \in Nat
         /\ Cardinality(Contents(array)) = Cardinality(Filled(array))
<1>1. IsFiniteSet(Slots)
  BY SlotRange, FS_Interval
<1>2. IsFiniteSet(Filled(array)) /\ Cardinality(Filled(array)) \in Nat
  BY <1>1, FS_Subset, FS_CardinalityType DEF Filled
<1> DEFINE f == [s \in Filled(array) |-> array.entry[s]]
<1>3. f \in Bijection(Filled(array), Contents(array))
  <2>1. f \in [Filled(array) -> Contents(array)]
    BY DEF Filled, Contents
  <2>2. \A s, t \in Filled(array) : f[s] = f[t] => s = t
    BY DEF Arranged, Filled
  <2>3. \A e \in Contents(array) : \E s \in Filled(array) : f[s] = e
    BY DEF Filled, Contents
  <2> HIDE DEF f
  <2> QED BY <2>1, <2>2, <2>3, Zenon DEF Bijection, Injection, Surjection, IsInjective
<1>4. ExistsBijection(Filled(array), Contents(array))
  BY <1>3 DEF ExistsBijection
<1> QED BY <1>2, <1>4, FS_Bijection

AllButLast(array) == \A n \in 0 .. Last - 1 : array.filled[n]

(* How many entries there are tells which slots are left. *)
LEMMA SlotsLeft ==
  ASSUME NEW array, Arranged(array)
  PROVE  LET c == Cardinality(Contents(array))
         IN  /\ array.filled[Last] => (c >= STASHMAXSIZE <=> AllButLast(array))
             /\ ~array.filled[Last] => /\ c >= STASHMAXSIZE - 1 <=> AllButLast(array)
                                       /\ c < STASHMAXSIZE
<1>1. /\ IsFiniteSet(Filled(array)) /\ Cardinality(Filled(array)) \in Nat
      /\ Cardinality(Contents(array)) = Cardinality(Filled(array))
  BY StashCounts
<1>2. IsFiniteSet(Slots) /\ Cardinality(Slots) = STASHMAXSIZE
  BY SlotRange, FS_Interval
<1> DEFINE Front == 0 .. Last - 1
<1>3. IsFiniteSet(Front) /\ Cardinality(Front) = STASHMAXSIZE - 1
  <2>1. Last \in Nat /\ Last - 1 \in Int /\ 0 \in Int
    BY SlotRange
  <2>2. /\ IsFiniteSet(Front)
        /\ Cardinality(Front) = IF 0 > Last - 1 THEN 0 ELSE Last - 1 - 0 + 1
    BY <2>1, FS_Interval
  <2> HIDE DEF Front
  <2> QED BY <2>1, <2>2, SlotRange
<1>4. Slots = Front \cup {Last} /\ Last \notin Front
  BY SlotRange
<1>5. AllButLast(array) <=> Front \subseteq Filled(array)
  BY <1>4 DEF AllButLast, Filled
<1>6. CASE array.filled[Last]
  <2>1. AllButLast(array) <=> Filled(array) = Slots
    BY <1>4, <1>5, <1>6 DEF Filled
  <2>2. Filled(array) \in SUBSET Slots
    BY DEF Filled
  <2>3. /\ Cardinality(Filled(array)) <= STASHMAXSIZE
        /\ Cardinality(Filled(array)) = STASHMAXSIZE => Filled(array) = Slots
    BY <1>2, <2>2, FS_Subset
  <2>4. Cardinality(Contents(array)) >= STASHMAXSIZE <=> AllButLast(array)
    BY <1>1, <1>2, <2>1, <2>3, SlotRange
  <2> QED BY <1>6, <2>4
<1>7. CASE ~array.filled[Last]
  <2>1. Filled(array) \in SUBSET Front
    BY <1>4, <1>7 DEF Filled
  <2>2. AllButLast(array) <=> Filled(array) = Front
    BY <1>5, <2>1
  <2>3. Cardinality(Filled(array)) <= STASHMAXSIZE - 1
    BY <1>3, <2>1, FS_Subset
  <2>4. Cardinality(Filled(array)) = STASHMAXSIZE - 1 => Filled(array) = Front
    BY <1>3, <2>1, FS_Subset
  <2> HIDE DEF Front
  <2>5. Cardinality(Contents(array)) >= STASHMAXSIZE - 1 <=> AllButLast(array)
    BY <1>1, <1>3, <2>2, <2>3, <2>4, SlotRange
  <2>6. Cardinality(Contents(array)) < STASHMAXSIZE
    BY <1>1, <2>3, SlotRange
  <2> QED BY <1>7, <2>5, <2>6
<1> QED BY <1>6, <1>7

LEMMA SameCardinality == ASSUME NEW S PROVE O!Cardinality(S) = Cardinality(S)
BY Zenon DEF O!Cardinality, Cardinality

(* The last slot is taken when it is free or not, as soon as no other is;   *)
(* that is how Oram tells it from the size of the stash.                    *)
LEMMA LastSlot ==
  ASSUME Arranged(Array)
  PROVE  /\ O!LastSlotReached <=> AllButLast(Array)
         /\ O!OnlyTailFree <=> AllButLast(Array) /\ ~entries_filled[Last]
         /\ entries_filled[Last] <=> LastEntry # None
<1>1. entries_filled[Last] <=> LastEntry # None
  BY SlotRange, KeyOfEntry DEF Arranged, Array, LastEntry
<1>2. Cardinality(Stash) \in Nat
  BY StashCounts, StashIsContents
<1>3. CASE entries_filled[Last]
  <2>1. Cardinality(Stash) >= STASHMAXSIZE <=> AllButLast(Array)
    BY <1>3, SlotsLeft, StashIsContents DEF Array
  <2>2. LastEntry # None
    BY <1>1, <1>3
  <2>3. O!LastSlotReached <=> Cardinality(Stash) >= STASHMAXSIZE
    BY SameCardinality, <2>2 DEF O!LastSlotReached
  <2>4. ~O!OnlyTailFree
    BY <2>2 DEF O!OnlyTailFree
  <2> QED BY <1>1, <1>3, <2>1, <2>3, <2>4
<1>4. CASE ~entries_filled[Last]
  <2> DEFINE c == Cardinality(Contents(Array))
  <2>1. (c >= STASHMAXSIZE - 1 <=> AllButLast(Array)) /\ c < STASHMAXSIZE
    <3>1. ~Array.filled[Last]
      BY <1>4 DEF Array
    <3> QED BY <3>1, SlotsLeft
  <2>2. c = Cardinality(Stash)
    BY StashIsContents
  <2>3. Cardinality(Stash) = STASHMAXSIZE - 1 <=> AllButLast(Array)
    <3> HIDE DEF c
    <3> QED BY <1>2, <2>1, <2>2, SlotRange
  <2>7. Cardinality(Stash) >= STASHMAXSIZE - 1 <=> AllButLast(Array)
    BY <2>1, <2>2
  <2>4. LastEntry = None
    BY <1>1, <1>4
  <2>5. O!LastSlotReached <=> Cardinality(Stash) >= STASHMAXSIZE - 1
    BY SameCardinality, <2>4 DEF O!LastSlotReached
  <2>6. O!OnlyTailFree <=> Cardinality(Stash) = STASHMAXSIZE - 1
    BY SameCardinality, <2>4 DEF O!OnlyTailFree
  <2> QED BY <1>1, <1>4, <2>3, <2>5, <2>6, <2>7
<1> QED BY <1>3, <1>4

(* Any set of numbers has a least element. *)
LEMMA LeastElement ==
  ASSUME NEW T \in SUBSET Nat, T # {}
  PROVE  \E x \in T : \A y \in T : x <= y
<1> DEFINE Below == {1 .. n : n \in T}
           R == StrictSubsetOrdering(Nat)
<1>1. IsWellFoundedOn(R, FiniteSubsetsOf(Nat))
  BY FS_StrictSubsetOrderingWellFounded
<1>2. Below \subseteq FiniteSubsetsOf(Nat)
  <2>1. \A n \in T : IsFiniteSet(1 .. n)
    BY FS_Interval
  <2>2. \A n \in T : 1 .. n \in SUBSET Nat
    OBVIOUS
  <2>3. \A n \in T : 1 .. n \in FiniteSubsetsOf(Nat)
    BY <2>1, <2>2 DEF FiniteSubsetsOf
  <2> QED BY <2>3
<1>3. Below # {}
  OBVIOUS
<1>4. PICK s \in Below : \A t \in Below : <<t, s>> \notin R
  <2> HIDE DEF Below, R
  <2> QED BY <1>1, <1>2, <1>3, WFMin
<1>5. PICK x \in T : s = 1 .. x
  OBVIOUS
<1>6. ASSUME NEW y \in T, y < x PROVE FALSE
  <2>1. x \in 1 .. x /\ x \notin 1 .. y
    BY <1>6
  <2>2. 1 .. y \subseteq 1 .. x /\ 1 .. y # 1 .. x
    BY <1>6, <2>1
  <2>3. <<1 .. y, 1 .. x>> \in R
    BY <2>2 DEF StrictSubsetOrdering
  <2> QED BY <1>4, <1>5, <2>3
<1> QED BY <1>6

-----------------------------------------------------------------------------
(***************************************************************************)
(*                              The shuffle                                *)
(***************************************************************************)
LEMMA SwapArranges ==
  ASSUME NEW array, Arranged(array), NEW a \in Slots, NEW b \in Slots
  PROVE  /\ Arranged(swap_entries(array, a, b))
         /\ Contents(swap_entries(array, a, b)) = Contents(array)
<1>1. CASE ~array.filled[a] /\ ~array.filled[b]
  BY <1>1 DEF swap_entries
<1>2. CASE array.filled[a] \/ array.filled[b]
  <2> DEFINE new == swap_entries(array, a, b)
             Other(s) == IF s = a THEN b ELSE IF s = b THEN a ELSE s
  <2>1. /\ array.entry \in [Slots -> Entries \cup {None}]
        /\ array.filled \in [Slots -> BOOLEAN]
    BY DEF Arranged
  <2>2. /\ new.entry = Swapped(array.entry, a, b)
        /\ new.filled = Swapped(array.filled, a, b)
    BY <1>2 DEF swap_entries
  <2>3. /\ new.entry \in [Slots -> Entries \cup {None}]
        /\ new.filled \in [Slots -> BOOLEAN]
        /\ \A s \in Slots : /\ new.entry[s] = array.entry[Other(s)]
                            /\ new.filled[s] = array.filled[Other(s)]
    <3> HIDE DEF new
    <3> QED BY <2>1, <2>2 DEF Swapped
  <2>4. \A s \in Slots : Other(s) \in Slots /\ Other(Other(s)) = s
    OBVIOUS
  <2>5. \A s, t \in Slots : Other(s) = Other(t) => s = t
    OBVIOUS
  <2> HIDE DEF new, Other
  <2>6. Arranged(new)
    BY <2>3, <2>4, <2>5 DEF Arranged
  <2>7. Contents(new) = Contents(array)
    <3>1. ASSUME NEW s \in Slots, new.filled[s]
          PROVE  \E t \in Slots : array.filled[t] /\ array.entry[t] = new.entry[s]
      BY <2>3, <2>4, <3>1
    <3>2. ASSUME NEW s \in Slots, array.filled[s]
          PROVE  \E t \in Slots : new.filled[t] /\ new.entry[t] = array.entry[s]
      <4>1. Other(s) \in Slots /\ Other(Other(s)) = s
        BY <2>4
      <4> QED BY <2>3, <3>2, <4>1
    <3> QED BY <3>1, <3>2 DEF Contents
  <2> QED BY <2>6, <2>7 DEF new
<1> QED BY <1>1, <1>2

(* One swap after the other, as the loop of the shuffle makes them. *)
Swap(array, rs, n) == swap_entries(array, n, new_idx(rs[n], n))

Swaps(g, array, rs, m) == \A n \in 0 .. m : g[n] = IF n = 0 THEN array ELSE Swap(g[n - 1], rs, n - 1)

LEMMA SwapsExist == ASSUME NEW array, NEW rs, NEW m \in Nat PROVE \E g : Swaps(g, array, rs, m)
<1> DEFINE Bad == {n \in Nat : ~ \E g : Swaps(g, array, rs, n)}
<1>1. SUFFICES ASSUME Bad # {} PROVE FALSE
  OBVIOUS
<1>2. PICK n \in Bad : \A l \in Bad : n <= l
  <2>1. Bad \in SUBSET Nat
    OBVIOUS
  <2> HIDE DEF Bad
  <2> QED BY <1>1, <2>1, LeastElement
<1>3. CASE n = 0
  <2>1. Swaps([l \in 0 .. 0 |-> array], array, rs, 0)
    BY DEF Swaps
  <2> QED BY <1>2, <1>3, <2>1
<1>4. CASE n # 0
  <2>1. n \in Nat /\ n - 1 \in Nat /\ n - 1 \notin Bad
    BY <1>2, <1>4
  <2>2. PICK g : Swaps(g, array, rs, n - 1)
    BY <2>1
  <2> DEFINE h == [l \in 0 .. n |-> IF l = n THEN Swap(g[n - 1], rs, n - 1) ELSE g[l]]
  <2>3. ASSUME NEW l \in 0 .. n
        PROVE  h[l] = IF l = 0 THEN array ELSE Swap(h[l - 1], rs, l - 1)
    <3>1. l # 0 => l - 1 \in 0 .. n - 1 /\ h[l - 1] = g[l - 1]
      BY <2>1
    <3>2. CASE l = n
      BY <1>4, <3>1, <3>2
    <3>3. CASE l # n
      <4>1. l \in 0 .. n - 1 /\ h[l] = g[l]
        BY <2>1, <3>3
      <4>2. g[l] = IF l = 0 THEN array ELSE Swap(g[l - 1], rs, l - 1)
        BY <2>2, <4>1 DEF Swaps
      <4> HIDE DEF h
      <4> QED BY <3>1, <4>1, <4>2
    <3> QED BY <3>2, <3>3
  <2>4. Swaps(h, array, rs, n)
    <3> HIDE DEF h
    <3> QED BY <2>3 DEF Swaps
  <2> QED BY <1>2, <2>4
<1> QED BY <1>3, <1>4

LEMMA ShuffleSwaps ==
  ASSUME NEW array, NEW rs
  PROVE  \E g : Swaps(g, array, rs, Last) /\ Shuffled(array, rs) = g[Last]
<1> DEFINE Step(g) == [n \in 0 .. Last |->
                         IF n = 0 THEN array
                         ELSE swap_entries(g[n - 1], n - 1, new_idx(rs[n - 1], n - 1))]
           after == CHOOSE g : g = Step(g)
<1>1. Last \in Nat
  BY SlotRange
<1>2. PICK g : Swaps(g, array, rs, Last)
  BY <1>1, SwapsExist
<1>3. \E f : f = Step(f)
  <2> DEFINE f == [n \in 0 .. Last |-> g[n]]
  <2>1. ASSUME NEW n \in 0 .. Last PROVE f[n] = Step(f)[n]
    <3>1. n # 0 => n - 1 \in 0 .. Last /\ f[n - 1] = g[n - 1]
      BY <1>1
    <3>2. f[n] = g[n]
      OBVIOUS
    <3>3. g[n] = IF n = 0 THEN array ELSE Swap(g[n - 1], rs, n - 1)
      BY <1>2 DEF Swaps
    <3> HIDE DEF f
    <3> QED BY <3>1, <3>2, <3>3 DEF Swap
  <2>2. f = Step(f)
    <3>1. f = [n \in 0 .. Last |-> f[n]]
      OBVIOUS
    <3> HIDE DEF f
    <3> QED BY <2>1, <3>1
  <2> QED BY <2>2
<1>4. after = Step(after)
  <2> HIDE DEF Step
  <2> QED BY <1>3
<1>5. Shuffled(array, rs) = after[Last]
  BY DEF Shuffled
<1>6. Swaps(after, array, rs, Last)
  <2>1. \A n \in 0 .. Last : after[n] = Step(after)[n]
    <3> HIDE DEF after, Step
    <3> QED BY <1>4
  <2> HIDE DEF after
  <2> QED BY <2>1 DEF Swaps, Swap
<1> QED BY <1>5, <1>6

(* Swaps within the array move entries about and lose none. *)
LEMMA ShuffleArranges ==
  ASSUME NEW array, Arranged(array), NEW rs, \A n \in 0 .. Last - 1 : new_idx(rs[n], n) \in Slots
  PROVE  Arranged(Shuffled(array, rs)) /\ Contents(Shuffled(array, rs)) = Contents(array)
<1>1. PICK g : Swaps(g, array, rs, Last) /\ Shuffled(array, rs) = g[Last]
  BY ShuffleSwaps
<1> DEFINE Good(n) == Arranged(g[n]) /\ Contents(g[n]) = Contents(array)
           Bad == {n \in 0 .. Last : ~Good(n)}
<1>2. SUFFICES ASSUME Bad # {} PROVE FALSE
  BY <1>1, SlotRange
<1>3. PICK n \in Bad : \A l \in Bad : n <= l
  <2>1. Bad \in SUBSET Nat
    OBVIOUS
  <2> HIDE DEF Bad
  <2> QED BY <1>2, <2>1, LeastElement
<1>4. n \in 0 .. Last /\ ~Good(n)
  OBVIOUS
<1>5. CASE n = 0
  <2>1. g[n] = array
    BY <1>1, <1>4, <1>5 DEF Swaps
  <2> QED BY <1>4, <2>1
<1>6. CASE n # 0
  <2>1. n - 1 \in 0 .. Last - 1 /\ n - 1 \in Slots /\ Good(n - 1)
    <3>1. n - 1 \in 0 .. Last - 1 /\ n - 1 \in 0 .. Last /\ ~(n <= n - 1)
      BY <1>4, <1>6, SlotRange
    <3>2. n - 1 \notin Bad
      <4> HIDE DEF Bad
      <4> QED BY <1>3, <3>1
    <3> QED BY <3>1, <3>2, SlotRange
  <2>2. g[n] = swap_entries(g[n - 1], n - 1, new_idx(rs[n - 1], n - 1))
    BY <1>1, <1>4, <1>6 DEF Swaps, Swap
  <2>3. new_idx(rs[n - 1], n - 1) \in Slots
    BY <2>1
  <2> QED BY <1>4, <2>1, <2>2, <2>3, SwapArranges
<1> QED BY <1>5, <1>6

(* The value goes to the entry that it is meant for, in the slot it has.    *)
LEMMA UpdateArranges ==
  ASSUME Arranged(Array), NEW s \in Slots, entries_filled[s], NEW v \in Vals,
         O!WithVal(entries[s]) \notin Stash, op.val = v
  PROVE  LET array == [Array EXCEPT !.entry[s].vals = Append(@, op.val)]
         IN  /\ Arranged(array)
             /\ Contents(array) = (Stash \ {entries[s]}) \cup {O!WithVal(entries[s])}
<1> DEFINE array == [Array EXCEPT !.entry[s].vals = Append(@, op.val)]
           new == O!WithVal(entries[s])
<1>1. /\ entries \in [Slots -> Entries \cup {None}]
      /\ entries_filled \in [Slots -> BOOLEAN]
      /\ \A t \in Slots : entries_filled[t] => entries[t] \in Entries
      /\ \A t, u \in Slots :
           entries_filled[t] /\ entries_filled[u] /\ entries[t] = entries[u] => t = u
  BY DEF Arranged, Array
<1>2. new \in Entries
  <2>1. PICK e : e = entries[s]
    OBVIOUS
  <2>2. PICK k \in Keys, g \in Nat \ {0}, w \in Seq(Vals) : e = [key |-> k, group |-> g, vals |-> w]
    BY <1>1, <2>1, KeyOfEntry
  <2>3. Append(w, v) \in Seq(Vals)
    OBVIOUS
  <2>4. O!WithVal(e) = [key |-> k, group |-> g, vals |-> Append(w, v)]
    <3>1. e.vals = w /\ op.val = v
      BY <2>2
    <3>2. PICK x : x = Append(w, v)
      OBVIOUS
    <3>3. O!WithVal(e) = [e EXCEPT !.vals = x]
      BY <3>1, <3>2 DEF O!WithVal
    <3>4. [e EXCEPT !.vals = x] = [key |-> k, group |-> g, vals |-> x]
      BY ONLY <2>2
    <3> QED BY <3>2, <3>3, <3>4
  <2>5. O!WithVal(e) \in [key : Keys, group : Nat \ {0}, vals : Seq(Vals)]
    BY <2>3, <2>4
  <2> QED BY <2>1, <2>5 DEF Entries, O!Entry
<1>3. array.filled = entries_filled /\ array.entry = [entries EXCEPT ![s] = new]
  BY DEF Array, O!WithVal
<1> HIDE DEF new, array
<1>4. /\ array.entry \in [Slots -> Entries \cup {None}]
      /\ array.entry[s] = new
      /\ \A t \in Slots : t # s => array.entry[t] = entries[t]
  BY <1>1, <1>2, <1>3
<1>5. \A t \in Slots : entries_filled[t] => entries[t] # new
  BY DEF Stash, new
<1>6. Arranged(array)
  <2>1. \A t \in Slots : array.filled[t] => array.entry[t] \in Entries
    BY <1>1, <1>2, <1>3, <1>4
  <2>2. ASSUME NEW t \in Slots, NEW u \in Slots, array.filled[t], array.filled[u],
               array.entry[t] = array.entry[u]
        PROVE  t = u
    BY <1>1, <1>3, <1>4, <1>5, <2>2
  <2> QED BY <1>1, <1>3, <1>4, <2>1, <2>2 DEF Arranged
<1>7. Contents(array) = (Stash \ {entries[s]}) \cup {new}
  <2>1. ASSUME NEW t \in Slots, array.filled[t]
        PROVE  array.entry[t] = new \/ (array.entry[t] \in Stash /\ array.entry[t] # entries[s])
    BY <1>1, <1>3, <1>4, <2>1 DEF Stash
  <2>2. ASSUME NEW x \in Stash, x # entries[s]
        PROVE  \E t \in Slots : array.filled[t] /\ array.entry[t] = x
    BY <1>3, <1>4, <2>2 DEF Stash
  <2>3. \E t \in Slots : array.filled[t] /\ array.entry[t] = new
    BY <1>3, <1>4
  <2> QED BY <2>1, <2>2, <2>3 DEF Contents
<1> QED BY <1>6, <1>7 DEF array, new

-----------------------------------------------------------------------------
(***************************************************************************)
(*                             One place each                              *)
(***************************************************************************)
Written == UNION {write_back[h] : h \in O!Heights}

(* An entry has the values that were written to its group.                  *)
Current(e) == e.group \in DOMAIN stored[e.key] /\ e.vals = stored[e.key][e.group]

(* An entry is in the stash, on the way there, in the file, or on the way   *)
(* back, and in one of them only.                                           *)
SlotInv ==
  /\ Arranged(Array)
  /\ record \subseteq Entries /\ file \subseteq Entries
  /\ write_back \in [O!Heights -> SUBSET Entries]
  /\ Stash \cap (record \cup file \cup Written) = {}
  /\ record \cap file = {}
  /\ Written \cap (record \cup file) = {}
  /\ \A e \in Stash \cup record \cup file \cup Written : Current(e)

HistInv ==
  /\ stored \in [Keys -> Seq(Seq(Vals))]
  /\ \A k \in Keys : Len(stored[k]) = Len(bitmap[k])
  /\ \A k \in Keys : \A g \in DOMAIN stored[k] : Len(stored[k][g]) <= VALMAXNUM

(* The call in progress, up to where it has used its entry.                 *)
CallInv ==
  /\ pc = "read" => /\ op \in O!Op /\ group \in DOMAIN bitmap[op.key]
                    /\ ret_val = <<>> /\ success \in BOOLEAN
                    /\ op.type = "read" => success = FALSE
  /\ ReadsLatest

SlotsInv == SlotInv /\ DrawInv /\ HistInv /\ CallInv

LEMMA StashEntries ==
  ASSUME Arranged(Array)
  PROVE  /\ Stash \subseteq Entries
         /\ \A s \in Slots : entries_filled[s] => entries[s] \in Stash
BY DEF Arranged, Array, Stash

(* Its group tells an entry from all others.                                *)
LEMMA OneCurrent ==
  ASSUME NEW e \in Entries, NEW f \in Entries, Current(e), Current(f),
         e.key = f.key, e.group = f.group
  PROVE  e = f
BY KeyOfEntry DEF Current

LEMMA SameCurrent == ASSUME UNCHANGED stored, NEW e, Current(e) PROVE Current(e)'
BY DEF Current

LEMMA InitSlots == ASSUME Init PROVE SlotInv /\ HistInv /\ CallInv
<1>1. Arranged(Array)
  BY DEF Init, Arranged, Array
<1>2. Stash = {} /\ record = {} /\ file = {} /\ Written = {}
  BY DEF Init, Stash, Written
<1>3. write_back \in [O!Heights -> SUBSET Entries]
  BY DEF Init
<1>4. HistInv
  BY DEF Init, HistInv
<1>5. CallInv
  BY DEF Init, CallInv, ReadsLatest
<1> QED BY <1>1, <1>2, <1>3, <1>4, <1>5 DEF SlotInv
(* A slot that is filled, and what was there before.                        *)
LEMMA FillArranges ==
  ASSUME Arranged(Array), NEW s \in Slots, NEW e \in Entries, e \notin Stash, Fill(s, e)
  PROVE  /\ Arranged(Array)'
         /\ Stash' = (IF entries_filled[s] THEN Stash \ {entries[s]} ELSE Stash) \cup {e}
         /\ LastEntry' = IF s = Last THEN e ELSE LastEntry
<1>1. /\ entries \in [Slots -> Entries \cup {None}]
      /\ entries_filled \in [Slots -> BOOLEAN]
      /\ \A t \in Slots : entries_filled[t] => entries[t] \in Entries
      /\ \A t, u \in Slots :
           entries_filled[t] /\ entries_filled[u] /\ entries[t] = entries[u] => t = u
  BY DEF Arranged, Array
<1>2. /\ entries' \in [Slots -> Entries \cup {None}]
      /\ entries_filled' \in [Slots -> BOOLEAN]
      /\ \A t \in Slots : t # s => entries'[t] = entries[t] /\ entries_filled'[t] = entries_filled[t]
      /\ entries'[s] = e /\ entries_filled'[s] = TRUE
  BY <1>1 DEF Fill
<1>3. \A t \in Slots : entries_filled[t] => entries[t] # e
  BY DEF Stash
<1>4. Arranged(Array)'
  <2>1. \A t \in Slots : entries_filled'[t] => entries'[t] \in Entries
    BY <1>1, <1>2
  <2>2. ASSUME NEW t \in Slots, NEW u \in Slots, entries_filled'[t], entries_filled'[u],
               entries'[t] = entries'[u]
        PROVE  t = u
    BY <1>1, <1>2, <1>3, <2>2
  <2> QED BY <1>2, <2>1, <2>2 DEF Arranged, Array
<1>5. Stash' = (IF entries_filled[s] THEN Stash \ {entries[s]} ELSE Stash) \cup {e}
  <2>1. Stash' = {entries'[t] : t \in {n \in Slots : entries_filled'[n]}}
    BY DEF Stash
  <2>2. ASSUME NEW t \in Slots, entries_filled'[t]
        PROVE  \/ entries'[t] = e
               \/ t # s /\ entries'[t] \in Stash /\ (entries_filled[s] => entries'[t] # entries[s])
    BY <1>1, <1>2, <2>2 DEF Stash
  <2>3. ASSUME NEW t \in Slots, entries_filled[t], entries_filled[s] => entries[t] # entries[s]
        PROVE  \E u \in Slots : entries_filled'[u] /\ entries'[u] = entries[t]
    BY <1>2, <2>3
  <2>4. e \in Stash'
    BY <1>2, <2>1
  <2>5. ASSUME NEW x \in Stash' PROVE x = e \/ (x \in Stash /\ (entries_filled[s] => x # entries[s]))
    BY <2>1, <2>2
  <2>6. ASSUME NEW x \in Stash, entries_filled[s] => x # entries[s] PROVE x \in Stash'
    <3>1. PICK t \in Slots : entries_filled[t] /\ x = entries[t]
      BY DEF Stash
    <3> QED BY <2>1, <2>3, <2>6, <3>1
  <2> QED BY <2>4, <2>5, <2>6
<1>6. LastEntry' = IF s = Last THEN e ELSE LastEntry
  BY <1>2, SlotRange DEF LastEntry
<1> QED BY <1>4, <1>5, <1>6

(* A slot that is emptied, though its entry stays there.                    *)
LEMMA EmptyArranges ==
  ASSUME Arranged(Array), NEW s \in Slots, entries_filled[s],
         entries_filled' = [entries_filled EXCEPT ![s] = FALSE], entries' = entries
  PROVE  /\ Arranged(Array)'
         /\ Stash' = Stash \ {entries[s]}
         /\ LastEntry' = IF s = Last THEN None ELSE LastEntry
<1>1. /\ entries \in [Slots -> Entries \cup {None}]
      /\ entries_filled \in [Slots -> BOOLEAN]
      /\ \A t \in Slots : entries_filled[t] => entries[t] \in Entries
      /\ \A t, u \in Slots :
           entries_filled[t] /\ entries_filled[u] /\ entries[t] = entries[u] => t = u
  BY DEF Arranged, Array
<1>2. /\ entries_filled' \in [Slots -> BOOLEAN]
      /\ \A t \in Slots : entries_filled'[t] <=> t # s /\ entries_filled[t]
  BY <1>1
<1>3. Arranged(Array)'
  BY <1>1, <1>2 DEF Arranged, Array
<1>4. Stash' = Stash \ {entries[s]}
  <2>1. Stash' = {entries[t] : t \in {n \in Slots : entries_filled'[n]}}
    BY DEF Stash
  <2>2. ASSUME NEW x \in Stash' PROVE x \in Stash /\ x # entries[s]
    BY <1>1, <1>2, <2>1 DEF Stash
  <2>3. ASSUME NEW x \in Stash, x # entries[s] PROVE x \in Stash'
    BY <1>2, <2>1, <2>3 DEF Stash
  <2> QED BY <2>2, <2>3
<1>5. LastEntry' = IF s = Last THEN None ELSE LastEntry
  BY <1>2, SlotRange DEF LastEntry
<1> QED BY <1>3, <1>4, <1>5

(* What the places of the entries are, however they move.                   *)
Apart(stash, path, blocks, written) ==
  /\ path \subseteq Entries /\ blocks \subseteq Entries
  /\ stash \cap (path \cup blocks \cup written) = {}
  /\ path \cap blocks = {}
  /\ written \cap (path \cup blocks) = {}

(* A path is read into record.                                              *)
LEMMA AccessSlots ==
  ASSUME SlotInv, NEW c, NEW g, StartAccess(c, g)
  PROVE  SlotInv' /\ UNCHANGED <<Stash, LastEntry, stash_num, Todo>>
<1>1. PICK path \in SUBSET file : record' = path /\ file' = file \ path
  BY DEF StartAccess, ReadPath
<1>2. UNCHANGED <<entries, entries_filled, write_back, stored, stash_num>> /\ pc = "idle" /\ pc' = "read"
  BY DEF StartAccess, ReadPath
<1>3. Arranged(Array)' /\ Stash' = Stash /\ Written' = Written /\ LastEntry' = LastEntry
  BY <1>2 DEF SlotInv, Arranged, Array, Stash, Written, LastEntry
<1>4. Apart(Stash, record, file, Written)'
  BY <1>1, <1>3 DEF SlotInv, Apart
<1>5. \A e \in (Stash \cup record \cup file \cup Written)' : Current(e)'
  <2>1. (Stash \cup record \cup file \cup Written)' \subseteq Stash \cup record \cup file \cup Written
    BY <1>1, <1>3
  <2> QED BY <1>2, <2>1, SameCurrent DEF SlotInv
<1>6. Todo' = Todo
  BY <1>2 DEF Todo
<1> QED BY <1>2, <1>3, <1>4, <1>5, <1>6 DEF SlotInv, Apart

(* A new group changes nothing for the others.                              *)
LEMMA GroupAdded ==
  ASSUME HistInv, NEW k \in Keys, NEW q, stored' = [stored EXCEPT ![k] = Append(stored[k], q)],
         NEW f \in Entries, Current(f)
  PROVE  Current(f)'
<1>1. f.key \in Keys /\ stored[f.key] \in Seq(Seq(Vals))
  BY KeyOfEntry DEF HistInv
<1>2. stored'[f.key] = IF f.key = k THEN Append(stored[k], q) ELSE stored[f.key]
  BY <1>1 DEF HistInv
<1>3. ASSUME NEW s \in Seq(Seq(Vals)), NEW g \in DOMAIN s
      PROVE  g \in DOMAIN Append(s, q) /\ Append(s, q)[g] = s[g]
  OBVIOUS
<1> QED BY <1>1, <1>2, <1>3 DEF Current

(* just_add_bitmap has no entry to place.                                   *)
LEMMA JustSlots ==
  ASSUME SlotInv, HistInv, NEW k \in JustKeys, JustAddBitmap(k)
  PROVE  SlotInv' /\ UNCHANGED <<Stash, LastEntry, stash_num, Todo>>
<1>1. /\ stored' = [stored EXCEPT ![k] = Append(stored[k], <<>>)]
      /\ UNCHANGED <<pc, entries, entries_filled, stash_num, file, record, write_back, i>>
      /\ k \in Keys
  BY SlotsAssumption DEF JustAddBitmap
<1>2. Arranged(Array)' /\ UNCHANGED <<Stash, LastEntry, Todo, Written>>
  BY <1>1 DEF SlotInv, Arranged, Array, Stash, LastEntry, Todo, Written
<1>3. ASSUME NEW f \in Stash \cup record \cup file \cup Written PROVE Current(f)'
  <2>1. f \in Entries /\ Current(f)
    BY StashEntries DEF SlotInv, Written
  <2> QED BY <1>1, <2>1, GroupAdded
<1> QED BY <1>1, <1>2, <1>3 DEF SlotInv

(* A new group has no entry yet.                                            *)
LEMMA NewIsNew ==
  ASSUME SlotInv, DrawInv, HistInv, NEW k \in Keys, NEW v \in Vals,
         stored' = [stored EXCEPT ![k] = Append(@, <<v>>)],
         NEW e, e = O!NewEntry(k, O!NewGroup(k), v)
  PROVE  /\ e \in Entries /\ e \notin Stash \cup record \cup file \cup Written
         /\ Current(e)'
         /\ \A f \in Entries : Current(f) => Current(f)'
<1> DEFINE n == Len(bitmap[k])
<1>1. stored[k] \in Seq(Seq(Vals)) /\ Len(stored[k]) = n /\ n \in Nat /\ DOMAIN stored[k] = 1 .. n
  BY DEF HistInv, DrawInv
<1>2. e = [key |-> k, group |-> n + 1, vals |-> <<v>>]
  BY DEF O!NewEntry, O!NewGroup
<1> HIDE DEF n
<1>3. e \in Entries /\ ~Current(e)
  BY <1>1, <1>2 DEF Entries, O!Entry, Current
<1>4. stored'[k] = Append(stored[k], <<v>>) /\ \A l \in Keys \ {k} : stored'[l] = stored[l]
  BY DEF HistInv
<1>5. /\ DOMAIN stored'[k] = 1 .. n + 1 /\ stored'[k][n + 1] = <<v>>
      /\ \A g \in 1 .. n : stored'[k][g] = stored[k][g]
  BY <1>1, <1>4
<1>6. Current(e)'
  BY <1>1, <1>2, <1>5 DEF Current
<1>7. ASSUME NEW f \in Entries, Current(f) PROVE Current(f)'
  BY <1>7, GroupAdded
<1> QED BY <1>3, <1>6, <1>7 DEF SlotInv

(* It goes to the first slot that is free.                                  *)
LEMMA AddSlots ==
  ASSUME SlotInv, DrawInv, HistInv, NEW k \in Keys, NEW v \in Vals, AddEntry(k, v)
  PROVE  /\ SlotInv'
         /\ O!PutInStash(O!NewEntry(k, O!NewGroup(k), v))
<1>0. PICK e : e = O!NewEntry(k, O!NewGroup(k), v)
  OBVIOUS
<1>1. PICK s \in Slots :
        ~entries_filled[s] /\ (\A n \in 0 .. s - 1 : entries_filled[n]) /\ Fill(s, e)
  BY <1>0 DEF AddEntry
<1>2. PICK r \in Rand : ReadPath(new_flag(r))
  BY DEF AddEntry
<1>3. PICK path \in SUBSET file : record' = path /\ file' = file \ path
  BY <1>2 DEF ReadPath
<1>4. /\ e \in Entries /\ e \notin Stash \cup record \cup file \cup Written
      /\ Current(e)'
      /\ \A f \in Entries : Current(f) => Current(f)'
  <2>1. stored' = [stored EXCEPT ![k] = Append(stored[k], <<v>>)]
    BY DEF AddEntry
  <2> QED BY <1>0, <2>1, NewIsNew
<1>5. /\ Arranged(Array)'
      /\ Stash' = Stash \cup {e}
      /\ LastEntry' = IF s = Last THEN e ELSE LastEntry
  <2>1. Arranged(Array) /\ e \notin Stash
    BY <1>4 DEF SlotInv
  <2> QED BY <1>1, <1>4, <2>1, FillArranges
<1>6. write_back' = write_back /\ Written' = Written
  BY <1>2 DEF ReadPath, Written
<1>7. SlotInv'
  <2>1. Apart(Stash, record, file, Written)'
    BY <1>3, <1>4, <1>5, <1>6 DEF SlotInv, Apart
  <2>2. ASSUME NEW f \in Stash' \cup record' \cup file' \cup Written' PROVE Current(f)'
    <3>1. f = e \/ f \in Stash \cup record \cup file \cup Written
      BY <1>3, <1>5, <1>6
    <3>2. Stash \cup record \cup file \cup Written \subseteq Entries
      BY StashEntries DEF SlotInv, Written
    <3> QED BY <1>4, <3>1, <3>2 DEF SlotInv
  <2> QED BY <1>5, <1>6, <2>1, <2>2 DEF SlotInv, Apart
<1>8. O!PutInStash(e)
  <2>1. s = Last <=> O!OnlyTailFree
    <3>1. O!OnlyTailFree <=> AllButLast(Array) /\ ~entries_filled[Last]
      BY LastSlot DEF SlotInv
    <3>2. s \in 0 .. Last
      BY SlotRange
    <3>3. s # Last => s \in 0 .. Last - 1
      BY <3>2, SlotRange
    <3> QED BY <1>1, <3>1, <3>3 DEF AllButLast, Array
  <2>2. LastEntry' = IF O!OnlyTailFree THEN e ELSE LastEntry
    BY <1>5, <2>1
  <2>3. stash_num' = stash_num + 1 /\ pair_number' = pair_number + 1 /\ success' = TRUE
    BY <1>1 DEF AddEntry, Fill
  <2> QED BY <1>5, <2>2, <2>3 DEF O!PutInStash
<1> QED BY <1>0, <1>7, <1>8

(* The slot that an entry of the path gets is the last one when Oram says   *)
(* so, and only an entry that is there is overwritten.                      *)
LEMMA LoadSlots ==
  ASSUME SlotInv, LoadEntry
  PROVE  /\ SlotInv'
         /\ O!LoadEntry
<1>1. PICK e \in record, s \in Slots : FirstFree(s) /\ Fill(s, e) /\ record' = record \ {e}
  BY DEF LoadEntry
<1>2. pc = "read" /\ UNCHANGED <<pc, op, group, bitmap, flag, pair_number, success, ret_val, file,
                                write_back, i, stored>>
  BY DEF LoadEntry
<1>3. e \in Entries /\ e \notin Stash /\ Arranged(Array)
  BY DEF SlotInv
<1>4. /\ Arranged(Array)'
      /\ Stash' = (IF entries_filled[s] THEN Stash \ {entries[s]} ELSE Stash) \cup {e}
      /\ LastEntry' = IF s = Last THEN e ELSE LastEntry
  BY <1>1, <1>3, FillArranges
<1>5. SlotInv'
  <2>1. Stash' \subseteq Stash \cup {e}
    BY <1>4
  <2>2. Written' = Written
    BY <1>2 DEF Written
  <2>3. Apart(Stash, record, file, Written)'
    BY <1>1, <1>2, <2>1, <2>2 DEF SlotInv, Apart
  <2>4. \A f \in Stash' \cup record' \cup file' \cup Written' : Current(f)'
    <3>1. Stash' \cup record' \cup file' \cup Written' \subseteq Stash \cup record \cup file \cup Written
      BY <1>1, <1>2, <2>1, <2>2
    <3> QED BY <1>2, <3>1, SameCurrent DEF SlotInv
  <2> QED BY <1>2, <1>4, <2>2, <2>3, <2>4 DEF SlotInv, Apart
<1>6. O!FillSlot(e)
  <2>1. /\ O!LastSlotReached <=> AllButLast(Array)
        /\ entries_filled[Last] <=> LastEntry # None
    BY <1>3, LastSlot
  <2>2. s \in 0 .. Last /\ (s # Last => s \in 0 .. Last - 1)
    BY SlotRange
  <2>3. s = Last <=> AllButLast(Array)
    BY <1>1, <2>2 DEF FirstFree, AllButLast, Array
  <2>4. CASE s = Last
    <3>1. Stash' = (Stash \ {LastEntry}) \cup {e}
      <4>1. CASE entries_filled[Last]
        BY <1>4, <2>4, <4>1 DEF LastEntry
      <4>2. CASE ~entries_filled[Last]
        <5>1. LastEntry \notin Stash
          <6>1. LastEntry = None
            BY <4>2 DEF LastEntry
          <6>2. \A x \in Stash : x \in Entries
            BY <1>3 DEF Arranged, Array, Stash
          <6> QED BY <6>1, <6>2, KeyOfEntry
        <5> QED BY <1>4, <2>4, <4>2, <5>1
      <4> QED BY <4>1, <4>2
    <3> QED BY <1>1, <1>4, <2>1, <2>3, <2>4, <3>1 DEF O!FillSlot, Fill
  <2>5. CASE s # Last
    <3>1. ~entries_filled[s]
      BY <1>1, <2>5 DEF FirstFree
    <3> QED BY <1>1, <1>4, <2>1, <2>3, <2>5, <3>1 DEF O!FillSlot, Fill
  <2> QED BY <2>4, <2>5
<1>7. O!LoadEntry
  <2>1. Todo' = Todo
    BY <1>2 DEF Todo
  <2> QED BY <1>1, <1>2, <1>6, <2>1
  DEF O!LoadEntry, O!treeVars, O!fileVars, O!callVars, O!evictVars, tree_level
<1> QED BY <1>5, <1>7

-----------------------------------------------------------------------------
(***************************************************************************)
(*                    The use of what get_entry finds                      *)
(***************************************************************************)
(* The shuffle moves entries about within the array, or leaves it.          *)
LEMMA ShuffleSlots ==
  ASSUME NEW array, Arranged(array), Shuffle(array)
  PROVE  /\ Arranged(Array)' /\ Stash' = Contents(array)
         /\ Written' = {} /\ write_back' \in [O!Heights -> SUBSET Entries]
         /\ pc' \in {"stray", "evict"}
         /\ pc' = "evict" =>
              /\ LastEntry' \in Contents(array)
                   \cup (IF Cardinality(Contents(array)) < STASHMAXSIZE THEN {None} ELSE {})
              /\ Todo' = Contents(array)
<1>1. write_back' = [h \in O!Heights |-> {}] /\ i' = 0
  BY DEF Shuffle
<1>2. /\ Written' = {}
      /\ write_back' \in [O!Heights -> SUBSET Entries]
  BY <1>1 DEF Written
<1>3. PICK rs \in [0 .. Last - 1 -> Rand] :
        IF \E n \in DOMAIN rs : new_idx(rs[n], n) \notin Slots
        THEN pc' = "stray" /\ entries' = array.entry /\ entries_filled' = array.filled
        ELSE /\ pc' = "evict"
             /\ entries' = Shuffled(array, rs).entry
             /\ entries_filled' = Shuffled(array, rs).filled
  BY Zenon DEF Shuffle
<1>4. CASE \E n \in DOMAIN rs : new_idx(rs[n], n) \notin Slots
  <2>1. pc' = "stray" /\ entries' = array.entry /\ entries_filled' = array.filled
    BY <1>3, <1>4
  <2> QED BY <1>2, <2>1 DEF Arranged, Array, Stash, Contents
<1>5. CASE ~ \E n \in DOMAIN rs : new_idx(rs[n], n) \notin Slots
  <2>1. /\ pc' = "evict"
        /\ entries' = Shuffled(array, rs).entry
        /\ entries_filled' = Shuffled(array, rs).filled
    BY <1>3, <1>5
  <2>2. Arranged(Shuffled(array, rs)) /\ Contents(Shuffled(array, rs)) = Contents(array)
    BY <1>5, ShuffleArranges
  <2>3. Arranged(Array)' /\ Stash' = Contents(array)
    <3>1. Arranged(Array)'
      BY <2>1, <2>2 DEF Arranged, Array
    <3>2. Stash' = Contents(Shuffled(array, rs))
      BY <2>1 DEF Contents, Stash
    <3> QED BY <2>2, <3>1, <3>2
  <2>4. LastEntry' \in Contents(array)
          \cup (IF Cardinality(Contents(array)) < STASHMAXSIZE THEN {None} ELSE {})
    <3>1. CASE entries_filled'[Last]
      <4>1. LastEntry' = entries'[Last] /\ entries'[Last] \in Stash'
        BY <3>1, SlotRange DEF LastEntry, Stash
      <4> QED BY <2>3, <4>1
    <3>2. CASE ~entries_filled'[Last]
      <4>1. LastEntry' = None
        BY <3>2 DEF LastEntry
      <4>2. Cardinality(Contents(array)) < STASHMAXSIZE
        <5>1. ~Shuffled(array, rs).filled[Last]
          BY <2>1, <3>2
        <5>2. Cardinality(Contents(Shuffled(array, rs))) < STASHMAXSIZE
          BY <2>2, <5>1, SlotsLeft
        <5> QED BY <2>2, <5>2
      <4> QED BY <4>1, <4>2
    <3> QED BY <3>1, <3>2
  <2>5. Todo' = Contents(array)
    <3>1. Todo' = {entries'[s] : s \in {n \in Slots : n >= 0 /\ entries_filled'[n]}}
      BY <1>1, <2>1 DEF Todo
    <3>2. \A n \in Slots : n >= 0
      BY SlotRange
    <3>3. Todo' = Stash'
      BY <3>1, <3>2 DEF Stash
    <3> QED BY <2>3, <3>3
  <2> QED BY <1>2, <2>1, <2>3, <2>4, <2>5
<1> QED BY <1>4, <1>5

LEMMA ShuffleIsOrams ==
  ASSUME NEW array, Arranged(array), Shuffle(array), pc' # "stray"
  PROVE  O!BeginWriteBack(Contents(array))
<1>1. pc' = "evict" /\ Stash' = Contents(array) /\ Todo' = Contents(array)
  BY ShuffleSlots
<1>2. LastEntry' \in Contents(array)
        \cup (IF O!Cardinality(Contents(array)) < STASHMAXSIZE THEN {None} ELSE {})
  BY <1>1, ShuffleSlots, SameCardinality
<1>3. /\ UNCHANGED <<tree_level, pair_number, stash_num, O!fileVars, op, group, O!pathVars>>
      /\ write_back' = [h \in O!Heights |-> {}]
  BY DEF Shuffle, tree_level, O!fileVars, O!pathVars
<1>4. LEVELMAX + 1 < HEAPBLOCKS /\ 0 + LEVELMAX < HEAPBLOCKS /\ 1 + LEVELMAX < HEAPBLOCKS
  BY SlotsAssumption
<1> QED BY <1>1, <1>2, <1>3, <1>4 DEF O!BeginWriteBack, tree_level

(* get_entry stops at an entry if and only if it is in the stash: what is   *)
(* left in empty slots never passes for it.                                 *)
LEMMA GetEntryFinds ==
  ASSUME SlotInv
  PROVE  /\ \A s \in get_entry : s \in Slots /\ entries_filled[s] /\ entries[s] \in O!Found
         /\ get_entry = {} => O!Found = {}
<1>1. \A s \in Slots : entries_filled[s] => entries[s] \in Stash
  BY StashEntries DEF SlotInv
<1>2. ASSUME NEW s \in get_entry PROVE s \in Slots /\ entries_filled[s] /\ entries[s] \in O!Found
  <2>1. s \in Slots /\ entries_filled[s] /\ entries[s].key = op.key /\ entries[s].group = group
    BY DEF get_entry
  <2> QED BY <1>1, <2>1 DEF O!Found
<1>3. ASSUME NEW e \in O!Found PROVE get_entry # {}
  <2> DEFINE matches(s) == entries_filled[s] /\ entries[s].key = op.key /\ entries[s].group = group
             Match == {s \in Slots : matches(s)}
  <2>1. Match \in SUBSET Nat /\ Match # {}
    BY SlotRange DEF O!Found, Stash
  <2>2. PICK s \in Match : \A t \in Match : s <= t
    <3> HIDE DEF Match
    <3> QED BY <2>1, LeastElement
  <2>3. \A n \in 0 .. s - 1 : n \in Slots /\ ~(s <= n)
    BY SlotRange
  <2>4. \A n \in 0 .. s - 1 : ~matches(n)
    <3> HIDE DEF matches
    <3> QED BY <2>2, <2>3
  <2> QED BY <2>2, <2>4 DEF get_entry
<1> QED BY <1>2, <1>3

(* The walk has reached the root. *)
LEMMA AtRoot == ASSUME DrawInv, Loaded PROVE O!Accessing
<1> DEFINE p == 2^(LEVELMAX - 1)
<1>1. p \in Nat \ {0} /\ Drawn = p + 1 .. 2 * p /\ LEVELMAX > 0
  BY SlotsAssumption DEF Drawn, O!Leaves, tree_level
<1>2. flag - 1 \in p .. 2 * p - 1
  <2> HIDE DEF p
  <2> QED BY <1>1 DEF DrawInv
<1>3. (flag - 1) \div p = 1
  <2> HIDE DEF p
  <2> QED BY <1>1, <1>2
<1>4. O!NodeAt(flag, LEVELMAX - 1) = 2
  BY <1>3 DEF O!NodeAt
<1> QED BY <1>1, <1>4 DEF O!Accessing, O!PathRead, Loaded, tree_level

LEMMA RemapIsOrams ==
  ASSUME Remap
  PROVE  O!Remap /\ \A k \in Keys : bitmap \in [Keys -> Seq(Drawn)] => Len(bitmap'[k]) = Len(bitmap[k])
<1>1. PICK r \in Rand : bitmap' = [bitmap EXCEPT ![op.key][group] = new_flag(r)]
  BY DEF Remap
<1>2. new_flag(r) \in O!Leaves(tree_level)
  BY LeafDrawn DEF Drawn
<1>3. O!Remap
  BY <1>1, <1>2 DEF O!Remap
<1>4. ASSUME NEW k \in Keys, bitmap \in [Keys -> Seq(Drawn)] PROVE Len(bitmap'[k]) = Len(bitmap[k])
  <2>1. ASSUME NEW q \in Seq(Drawn) PROVE Len([q EXCEPT ![group] = new_flag(r)]) = Len(q)
    OBVIOUS
  <2> QED BY <1>1, <1>4, <2>1
<1> QED BY <1>3, <1>4

(* The write-back begins with the stash as it was.                          *)
LEMMA KeepSlots ==
  ASSUME SlotInv, Shuffle(Array), UNCHANGED <<stored, file>>
  PROVE  SlotInv'
<1>1. Arranged(Array)' /\ Stash' = Stash /\ Written' = {} /\ write_back' \in [O!Heights -> SUBSET Entries]
  BY ShuffleSlots, StashIsContents DEF SlotInv
<1>2. record' = record
  BY DEF Shuffle
<1>3. Apart(Stash, record, file, Written)'
  BY <1>1, <1>2 DEF SlotInv, Apart
<1>4. \A e \in Stash' \cup record' \cup file' \cup Written' : Current(e)'
  <2>1. Stash' \cup record' \cup file' \cup Written' \subseteq Stash \cup record \cup file \cup Written
    BY <1>1, <1>2
  <2> QED BY <2>1, SameCurrent DEF SlotInv
<1> QED BY <1>1, <1>3, <1>4 DEF SlotInv, Apart

LEMMA ReadSlots ==
  ASSUME SlotsInv, ReadEntry
  PROVE  /\ SlotInv' /\ HistInv' /\ CallInv'
         /\ pc' # "stray" => O!ReadEntry
<1>1. /\ Loaded /\ op.type = "read" /\ Remap /\ Shuffle(Array) /\ UNCHANGED <<success, stored>>
      /\ UNCHANGED <<op, group, file>>
  BY DEF ReadEntry, Shuffle
<1>2. PICK s \in get_entry : ret_val' = ret_val \o entries[s].vals
  BY DEF ReadEntry
<1>3. s \in Slots /\ entries_filled[s] /\ entries[s] \in O!Found
  BY GetEntryFinds DEF SlotsInv
<1>4. PICK e \in O!Found : e = entries[s]
  BY <1>3
<1>5. e \in Entries /\ Current(e) /\ e.key = op.key /\ e.group = group
  BY <1>4, StashEntries DEF O!Found, SlotsInv, SlotInv
<1>6. ret_val = <<>> /\ e.vals \in Seq(Vals) /\ e.key \in Keys
  BY <1>1, <1>5, KeyOfEntry DEF SlotsInv, CallInv, Loaded
<1>7. ret_val' = stored[op.key][group] /\ Len(e.vals) <= VALMAXNUM
  <2>1. ret_val' = e.vals /\ Len(ret_val) = 0
    BY <1>2, <1>4, <1>6
  <2> QED BY <1>5, <1>6, <2>1 DEF Current, SlotsInv, HistInv
<1>8. SlotInv'
  BY <1>1, KeepSlots DEF SlotsInv
<1>9. HistInv'
  <2>1. \A k \in Keys : Len(bitmap'[k]) = Len(bitmap[k])
    BY <1>1, RemapIsOrams DEF SlotsInv, DrawInv
  <2> QED BY <1>1, <2>1 DEF SlotsInv, HistInv
<1>10. CallInv'
  <2>1. pc' \in {"stray", "evict"}
    BY <1>1, ShuffleSlots DEF SlotsInv, SlotInv
  <2> QED BY <1>1, <1>7, <2>1 DEF CallInv, ReadsLatest
<1>11. ASSUME pc' # "stray" PROVE O!ReadEntry
  <2>1. O!BeginWriteBack(Stash)
    BY <1>1, <1>11, ShuffleIsOrams, StashIsContents DEF SlotsInv, SlotInv
  <2>2. O!Accessing /\ O!Remap
    BY <1>1, AtRoot, RemapIsOrams DEF SlotsInv
  <2>3. Len(ret_val) + Len(e.vals) <= RETMAXNUM
    <3>1. Len(ret_val) = 0 /\ Len(e.vals) \in Nat /\ VALMAXNUM <= RETMAXNUM
      BY <1>6, SlotsAssumption
    <3> QED BY <1>7, <3>1, SlotsAssumption
  <2> QED BY <1>1, <1>2, <1>4, <2>1, <2>2, <2>3 DEF O!ReadEntry
<1> QED BY <1>8, <1>9, <1>10, <1>11

LEMMA LeaveSlots ==
  ASSUME SlotsInv, LeaveEntry
  PROVE  /\ SlotInv' /\ HistInv' /\ CallInv'
         /\ pc' # "stray" => O!SkipFullEntry \/ O!PlaceNewEntry
<1>1. /\ Loaded /\ op.type = "write" /\ Shuffle(Array) /\ UNCHANGED <<bitmap, success, ret_val, stored>>
      /\ UNCHANGED <<op, group, file>>
  BY DEF LeaveEntry, Shuffle
<1>2. success \in BOOLEAN
  BY <1>1 DEF SlotsInv, CallInv, Loaded
<1>3. success \/ \E e \in O!Found : Len(e.vals) >= VALMAXNUM
  BY GetEntryFinds DEF LeaveEntry, SlotsInv
<1>4. SlotInv' /\ HistInv'
  BY <1>1, KeepSlots DEF SlotsInv, HistInv
<1>5. CallInv'
  <2>1. pc' \in {"stray", "evict"}
    BY <1>1, ShuffleSlots DEF SlotsInv, SlotInv
  <2> QED BY <1>1, <2>1 DEF CallInv, ReadsLatest
<1>6. ASSUME pc' # "stray" PROVE O!SkipFullEntry \/ O!PlaceNewEntry
  <2>1. O!BeginWriteBack(Stash)
    BY <1>1, <1>6, ShuffleIsOrams, StashIsContents DEF SlotsInv, SlotInv
  <2>2. O!Accessing
    BY <1>1, AtRoot DEF SlotsInv
  <2> QED BY <1>1, <1>2, <1>3, <2>1, <2>2 DEF O!SkipFullEntry, O!PlaceNewEntry
<1> QED BY <1>4, <1>5, <1>6

(* The one copy of the entry gets the value, so that it has all of them.    *)
LEMMA AppendSlots ==
  ASSUME SlotsInv, AppendVal
  PROVE  /\ SlotInv' /\ HistInv' /\ CallInv'
         /\ pc' # "stray" => O!AppendVal
<1>1. /\ Loaded /\ op.type = "write" /\ ~success /\ Remap /\ success' = TRUE /\ UNCHANGED ret_val
      /\ stored' = [stored EXCEPT ![op.key][group] = Append(@, op.val)]
  BY DEF AppendVal
<1>2. PICK s \in get_entry :
        /\ Len(entries[s].vals) < VALMAXNUM
        /\ Shuffle([Array EXCEPT !.entry[s].vals = Append(@, op.val)])
  BY DEF AppendVal
<1>3. PICK array : array = [Array EXCEPT !.entry[s].vals = Append(@, op.val)]
  OBVIOUS
<1>4. s \in Slots /\ entries_filled[s] /\ entries[s] \in O!Found
  BY GetEntryFinds DEF SlotsInv
<1>5. PICK e \in O!Found : e = entries[s]
  BY <1>4
<1>6. /\ e \in Stash /\ e \in Entries /\ Current(e) /\ e.key = op.key /\ e.group = group
      /\ Arranged(Array)
  BY <1>5, StashEntries DEF O!Found, SlotsInv, SlotInv
<1>7. PICK v \in Vals : op.val = v
  BY <1>1 DEF SlotsInv, CallInv, Loaded, O!Op
<1>8. PICK k \in Keys, g \in Nat \ {0}, w \in Seq(Vals) :
        e = [key |-> k, group |-> g, vals |-> w] /\ op.key = k /\ group = g
  BY <1>6, KeyOfEntry
<1>9. PICK f : f = [key |-> k, group |-> g, vals |-> Append(w, v)]
  OBVIOUS
<1>10. O!WithVal(e) = f
  <2>1. e.vals = w
    BY <1>8
  <2>2. PICK x : x = Append(w, v)
    OBVIOUS
  <2>3. O!WithVal(e) = [e EXCEPT !.vals = x]
    BY <1>7, <2>1, <2>2 DEF O!WithVal
  <2>4. [e EXCEPT !.vals = x] = [key |-> k, group |-> g, vals |-> x]
    BY <1>8
  <2> QED BY <1>9, <2>2, <2>3, <2>4
<1>11. f \in Entries /\ f # e /\ f.key = k /\ f.group = g /\ f.vals = Append(w, v)
  <2>1. Append(w, v) \in Seq(Vals) /\ Append(w, v) # w
    <3>1. Len(Append(w, v)) = Len(w) + 1 /\ Len(w) \in Nat
      OBVIOUS
    <3>2. Len(w) + 1 # Len(w)
      BY <3>1
    <3> QED BY <3>1, <3>2
  <2>2. f.key = k /\ f.group = g /\ f.vals = Append(w, v)
    BY <1>9
  <2>3. e.vals = w
    BY <1>8
  <2>4. f \in Entries
    BY <1>9, <2>1 DEF Entries, O!Entry
  <2> QED BY <2>1, <2>2, <2>3, <2>4
<1>12. stored[k][g] = w /\ g \in DOMAIN stored[k] /\ stored[k] \in Seq(Seq(Vals)) /\ Len(w) < VALMAXNUM
  <2>1. e.key = k /\ e.group = g /\ e.vals = w
    BY <1>8
  <2> QED BY <1>2, <1>5, <1>6, <2>1 DEF Current, SlotsInv, HistInv
<1>13. /\ stored' \in [Keys -> Seq(Seq(Vals))]
       /\ \A l \in Keys : DOMAIN stored'[l] = DOMAIN stored[l] /\ Len(stored'[l]) = Len(stored[l])
       /\ stored'[k][g] = Append(w, v)
       /\ \A l \in Keys : \A h \in DOMAIN stored[l] : l # k \/ h # g => stored'[l][h] = stored[l][h]
  <2>1. PICK q : q = [stored[k] EXCEPT ![g] = Append(w, v)]
    OBVIOUS
  <2>2. stored' = [stored EXCEPT ![k] = q]
    BY <1>1, <1>7, <1>8, <1>12, <2>1
  <2>3. /\ q \in Seq(Seq(Vals)) /\ Len(q) = Len(stored[k]) /\ DOMAIN q = DOMAIN stored[k]
        /\ q[g] = Append(w, v)
        /\ \A h \in DOMAIN stored[k] : h # g => q[h] = stored[k][h]
    <3>1. g \in 1 .. Len(stored[k]) /\ Append(w, v) \in Seq(Vals)
      BY <1>12
    <3> QED BY <1>12, <2>1, <3>1, ExceptSeq
  <2>4. stored \in [Keys -> Seq(Seq(Vals))]
    BY DEF SlotsInv, HistInv
  <2> QED BY <2>2, <2>3, <2>4
<1>14. /\ Arranged(array) /\ Contents(array) = (Stash \ {e}) \cup {f}
       /\ f \notin Stash \cup record \cup file \cup Written
  <2>1. ASSUME f \in Stash \cup record \cup file \cup Written PROVE FALSE
    <3>1. Current(f)
      BY <2>1 DEF SlotsInv, SlotInv
    <3>2. f = e
      BY <1>6, <1>8, <1>11, <3>1, OneCurrent
    <3> QED BY <1>11, <3>2
  <2> QED BY <1>3, <1>4, <1>5, <1>6, <1>7, <1>10, <2>1, UpdateArranges
<1>15. Shuffle(array) /\ UNCHANGED <<op, group, file, record>>
  BY <1>2, <1>3 DEF Shuffle
<1>16. /\ Arranged(Array)' /\ Stash' = (Stash \ {e}) \cup {f}
       /\ Written' = {} /\ write_back' \in [O!Heights -> SUBSET Entries] /\ pc' \in {"stray", "evict"}
  BY <1>14, <1>15, ShuffleSlots
<1>17. ASSUME NEW x \in (Stash \ {e}) \cup {f} \cup record \cup file PROVE Current(x)'
  <2>1. CASE x = f
    BY <1>8, <1>11, <1>12, <1>13, <2>1 DEF Current
  <2>2. CASE x # f
    <3>1. x \in Stash \cup record \cup file /\ x # e
      BY <1>6, <1>17, <2>2 DEF SlotsInv, SlotInv
    <3>2. x \in Entries /\ Current(x)
      BY <3>1, StashEntries DEF SlotsInv, SlotInv
    <3>3. x.key # k \/ x.group # g
      BY <1>6, <1>8, <3>1, <3>2, OneCurrent
    <3>4. x.key \in Keys
      BY <3>2, KeyOfEntry
    <3> QED BY <1>13, <3>2, <3>3, <3>4 DEF Current
  <2> QED BY <2>1, <2>2
<1>18. SlotInv'
  <2>1. Apart(Stash, record, file, Written)'
    BY <1>14, <1>15, <1>16 DEF SlotsInv, SlotInv, Apart
  <2>2. \A x \in Stash' \cup record' \cup file' \cup Written' : Current(x)'
    BY <1>15, <1>16, <1>17
  <2> QED BY <1>16, <2>1, <2>2 DEF SlotInv, Apart
<1>19. HistInv'
  <2>1. \A l \in Keys : Len(bitmap'[l]) = Len(bitmap[l])
    BY <1>1, RemapIsOrams DEF SlotsInv, DrawInv
  <2>2. ASSUME NEW l \in Keys, NEW h \in DOMAIN stored'[l] PROVE Len(stored'[l][h]) <= VALMAXNUM
    <3>1. CASE l = k /\ h = g
      <4>1. Len(Append(w, v)) = Len(w) + 1 /\ Len(w) \in Nat
        OBVIOUS
      <4> QED BY <1>12, <1>13, <3>1, <4>1, SlotsAssumption
    <3>2. CASE l # k \/ h # g
      BY <1>13, <2>2, <3>2 DEF SlotsInv, HistInv
    <3> QED BY <3>1, <3>2
  <2> QED BY <1>13, <2>1, <2>2 DEF SlotsInv, HistInv
<1>20. CallInv'
  BY <1>1, <1>15, <1>16 DEF CallInv, ReadsLatest
<1>21. ASSUME pc' # "stray" PROVE O!AppendVal
  <2>1. O!BeginWriteBack((Stash \ {e}) \cup {O!WithVal(e)})
    BY <1>10, <1>14, <1>15, <1>21, ShuffleIsOrams
  <2>2. O!Accessing /\ O!Remap
    BY <1>1, AtRoot, RemapIsOrams DEF SlotsInv
  <2> QED BY <1>1, <1>2, <1>5, <2>1, <2>2 DEF O!AppendVal
<1> QED BY <1>18, <1>19, <1>20, <1>21

LEMMA MissingSlots ==
  ASSUME SlotsInv, MissingEntry
  PROVE  /\ SlotInv' /\ HistInv' /\ CallInv'
         /\ O!MissingEntry
<1>1. /\ Loaded /\ ~success /\ get_entry = {} /\ pc' = "null_entry"
      /\ UNCHANGED <<op, group, bitmap, flag, entries, entries_filled, stash_num, pair_number, success>>
      /\ UNCHANGED <<ret_val, file, record, write_back, i, draws, stored>>
  BY DEF MissingEntry
<1>2. SlotInv'
  BY <1>1 DEF SlotsInv, SlotInv, Arranged, Array, Stash, Written, Current
<1>3. HistInv' /\ CallInv'
  BY <1>1 DEF SlotsInv, HistInv, CallInv, ReadsLatest
<1>4. O!MissingEntry
  <2>1. O!Accessing /\ O!Found = {}
    BY <1>1, AtRoot, GetEntryFinds DEF SlotsInv
  <2>2. Todo = {} /\ Todo' = {} /\ Stash' = Stash /\ LastEntry' = LastEntry
    BY <1>1 DEF Loaded, Todo, Stash, LastEntry
  <2> QED BY <1>1, <2>1, <2>2
    DEF O!MissingEntry, O!Die, O!treeVars, O!stashVars, O!fileVars, O!callVars, O!pathVars, O!evictVars,
        tree_level
<1> QED BY <1>2, <1>3, <1>4

-----------------------------------------------------------------------------
(***************************************************************************)
(*                       The loop over the slots                           *)
(***************************************************************************)
(* A slot that is filled is considered once, the last one at the end.       *)
LEMMA SlotTurn ==
  ASSUME Arranged(Array), pc = "evict", pc' = "evict", i \in Slots, entries_filled[i], i' = i + 1,
         entries' = entries,
         \A t \in Slots : t > i => (entries_filled'[t] <=> entries_filled[t])
  PROVE  /\ entries[i] \in Todo /\ Todo' = Todo \ {entries[i]}
         /\ entries[i] = LastEntry <=> i = Last
         /\ entries[i] = LastEntry => Todo = {LastEntry}
<1> DEFINE e == entries[i]
<1>1. /\ \A s, t \in Slots :
           entries_filled[s] /\ entries_filled[t] /\ entries[s] = entries[t] => s = t
      /\ entries_filled \in [Slots -> BOOLEAN]
      /\ e \in Entries /\ e \in Stash
  BY DEF Arranged, Array, Stash
<1>2. e \in Todo /\ Todo' = Todo \ {e}
  <2>1. /\ Todo' = {entries[s] : s \in {n \in Slots : n >= i + 1 /\ entries_filled'[n]}}
        /\ Todo = {entries[s] : s \in {n \in Slots : n >= i /\ entries_filled[n]}}
    BY DEF Todo
  <2>2. ASSUME NEW s \in Slots
        PROVE  s >= i + 1 /\ entries_filled'[s] <=> s >= i /\ entries_filled[s] /\ entries[s] # e
    <3>1. s \in Nat /\ i \in Nat
      BY SlotRange
    <3>2. entries_filled[s] => (entries[s] = e <=> s = i)
      BY <1>1
    <3>3. s > i => (entries_filled'[s] <=> entries_filled[s])
      OBVIOUS
    <3> HIDE DEF e
    <3> QED BY <3>1, <3>2, <3>3
  <2>3. Todo' = Todo \ {e}
    <3> HIDE DEF e
    <3>1. ASSUME NEW x PROVE x \in Todo' <=> x \in Todo /\ x # e
      BY <2>1, <2>2
    <3> QED BY <3>1
  <2>4. i >= i
    BY SlotRange
  <2> QED BY <2>1, <2>3, <2>4
<1>3. e = LastEntry <=> i = Last
  <2>1. i = Last => e = LastEntry
    BY DEF LastEntry
  <2>2. e = LastEntry => i = Last
    <3>1. CASE entries_filled[Last]
      BY <1>1, <3>1, SlotRange DEF LastEntry
    <3>2. CASE ~entries_filled[Last]
      BY <1>1, <3>2, KeyOfEntry DEF LastEntry
    <3> QED BY <3>1, <3>2
  <2> QED BY <2>1, <2>2
<1>4. e = LastEntry => Todo = {LastEntry}
  <2>1. SUFFICES ASSUME e = LastEntry PROVE Todo = {e}
    OBVIOUS
  <2>2. \A s \in Slots : s >= i => s = i
    BY <1>3, <2>1, SlotRange
  <2>3. Todo \subseteq {e}
    BY <2>2 DEF Todo
  <2> QED BY <1>2, <2>3
<1> QED BY <1>2, <1>3, <1>4

(* An entry goes where Oram moves it.                                       *)
LEMMA EvictSlots ==
  ASSUME SlotInv, EvictSlot
  PROVE  SlotInv' /\ O!EvictEntry
<1>1. /\ pc = "evict" /\ i \in Slots /\ entries_filled[i] /\ i' = i + 1
      /\ entries_filled' = [entries_filled EXCEPT ![i] = FALSE]
      /\ stash_num' = stash_num - 1
      /\ UNCHANGED <<pc, op, group, bitmap, flag, entries, pair_number, success, ret_val, file, record,
                     stored>>
  BY DEF EvictSlot, evictUnchanged
<1>2. PICK e : e = entries[i]
  OBVIOUS
<1>3. PICK h \in O!Fits(e) :
        /\ \A other \in O!Fits(e) : h <= other
        /\ write_back' = [write_back EXCEPT ![h] = write_back[h] \cup {e}]
  BY <1>2 DEF EvictSlot
<1>4. h \in O!Heights
  BY <1>3, SlotsAssumption DEF O!Fits, O!Heights, tree_level
<1>5. Arranged(Array) /\ e \in Entries /\ e \in Stash
  BY <1>1, <1>2, StashEntries DEF SlotInv
<1>6. /\ Arranged(Array)'
      /\ Stash' = Stash \ {e}
      /\ LastEntry' = IF i = Last THEN None ELSE LastEntry
  BY <1>1, <1>2, <1>5, EmptyArranges
<1>7. write_back' \in [O!Heights -> SUBSET Entries] /\ Written' \subseteq Written \cup {e}
  <2>1. /\ write_back \in [O!Heights -> SUBSET Entries]
        /\ \A g \in O!Heights : write_back[g] \subseteq Written
    BY DEF SlotInv, Written
  <2>2. /\ write_back' \in [O!Heights -> SUBSET Entries]
        /\ \A g \in O!Heights : write_back'[g] \subseteq write_back[g] \cup {e}
    BY <1>3, <1>4, <1>5, <2>1
  <2> QED BY <2>1, <2>2 DEF Written
<1>8. SlotInv'
  <2>1. Apart(Stash, record, file, Written)'
    BY <1>1, <1>5, <1>6, <1>7 DEF SlotInv, Apart
  <2>2. \A x \in Stash' \cup record' \cup file' \cup Written' : Current(x)'
    <3>1. Stash' \cup record' \cup file' \cup Written' \subseteq Stash \cup record \cup file \cup Written
      BY <1>1, <1>5, <1>6, <1>7
    <3> QED BY <1>1, <3>1, SameCurrent DEF SlotInv
  <2> QED BY <1>6, <1>7, <2>1, <2>2 DEF SlotInv, Apart
<1>9. /\ e \in Todo /\ Todo' = Todo \ {e}
      /\ e = LastEntry <=> i = Last
      /\ e = LastEntry => Todo = {LastEntry}
  <2>1. \A t \in Slots : t > i => (entries_filled'[t] <=> entries_filled[t])
    BY <1>1, SlotRange
  <2> QED BY <1>1, <1>2, <1>5, <2>1, SlotTurn
<1>10. O!MoveToBlock(e, h)
  <2>1. LastEntry' = IF e = LastEntry THEN None ELSE LastEntry
    BY <1>6, <1>9
  <2> QED BY <1>1, <1>3, <1>6, <2>1 DEF O!MoveToBlock
<1>11. O!EvictEntry
  <2>1. UNCHANGED <<pc, O!treeVars, O!fileVars, O!callVars, O!pathVars>>
    BY <1>1 DEF O!treeVars, O!fileVars, O!callVars, O!pathVars, tree_level
  <2> QED BY <1>1, <1>3, <1>9, <1>10, <2>1 DEF O!EvictEntry
<1> QED BY <1>8, <1>11

(* A slot is passed by if it is empty or if its entry fits nowhere.         *)
LEMMA SkipSlots ==
  ASSUME SlotInv, SkipSlot
  PROVE  SlotInv' /\ (O!EvictEntry \/ UNCHANGED <<Stash, LastEntry, stash_num, Todo>>)
<1>1. /\ pc = "evict" /\ i \in Slots /\ (entries_filled[i] => O!Fits(entries[i]) = {}) /\ i' = i + 1
      /\ UNCHANGED <<pc, op, group, bitmap, flag, entries, entries_filled, stash_num, pair_number>>
      /\ UNCHANGED <<success, ret_val, file, record, write_back, stored>>
  BY DEF SkipSlot, evictUnchanged
<1>2. Arranged(Array)' /\ Stash' = Stash /\ LastEntry' = LastEntry /\ Written' = Written
  BY <1>1 DEF SlotInv, Arranged, Array, Stash, LastEntry, Written
<1>3. SlotInv'
  BY <1>1, <1>2 DEF SlotInv, Current
<1>4. CASE entries_filled[i]
  <2>1. /\ entries[i] \in Todo /\ Todo' = Todo \ {entries[i]}
        /\ entries[i] = LastEntry => Todo = {LastEntry}
    BY <1>1, <1>4, SlotTurn DEF SlotInv
  <2>2. UNCHANGED <<pc, O!treeVars, O!fileVars, O!callVars, O!pathVars, O!stashVars, write_back>>
    BY <1>1, <1>2 DEF O!treeVars, O!fileVars, O!callVars, O!pathVars, O!stashVars, tree_level
  <2> QED BY <1>1, <1>3, <1>4, <2>1, <2>2 DEF O!EvictEntry
<1>5. CASE ~entries_filled[i]
  <2>1. ASSUME NEW s \in Slots
        PROVE  s >= i + 1 /\ entries_filled[s] <=> s >= i /\ entries_filled[s]
    BY <1>1, <1>5, SlotRange
  <2>2. /\ Todo' = {entries[s] : s \in {n \in Slots : n >= i + 1 /\ entries_filled[n]}}
        /\ Todo = {entries[s] : s \in {n \in Slots : n >= i /\ entries_filled[n]}}
    BY <1>1 DEF Todo
  <2>3. Todo' = Todo
    BY <2>1, <2>2
  <2> QED BY <1>1, <1>2, <1>3, <2>3
<1> QED BY <1>4, <1>5

LEMMA EndSlots ==
  ASSUME SlotInv, EndAccess
  PROVE  SlotInv' /\ UNCHANGED <<Stash, LastEntry, stash_num, Todo>>
<1>1. /\ pc = "evict" /\ pc' = "idle" /\ i = STASHMAXSIZE
      /\ UNCHANGED <<entries, entries_filled, record, stored, stash_num>>
      /\ file' = file \cup Written
      /\ write_back' = [h \in O!Heights |-> {}]
  BY DEF EndAccess, evictUnchanged, Written
<1>2. Arranged(Array)' /\ Stash' = Stash /\ LastEntry' = LastEntry
  BY <1>1 DEF SlotInv, Arranged, Array, Stash, LastEntry
<1>3. Written' = {} /\ write_back' \in [O!Heights -> SUBSET Entries] /\ Written \subseteq Entries
  BY <1>1 DEF SlotInv, Written
<1>4. Apart(Stash, record, file, Written)'
  BY <1>1, <1>2, <1>3 DEF SlotInv, Apart
<1>5. \A x \in Stash' \cup record' \cup file' \cup Written' : Current(x)'
  <2>1. Stash' \cup record' \cup file' \cup Written' \subseteq Stash \cup record \cup file \cup Written
    BY <1>1, <1>2, <1>3
  <2> QED BY <1>1, <2>1, SameCurrent DEF SlotInv
<1>6. Todo = {} /\ Todo' = {}
  <2>1. \A n \in Slots : ~(n >= i)
    BY <1>1, SlotRange
  <2> QED BY <1>1, <2>1 DEF Todo
<1> QED BY <1>1, <1>2, <1>3, <1>4, <1>5, <1>6 DEF SlotInv, Apart

(* What was written and the call are left alone outside their own steps.    *)
LEMMA CallKept ==
  ASSUME SlotsInv, [Next]_vars, ~ReadEntry, ~AppendVal, ~LeaveEntry, ~MissingEntry
  PROVE  HistInv' /\ CallInv'
<1>1. ASSUME NEW c \in O!Op, NEW g \in DOMAIN bitmap[c.key], StartAccess(c, g) PROVE HistInv' /\ CallInv'
  <2>1. /\ op' = c /\ group' = g /\ success' = FALSE /\ ret_val' = <<>> /\ pc' = "read"
        /\ UNCHANGED <<bitmap, stored>>
    BY <1>1 DEF StartAccess, ReadPath
  <2> QED BY <2>1 DEF SlotsInv, HistInv, CallInv, ReadsLatest
<1>2. ASSUME NEW k \in Keys, NEW v \in Vals, AddEntry(k, v) PROVE HistInv' /\ CallInv'
  <2>1. PICK r \in Rand :
          bitmap' = [bitmap EXCEPT ![k] = Append(bitmap[k], new_flag(r))] /\ ReadPath(new_flag(r))
    BY <1>2 DEF AddEntry
  <2>2. /\ op' = [type |-> "write", key |-> k, val |-> v] /\ group' = Len(bitmap[k]) + 1
        /\ stored' = [stored EXCEPT ![k] = Append(stored[k], <<v>>)]
        /\ success' = TRUE /\ ret_val' = <<>> /\ pc' = "read"
    BY <1>2, <2>1 DEF AddEntry, O!NewGroup, ReadPath
  <2>3. /\ bitmap \in [Keys -> Seq(Drawn)] /\ new_flag(r) \in Drawn
        /\ stored \in [Keys -> Seq(Seq(Vals))] /\ \A l \in Keys : Len(stored[l]) = Len(bitmap[l])
        /\ \A l \in Keys : \A g \in DOMAIN stored[l] : Len(stored[l][g]) <= VALMAXNUM
    BY LeafDrawn DEF SlotsInv, DrawInv, HistInv
  <2>4. /\ Append(bitmap[k], new_flag(r)) \in Seq(Drawn)
        /\ Len(Append(bitmap[k], new_flag(r))) = Len(bitmap[k]) + 1
    BY <2>3
  <2>5. /\ Append(stored[k], <<v>>) \in Seq(Seq(Vals))
        /\ Len(Append(stored[k], <<v>>)) = Len(bitmap[k]) + 1
        /\ \A g \in DOMAIN Append(stored[k], <<v>>) : Len(Append(stored[k], <<v>>)[g]) <= VALMAXNUM
    <3>1. stored[k] \in Seq(Seq(Vals)) /\ <<v>> \in Seq(Vals) /\ Len(<<v>>) = 1
          /\ Len(stored[k]) = Len(bitmap[k]) /\ 1 <= VALMAXNUM
      BY <2>3, SlotsAssumption
    <3>2. PICK q \in Seq(Seq(Vals)), w \in Seq(Vals) : q = stored[k] /\ w = <<v>>
      BY <3>1
    <3>3. \A g \in DOMAIN Append(q, w) : Append(q, w)[g] = w \/ (g \in DOMAIN q /\ Append(q, w)[g] = q[g])
      OBVIOUS
    <3>4. Append(q, w) \in Seq(Seq(Vals)) /\ Len(Append(q, w)) = Len(q) + 1
      OBVIOUS
    <3> QED BY <2>3, <3>1, <3>2, <3>3, <3>4
  <2>6. HistInv'
    BY <2>1, <2>2, <2>3, <2>4, <2>5 DEF HistInv
  <2>7. op' \in O!Op /\ op'.key = k /\ op'.type = "write"
    BY <2>2 DEF O!Op
  <2>8. group' \in DOMAIN bitmap'[op'.key]
    <3>1. bitmap'[k] = Append(bitmap[k], new_flag(r)) /\ Len(bitmap[k]) \in Nat
      BY <2>1, <2>3
    <3> QED BY <2>2, <2>3, <2>4, <2>7, <3>1
  <2> QED BY <2>2, <2>6, <2>7, <2>8 DEF CallInv, ReadsLatest
<1>3. CASE LoadEntry \/ SkipSlot \/ EvictSlot \/ EndAccess \/ UNCHANGED vars
  <2>1. /\ UNCHANGED <<op, group, bitmap, success, ret_val, stored>>
        /\ pc' = pc \/ pc' = "idle"
    BY <1>3 DEF LoadEntry, SkipSlot, EvictSlot, EndAccess, evictUnchanged, vars
  <2> QED BY <2>1 DEF SlotsInv, HistInv, CallInv, ReadsLatest
<1>4. ASSUME NEW k \in JustKeys, JustAddBitmap(k) PROVE HistInv' /\ CallInv'
  <2>1. PICK r \in Rand : bitmap' = [bitmap EXCEPT ![k] = Append(bitmap[k], new_flag(r))]
    BY <1>4 DEF JustAddBitmap
  <2>2. /\ stored' = [stored EXCEPT ![k] = Append(stored[k], <<>>)]
        /\ pc = "idle" /\ pc' = "idle" /\ k \in Keys
    BY <1>4, SlotsAssumption DEF JustAddBitmap
  <2>3. /\ bitmap \in [Keys -> Seq(Drawn)] /\ new_flag(r) \in Drawn
        /\ stored \in [Keys -> Seq(Seq(Vals))] /\ \A l \in Keys : Len(stored[l]) = Len(bitmap[l])
        /\ \A l \in Keys : \A g \in DOMAIN stored[l] : Len(stored[l][g]) <= VALMAXNUM
    BY LeafDrawn DEF SlotsInv, DrawInv, HistInv
  <2>4. /\ Append(bitmap[k], new_flag(r)) \in Seq(Drawn)
        /\ Len(Append(bitmap[k], new_flag(r))) = Len(bitmap[k]) + 1
    BY <2>2, <2>3
  <2>5. /\ Append(stored[k], <<>>) \in Seq(Seq(Vals))
        /\ Len(Append(stored[k], <<>>)) = Len(bitmap[k]) + 1
        /\ \A g \in DOMAIN Append(stored[k], <<>>) : Len(Append(stored[k], <<>>)[g]) <= VALMAXNUM
    <3>1. stored[k] \in Seq(Seq(Vals)) /\ <<>> \in Seq(Vals) /\ Len(<<>>) = 0
          /\ Len(stored[k]) = Len(bitmap[k]) /\ 0 <= VALMAXNUM
      BY <2>2, <2>3, SlotsAssumption
    <3>2. PICK q \in Seq(Seq(Vals)), w \in Seq(Vals) : q = stored[k] /\ w = <<>>
      BY <3>1
    <3>3. \A g \in DOMAIN Append(q, w) : Append(q, w)[g] = w \/ (g \in DOMAIN q /\ Append(q, w)[g] = q[g])
      OBVIOUS
    <3>4. Append(q, w) \in Seq(Seq(Vals)) /\ Len(Append(q, w)) = Len(q) + 1
      OBVIOUS
    <3> QED BY <2>2, <2>3, <3>1, <3>2, <3>3, <3>4
  <2>6. HistInv'
    BY <2>1, <2>2, <2>3, <2>4, <2>5 DEF HistInv
  <2> QED BY <2>2, <2>6 DEF CallInv, ReadsLatest
<1> QED BY <1>1, <1>2, <1>3, <1>4 DEF Next

LEMMA NextSlots == ASSUME SlotsInv, [Next]_vars PROVE SlotsInv'
<1>1. DrawInv'
  BY NextDraw DEF SlotsInv
<1>2. CASE ReadEntry \/ AppendVal \/ LeaveEntry \/ MissingEntry
  BY <1>1, <1>2, ReadSlots, AppendSlots, LeaveSlots, MissingSlots DEF SlotsInv
<1>3. CASE ~(ReadEntry \/ AppendVal \/ LeaveEntry \/ MissingEntry)
  <2>1. HistInv' /\ CallInv'
    BY <1>3, CallKept
  <2>2. SlotInv'
    <3>1. ASSUME UNCHANGED vars PROVE SlotInv'
      BY <3>1 DEF vars, SlotsInv, SlotInv, Arranged, Array, Stash, Written, Current
    <3> QED BY <1>3, <3>1, AccessSlots, AddSlots, JustSlots, LoadSlots, SkipSlots, EvictSlots,
            EndSlots
            DEF SlotsInv, Next
  <2> QED BY <1>1, <2>1, <2>2 DEF SlotsInv
<1> QED BY <1>2, <1>3

LEMMA SlotsInvariant == Spec => []SlotsInv
<1>1. Init => SlotsInv
  BY InitSlots, InitDraw DEF SlotsInv
<1>2. SlotsInv /\ [Next]_vars => SlotsInv'
  BY NextSlots
<1> QED BY <1>1, <1>2, PTL DEF Spec

(* A read collects through get_entry exactly what was written to the group, *)
(* whatever earlier states of its entry are left in empty slots: the writes *)
(* went to the one filled copy, wherever the shuffles and blocks took it.   *)
THEOREM ReadsCorrect == Spec => []ReadsLatest
<1>1. SlotsInv => ReadsLatest
  BY DEF SlotsInv, CallInv
<1> QED BY <1>1, SlotsInvariant, PTL

(* Every step on the array of slots is a step of Oram on the set with a     *)
(* last entry apart: what is proved of Oram's stash holds of the array.     *)
THEOREM SlotsImplementStash == Spec => StepsOfOram
<1>1. SlotsInv /\ [Next]_vars =>
        [ \/ O!LoadEntry \/ O!EvictEntry
          \/ O!ReadEntry \/ O!AppendVal \/ O!SkipFullEntry \/ O!PlaceNewEntry \/ O!MissingEntry
          \/ \E k \in Keys, v \in Vals : O!PutInStash(O!NewEntry(k, O!NewGroup(k), v))
          \/ UNCHANGED <<Stash, LastEntry, stash_num, Todo>>
          \/ pc' = "stray" ]_vars
  <2>1. SUFFICES ASSUME SlotsInv, Next
                 PROVE  \/ O!LoadEntry \/ O!EvictEntry
                        \/ O!ReadEntry \/ O!AppendVal \/ O!SkipFullEntry \/ O!PlaceNewEntry
                        \/ O!MissingEntry
                        \/ \E k \in Keys, v \in Vals : O!PutInStash(O!NewEntry(k, O!NewGroup(k), v))
                        \/ UNCHANGED <<Stash, LastEntry, stash_num, Todo>>
                        \/ pc' = "stray"
    OBVIOUS
  <2>2. SlotInv /\ DrawInv /\ HistInv
    BY <2>1 DEF SlotsInv
  <2>3. CASE ReadEntry \/ AppendVal \/ LeaveEntry \/ MissingEntry
    BY <2>1, <2>3, ReadSlots, AppendSlots, LeaveSlots, MissingSlots
  <2>4. CASE LoadEntry \/ SkipSlot \/ EvictSlot \/ EndAccess
    BY <2>2, <2>4, LoadSlots, SkipSlots, EvictSlots, EndSlots
  <2>5. ASSUME NEW c \in O!Op, NEW g \in DOMAIN bitmap[c.key], StartAccess(c, g)
        PROVE  UNCHANGED <<Stash, LastEntry, stash_num, Todo>>
    BY <2>2, <2>5, AccessSlots
  <2>6. ASSUME NEW k \in Keys, NEW v \in Vals, AddEntry(k, v)
        PROVE  O!PutInStash(O!NewEntry(k, O!NewGroup(k), v))
    BY <2>2, <2>6, AddSlots
  <2>7. ASSUME NEW k \in JustKeys, JustAddBitmap(k)
        PROVE  UNCHANGED <<Stash, LastEntry, stash_num, Todo>>
    BY <2>2, <2>7, JustSlots
  <2> QED BY <2>1, <2>3, <2>4, <2>5, <2>6, <2>7 DEF Next
<1> QED BY <1>1, SlotsInvariant, PTL DEF Spec, StepsOfOram
=============================================================================
