----------------------------- MODULE DataStack ------------------------------
(***************************************************************************)
(* Enclave/api/data_struct.cpp: the stash of the store's redesign.  A      *)
(* DataStack keeps entries in a vector, and write_back_entries moves each  *)
(* to the lowest block of a path that lies on the entry's own path.  The   *)
(* tree is numbered as in OramTree; a fit is found by walking towards the  *)
(* root instead of comparing ranges.  The class stops short of writing the *)
(* blocks: they are dropped when write_back_entries returns.               *)
(***************************************************************************)
EXTENDS OramTree, SequencesExt, FiniteSets

CONSTANTS
  Entries,        \* entries that data_bitmap has a path for
  Nowhere,        \* an entry it has none for: one that is not valid
  LEVEL,          \* levels of the tree the paths are in
  TreeLevels,     \* what DataTable's tree_level, never set, can hold
  StartCounts,    \* what raw_DataBlock's entries_num, never set, can hold
  EntryNum,       \* entries that read_entries takes from a block
  MaxEntries,     \* entries_per_block
  MaxStack        \* bound: no block is read into a longer stack

ASSUME StackAssumption ==
  /\ LEVEL \in Levels /\ TreeLevels \subseteq Nat
  /\ StartCounts \subseteq Int /\ EntryNum \in Nat
  /\ MaxEntries \in Nat \ {0} /\ MaxStack \in Nat
  /\ Nowhere \notin Entries

VARIABLES
  pc, stack,
  tree_level,     \* of this DataStack
  entry_path,     \* data_bitmap
  path,           \* the argument of write_back_entries
  it,             \* its iterator
  block,          \* the entries of write_back_blocks, by height
  entries_num,    \* their counts
  refused         \* entries that an add_entry did not take

vars == <<pc, stack, tree_level, entry_path, path, it, block, entries_num, refused>>

Heights == 0 .. tree_level - 1

Init ==
  /\ pc = "idle" /\ stack = <<>>
  /\ tree_level \in TreeLevels
  /\ entry_path \in [Entries -> Leaves(LEVEL)]
  /\ path = 0 /\ it = 1
  /\ block = <<>> /\ entries_num = <<>> /\ refused = {}

-----------------------------------------------------------------------------
(* Mutant: the parent in a tree with its root at node 1. *)
get_pos_parent_Root1(pos) == pos \div 2

get_pos_parent(pos) == IF pos % 2 = 1 THEN (pos + 1) \div 2 ELSE pos \div 2

(* block_pos after i steps of the loop. *)
BlockPos(i) == LET pos[j \in Nat] == IF j = 0 THEN path ELSE get_pos_parent(pos[j - 1])
               IN  pos[i]

is_pos_fit_entry_path(from, target) ==
  LET up[pos \in Nat] == IF pos > target THEN up[get_pos_parent(pos)] ELSE pos
  IN  up[from] = target

add_entry(e) ==
  /\ pc = "idle"
  /\ e \notin Range(stack)
  /\ stack' = Append(stack, e)
  /\ UNCHANGED <<pc, tree_level, entry_path, path, it, block, entries_num, refused>>

(* The entries of one block, those that are not valid among them. *)
read_entries ==
  /\ pc = "idle" /\ Len(stack) + EntryNum <= MaxStack
  /\ \E read \in [1 .. EntryNum -> Entries \cup {Nowhere}] :
       /\ \A n, m \in 1 .. EntryNum : read[n] = read[m] => n = m \/ read[n] = Nowhere
       /\ Range(read) \cap Range(stack) \subseteq {Nowhere}
       /\ stack' = stack \o read
  /\ UNCHANGED <<pc, tree_level, entry_path, path, it, block, entries_num, refused>>

(* reorder_entries leaves any order; then the new blocks. *)
write_back_entries(to) ==
  /\ pc = "idle" /\ stack # <<>>
  /\ pc' = "evict" /\ path' = to /\ it' = 1
  /\ \E p \in [DOMAIN stack -> DOMAIN stack] :
       /\ Range(p) = DOMAIN stack
       /\ stack' = [n \in DOMAIN stack |-> stack[p[n]]]
  /\ block' = [h \in Heights |-> {}]
  /\ entries_num' \in [Heights -> StartCounts]
  /\ refused' = {}
  /\ UNCHANGED <<tree_level, entry_path>>

Fits(e) == {h \in Heights : is_pos_fit_entry_path(entry_path[e], BlockPos(h))}

(* Mutant: a count that may go one too far. *)
is_not_full_Inclusive(h) == entries_num[h] <= MaxEntries

is_not_full(h) == entries_num[h] < MaxEntries

(* raw_DataBlock's add_entry, its result not looked at. *)
add_to_block(e, h) ==
  IF is_not_full(h)
  THEN /\ block' = [block EXCEPT ![h] = @ \cup {e}]
       /\ entries_num' = [entries_num EXCEPT ![h] = @ + 1]
       /\ UNCHANGED refused
  ELSE refused' = refused \cup {e} /\ UNCHANGED <<block, entries_num>>

(* Mutant: the iterator moves on from the entry that erase returned. *)
EraseEntry_ThenAdvance(e) ==
  /\ \E h \in Fits(e) : (\A other \in Fits(e) : h <= other) /\ add_to_block(e, h)
  /\ stack' = RemoveAt(stack, it)
  /\ it' = it + 1

EraseEntry(e) ==
  /\ \E h \in Fits(e) : (\A other \in Fits(e) : h <= other) /\ add_to_block(e, h)
  /\ stack' = RemoveAt(stack, it)
  /\ it' = it

KeepEntry(e) ==
  /\ Fits(e) = {}
  /\ it' = it + 1
  /\ UNCHANGED <<stack, block, entries_num, refused>>

EvictEntry ==
  /\ pc = "evict" /\ it <= Len(stack)
  /\ stack[it] # Nowhere
  /\ EraseEntry(stack[it]) \/ KeepEntry(stack[it])
  /\ UNCHANGED <<pc, tree_level, entry_path, path>>

(* get_entry_path indexes a vector that is empty. *)
NoPath ==
  /\ pc = "evict" /\ it <= Len(stack)
  /\ stack[it] = Nowhere
  /\ pc' = "bad_index"
  /\ UNCHANGED <<stack, tree_level, entry_path, path, it, block, entries_num, refused>>

Return ==
  /\ pc = "evict" /\ it > Len(stack)
  /\ pc' = "returned"
  /\ UNCHANGED <<stack, tree_level, entry_path, path, it, block, entries_num, refused>>

(* The caller goes on, with what the stack has left. *)
Continue ==
  /\ pc = "returned"
  /\ pc' = "idle"
  /\ path' = 0 /\ it' = 1 /\ block' = <<>> /\ entries_num' = <<>> /\ refused' = {}
  /\ UNCHANGED <<stack, tree_level, entry_path>>

Next ==
  \/ \E e \in Entries : add_entry(e)
  \/ read_entries
  \/ \E to \in Leaves(LEVEL) : write_back_entries(to)
  \/ EvictEntry \/ NoPath \/ Return \/ Continue

Spec == Init /\ [][Next]_vars

-----------------------------------------------------------------------------
(***************************************************************************)
(*                              Properties                                 *)
(***************************************************************************)

Placed == UNION {block[h] : h \in DOMAIN block}

(* The blocks of this path that lie on the entry's own, by the test of     *)
(* ranges that oram.cpp uses.                                              *)
CoveringHeights(e) == {h \in Heights : h < LEVEL /\ Covers(BlockPos(h), h, entry_path[e])}

(* An entry goes to the deepest block that its path and the written one    *)
(* share, whatever tree_level holds: the walk to the root agrees with the  *)
(* comparison of ranges of the present store.                              *)
PlacedDeepest ==
  \A h \in DOMAIN block : \A e \in block[h] :
    /\ h \in CoveringHeights(e)
    /\ \A other \in CoveringHeights(e) : h <= other

(* The vector is gone through once though it shrinks on the way: what is   *)
(* left in it at the end has no block on its path.                         *)
LeftOnlyIfNoBlock ==
  pc = "returned" => \A n \in DOMAIN stack : CoveringHeights(stack[n]) = {}

(* An entry is dropped only when the count of its block has reached the    *)
(* limit; a count goes along with its block from whatever it started at    *)
(* and is never raised past the limit; no entry is in two places.          *)
DroppedOnlyIfFull ==
  /\ \A e \in refused : \E h \in CoveringHeights(e) :
       /\ \A other \in CoveringHeights(e) : h <= other
       /\ entries_num[h] >= MaxEntries
  /\ \A h \in DOMAIN block :
       /\ entries_num[h] - Cardinality(block[h]) \in StartCounts
       /\ block[h] # {} => entries_num[h] <= MaxEntries
  /\ refused \cap Placed = {} /\ (refused \cup Placed) \cap Range(stack) = {}
=============================================================================
