----------------------------- MODULE StashSlots -----------------------------
(***************************************************************************)
(* The stash of Enclave/crypto/oram.cpp as it is: an array of slots, some  *)
(* filled, that is searched from the front, shuffled by random swaps and   *)
(* emptied in order.  Oram takes it for a set with a last slot apart; the  *)
(* steps of this module are shown to be steps of Oram.  The tree does not  *)
(* grow here.                                                              *)
(*                                                                         *)
(* An empty slot keeps the entry that was in it, with the values it had    *)
(* then.  One access is one turn of the loop of read_val or write_val: a   *)
(* new entry or none, the entries of the path into the array, get_entry    *)
(* and the use of what it finds, shuffle, evict.  Which entries are on the *)
(* path is left open as far as Oram leaves it open.                        *)
(***************************************************************************)
EXTENDS Integers, Sequences, FiniteSets

CONSTANTS
  Keys, Vals, JustKeys, None, LEVELMAX,
  ENTRYMAXNUM, VALMAXNUM, STASHMAXSIZE, RETMAXNUM, HEAPBLOCKS, MaxPairs,
  INTBITS      \* width of int, and of what sgx_read_rand draws

(* LEVELMAX is the level of the tree, one for which the heap holds a path:  *)
(* Oram has the store die at any other.  The values of one entry fit in a  *)
(* reply.  The last line: the least int is a multiple of what leaves are   *)
(* drawn by.                                                               *)
ASSUME SlotsAssumption ==
  /\ JustKeys \subseteq Keys
  /\ STASHMAXSIZE \in Nat \ {0}
  /\ HEAPBLOCKS \in Nat /\ LEVELMAX + 1 < HEAPBLOCKS
  /\ VALMAXNUM \in Nat \ {0} /\ RETMAXNUM \in Nat /\ VALMAXNUM <= RETMAXNUM
  /\ LEVELMAX \in Nat \ {0} /\ 2^(LEVELMAX - 1) \in Nat \ {0} /\ 2^LEVELMAX = 2 * 2^(LEVELMAX - 1)
  /\ 2^(INTBITS - 1) \in Nat \ {0} /\ 2^(INTBITS - 1) % 2^(LEVELMAX - 1) = 0

VARIABLES
  pc, op, group, bitmap, flag,
  entries, entries_filled, stash_num, pair_number, success, ret_val,
  file,        \* the entries in blocks of the file
  record, write_back,
  i,           \* write_entries_to_path: the slot it considers next
  draws,       \* what rand() gave to a shuffle that left the array
  stored       \* history: the values that were written to each group

vars == <<pc, op, group, bitmap, flag, entries, entries_filled, stash_num, pair_number, success,
          ret_val, file, record, write_back, i, draws, stored>>

Slots == 0 .. STASHMAXSIZE - 1
Last == STASHMAXSIZE - 1
tree_level == LEVELMAX

Stash == {entries[s] : s \in {n \in Slots : entries_filled[n]}}
LastEntry == IF entries_filled[Last] THEN entries[Last] ELSE None
Todo == IF pc = "evict" THEN {entries[s] : s \in {n \in Slots : n >= i /\ entries_filled[n]}} ELSE {}

O == INSTANCE Oram WITH
  stash <- Stash, tail <- LastEntry, todo <- Todo, height <- tree_level,
  data <- <<>>, fresh <- {}, reply <- <<>>

(* An empty slot can be told from a filled one. *)
ASSUME NoneAssumption == None \notin O!Entry

-----------------------------------------------------------------------------
(***************************************************************************)
(* rand(): the draw is any int.  -ret does not change the least one, so    *)
(* the result is never negative but for that; and C's % takes the sign of  *)
(* its left operand.                                                       *)
(***************************************************************************)
LEAST == -(2^(INTBITS - 1))

Rand == 0 .. 2^(INTBITS - 1) - 1 \cup {LEAST}

Remainder(a, b) == IF a < 0 THEN -((-a) % b) ELSE a % b

(* Mutant: the leaf is drawn from twice as many. *)
new_flag_FromNodes(r) == Remainder(r, 2^tree_level) + 2^(tree_level - 1) + 1

new_flag(r) == Remainder(r, 2^(tree_level - 1)) + 2^(tree_level - 1) + 1

(* Mutant: the modulus is one too large. *)
new_idx_TooFar(r, n) == Remainder(r, STASHMAXSIZE - n + 1) + n

new_idx(r, n) == Remainder(r, STASHMAXSIZE - n) + n

Swapped(f, a, b) == [f EXCEPT ![a] = f[b], ![b] = f[a]]

swap_entries(array, a, b) ==
  IF ~array.filled[a] /\ ~array.filled[b] THEN array
  ELSE [entry |-> Swapped(array.entry, a, b), filled |-> Swapped(array.filled, a, b)]

Array == [entry |-> entries, filled |-> entries_filled]

(* An array after the swaps with the slots that were drawn. *)
Shuffled(array, rs) ==
  LET after[n \in 0 .. Last] ==
        IF n = 0 THEN array
        ELSE swap_entries(after[n - 1], n - 1, new_idx(rs[n - 1], n - 1))
  IN  after[Last]

-----------------------------------------------------------------------------
Init ==
  /\ pc = "idle"
  /\ op = None /\ group = 0 /\ success = FALSE /\ ret_val = <<>>
  /\ bitmap = [k \in Keys |-> <<>>]
  /\ flag = 2^tree_level
  /\ entries = [s \in Slots |-> None]
  /\ entries_filled = [s \in Slots |-> FALSE]
  /\ stash_num = 0 /\ pair_number = 0
  /\ file = {} /\ record = {}
  /\ write_back = [h \in O!Heights |-> {}]
  /\ i = 0
  /\ draws = <<>>
  /\ stored = [k \in Keys |-> <<>>]

Fill(s, e) ==
  /\ entries' = [entries EXCEPT ![s] = e]
  /\ entries_filled' = [entries_filled EXCEPT ![s] = TRUE]
  /\ stash_num' = stash_num + 1

LeafOf(e) == bitmap[e.key][e.group]

(* The path of a leaf is read: every entry in the file with this leaf, and *)
(* above the leaf level entries of others.                                 *)
ReadPath(leaf) ==
  /\ pc = "idle"
  /\ pc' = "read"
  /\ flag' = leaf
  /\ \E path \in SUBSET file :
       /\ \A e \in file : LeafOf(e) = leaf => e \in path
       /\ Cardinality(path) <= tree_level * ENTRYMAXNUM
       /\ Cardinality({e \in path : LeafOf(e) # leaf}) <= (tree_level - 1) * ENTRYMAXNUM
       /\ record' = path
       /\ file' = file \ path
  /\ ret_val' = <<>>
  /\ UNCHANGED <<write_back, i, draws>>

(* read_val and write_val come to a group of the key. *)
StartAccess(c, g) ==
  /\ g \in DOMAIN bitmap[c.key]
  /\ op' = c /\ group' = g /\ success' = FALSE
  /\ ReadPath(bitmap[c.key][g])
  /\ UNCHANGED <<bitmap, entries, entries_filled, stash_num, pair_number, stored>>

(* write_val: a new group, and its entry in the first slot that is free. *)
AddEntry(k, v) ==
  /\ Cardinality(O!FlagIds) < MaxPairs
  /\ op' = [type |-> "write", key |-> k, val |-> v]
  /\ group' = O!NewGroup(k)
  /\ \E s \in Slots :
       /\ ~entries_filled[s] /\ \A n \in 0 .. s - 1 : entries_filled[n]
       /\ Fill(s, O!NewEntry(k, O!NewGroup(k), v))
  /\ \E r \in Rand :
       /\ bitmap' = [bitmap EXCEPT ![k] = Append(@, new_flag(r))]
       /\ ReadPath(new_flag(r))
  /\ pair_number' = pair_number + 1
  /\ success' = TRUE
  /\ stored' = [stored EXCEPT ![k] = Append(@, <<v>>)]

(* just_add_bitmap: a leaf for a new group of the key, and no entry. *)
JustAddBitmap(k) ==
  /\ pc = "idle" /\ Cardinality(O!FlagIds) < MaxPairs
  /\ \E r \in Rand : bitmap' = [bitmap EXCEPT ![k] = Append(@, new_flag(r))]
  /\ stored' = [stored EXCEPT ![k] = Append(@, <<>>)]
  /\ UNCHANGED <<pc, op, group, flag, entries, entries_filled, stash_num, pair_number, success,
                 ret_val, file, record, write_back, i, draws>>

(* Mutant: num < STASHMAXSIZE - 1 is not tested first. *)
FirstFree_BeforeLast(s) ==
  /\ \A n \in 0 .. s - 1 : entries_filled[n] /\ n < Last - 1
  /\ ~entries_filled[s] \/ s = Last - 1

FirstFree(s) ==
  /\ \A n \in 0 .. s - 1 : entries_filled[n]
  /\ ~entries_filled[s] \/ s = Last

(* read_entries_on_path: the first slot that is free, or the last one. *)
LoadEntry ==
  /\ pc = "read"
  /\ \E e \in record, s \in Slots :
       /\ FirstFree(s)
       /\ Fill(s, e)
       /\ record' = record \ {e}
  /\ UNCHANGED <<pc, op, group, bitmap, flag, pair_number, success, ret_val, file, write_back, i,
                 draws, stored>>

(* Mutant: the flag of an empty slot is not looked at. *)
get_entry_AnySlot ==
  LET matches(s) == /\ entries[s] # None
                    /\ entries[s].key = op.key /\ entries[s].group = group
  IN  {s \in Slots : matches(s) /\ \A n \in 0 .. s - 1 : ~matches(n)}

(* The slot that get_entry stops at, if any. *)
get_entry ==
  LET matches(s) == entries_filled[s] /\ entries[s].key = op.key /\ entries[s].group = group
  IN  {s \in Slots : matches(s) /\ \A n \in 0 .. s - 1 : ~matches(n)}

(* The shuffle at the start of write_entries_to_path, of the array as given. *)
Shuffle(array) ==
  /\ \E rs \in [0 .. Last - 1 -> Rand] :
       IF \E n \in DOMAIN rs : new_idx(rs[n], n) \notin Slots
          THEN /\ pc' = "stray" /\ draws' = rs
               /\ entries' = array.entry /\ entries_filled' = array.filled
          ELSE /\ pc' = "evict" /\ draws' = <<>>
               /\ entries' = Shuffled(array, rs).entry
               /\ entries_filled' = Shuffled(array, rs).filled
  /\ write_back' = [h \in O!Heights |-> {}]
  /\ i' = 0
  /\ UNCHANGED <<op, group, flag, stash_num, pair_number, file, record>>

Loaded == pc = "read" /\ record = {}

Remap == \E r \in Rand : bitmap' = [bitmap EXCEPT ![op.key][group] = new_flag(r)]

ReadEntry ==
  /\ Loaded /\ op.type = "read"
  /\ \E s \in get_entry : ret_val' = ret_val \o entries[s].vals
  /\ Remap
  /\ Shuffle(Array)
  /\ UNCHANGED <<success, stored>>

(* The value goes where get_entry points to, in the array. *)
AppendVal ==
  /\ Loaded /\ op.type = "write" /\ ~success
  /\ \E s \in get_entry :
       /\ Len(entries[s].vals) < VALMAXNUM
       /\ Shuffle([Array EXCEPT !.entry[s].vals = Append(@, op.val)])
  /\ Remap
  /\ success' = TRUE
  /\ stored' = [stored EXCEPT ![op.key][group] = Append(@, op.val)]
  /\ UNCHANGED ret_val

(* The entry is full, or it is the new one. *)
LeaveEntry ==
  /\ Loaded /\ op.type = "write"
  /\ success \/ \E s \in get_entry : Len(entries[s].vals) >= VALMAXNUM
  /\ Shuffle(Array)
  /\ UNCHANGED <<bitmap, success, ret_val, stored>>

MissingEntry ==
  /\ Loaded /\ ~success /\ get_entry = {}
  /\ pc' = "null_entry"
  /\ UNCHANGED <<op, group, bitmap, flag, entries, entries_filled, stash_num, pair_number, success,
                 ret_val, file, record, write_back, i, draws, stored>>

evictUnchanged == <<op, group, bitmap, flag, entries, pair_number, success, ret_val, record, draws,
                    stored>>

SkipSlot ==
  /\ pc = "evict" /\ i \in Slots /\ (entries_filled[i] => O!Fits(entries[i]) = {})
  /\ i' = i + 1
  /\ UNCHANGED <<pc, entries_filled, stash_num, file, write_back, evictUnchanged>>

EvictSlot ==
  /\ pc = "evict" /\ i \in Slots /\ entries_filled[i]
  /\ \E h \in O!Fits(entries[i]) :
       /\ \A other \in O!Fits(entries[i]) : h <= other
       /\ write_back' = [write_back EXCEPT ![h] = @ \cup {entries[i]}]
  /\ entries_filled' = [entries_filled EXCEPT ![i] = FALSE]
  /\ stash_num' = stash_num - 1
  /\ i' = i + 1
  /\ UNCHANGED <<pc, file, evictUnchanged>>

(* The path's blocks are written. *)
EndAccess ==
  /\ pc = "evict" /\ i = STASHMAXSIZE
  /\ pc' = "idle"
  /\ file' = file \cup UNION {write_back[h] : h \in O!Heights}
  /\ write_back' = [h \in O!Heights |-> {}]
  /\ i' = 0
  /\ UNCHANGED <<entries_filled, stash_num, evictUnchanged>>

Next ==
  \/ \E c \in O!Op : \E g \in DOMAIN bitmap[c.key] : StartAccess(c, g)
  \/ \E k \in Keys, v \in Vals : AddEntry(k, v)
  \/ \E k \in JustKeys : JustAddBitmap(k)
  \/ LoadEntry \/ ReadEntry \/ AppendVal \/ LeaveEntry \/ MissingEntry
  \/ SkipSlot \/ EvictSlot \/ EndAccess

Spec == Init /\ [][Next]_vars

-----------------------------------------------------------------------------
(***************************************************************************)
(* Every step on the slots is one that Oram allows for its set: loading    *)
(* overwrites exactly the entry of the last slot and exactly when the rest *)
(* is full; get_entry finds what is there and its caller changes that and  *)
(* nothing else; the shuffle may leave any entry last; and the loop over   *)
(* the slots passes no entry by that still fits.  The steps in between     *)
(* leave the stash alone: a group without an entry, the path is chosen, a  *)
(* slot is empty, the blocks are in the file.  And a shuffle may leave the *)
(* array.                                                                  *)
(***************************************************************************)
StepsOfOram ==
  [][ \/ O!LoadEntry \/ O!EvictEntry
      \/ O!ReadEntry \/ O!AppendVal \/ O!SkipFullEntry \/ O!PlaceNewEntry \/ O!MissingEntry
      \/ \E k \in Keys, v \in Vals : O!PutInStash(O!NewEntry(k, O!NewGroup(k), v))
      \/ UNCHANGED <<Stash, LastEntry, stash_num, Todo>>
      \/ pc' = "stray" ]_vars

(* What a read gets from get_entry is all that was ever written to the     *)
(* group, in order, though slots that are free still hold earlier states   *)
(* of its entry and writes go to one copy only.                            *)
ReadsLatest == pc = "evict" /\ op.type = "read" => ret_val = stored[op.key][group]

(* The shuffle leaves the array only if rand() gave the least int, the one *)
(* value that its sign change does not make positive.                      *)
StrayOnlyForLeast == pc = "stray" => \E n \in DOMAIN draws : draws[n] = LEAST

(* The same value is no harm where a leaf is drawn. *)
LeavesDrawn ==
  /\ flag \in O!Leaves(tree_level)
  /\ \A k \in Keys : \A g \in DOMAIN bitmap[k] : bitmap[k][g] \in O!Leaves(tree_level)

=============================================================================
