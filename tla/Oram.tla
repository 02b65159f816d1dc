-------------------------------- MODULE Oram --------------------------------
(***************************************************************************)
(* The key-value store that Enclave/crypto/oram.cpp keeps in a file as a   *)
(* Path ORAM: read_val, write_val and just_add_bitmap, the loops they are  *)
(* made of, oram_init and resize, for one thread in the enclave.           *)
(*                                                                         *)
(* A key owns one or more entries, its groups; an entry holds at most      *)
(* VALMAXNUM values.  bitmap assigns a leaf to every group.  An access     *)
(* loads every block between that leaf and the root into the stash, uses   *)
(* the entry, and writes the stash back to the same path as deep as the    *)
(* leaves of the entries allow.                                            *)
(*                                                                         *)
(* The stash array is modelled as the set of its filled entries plus the   *)
(* occupant of its last slot (tail): write_entries_to_path shuffles the    *)
(* array, so an entry's slot is arbitrary, and the last slot is the only   *)
(* one the code treats apart.  Groups count from 1 here and from 0 there.  *)
(***************************************************************************)
EXTENDS OramTree, Sequences, FiniteSets

CONSTANTS
  Keys, Vals,       \* keys of KEYSIZE bytes, values of VALSIZE bytes
  JustKeys,         \* the keys the application passes to handle_just
  None,             \* no call in progress; an empty last slot
  ENTRYMAXNUM,      \* entries in a block
  VALMAXNUM,        \* values in an entry
  STASHMAXSIZE,     \* slots in the stash
  RETMAXNUM,        \* values that fit in ret_val (BLOCKMAXSIZE / VALSIZE)
  HEAPBLOCKS,       \* enclave heap (HeapMaxSize) in units of BLOCKMAXSIZE
  MaxPairs          \* bound of the model: groups ever created

ASSUME SizeAssumption ==
  /\ ENTRYMAXNUM \in Nat \ {0}
  /\ VALMAXNUM \in Nat \ {0}
  /\ STASHMAXSIZE \in Nat \ {0}
  /\ RETMAXNUM \in Nat
  /\ HEAPBLOCKS \in Nat
  /\ MaxPairs \in Nat
  /\ JustKeys \subseteq Keys

VARIABLES
  pc,               \* where the enclave's thread is
  tree_level, pair_number, bitmap,
  stash,            \* the entries of the filled stash slots
  stash_num,        \* the code's own count of them
  tail,             \* the entry in slot STASHMAXSIZE - 1, or None
  data,             \* data.db: the entries in each block
  fresh,            \* the blocks last written under the present oram_aes_key
  op,               \* the call in progress
  group,            \* its loop variable i
  flag,             \* the leaf of the path being accessed
  height,           \* blocks of that path read so far
  record,           \* entries of the last block read, not yet in the stash
  todo,             \* stash entries the write-back has not considered yet
  write_back,       \* the new contents of the path, by height
  success, ret_val,
  reply             \* what the last read_val returned to its caller

treeVars == <<tree_level, pair_number, bitmap>>
stashVars == <<stash, stash_num, tail>>
fileVars == <<data, fresh>>
callVars == <<op, group, success, ret_val, reply>>
pathVars == <<flag, height, record>>
evictVars == <<todo, write_back>>
vars == <<pc, treeVars, stashVars, fileVars, callVars, pathVars, evictVars>>

Entry == [key : Keys, group : Nat \ {0}, vals : Seq(Vals)]
Op == [type : {"read"}, key : Keys] \cup [type : {"write"}, key : Keys, val : Vals]

(* An empty slot can be told from a filled one: entries_filled is 0 there.  *)
(* No call in progress can be told from any call.                          *)
ASSUME NoneAssumption == None \notin Entry /\ None \notin Op

Offsets == FileOffsets(LEVELMAX)
Heights == 0 .. LEVELMAX - 1

(***************************************************************************)
(* The ways the thread can die: it uses the NULL that get_entry returned,  *)
(* overruns ret_val, uses the NULL that malloc returned, decrypts a block  *)
(* that was not written under its key, or outgrows the data file: beyond   *)
(* LEVELMAX the position of a block overflows and the file's blocks alias. *)
(***************************************************************************)
Faults == {"null_entry", "overrun", "no_heap", "garbage", "alias"}

TreeTypes ==
  /\ tree_level \in Levels
  /\ pair_number \in Nat
  /\ bitmap \in [Keys -> Seq(Int)]

StashTypes ==
  /\ stash \in SUBSET Entry
  /\ stash_num \in Int
  /\ tail \in Entry \cup {None}

FileTypes ==
  /\ data \in [Offsets -> SUBSET Entry]
  /\ fresh \in SUBSET Offsets

CallTypes ==
  /\ op \in Op \cup {None}
  /\ group \in Nat
  /\ success \in BOOLEAN
  /\ ret_val \in Seq(Vals)
  /\ reply \in Seq(Vals)

PathTypes ==
  /\ flag \in Int
  /\ height \in Nat
  /\ record \in SUBSET Entry

EvictTypes ==
  /\ todo \in SUBSET Entry
  /\ write_back \in [Heights -> SUBSET Entry]

TypeOK ==
  /\ pc \in {"created", "idle", "loop", "read", "evict"} \cup Faults
  /\ TreeTypes /\ StashTypes /\ FileTypes /\ CallTypes /\ PathTypes /\ EvictTypes

-----------------------------------------------------------------------------
(* The enclave's globals when it is loaded, and the locals of no call.     *)

Init ==
  /\ pc = "created"
  /\ tree_level = 2
  /\ pair_number = 0
  /\ bitmap = [k \in Keys |-> <<>>]
  /\ stash = {} /\ stash_num = 0 /\ tail = None
  /\ data = [o \in Offsets |-> {}]
  /\ fresh = {}
  /\ op = None /\ group = 0 /\ success = FALSE /\ ret_val = <<>> /\ reply = <<>>
  /\ flag = 0 /\ height = 0 /\ record = {}
  /\ todo = {} /\ write_back = [h \in Heights |-> {}]

(* Write null_data to every block of a set. *)
NullBlocks(blocks, file) == [o \in Offsets |-> IF o \in blocks THEN {} ELSE file[o]]

(***************************************************************************)
(* oram_init, from ecall_handler_init: a new key, and every block of the   *)
(* tree empty under it.                                                    *)
(***************************************************************************)
OramInit ==
  /\ pc = "created"
  /\ pc' = "idle"
  /\ data' = NullBlocks(FileOffsets(tree_level), data)
  /\ fresh' = FileOffsets(tree_level)
  /\ UNCHANGED <<treeVars, stashVars, callVars, pathVars, evictVars>>

(***************************************************************************)
(* The application ends, or the enclave is lost, at any point, and the     *)
(* program is run again: memory starts afresh and the file stays, but the  *)
(* next oram_init draws a new key.  What the old blocks hold is noise then *)
(* (fresh = {}), so it is forgotten here.                                  *)
(***************************************************************************)
Restart ==
  /\ pc # "created"
  /\ pc' = "created"
  /\ tree_level' = 2 /\ pair_number' = 0 /\ bitmap' = [k \in Keys |-> <<>>]
  /\ stash' = {} /\ stash_num' = 0 /\ tail' = None
  /\ data' = [o \in Offsets |-> {}] /\ fresh' = {}
  /\ op' = None /\ group' = 0 /\ success' = FALSE /\ ret_val' = <<>> /\ reply' = <<>>
  /\ flag' = 0 /\ height' = 0 /\ record' = {}
  /\ todo' = {} /\ write_back' = [h \in Heights |-> {}]

-----------------------------------------------------------------------------
(* The calls.                                                              *)

(***************************************************************************)
(* The entries that exist: those of the blocks an access has read, and not *)
(* yet written, are in the stash, in record or in write_back by then.      *)
(***************************************************************************)
Consumed == {Offset(NodeAt(flag, h)) : h \in 0 .. height - 1}

Resting == FileOffsets(tree_level) \ Consumed

Live == stash \cup record \cup (UNION {write_back[h] : h \in Heights})
          \cup (UNION {data[o] : o \in Resting})

FlagIds == UNION {{k} \X (1 .. Len(bitmap[k])) : k \in Keys}     \* all groups

(* The model's bound on writes: no new group once there are MaxPairs. *)
HasRoom(k) == \E e \in Live : e.key = k /\ Len(e.vals) < VALMAXNUM

Call(c) ==
  /\ pc = "idle"
  /\ pc' = "loop"
  /\ op' = c
  /\ group' = 1
  /\ success' = FALSE
  /\ ret_val' = <<>>
  /\ reply' = <<>>
  /\ UNCHANGED <<treeVars, stashVars, fileVars, pathVars, evictVars>>

ReadVal(k) == Call([type |-> "read", key |-> k])

WriteVal(k, v) ==
  /\ Cardinality(FlagIds) < MaxPairs \/ HasRoom(k)
  /\ Call([type |-> "write", key |-> k, val |-> v])

(***************************************************************************)
(* just_add_bitmap: a leaf for a new group of the key, and no entry.       *)
(***************************************************************************)
JustAddBitmap(k) ==
  /\ pc = "idle"
  /\ Cardinality(FlagIds) < MaxPairs
  /\ \E new_flag \in Leaves(tree_level) : bitmap' = [bitmap EXCEPT ![k] = Append(@, new_flag)]
  /\ UNCHANGED <<pc, tree_level, pair_number, stashVars, fileVars, callVars, pathVars, evictVars>>

(* Mutant: the loop stops before the last group. *)
MoreGroups_LastSkipped == ~success /\ group < Len(bitmap[op.key])

(* The loop over the groups of the key is not over. *)
MoreGroups == ~success /\ group <= Len(bitmap[op.key])

ReadPath(leaf) ==
  /\ pc' = "read"
  /\ flag' = leaf
  /\ height' = 0
  /\ record' = {}

StartAccess ==
  /\ pc = "loop" /\ MoreGroups
  /\ ReadPath(bitmap[op.key][group])
  /\ UNCHANGED <<treeVars, stashVars, fileVars, callVars, evictVars>>

EndCall(answer) ==
  /\ pc' = "idle"
  /\ op' = None /\ group' = 0 /\ success' = FALSE /\ ret_val' = <<>>
  /\ reply' = answer

ReturnRead ==
  /\ pc = "loop" /\ op.type = "read" /\ ~MoreGroups
  /\ EndCall(ret_val)
  /\ UNCHANGED <<treeVars, stashVars, fileVars, pathVars, evictVars>>

ReturnWrite ==
  /\ pc = "loop" /\ op.type = "write" /\ success
  /\ EndCall(<<>>)
  /\ UNCHANGED <<treeVars, stashVars, fileVars, pathVars, evictVars>>

(***************************************************************************)
(* No entry of the key had room: write_val appends a group to bitmap and,  *)
(* if the stash has a free slot, puts a new entry there and accesses the   *)
(* path of its leaf.  With the stash full it prints "error" and returns 0, *)
(* which handle_write_val drops; the group stays in bitmap.                *)
(***************************************************************************)
StashFull == Cardinality(stash) = STASHMAXSIZE

OnlyTailFree == tail = None /\ Cardinality(stash) = STASHMAXSIZE - 1

PutInStash(e) ==
  /\ stash' = stash \cup {e}
  /\ tail' = IF OnlyTailFree THEN e ELSE tail
  /\ stash_num' = stash_num + 1
  /\ pair_number' = pair_number + 1
  /\ success' = TRUE

NewEntry(k, i, v) == [key |-> k, group |-> i, vals |-> <<v>>]

(* Mutant: the size of the groups is read before the push_back. *)
NewGroup_TooEarly(k) == Len(bitmap[k])

NewGroup(k) == Len(bitmap[k]) + 1

AddEntry ==
  /\ pc = "loop" /\ op.type = "write" /\ ~success /\ ~MoreGroups
  /\ \E new_flag \in Leaves(tree_level) :
       /\ bitmap' = [bitmap EXCEPT ![op.key] = Append(@, new_flag)]
       /\ IF StashFull
          THEN /\ EndCall(<<>>)
               /\ UNCHANGED <<pair_number, stashVars, pathVars>>
          ELSE /\ PutInStash(NewEntry(op.key, NewGroup(op.key), op.val))
               /\ ReadPath(new_flag)
               /\ UNCHANGED <<op, group, ret_val, reply>>
  /\ UNCHANGED <<tree_level, fileVars, evictVars>>

-----------------------------------------------------------------------------
(* read_entries_on_path: block by block from the leaf to the root.         *)

(* Mutant: the loop leaves before the root. *)
PathRead_WithoutRoot == height > 0 /\ NodeAt(flag, height - 1) <= 4

PathRead == height > 0 /\ NodeAt(flag, height - 1) <= 2

ReadBlock ==
  /\ pc = "read" /\ record = {} /\ ~PathRead
  /\ LET o == Offset(NodeAt(flag, height))
     IN  IF o \in fresh
         THEN pc' = pc /\ record' = data[o]
         ELSE pc' = "garbage" /\ record' = record
  /\ height' = height + 1
  /\ UNCHANGED <<treeVars, stashVars, fileVars, callVars, flag, evictVars>>

(***************************************************************************)
(* One entry of the block goes to the first free slot.  The search for one *)
(* stops at the last slot, free or not, and overwrites what is there.      *)
(***************************************************************************)
LastSlotReached ==
  Cardinality(stash) >= (IF tail = None THEN STASHMAXSIZE - 1 ELSE STASHMAXSIZE)

(* Mutant: an overwritten slot is not counted again. *)
FillSlot_CountsSlots(e) ==
  /\ IF LastSlotReached
     THEN stash' = (stash \ {tail}) \cup {e} /\ tail' = e
     ELSE stash' = stash \cup {e} /\ tail' = tail
  /\ stash_num' = Cardinality(stash')

FillSlot(e) ==
  /\ IF LastSlotReached
     THEN stash' = (stash \ {tail}) \cup {e} /\ tail' = e
     ELSE stash' = stash \cup {e} /\ tail' = tail
  /\ stash_num' = stash_num + 1

LoadEntry ==
  /\ pc = "read"
  /\ \E e \in record : record' = record \ {e} /\ FillSlot(e)
  /\ UNCHANGED <<pc, treeVars, fileVars, callVars, flag, height, evictVars>>

-----------------------------------------------------------------------------
(* The use of the entry once its path is in the stash.                     *)

Accessing == pc = "read" /\ record = {} /\ PathRead

Found == {e \in stash : e.key = op.key /\ e.group = group}     \* get_entry

(***************************************************************************)
(* The start of write_entries_to_path with the stash as given: the shuffle *)
(* leaves any entry, or none, in the last slot; then the path's new blocks *)
(* are allocated.  handle_read_val holds a buffer of one block meanwhile.  *)
(***************************************************************************)
BeginWriteBack(entries) ==
  /\ stash' = entries
  /\ tail' \in entries \cup (IF Cardinality(entries) < STASHMAXSIZE THEN {None} ELSE {})
  /\ todo' = entries
  /\ write_back' = [h \in Heights |-> {}]
  /\ LET held == IF op.type = "read" THEN 1 ELSE 0
     IN  pc' = IF held + tree_level < HEAPBLOCKS THEN "evict" ELSE "no_heap"
  /\ UNCHANGED <<tree_level, pair_number, stash_num, fileVars, op, group, reply, pathVars>>

Remap == \E new_flag \in Leaves(tree_level) :
           bitmap' = [bitmap EXCEPT ![op.key][group] = new_flag]

(* read_val: collect the values of the entry and give it another leaf. *)
ReadEntry ==
  /\ Accessing /\ op.type = "read"
  /\ \E e \in Found :
       /\ Len(ret_val) + Len(e.vals) <= RETMAXNUM
       /\ ret_val' = ret_val \o e.vals
  /\ Remap
  /\ BeginWriteBack(stash)
  /\ UNCHANGED success

(* Mutant: val_num is not incremented. *)
WithVal_Overwritten(e) == [e EXCEPT !.vals = [@ EXCEPT ![Len(@)] = op.val]]

WithVal(e) == [e EXCEPT !.vals = Append(@, op.val)]

(* write_val: the entry has room for the value. *)
AppendVal ==
  /\ Accessing /\ op.type = "write" /\ ~success
  /\ \E e \in Found :
       /\ Len(e.vals) < VALMAXNUM
       /\ BeginWriteBack((stash \ {e}) \cup {WithVal(e)})
  /\ Remap
  /\ success' = TRUE
  /\ UNCHANGED ret_val

(* write_val: the entry is full; it keeps its leaf. *)
SkipFullEntry ==
  /\ Accessing /\ op.type = "write" /\ ~success
  /\ \E e \in Found : Len(e.vals) >= VALMAXNUM
  /\ BeginWriteBack(stash)
  /\ UNCHANGED <<bitmap, success, ret_val>>

(* write_val: the path of an entry that AddEntry has just put in the stash. *)
PlaceNewEntry ==
  /\ Accessing /\ op.type = "write" /\ success
  /\ BeginWriteBack(stash)
  /\ UNCHANGED <<bitmap, success, ret_val>>

Die(fault) ==
  /\ pc' = fault
  /\ UNCHANGED <<treeVars, stashVars, fileVars, callVars, pathVars, evictVars>>

MissingEntry == Accessing /\ ~success /\ Found = {} /\ Die("null_entry")

OverrunReply ==
  /\ Accessing /\ op.type = "read"
  /\ \E e \in Found : Len(ret_val) + Len(e.vals) > RETMAXNUM
  /\ Die("overrun")

-----------------------------------------------------------------------------
(***************************************************************************)
(* write_entries_to_path: the entries in the order of the shuffled array,  *)
(* so any order in which the last slot's comes last.  An entry goes to the *)
(* lowest block of the path that covers its leaf and is not full, or stays *)
(* in the stash.                                                           *)
(***************************************************************************)
(* Mutant: a block is taken for full one entry too early. *)
Fits_OneShort(e) == {h \in 0 .. tree_level - 1 :
                       /\ Covers(NodeAt(flag, h), h, bitmap[e.key][e.group])
                       /\ Cardinality(write_back[h]) < ENTRYMAXNUM - 1}

Fits(e) == {h \in 0 .. tree_level - 1 :
              /\ Covers(NodeAt(flag, h), h, bitmap[e.key][e.group])
              /\ Cardinality(write_back[h]) < ENTRYMAXNUM}

(* Mutant: entries_filled is not cleared. *)
MoveToBlock_SlotKept(e, h) ==
  /\ write_back' = [write_back EXCEPT ![h] = @ \cup {e}]
  /\ stash_num' = stash_num - 1
  /\ UNCHANGED <<stash, tail>>

MoveToBlock(e, h) ==
  /\ write_back' = [write_back EXCEPT ![h] = @ \cup {e}]
  /\ stash' = stash \ {e}
  /\ stash_num' = stash_num - 1
  /\ tail' = IF e = tail THEN None ELSE tail

EvictEntry ==
  /\ pc = "evict"
  /\ \E e \in todo :
       /\ e = tail => todo = {tail}
       /\ todo' = todo \ {e}
       /\ \/ /\ Fits(e) = {}
             /\ UNCHANGED <<stashVars, write_back>>
          \/ \E h \in Fits(e) :
               /\ \A other \in Fits(e) : h <= other
               /\ MoveToBlock(e, h)
  /\ UNCHANGED <<pc, treeVars, fileVars, callVars, pathVars>>

(* The last test of write_entries_to_path. *)
PairLimit(level) == (ENTRYMAXNUM * (2^level - 1)) \div 2

(* Mutant: the tree does not grow for a full stash. *)
MustResize_PairsOnly == pair_number > PairLimit(tree_level)

(* Mutant: the tree does not grow for the pairs. *)
MustResize_StashOnly == stash_num + tree_level * ENTRYMAXNUM >= STASHMAXSIZE

MustResize ==
  \/ stash_num + tree_level * ENTRYMAXNUM >= STASHMAXSIZE
  \/ pair_number > PairLimit(tree_level)

PathOffsets == {Offset(NodeAt(flag, h)) : h \in 0 .. tree_level - 1}

FlushedFile ==
  [o \in Offsets |->
     IF o \in PathOffsets
     THEN write_back[CHOOSE h \in 0 .. tree_level - 1 : o = Offset(NodeAt(flag, h))]
     ELSE data[o]]

(* The blocks that resize appends for the new leaves of a grown tree. *)
NewBlocks(level) == 2^(level - 1) - 1 .. 2^level - 2

(* Mutant: the loop over the groups does not advance. *)
EndAccess_SameGroup ==
  /\ flag' = 0 /\ height' = 0 /\ record' = {}
  /\ todo' = {} /\ write_back' = [h \in Heights |-> {}]
  /\ group' = group

EndAccess ==
  /\ flag' = 0 /\ height' = 0 /\ record' = {}
  /\ todo' = {} /\ write_back' = [h \in Heights |-> {}]
  /\ group' = group + 1

(* The path's blocks are written, the tree is large enough, and the loop    *)
(* over the groups goes on.                                                *)
WriteBack ==
  /\ pc = "evict" /\ todo = {} /\ ~MustResize
  /\ pc' = "loop"
  /\ data' = FlushedFile
  /\ fresh' = fresh \cup PathOffsets
  /\ EndAccess
  /\ UNCHANGED <<treeVars, stashVars, op, success, ret_val, reply>>

(* The same, and then resize: one more level, every flag moved to a child   *)
(* of its node, the new leaves' blocks empty.                              *)
WriteBackAndResize ==
  /\ pc = "evict" /\ todo = {} /\ MustResize
  /\ tree_level < LEVELMAX
  /\ pc' = "loop"
  /\ tree_level' = tree_level + 1
  /\ \E bit \in [FlagIds -> 0 .. 1] :
       bitmap' = [k \in Keys |-> [i \in 1 .. Len(bitmap[k]) |->
                    AdjustEntryFlag(bitmap[k][i], tree_level + 1, bit[<<k, i>>])]]
  /\ data' = NullBlocks(NewBlocks(tree_level + 1), FlushedFile)
  /\ fresh' = fresh \cup PathOffsets \cup NewBlocks(tree_level + 1)
  /\ EndAccess
  /\ UNCHANGED <<pair_number, stashVars, op, success, ret_val, reply>>

(* The same when the grown tree would have blocks the file cannot address.  *)
ResizeOverflows ==
  /\ pc = "evict" /\ todo = {} /\ MustResize
  /\ tree_level = LEVELMAX
  /\ pc' = "alias"
  /\ data' = FlushedFile
  /\ fresh' = fresh \cup PathOffsets
  /\ EndAccess
  /\ UNCHANGED <<treeVars, stashVars, op, success, ret_val, reply>>

-----------------------------------------------------------------------------
Access ==
  \/ StartAccess \/ ReadBlock \/ LoadEntry
  \/ ReadEntry \/ AppendVal \/ SkipFullEntry \/ PlaceNewEntry
  \/ EvictEntry \/ WriteBack \/ WriteBackAndResize
  \/ AddEntry
  \/ ReturnRead \/ ReturnWrite
  \/ MissingEntry \/ OverrunReply \/ ResizeOverflows

Next ==
  \/ OramInit
  \/ \E k \in Keys : ReadVal(k)
  \/ \E k \in Keys, v \in Vals : WriteVal(k, v)
  \/ \E k \in JustKeys : JustAddBitmap(k)
  \/ Access
  \/ Restart

Spec == Init /\ [][Next]_vars

(* The enclave's thread runs whatever the application does. *)
FairSpec == Spec /\ WF_vars(Access)

-----------------------------------------------------------------------------
(***************************************************************************)
(*                              Properties                                 *)
(***************************************************************************)

(* The entries that slot STASHMAXSIZE - 1 lost to a later one: stash_num   *)
(* still counts them.                                                      *)
Overwritten == stash_num - Cardinality(stash)

SameEntry(e, f) == e.key = f.key /\ e.group = f.group

(* Every entry write_val ever created is in exactly one place, through all *)
(* the copying between file, stash and write_back, unless the search for a *)
(* free slot in read_entries_on_path overwrote it; and stash_num and       *)
(* pair_number, the counters resize is decided by, agree on how many.      *)
EntryConservation ==
  /\ pair_number = Cardinality(Live) + Overwritten
  /\ Overwritten >= 0
  /\ \A e, f \in Live : SameEntry(e, f) => e = f

(* The invariant of a Path ORAM: an entry in the tree lies between the     *)
(* root and the leaf bitmap gives it, also while leaves are redrawn and    *)
(* after resize has moved every leaf down.  Without it the next access of  *)
(* that path would not find the entry.                                     *)
PathInvariant ==
  /\ \A o \in Resting : \A e \in data[o] :
       /\ e.group \in DOMAIN bitmap[e.key]
       /\ \E h \in 0 .. tree_level - 1 : o = Offset(NodeAt(bitmap[e.key][e.group], h))
  /\ \A h \in Heights : \A e \in write_back[h] :
       /\ e.group \in DOMAIN bitmap[e.key]
       /\ NodeAt(bitmap[e.key][e.group], h) = NodeAt(flag, h)

(* Every leaf in bitmap, and the leaf of the path being accessed, is a     *)
(* leaf of the tree as it is now: resize leaves no flag behind.            *)
FlagsAreLeaves ==
  /\ \A k \in Keys : \A i \in DOMAIN bitmap[k] : bitmap[k][i] \in Leaves(tree_level)
  /\ pc \in {"read", "evict"} => flag \in Leaves(tree_level)

(* write_val fills the groups of a key in order: only the last group has   *)
(* room, so that read_val returns the values in the order of the writes.   *)
GroupsFillInOrder ==
  \A e \in Live : e.key \notin JustKeys =>
    /\ Len(e.vals) \in 1 .. VALMAXNUM
    /\ e.group < Len(bitmap[e.key]) => Len(e.vals) = VALMAXNUM

(* Between accesses the tree is at most half full: the resize at the end   *)
(* of write_entries_to_path keeps up with the groups write_val creates.    *)
LoadFactor == pc \in {"idle", "loop"} => 2 * pair_number <= ENTRYMAXNUM * (2^tree_level - 1)

(* Every block of the tree was written under the present key, so that no   *)
(* access decrypts what an earlier run of the program left in data.db:     *)
(* oram_init and resize between them cover every block, each exactly when  *)
(* it joins the tree.                                                      *)
FreshTree ==
  /\ pc # "created" => FileOffsets(tree_level) \subseteq fresh
  /\ pc # "garbage"

(* get_entry finds the entry it is asked for.                              *)
EntryFound == pc # "null_entry"

(* When get_entry comes back with NULL the entry is nowhere any more, and  *)
(* not merely off the path or not loaded: just_add_bitmap left the group   *)
(* without one, or else it was overwritten in the stash.                   *)
MissingOnlyIfOrphan ==
  pc = "null_entry" =>
    /\ \A e \in Live : ~(e.key = op.key /\ e.group = group)
    /\ op.key \notin JustKeys => Overwritten > 0

(* Every access leaves a slot of the stash free, overwritten entries or    *)
(* not: write_val never gets to its "error" branch, whose return value     *)
(* nobody would see.                                                       *)
StashHasRoom == pc \in {"idle", "loop", "alias"} => ~StashFull

(* The blocks of the leaf level of a tree that has just grown. *)
LeafLevelEmpty == \A o \in NewBlocks(tree_level) : data[o] = {}

(* The test stash_num + tree_level * ENTRYMAXNUM >= STASHMAXSIZE reserves  *)
(* room for a whole path: an entry is overwritten in the stash only by the *)
(* access that follows a resize, which the test cannot protect.            *)
OverwriteOnlyAfterResize == [][Overwritten' > Overwritten => LeafLevelEmpty]_vars

(* The enclave's heap is enough for the blocks that write_entries_to_path  *)
(* allocates for a write_val, as the thousand writes of ecall_test_handle  *)
(* take for granted.                                                       *)
WritesFindHeap == pc = "no_heap" => op.type # "write"

(* Every call comes to an end: the loops over the path, the stash and the  *)
(* groups terminate, or the thread dies of a fault, or the program is run  *)
(* again.                                                                  *)
CallsEnd == (op # None) ~> (op = None \/ pc \in Faults)

(* Once the blocks of a path alone reach the size of the stash (at 13      *)
(* levels of 16 entries), no access fits the test of resize any more:      *)
(* every one, a read too, doubles the file, until its positions overflow.  *)
RunawayGrowth ==
  \A n \in Levels : n * ENTRYMAXNUM >= STASHMAXSIZE =>
    ((pc = "evict" /\ tree_level = n) ~> (tree_level = n + 1 \/ pc \in Faults \/ pc = "created"))

(* The step of it that holds without fairness: no such access ends with    *)
(* the tree as it was.                                                     *)
NoAccessWithoutGrowth ==
  [][ pc = "evict" /\ pc' \notin {"evict", "created"} /\ tree_level * ENTRYMAXNUM >= STASHMAXSIZE
        => tree_level' = tree_level + 1 \/ pc' = "alias" ]_vars
=============================================================================
