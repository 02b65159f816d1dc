# A TLA+ model of SGXTrans

SGXTrans keeps the transactions of a vntchain node in a file that an SGX
enclave writes as a Path ORAM. This directory holds TLA+ modules of that
program, the TLC configurations that model-check them, and theorems about them
that TLAPS checks. Paths below are relative to the repository. `PROJECT.json`
lists the runs, the hazards of the code line by line with the properties that
are about them, and the source lines of every definition.

## 1. The system

| part | source | state | operations | modules |
|---|---|---|---|---|
| ORAM store | `src/Enclave/crypto/oram.cpp` | `tree_level`, `pair_number`, `bitmap`, the stash (`entries`, `entries_filled`, `stash_num`), `oram_aes_key` | `read_val`, `write_val`, `just_add_bitmap`, `oram_init`, `resize` | `OramTree`, `Oram`, `OramReinit`, `StashSlots`, `OramThreads`, `KvStore`, `OramKv` |
| handlers | `src/Enclave/api/handler.cpp` | `aes_key` (used by dead code only) | `ecall_handler_init`, `handle_read_val`, `handle_write_val`, `handle_just`, `ecall_test_handle` | `Oram` (the calls), `OramReinit` |
| block file | `src/App/crypto/oram.cpp` | `/sgx/db/data.db`, a descriptor per call | `ocall_read_to_buffer`, `ocall_write_to_file` | `BlockFile`, `BlockArray` |
| AES | `src/Enclave/crypto/aes.cpp` | none | encryption in pieces of 16 bytes | `BlockFile` (pieces), `Oram` (keys) |
| bridges | `src/Enclave/Enclave_t.c`, `Enclave.edl` (generated) | the enclave's heap, the untrusted stack, the calls in progress | 39 ecall bridges, 14 ocall proxies | `EdgeTable`, `EdgeCalls` |
| application | `src/App/App.cpp` | the enclave's id, the loop counter | `main`: create, init, `handle_just` in a loop, destroy | `AppMain` |
| hex helpers | `src/App/crypto/common.cpp` | none | `bin2str`, `str2bin` | `HexCodec` |
| block fetcher | `src/js/vnt_js.js` | two heights, `data.json`, appends in progress | `run`, `request` | `BlockFetcher` |
| redesign | `src/Enclave/api/data_struct.cpp` | a vector of entries, a block per level | `add_entry`, `read_entries`, `write_back_entries` | `DataStack` |
| RSA, support | `rsa.cpp`, `Enclave.cpp`, headers | none | | none, see section 7 |

**How the parts meet.** The block fetcher is a script of its own: it writes
`data.json`, which nothing here reads. The application calls the enclave
through bridges (ecalls). A call runs to its end on its caller's thread; inside
it the store reads and writes blocks of 32768 bytes through proxies (ocalls) of
the block file, each encrypted under a key that the enclave draws in
`oram_init` and keeps in memory only. The file is the only state that outlives
the program. The redesign is called by nothing yet.

**The store.** A key owns *groups*, each with one *entry* of at most
`VALMAXNUM` (20) values. `bitmap` maps a key to the leaves of its groups. The
tree has `2^tree_level - 1` nodes, each a block of at most `ENTRYMAXNUM` (16)
entries; the root is node 2 and block 0, the children of node `n` are `2n-1`
and `2n`. An access to a group

1. reads every block from the group's leaf to the root into the stash
   (`read_entries_on_path`, 200 slots),
2. uses the entry (`get_entry`) and draws a new leaf for the group,
3. shuffles the stash, moves each entry as deep into the old path as its own
   leaf allows, writes the path back, and
4. adds a level to the tree if the stash is nearly full or the tree more than
   half full (`resize`), which moves every leaf to one of its two children.

`read_val` does this for every group of the key. `write_val` does it until a
group has room for the value; if none has, it adds a group, puts a new entry
into the stash and accesses that group's path.

**What is hard here, and what makes each part correct.**

- *Store*: entries are copied file -> stash -> buffer -> file while the leaves
  that say where they belong change, for every key at once when the tree grows,
  and its limits interact: the stash's last slot is overwritten when the stash
  is full, `stash_num` counts what was overwritten, `resize` is decided by these
  counters, the path buffer must fit the heap. Correct means: every entry is in
  one place and on the path of its leaf; every leaf is a leaf of the present
  tree; every block of the tree was written under the present key; reads return
  what was written, in order; calls end.
- *Slots*: the array behind the stash keeps old entries in free slots, and the
  sign change in `rand()` does not make the least int positive.
- *Block file*: no result of a system call is looked at, positions are an int,
  calls of several threads interleave. Correct means: an array of blocks, and a
  failure damages no other block than the one that is written.
- *Bridges*: errors leave half way, threads share a heap, an ocall may make an
  ecall. Correct means: what is allocated is freed, outputs agree with the
  status, sizes do not wrap, the store is not entered twice by a thread.
- *Application*: drops every status. *Block fetcher*: does not await its appends
  and steps over failures. *Redesign*: erases from a vector it walks, with
  counters that were never set. *Hex helpers*: order of evaluation, odd lengths.

## 2. The modules

| module | what it is |
|---|---|
| `OramTree` | node numbers, blocks, paths, the eviction test and `adjust_entry_flag` as operators |
| `Oram` | the store: one action per step of the code's loops, the faults it can die of, its properties |
| `OramReinit` | `Oram` with `ecall_handler_init` called again |
| `KvStore`, `OramKv` | what callers are promised, a key has a sequence of values; the mapping that shows `Oram` implements it, and the sizes for which it does |
| `StashSlots` | the stash as the array it is, and `rand()`; its steps shown to be steps of `Oram` |
| `OramThreads` | two instances of `Oram` on the same globals |
| `BlockFile`, `BlockArray` | the two ocalls, a step per system call; the array they implement |
| `EdgeTable`, `EdgeCalls` | what each bridge marshals; what bridges and proxies do |
| `AppMain` | `main`, with its proofs |
| `HexCodec` | the hex helpers |
| `BlockFetcher` | the script |
| `DataStack` | the stash of the redesign |
| `OramProofs`, `StashSlotsProofs`, `BlockFileProofs`, `EdgeCallsProofs`, `BlockFetcherProofs`, `HexCodecProofs`, `DataStackProofs` | theorems |
| `MCOram`, `MCOramReinit`, `MCOramKv`, `MCOramThreads`, `MCStashSlots`, `MCBlockFile`, `MCEdgeCalls`, `MCBlockFetcher`, `MCDataStack` | instances for TLC |

### The store

`tree_level`, `pair_number`, `bitmap`, `stash_num` are the globals of
`oram.cpp:41-54`. `stash` is the set of the entries in filled slots and `tail`
the one in the last slot: `write_entries_to_path` shuffles the array, so slots
are arbitrary, and the last slot is the only one the code treats apart
(`num < STASHMAXSIZE-1`, line 158). `data` is the file; `fresh` the blocks
written under the present key, all others decrypt to noise. `op`, `group`,
`success`, `ret_val` are the locals of `read_val` and `write_val`; `flag`,
`height`, `record` those of `read_entries_on_path`; `todo`, `write_back` those
of `write_entries_to_path`. `pc` is where the thread is. Groups count from 1
where the code counts from 0.

| action | code |
|---|---|
| `OramInit`, `Restart` | `oram_init` (384-397); the end of the program and its next run |
| `Reinit` (`OramReinit`) | `oram_init` again: every block of the present tree is emptied under a new key, the globals stay |
| `ReadVal`, `WriteVal`, `JustAddBitmap` | entry of `read_val` (267), `write_val` (306); `just_add_bitmap` (65-71) |
| `StartAccess` | the next iteration over the groups (285-289, 322-327) |
| `ReadBlock`, `LoadEntry` | `read_entries_on_path`, block by block and entry by entry (134-174) |
| `ReadEntry`, `AppendVal`, `SkipFullEntry`, `PlaceNewEntry` | the use of the entry, the new leaf, and the start of `write_entries_to_path` (shuffle, malloc, 200-209) |
| `EvictEntry` | one iteration over the stash (210-247) |
| `WriteBack`, `WriteBackAndResize` | the write loop, the test and `resize` (248-265, 86-114) |
| `AddEntry` | a new group, in the stash or (stash full) in `bitmap` alone (351-380) |
| `ReturnRead`, `ReturnWrite` | the ends of the calls |
| `MissingEntry`, `OverrunReply`, `ResizeOverflows` | the thread dies: NULL from `get_entry`, `ret_val` overrun, a block whose position overflows |

Random choices (leaves, the shuffle, the bit of `adjust_entry_flag`) are
arbitrary. A write past a limit that C leaves undefined ends in a fault state
from which only `Restart` leads on. Within one call nothing else runs, so the
grain of the actions is that of the loops, and every property is checked at
every loop step, not only between calls. Values are opaque; `JustKeys` are the
keys that the application passes to `handle_just`.

`StashSlots` takes the stash for `entries` and `entries_filled`, searched from
the front, shuffled by the swaps of `swap_entries` with slots that `rand()`
draws from all non-negative ints and the least one, and emptied in order. A
freed slot keeps its entry with the values of that time, so that the array may
hold an old and the present state of one entry; `get_entry` and the append to
what it returns are on the array. `StepsOfOram` says that under the mapping of
the array to its set of entries and its last one each step is the step of
`Oram` of that name (`LoadEntry`, `ReadEntry`, `AppendVal`, `SkipFullEntry`,
`PlaceNewEntry`, `MissingEntry`, `EvictEntry`, a new entry) or changes nothing
that `Oram` sees; a slot that is passed over is such a stutter only if nothing
in it fits. This justifies what `Oram` abstracts.

### The block file

Per thread, `pc` is the next system call, `fd` and `pos` its descriptor,
`buffer` the array `encrypted_record` on the enclave's stack. One action is one
system call, the proxy's copy (`Marshal`), or a proxy that gets no room
(`OcallocFails`). `file` has a piece of 16 bytes at each position; a block is
`SIZE` of them. `faults` is chosen once per behaviour: what may go wrong in it
(a missing file, open or creat failing, short transfers, positions past an
int). `widens` chooses between the two outcomes of the overflowing product:
wrapped, or computed in a wider register.

### The bridges

`EdgeTable` has a row for each bridge and proxy: the direction, unit and length
of its pointer parameters, as `Enclave_t.c` marshals them, with the entry table
that says which ecalls an ocall may make. `EdgeCalls` has the code they share:
`Ecall` (admission, checks of pointers and counts), `SkipPointer`, `CopyIn`,
`OutOfMemory` per parameter in order, `Body`, `LeaveEcall` (copy out unless
there was an error, free) and likewise `Ocall`, `OcallBody`, `LeaveOcall`. A
buffer's contents are what the caller had there, zeros, or what the callee
wrote. `ret` is the place for a return value: a bridge's `ms_retval`, or the
proxy's `*retval`, which is set only if the ocall succeeded (`ReturnValue`).
`CountFits` is the check of `ecall_pointer_count` against `SIZE_MAX`; sizes are
taken modulo the width of `size_t`, so a product that nothing checks wraps.

### The others

`BlockFetcher`: `pc` is where `run()` is, `pending` the appends nobody awaits.
An append ends at any time, in any order, well or not. The chain grows
meanwhile and the script may be run again. `DataStack`: one action per method,
the loop of `write_back_entries` entry by entry; `tree_level` and `entries_num`
are never set by the code and so take any value of a set. `AppMain`: `main` one
call at a time; the enclave may be lost to a power transition, and a heap that
is full crashes it or makes the bridge refuse. `HexCodec`: the two loops, a
byte at a time, `str2bin` after `bin2str` or on a text of its own. A string is
its bytes with the zero at the end, `pt1` the position read next. The loop of
`bin2str` reads `*pt1` before it looks at `size`, which is an int and may be
zero or less; `low_first` is the order in which the build evaluates the two
`pt1++` of one sum.

## 3. The runs

The code's sizes are 16 entries to a block, 20 values to an entry, 200 slots.
The runs scale them down together so that the limits interact as in the code.
Unless stated `ENTRYMAXNUM` is 1.

| run | asks | bounds |
|---|---|---|
| `oram_main` | with room in the stash and a handler that is called again: are entries conserved, on their path, found, or else lost to the new key; leaves in the tree; groups filled in order; the tree at most half full; no block of an old key read | 2 keys, 3 pairs, 2 values an entry, 8 slots, 3 levels: three entries on one path of a two-level tree overflow into the stash, the second pair makes the tree grow |
| `oram_pressure` | what a nearly full stash does | 4 keys, 4 pairs, 3 slots, up to 4 levels: the fourth entry meets three others on the path of a tree that has just grown |
| `oram_missing` | when is an entry missing | 3 keys, one of them passed to `handle_just`, 3 groups, 1 slot, up to 4 levels: a read or write of a key that was written finds NULL after a real overwriting, one of the other key without |
| `oram_live` | does a call go on rightly, and end, when its own accesses make the tree grow; does a tree that exceeds the stash limit stop growing | 1 key, 3 groups of 2 values, 3 slots, 2 to 4 levels: at 3 levels the path alone reaches the limit and the next access adds the fourth, so that a read and a write go from the first group to the second over a resize and end; the access after that overflows; nothing is overwritten with so few entries |
| `oram_kv` | is the store the key-value store of `KvStore` | 2 keys, 2 values, 2 pairs of 2 values, `ret_val` of 3 values: one key with two groups, resizes, and a read that does not fit |
| `oram_heap`, `oram_threads` (violations) | see findings | 2 keys and 5 groups, a heap of 4 blocks; 1 key, two threads, 2 entries a block |
| `stash_slots` | does the array take only steps of `Oram`; does a read get the latest values; what does the least int do | 2 keys, 3 groups with or without an entry of up to 2 values, 3 slots, two levels, ints of 3 bits: an entry that got a second value meets its own old copies in free slots, a group of `handle_just` has none to be found, and every draw of every shuffle and of every leaf is tried |
| `file` | is the file an array while nothing fails; what does each failure damage | 2 threads, blocks 0, 1 and 7, of 2 pieces, ints of 4 bits: the position of block 7 is past the greatest int and used only in the behaviours with that fault; 2 contents |
| `edge` | are statuses, outputs and sizes consistent, is everything freed, is the store entered twice | three applications (`MCEdgeCalls`): every ecall alone; five that nest with every ocall to depth 4; three that need much heap on two threads. Heap 131072 as in `Enclave.config.xml`, 36864 bytes of untrusted stack (one block fits, two do not), `size_t` of 20 bits, lengths 0, 2, 40000 (bytes that fit the heap, or ints that do not) and 262145 (ints whose size wraps) |
| `fetcher` | which transactions are missing or repeated, does `run()` end | a chain of up to 3 blocks with 0, 2 and 1 transactions, 2 runs of the script |
| `data_stack` | where the redesign puts entries, which stay and which are dropped | 2 entries, any path of 3 levels for each, a `tree_level` of 2 or 4, counts from -1 to 1, one entry a block; blocks of 2 entries, valid or not, read into a stack of 2 at most (`MaxStack`) |

`MaxPairs` bounds the groups ever created (writes to entries with room go on);
`LEVELMAX` is the last level whose blocks have positions that fit an int, 16
in the code, 2 to 5 here; one more is the fault `alias`. `CHECK_DEADLOCK` is off where the system may stop: a
store with `MaxPairs` full groups or a dead thread, a stack that holds
everything, a script that has ended, a thread that wrote through NULL.
Symmetry is used only where no liveness is checked.

Properties worth a word:

- `EntryConservation`, `LostConservation`: `pair_number` equals the entries that
  exist plus those overwritten in the stash plus those lost to a new key,
  through all the copying, and no group has two.
- `PathInvariant`: the invariant of a Path ORAM, also for the half-written
  buffer and right after `resize`.
- `OverwriteOnlyAfterResize`: the test `stash_num + tree_level * ENTRYMAXNUM >=
  STASHMAXSIZE` is meant to keep room for a path. It does, except for the
  accesses that follow a `resize`: growing the tree does not empty the stash.
- `StashHasRoom`: every access frees a slot, because the root takes any entry;
  the "error" branch of `write_val` (377) is never taken.
- `RunawayGrowth`: once the blocks of a path reach the size of the stash (13
  levels in the code), every access, a read too, doubles the file, until it
  overflows.
- `MissingOnlyIfOrphan`: with NULL the entry is nowhere, neither off the path
  nor in a slot not looked at; and its key is one of `handle_just` or something
  was overwritten. `oram_missing` reaches both cases, and in both the code uses
  the NULL unchecked (lines 293 and 329). `MissingOnlyIfLost`: the same where a
  second init may have lost it.
- `EntryFound`: `get_entry` never returns NULL. It is false with `handle_just`
  and after an overwriting; `oram_live` has neither.
- `ReadsLatest`: a read of a group gets all values written to it, though free
  slots hold earlier states of its entry.
- `ImplementsKv`: the refinement. The only fault it admits is a read of more
  values than `ret_val` holds.
- `ImplementsArray`: each block access takes effect at one instant between its
  call and its return, for threads that interleave, while nothing fails.
- `DamageContained`, `ShortWriteMixes`, `OverflowHitsRoot`: after a failure, a
  step changes only the block being written (but `creat` after a failed open
  loses all); a short write leaves a new start and an old rest, both of which
  decrypt; a read or a write in the first level past the int is one of the root
  if the product wraps, and of its own block if the build widens it.
- `NothingLeaks`, `ReplyMatchesStatus`, `BufferHoldsCount`, `StoreNotReentered`:
  what the generated code promises through each of its error paths. A call that
  succeeds hands over each output as the callee left it, and its return value;
  admitting what the caller had before would let a dropped copy pass.
  `BufferHoldsCount` excepts one array by name: the product of line 1840 is not
  checked, and a count that makes it wrap travels with a copy too short for it.
- `GapsAccounted`, `EachOncePerRun`, `HeightAskedOnce`, `RunEnds`: what is
  missing in `data.json` failed; nothing is repeated but by another run; `run()`
  asks for the height only once, so that it ends though the chain grows.
- `PlacedDeepest`, `LeftOnlyIfNoBlock`, `DroppedOnlyIfFull`: the redesign's walk
  to the root agrees with the ranges of the store, its erasing loop skips
  nothing, and an entry that is erased without a place met a full count.

**Fairness.** `Oram`'s `FairSpec` adds weak fairness of the enclave's own steps
(`Access`): a call runs on the thread that made it and nothing in the code
blocks. No fairness is assumed of calls or of restarts; `CallsEnd` allows a call
to end in a fault. `BlockFetcher` has weak fairness of the script's steps and of
the appends: the event loop runs what is ready, and requests and appends come
to an end well or not. The chain need not grow and the script need not be run
again. The other modules have safety properties only.

## 4. Findings

- `oram_heap`: `write_entries_to_path` allocates `tree_level * 32768` bytes
  from a heap of 131072 (`Enclave.config.xml:5`). At four levels, which 57
  pairs lead to, `malloc` returns NULL; `ecall_test_handle` writes 1001.
- `oram_threads`: `App.cpp:16` declares its enclave id shared by multiple
  threads and the enclave has ten thread slots, but while one thread has an
  entry in its write-back buffer, another that reads the entry's path finds
  nothing and uses NULL.

## 5. What is proved

Each module of proofs has one inductive invariant, one lemma per action that
says it is kept, and theorems that are read off it. TLC found each invariant of a
module with a run to hold on the instances of section 3 before it was proved.

**The store** (`OramProofs`), for every set of keys and
values, every number of levels, slots, entries and values (`SizeAssumption`,
`LevelAssumption`), and an empty slot and the absence of a call that are no
entry and no call (`NoneAssumption`):

- `TypeCorrect`, `LeavesCorrect`, `FreshCorrect`: `TypeOK`, `FlagsAreLeaves` and
  `FreshTree`, from `TreeInv`. `FreshTree` alone is not inductive: that the next
  block of the walk is fresh needs that the walk is still inside the tree
  (`WalkInTree`), and this needs that the leaf it started from is one
  (`FlagsAreLeaves`), which in turn needs that the group it came from exists.
- `LoadCorrect`: `LoadFactor`. It holds at the end of an access because the
  test of `resize` runs after the pair was counted; during an access
  `pair_number` may be one above the limit, and `LoadInv` says when: only for a
  write that has just added an entry. That one more level is enough for one
  more pair is `HalfFull` and `PairLimitGrows`.
- `EntriesConserved`, `PathsCorrect`, `StashNeverFull`, `GroupsInOrder`,
  `MissingOrphan` and the action properties `OverwriteGrown` and `AccessGrows`:
  where the entries are, from `PlaceInv`. Its parts need each other:
  - no entry is in two places of stash, `record`, `write_back` and file
    (`OnePlace`), which during an access needs to know which blocks have been
    read and which of the path's are being filled (`PhaseInv`);
  - so the counters can be cardinalities (`Account`): a step that moves an
    entry leaves their sum, and the one that overwrites a slot adds to
    `Overwritten` what it takes from the entries;
  - a new group's entry cannot be there already, because every entry's group is
    in `bitmap` (`Assigned`);
  - an eviction puts an entry into a block of its own leaf's path, which is what
    `PathInvariant` asks for, also of the entries still in the buffer, and the
    block has room (`BlockInv`);
  - the stash is full only inside an access, and then its last slot is filled
    and nothing has been evicted yet (`SlotInv`), so that the first entry
    considered goes to the root if nowhere else (`RootFits`): this is why each
    access frees a slot;
  - unless the tree has just grown, there are slots for what is left of the path
    (`RoomInv`): nothing is overwritten then;
  - `write_val` has found the groups full that it has passed (`ScanInv`), so a
    new group is made only when all are full;
  - each group has its entry, or is a just key's, or something was overwritten
    (`OwnedInv`), and an entry that is somewhere is in the stash once its path
    is read, so that `get_entry` finds it.
  `AccessGrows` is the step of `RunawayGrowth`: when the path alone reaches the
  size of the stash the test of `resize` cannot fail, whatever the sizes. That
  the step is taken at all is fairness and stays with TLC.
- `FreshCorrectR`, `TreeCorrectR`, `LostCounted`, `PlacesCorrectR`,
  `MissingLost`: the same with further calls of `ecall_handler_init`. `Account`,
  `Assigned` and `OwnedInv` have the set of lost entries as a parameter, empty
  for `Oram` and the history variable `lost` for `OramReinit`, so that each
  action is proved once for both. `MissingOnlyIfLost` admits an overwritten
  entry as a reason too: with a stash as small as in `oram_pressure` that
  happens after a second init as well as before.

- `OramIsKvStore`: `ImplementsKv`, the refinement, and `EntryAlwaysFound`:
  `EntryFound`. They hold under `KvSizes`: some tree has room for all
  `MaxPairs` groups beside the heap, the stash and the load it needs, and
  `handle_just` is not used. Without it the store is not what `KvStore` says:
  an entry is overwritten, the heap or the file runs out, or a group has no entry,
  as other runs show. The sizes in the code meet it for up to 24 groups,
  with two levels; for a third the heap of `Enclave.config.xml` is too small as
  soon as something is read. TLC checks that the instance of `oram_kv` meets it
  (`InstanceSizes`).

  Each action has a lemma that says which step of `KvStore` it is (`...Kv`).
  Most are none, as they move entries and change none (`Same`, `InnerStep`).
  `AddEntry` and `AppendVal` are its `Write`: the one makes the last group and
  the other finds room only in the last (`GroupsFillInOrder`), so the value
  goes to the end (`OneValueMore`). A read returns all of `store` because it
  has collected group after group (`CallInv`), while entries moved and leaves were
  redrawn. That nothing is lost meanwhile is `SmallInv`: the tree
  never has to grow beyond the level that suffices (`NoResize`), so that no path
  overflows the stash. The values of a key are a fold over its groups,
  which `SequencesExt` defines by recursion: `CatsAre` shows that the recursive
  definition has a solution, `CatsAgree` that there is no other, and
  `FlattenAppend` what one more group adds.

`PathRange` locates the node `h` steps above a leaf, `PathInTree` concludes that
a path stays in the file and ends at the root, `AdjustedFlag` that `resize` moves
a leaf to a leaf below it, `FileGrows` that the blocks it appends are exactly the
new ones. The inductions use `LeastElement`, that a set of naturals has a least
element. `PowerAssumption` (`2^(n+1) = 2 * 2^n` up to `LEVELMAX`) is an
assumption because the provers do not know exponentiation; TLC evaluates it in
every run.

**The slots** (`StashSlotsProofs`), for stashes, trees, sets of keys and ints of
any size (`SlotsAssumption`: the heap holds a path, and a power of two divides
the least int; `NoneAssumption`):

- `StrayCorrect`, `DrawnCorrect`: the shuffle leaves its array only for the least
  int, and every leaf drawn is in the tree, for the least int too. The invariant
  is `DrawInv`.
- `ReadsCorrect`: `ReadsLatest`. `SlotsImplementStash`: `StepsOfOram`, the
  step simulation that justifies `Oram`'s view of the array, so that what is
  proved of `Oram`'s stash is about the slots. Both from `SlotInv`: no entry is
  in two filled slots, or in a slot and elsewhere, and the one that is anywhere
  has the values written to its group; of the free slots nothing is known. Then the size of the stash is the
  number of filled slots (`StashCounts`), so it tells whether any slot but the
  last is free (`SlotsLeft`), which is how `Oram` decides what is overwritten. `ShuffleArranges` is the lemma about the
  loop of swaps: it loses and doubles nothing.

**The block file** (`BlockFileProofs`), for any number of threads, blocks and
pieces, ints of any width (`FileAssumption`, `WidthAssumption`) and every choice
of faults:

- `FileTypes`, `WriterDamagesItsBlock`: `TypeOK` and `DamageContained`, from
  `FileInv`, which adds that a descriptor that has been moved is at the position
  of its call's block (`SeekInv`).
- `WritesMix`, `OverflowGoesToRoot`: `ShortWriteMixes` and `OverflowHitsRoot`,
  under `FirstOverflow`: the blocks are those up to the first level whose
  positions exceed an int. Beyond it a position wraps to another block's, and
  both are false. Which of the two outcomes of the overflow a build has is
  `widens`, and the theorem says what each does to a read and to a write. The store adds a level at a time, and the size of a block and
  the greatest int plus one are powers of two, so the first overflowing level is the one
  that `FirstOverflow` describes (17 in the code; block 7 of 2 pieces for ints
  of 4 bits in `file`); what follows is `Oram`'s fault `alias`.
- `FileIsAnArray`: `ImplementsArray`, the refinement. While nothing can fail
  each system call of `BlockFile` is a step of `BlockArray` or a stutter, the
  transfer being the instant at which an access takes effect. `CalmInv` is what
  that needs: the file exists, descriptors are valid, and a buffer to be written
  holds its call's block.

**The bridges** (`EdgeCallsProofs`), for any number of threads, lengths up to the
width of `size_t`, any heap, and every application whose calls the model admits
(`EdgeAssumption`, `NoneAssumption`):

- `EdgeTypes`, `RepliesMatch`, `CountsHeld`, `NothingLost`, `StoreEnteredOnce`:
  all five properties of the run `edge`, from `EdgeInv`: what each frame's
  copies hold given how far it has come (`BufferInv`, `FrameInv`), that counts
  fit the copies (`CountFits`), that replies match their status,
  that no function above the outermost is one of the store's (`Names`), and that
  what is allocated is the sum of what the frames hold (`Allocated`).
- `Allocated` adds up over the frames of all threads. The lemmas `SumIsPartial`
  to `SumOneChanged` say how such a sum changes when one frame is pushed, popped
  or gets one more copy.
- `Tables`, `Units` and `StoreNames` are about the 39 bridges and 14 proxies of
  `EdgeTable`, row by row: that each length that is a product is checked or
  cannot wrap, and that no ocall of the store admits an ecall of the store.

**The others**:

- `HeightsCorrect`, `GapsCorrect`, `OnceCorrect`, `HeightCorrect`
  (`BlockFetcherProofs`), for any chain and number of runs: `TypeOK`, where
  `Heights` adds that a block asked for is below the height; and from
  `FetcherInv`, which adds to the other three properties that what `data` and
  `pending` hold of the present run is below `currentBlockHeight` (`Passed`) and
  how `asked` goes with `pc` (`Asked`).
- `DeepestCorrect`, `LeftCorrect`, `DroppedCorrect` (`DataStackProofs`), for
  trees, stacks and blocks of any size and whatever `tree_level` and the counts
  start from (`StackAssumption`): all three properties of `data_stack`.
  `FitIsShared` is the heart of the first: the walk of `is_pos_fit_entry_path`
  comes past the written path's node of a level only if that is the entry's own
  (`StepsWalk` and `UpWalk` show that the recursive definitions of the walks
  have a solution, `StepsAreNodes` that it is the path). A `tree_level` beyond
  the root changes nothing, as the root comes first (`FirstFit`). The other two
  are from `StackInv`: no entry before the iterator has a block on the path
  (`GoneThrough`), and none is in the vector twice (`NoneTwice`).
- `MainKeys` (`AppMain`), for any number of calls and any heap (`AppSizes`): the
  keys in the enclave are those of the calls before the first that failed, and
  with too small a heap the message of success is untrue. `AppInv` says how far
  the keys of an enclave that lives have got.
- `HexCorrect` (`HexCodecProofs`), for any strings, texts and sizes
  (`HexSizes`): `RoundTrip` and `PastEndOnlyIfMalformed`. Only the empty string
  and half a byte lead past an end; `str2bin` gives back exactly the
  bytes that `bin2str` took, or the first of them if its size is smaller, with
  the halves of each byte exchanged if the build evaluates the sum from the
  right. `HexInv` says that the text so far is that of the bytes so far, and
  that neither the string nor the size, if it is positive, ended before.

`AppMain` and `HexCodec` are proved and not run: loop and data are unbounded,
and the theorems say more than an instance would.

**Model-checked only**:

- liveness (`CallsEnd`, `RunawayGrowth`, `RunEnds`): the prover has no rule for
  fairness (`AccessGrows` is what holds of `RunawayGrowth` without);
- `EntryFound` in the store of `oram_live`, whose sizes are outside `KvSizes`:
  `MissingOrphan` says that only an overwriting could break it, and that there
  is none is found by TLC;
- the properties that runs show violated.

## 6. Abstractions

- `Oram` has one thread, which is what `main` uses. `OramThreads` explores only
  some schedules, those in which no entry is in the stash twice and none is
  taken from under the other's loop: enough for a counterexample, not for a
  claim that holds.
- `Oram`'s file never fails. What failures do to blocks is in `BlockFile`; in
  particular the buffer that `OcallocFails` leaves is not fed back to `Oram`,
  whose sets could not hold the second copies.
- The cipher is modelled by `fresh` and by pieces that decrypt on their own.
  Keys and values are opaque; `KEYSIZE` truncation does not occur for the
  20-byte keys the code uses.
- `Restart` forgets the file's contents, which are noise under the next key.
- The order of entries inside a block is not kept: the shuffle destroys it.
- `StashSlots` takes one access at a time, of any group, and has a tree that
  does not grow, of a level for which the heap holds a path; the blocks other
  than the path's are one set, of which any part that fits may be on it.
- `EdgeCalls` fills a buffer as a whole. What the functions of the SDK's samples
  call is not in the repository; they may make any ocall.
- `AppMain` leaves out wording, `HexCodec` the characters of the digits.

## 7. Not modelled

- `rsa.cpp`: straight-line OpenSSL calls that nothing calls; the file is not
  complete (line 74 is the rest of a deleted statement).
- In `data_struct.cpp`: serialisation, the JSON entries, the factory and
  `update_entry`, which have empty bodies or use names that are not declared.
- `ecall_handle`, whose branches are empty; the 2048-byte array of
  `ecall_test_handle`, which the first reply overruns whatever the store does.
- `Enclave.cpp`, headers, and the vendored `e_os.h`: no state.

## 8. Plan

Every part with behaviour is modelled, and every safety property and every
refinement that a passing run checks is proved, `EntryFound` under `KvSizes`
only. What is left:

1. the refinement by a store that `ecall_handler_init` is called for again: what
   `KvStore` loses then is a set of whole groups, which `LostConservation` counts;
2. bounds on the steps of an access, as far as they are safety: with them
   `CallsEnd` would need fairness alone.
