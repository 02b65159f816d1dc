------------------------------- MODULE OramKv -------------------------------
(***************************************************************************)
(* The ORAM implements the key-value store of KvStore.  The values of a    *)
(* key are those of its entries, group after group, wherever the entries   *)
(* are: in the file, on their way to the stash, in the stash or in the     *)
(* blocks of the write-back.                                               *)
(***************************************************************************)
EXTENDS Oram, SequencesExt

EntriesOf(k, i) == {e \in Live : e.key = k /\ e.group = i}

ValsOf(k) ==
  FlattenSeq([i \in 1 .. Len(bitmap[k]) |->
                IF EntriesOf(k, i) = {} THEN <<>> ELSE (CHOOSE e \in EntriesOf(k, i) : TRUE).vals])

Kv == INSTANCE KvStore WITH
        store <- [k \in Keys |-> ValsOf(k)],
        call <- op,
        done <- success,
        reply <- reply,
        status <- CASE pc = "created" -> "down"
                    [] pc \in Faults -> "fault"
                    [] OTHER -> "up"

(***************************************************************************)
(* The sizes for which it does: some tree has room for all the pairs.      *)
(* A path of its n levels needs less heap than there is, the stash holds   *)
(* every entry beside a path, and n levels do not grow for the pairs.  No  *)
(* key has a group that just_add_bitmap left without an entry.             *)
(***************************************************************************)
Suffices(n) ==
  /\ n + 1 < HEAPBLOCKS
  /\ MaxPairs + n * ENTRYMAXNUM < STASHMAXSIZE
  /\ MaxPairs <= PairLimit(n)

KvSizes == JustKeys = {} /\ \E n \in Levels : Suffices(n)

(* The ORAM of this size is the key-value store: no access, eviction or    *)
(* resize loses, duplicates or reorders a value, a write takes effect in   *)
(* one step, a read returns what was written before it, and the only way   *)
(* to die is a read of more values than ret_val holds.                     *)
ImplementsKv == Kv!Spec
=============================================================================
