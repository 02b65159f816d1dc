----------------------------- MODULE OramReinit -----------------------------
(***************************************************************************)
(* Oram with ecall_handler_init called again.  Nothing keeps the           *)
(* application from it: the handler draws a new key and empties the blocks *)
(* of the tree, but bitmap, stash, tree_level and pair_number are globals  *)
(* that it leaves alone.                                                   *)
(***************************************************************************)
EXTENDS Oram

VARIABLE lost      \* history: the entries that were in the file at such a call

varsR == <<vars, lost>>

InitR == Init /\ lost = {}

(* Mutant: as in a fresh enclave, the tree is taken to have two levels. *)
InitBlocks_TwoLevels == FileOffsets(2)

InitBlocks == FileOffsets(tree_level)

Reinit ==
  /\ pc = "idle"
  /\ data' = NullBlocks(InitBlocks, data)
  /\ fresh' = InitBlocks
  /\ lost' = lost \cup UNION {data[o] : o \in InitBlocks}
  /\ UNCHANGED <<pc, treeVars, stashVars, callVars, pathVars, evictVars>>

NextR ==
  \/ Next /\ lost' = IF pc' = "created" THEN {} ELSE lost
  \/ Reinit

SpecR == InitR /\ [][NextR]_varsR

-----------------------------------------------------------------------------
(* The entries a second call of ecall_handler_init loses stay in the       *)
(* count: pair_number, and with it the size of the tree, goes on standing  *)
(* for them, and no entry of the stash is lost or written twice.           *)
LostConservation ==
  /\ pair_number = Cardinality(Live) + Overwritten + Cardinality(lost)
  /\ \A e \in Live, f \in lost : ~SameEntry(e, f)

(* get_entry comes back with NULL only for an entry that such a call lost, *)
(* for a key that was passed to handle_just and has a group without an     *)
(* entry, or once an entry was overwritten in the stash.  A write or a     *)
(* read of that key then uses the NULL.                                    *)
MissingOnlyIfLost ==
  pc = "null_entry" =>
    \/ op.key \in JustKeys
    \/ Overwritten > 0
    \/ \E e \in lost : e.key = op.key /\ e.group = group
=============================================================================
