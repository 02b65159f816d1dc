------------------------------ MODULE OramTree ------------------------------
(***************************************************************************)
(* The numbering of the ORAM tree in Enclave/crypto/oram.cpp.              *)
(*                                                                         *)
(* A tree of tree_level levels has 2^tree_level - 1 nodes.  The root is    *)
(* node 2, the children of node n are 2n-1 and 2n, and the leaves of a     *)
(* tree of level L are the nodes 2^(L-1)+1 .. 2^L.  Node n is block n-2 of *)
(* the data file.  A "flag" of the code is a node number: the leaf that an *)
(* entry is assigned to, or the leaf of the path being accessed.           *)
(*                                                                         *)
(* The code writes 2^n as (2 << n >> 1) or (2 << (n - 1)).                 *)
(***************************************************************************)
EXTENDS Integers

CONSTANT LEVELMAX   \* the largest tree_level the data file can address: the
                    \* byte position size * offset of ocall_read_to_buffer
                    \* and ocall_write_to_file is an int (16 in the code)

(***************************************************************************)
(* The two facts about powers of two that the proofs use.  TLC evaluates   *)
(* them for the level bound of every run.                                  *)
(***************************************************************************)
ASSUME LevelAssumption == LEVELMAX \in Nat /\ LEVELMAX >= 2

ASSUME PowerAssumption ==
  \A n \in 0 .. LEVELMAX : 2^n \in Nat \ {0} /\ 2^(n + 1) = 2 * 2^n

Levels == 2 .. LEVELMAX          \* tree_level starts at 2 and only grows

Leaves(level) == 2^(level - 1) + 1 .. 2^level

FileOffsets(level) == 0 .. 2^level - 2   \* the blocks of a tree of this level

Offset(node) == node - 2

(***************************************************************************)
(* One step towards the root, as every loop over a path takes it, and the  *)
(* node that h such steps from a leaf reach (h = 0 is the leaf).           *)
(***************************************************************************)
Parent(node) == IF node % 2 = 1 THEN (node + 1) \div 2 ELSE node \div 2

NodeAt(leaf, h) == (leaf - 1) \div 2^h + 1

(***************************************************************************)
(* The eviction test: is a leaf in the range of leaves below the node that *)
(* is h steps above the leaf level?                                        *)
(***************************************************************************)
Covers_LeftTooFar(node, h, leaf) ==    \* mutant: the + 1 forgotten
  /\ leaf >= (node - 1) * 2^h
  /\ leaf <= node * 2^h

Covers(node, h, leaf) ==
  /\ leaf >= (node - 1) * 2^h + 1
  /\ leaf <= node * 2^h

(***************************************************************************)
(* adjust_entry_flag for a tree that has just grown to this level.  The    *)
(* flag is a leaf of the level before, or already one of the new level, so *)
(* the loop body runs at most once; bit is the outcome of rand() % 2.      *)
(***************************************************************************)
AdjustEntryFlag_LastStays(flag, level, bit) ==     \* mutant: < for <=
  IF flag < 2^(level - 1) THEN 2 * flag - bit ELSE flag

AdjustEntryFlag(flag, level, bit) ==
  IF flag <= 2^(level - 1) THEN 2 * flag - bit ELSE flag

=============================================================================
