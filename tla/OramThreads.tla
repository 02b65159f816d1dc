----------------------------- MODULE OramThreads ----------------------------
(***************************************************************************)
(* Two threads in the store at once.  Enclave.config.xml gives the enclave *)
(* ten thread slots, and the globals of Enclave/crypto/oram.cpp (bitmap,   *)
(* stash, tree_level and their counts) have no lock: each thread takes the *)
(* steps of Oram on them, with locals of its own.                          *)
(*                                                                         *)
(* Oram's steps are longer than the code's, and its stash is a set, which  *)
(* cannot hold two copies of an entry: this module explores only some of   *)
(* the schedules, enough to show what goes wrong in them.                  *)
(***************************************************************************)
EXTENDS OramTree, Sequences, FiniteSets

CONSTANTS Keys, Vals, JustKeys, None, ENTRYMAXNUM, VALMAXNUM, STASHMAXSIZE,
          RETMAXNUM, HEAPBLOCKS, MaxPairs

VARIABLES
  tree_level, pair_number, bitmap, stash, stash_num, tail, data, fresh,
  pcA, opA, groupA, flagA, heightA, recordA, todoA, write_backA, successA, ret_valA, replyA,
  pcB, opB, groupB, flagB, heightB, recordB, todoB, write_backB, successB, ret_valB, replyB

localsA == <<pcA, opA, groupA, flagA, heightA, recordA, todoA, write_backA,
             successA, ret_valA, replyA>>
localsB == <<pcB, opB, groupB, flagB, heightB, recordB, todoB, write_backB,
             successB, ret_valB, replyB>>
globals == <<tree_level, pair_number, bitmap, stash, stash_num, tail, data, fresh>>
vars == <<globals, localsA, localsB>>

A == INSTANCE Oram WITH
       pc <- pcA, op <- opA, group <- groupA, flag <- flagA, height <- heightA,
       record <- recordA, todo <- todoA, write_back <- write_backA,
       success <- successA, ret_val <- ret_valA, reply <- replyA

B == INSTANCE Oram WITH
       pc <- pcB, op <- opB, group <- groupB, flag <- flagB, height <- heightB,
       record <- recordB, todo <- todoB, write_back <- write_backB,
       success <- successB, ret_val <- ret_valB, reply <- replyB

Init == A!Init /\ B!Init

(* ecall_handler_init, before there is a second thread. *)
Start ==
  /\ A!OramInit
  /\ pcB = "created" /\ pcB' = "idle"
  /\ UNCHANGED <<opB, groupB, flagB, heightB, recordB, todoB, write_backB,
                 successB, ret_valB, replyB>>

(* Schedules that bring a copy into the stash, or take an entry out of it   *)
(* that the other thread's loop over the stash still counts on, are left    *)
(* out.                                                                     *)
Explored ==
  /\ recordA \cap (stash \cup recordB) = {} /\ recordB \cap stash = {}
  /\ todoA \subseteq stash /\ todoB \subseteq stash

ThreadA ==
  /\ Explored
  /\ \/ \E k \in Keys : A!ReadVal(k) \/ \E v \in Vals : A!WriteVal(k, v)
     \/ A!Access
  /\ UNCHANGED localsB

ThreadB ==
  /\ Explored
  /\ \/ \E k \in Keys : B!ReadVal(k) \/ \E v \in Vals : B!WriteVal(k, v)
     \/ B!Access
  /\ UNCHANGED localsA

Next == Start \/ ThreadA \/ ThreadB

Spec == Init /\ [][Next]_vars

(* "Global EID shared by multiple threads": whichever thread calls, the     *)
(* entry of a group that is in bitmap is in the stash once its path is.     *)
EntryFoundByBoth == pcA # "null_entry" /\ pcB # "null_entry"
=============================================================================
