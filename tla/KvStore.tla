------------------------------ MODULE KvStore ------------------------------
(***************************************************************************)
(* What Enclave/crypto/oram.cpp promises to the callers of read_val and    *)
(* write_val, with no tree, no stash and no groups: a key has the sequence *)
(* of the values written to it, a write adds one value in one step, and a  *)
(* read returns them all in the order of the writes.                       *)
(*                                                                         *)
(* The promise has two limits.  A key with more than RETMAXNUM values can  *)
(* no longer be read, and nothing survives the end of the program.         *)
(***************************************************************************)
EXTENDS Naturals, Sequences

CONSTANTS Keys, Vals, None, RETMAXNUM

VARIABLES
  store,    \* the values of every key
  call,     \* the call in progress, or None
  done,     \* has that write taken effect?
  reply,    \* what the last read returned
  status    \* "down", "up" or "fault"

vars == <<store, call, done, reply, status>>

Calls == [type : {"read"}, key : Keys] \cup [type : {"write"}, key : Keys, val : Vals]

Init ==
  /\ store = [k \in Keys |-> <<>>]
  /\ call = None /\ done = FALSE /\ reply = <<>>
  /\ status = "down"

Start ==
  /\ status = "down"
  /\ status' = "up"
  /\ UNCHANGED <<store, call, done, reply>>

Invoke ==
  /\ status = "up" /\ call = None
  /\ call' \in Calls
  /\ reply' = <<>>
  /\ UNCHANGED <<store, done, status>>

Write ==
  /\ status = "up" /\ call # None /\ call.type = "write" /\ ~done
  /\ store' = [store EXCEPT ![call.key] = Append(@, call.val)]
  /\ done' = TRUE
  /\ UNCHANGED <<call, reply, status>>

ReturnWrite ==
  /\ status = "up" /\ call # None /\ call.type = "write" /\ done
  /\ call' = None /\ done' = FALSE
  /\ UNCHANGED <<store, reply, status>>

ReturnRead ==
  /\ status = "up" /\ call # None /\ call.type = "read"
  /\ reply' = store[call.key]
  /\ call' = None
  /\ UNCHANGED <<store, done, status>>

Overrun ==
  /\ status = "up" /\ call # None /\ call.type = "read"
  /\ Len(store[call.key]) > RETMAXNUM
  /\ status' = "fault"
  /\ UNCHANGED <<store, call, done, reply>>

Restart ==
  /\ status # "down"
  /\ store' = [k \in Keys |-> <<>>]
  /\ call' = None /\ done' = FALSE /\ reply' = <<>>
  /\ status' = "down"

Next == Start \/ Invoke \/ Write \/ ReturnWrite \/ ReturnRead \/ Overrun \/ Restart

Spec == Init /\ [][Next]_vars
=============================================================================
