----------------------------- MODULE BlockArray -----------------------------
(***************************************************************************)
(* What Enclave/crypto/oram.cpp takes the data file to be: an array of     *)
(* blocks.  A call reads or writes one block at one instant between its    *)
(* start and its return; a block that was never written holds noise.       *)
(***************************************************************************)
EXTENDS Integers

CONSTANTS
  Threads,   \* threads in the enclave
  Offsets,   \* the blocks they access
  Vals,      \* contents of a block
  Noise,     \* contents that no one wrote
  None       \* no call in progress

VARIABLES array, op

vars == <<array, op>>

Init ==
  /\ array = [o \in Offsets |-> Noise]
  /\ op = [t \in Threads |-> None]

Start(t, o, v) ==      \* v = None: a read
  /\ op[t] = None
  /\ op' = [op EXCEPT ![t] = [offset |-> o, val |-> v, done |-> FALSE, got |-> None]]
  /\ UNCHANGED array

Read(t) ==
  /\ op[t] # None /\ ~op[t].done /\ op[t].val = None
  /\ op' = [op EXCEPT ![t].done = TRUE, ![t].got = array[op[t].offset]]
  /\ UNCHANGED array

Write(t) ==
  /\ op[t] # None /\ ~op[t].done /\ op[t].val # None
  /\ op' = [op EXCEPT ![t].done = TRUE]
  /\ array' = [array EXCEPT ![op[t].offset] = op[t].val]

Return(t) ==
  /\ op[t] # None /\ op[t].done
  /\ op' = [op EXCEPT ![t] = None]
  /\ UNCHANGED array

Next == \E t \in Threads :
  \/ \E o \in Offsets, v \in Vals \cup {None} : Start(t, o, v)
  \/ Read(t) \/ Write(t) \/ Return(t)

Spec == Init /\ [][Next]_vars

=============================================================================
