------------------------------ MODULE AppMain -------------------------------
(***************************************************************************)
(* App/App.cpp: main creates the enclave, has it initialise the store, and *)
(* gives it three million random keys.  The status of every ecall is       *)
(* dropped.  The enclave may be lost to a power transition; with its heap  *)
(* full it crashes, or the bridge refuses a call for want of a buffer.     *)
(***************************************************************************)
EXTENDS Integers, TLAPS

CONSTANTS
  CALLS,       \* calls of handle_just that main makes
  HEAPKEYS,    \* calls that the enclave's heap has room for
  Unlisted     \* status codes that sgx_errlist does not have

VARIABLES
  pc, ret,
  enclave,     \* "none", "live", "lost", "crashed" or "destroyed"
  ready,       \* has ecall_handler_init run to its end?
  i,           \* calls of handle_just so far
  bitmap,      \* the calls whose key is in the enclave's bitmap
  out          \* what main has printed

vars == <<pc, ret, enclave, ready, i, bitmap, out>>

(* The rows of sgx_errlist, those with a suggestion apart. *)
Suggested == {"ENCLAVE_LOST", "NO_DEVICE"}
Listed == Suggested \cup
  {"UNEXPECTED", "INVALID_PARAMETER", "OUT_OF_MEMORY", "INVALID_ENCLAVE", "INVALID_ENCLAVE_ID",
   "INVALID_SIGNATURE", "OUT_OF_EPC", "MEMORY_MAP_CONFLICT", "INVALID_METADATA", "DEVICE_BUSY",
   "INVALID_VERSION", "INVALID_ATTRIBUTE", "ENCLAVE_FILE_ACCESS"}
Statuses == Listed \cup Unlisted \cup {"SUCCESS"}

print_error_message(status) ==
  IF status \in Suggested THEN {"info", "error"}
  ELSE IF status \in Listed THEN {"error"} ELSE {"code"}

-----------------------------------------------------------------------------
Init ==
  /\ pc = "create" /\ ret = "UNEXPECTED"
  /\ enclave = "none" /\ ready = FALSE
  /\ i = 0 /\ bitmap = {}
  /\ out = {}

initialize_enclave ==
  /\ pc = "create"
  /\ ret' \in Statuses
  /\ IF ret' = "SUCCESS"
     THEN enclave' = "live" /\ pc' = "init" /\ UNCHANGED out
     ELSE enclave' = enclave /\ pc' = "prompt" /\ out' = print_error_message(ret')
  /\ UNCHANGED <<ready, i, bitmap>>

(* Does the call of a function of the enclave get there? *)
Reached == enclave = "live"

ecall_handler_init ==
  /\ pc = "init"
  /\ ready' = Reached
  /\ pc' = "keys"
  /\ UNCHANGED <<ret, enclave, i, bitmap, out>>

(* just_add_bitmap.  Nothing is ever freed: once the heap is full it stays *)
(* full, and each call crashes the enclave or is refused by its bridge.    *)
AddKey ==
  IF i < HEAPKEYS
  THEN bitmap' = bitmap \cup {i + 1} /\ UNCHANGED enclave
  ELSE enclave' \in {"live", "crashed"} /\ UNCHANGED bitmap

handle_just ==
  /\ pc = "keys" /\ i < CALLS
  /\ i' = i + 1
  /\ IF Reached THEN AddKey ELSE UNCHANGED <<enclave, bitmap>>
  /\ UNCHANGED <<pc, ret, ready, out>>

sgx_destroy_enclave ==
  /\ pc = "keys" /\ i = CALLS
  /\ enclave' = "destroyed"
  /\ out' = {"returned"}
  /\ pc' = "prompt"
  /\ UNCHANGED <<ret, ready, i, bitmap>>

PowerTransition ==
  /\ Reached
  /\ enclave' = "lost"
  /\ UNCHANGED <<pc, ret, ready, i, bitmap, out>>

Next ==
  \/ initialize_enclave \/ ecall_handler_init \/ handle_just \/ sgx_destroy_enclave
  \/ PowerTransition

Spec == Init /\ [][Next]_vars

-----------------------------------------------------------------------------
(***************************************************************************)
(*                              Properties                                 *)
(***************************************************************************)

(* Though main looks at no status, the keys in the enclave are those of    *)
(* the calls before the first that failed: no later call succeeds, so that *)
(* none is missing in between, and none is there without the store's key.  *)
KeysArePrefix ==
  /\ \E n \in Nat : n <= i /\ n <= HEAPKEYS /\ bitmap = 1 .. n
  /\ bitmap # {} => ready

(* "SampleEnclave successfully returned" is printed after all the calls,   *)
(* and when the heap has less room than that it is never true.             *)
SuccessIsHollow ==
  "returned" \in out =>
    /\ i = CALLS
    /\ HEAPKEYS < CALLS => bitmap # 1 .. CALLS

-----------------------------------------------------------------------------
AppSizes == CALLS \in Nat /\ HEAPKEYS \in Nat

(* While the enclave lives its keys are those of all the calls that its    *)
(* heap had room for; once it does not, it takes no more.                  *)
Prefix(n) == bitmap = 1 .. n /\ n <= i /\ n <= HEAPKEYS

Order ==
  /\ i \in Nat
  /\ pc \in {"create", "init"} => i = 0
  /\ pc = "create" => enclave = "none"
  /\ enclave = "live" => pc = "init" \/ (pc = "keys" /\ ready)
  /\ bitmap # {} => ready
  /\ "returned" \in out => i = CALLS /\ pc = "prompt"

AppInv == Order /\ \E n \in Nat : Prefix(n) /\ (enclave = "live" /\ i <= HEAPKEYS => n = i)

(* KeysArePrefix and SuccessIsHollow follow from an invariant that says    *)
(* how far the keys of an enclave that lives have got; for any number of   *)
(* calls and any size of the heap.                                         *)
LEMMA AppInvInductive == ASSUME AppSizes PROVE Spec => []AppInv
<1>1. Init => AppInv
  <2> SUFFICES ASSUME Init PROVE AppInv OBVIOUS
  <2>1. Prefix(0) BY AppSizes DEF AppSizes, Init, Prefix
  <2> QED BY <2>1 DEF Init, AppInv, Order
<1>2. AppInv /\ [Next]_vars => AppInv'
  <2> SUFFICES ASSUME AppInv, [Next]_vars PROVE AppInv' OBVIOUS
  <2>1. PICK n \in Nat : Prefix(n) /\ (enclave = "live" /\ i <= HEAPKEYS => n = i)
    BY DEF AppInv
  <2>2. Order BY DEF AppInv
  <2>3. i = 0 => n = 0 /\ bitmap = {} BY <2>1 DEF Prefix
  <2>4. CASE initialize_enclave
    <3>1. Prefix(n)' /\ i = 0 BY <2>1, <2>2, <2>4 DEF initialize_enclave, Prefix, Order
    <3>2. print_error_message(ret') \in {{"info", "error"}, {"error"}, {"code"}}
      BY DEF print_error_message
    <3>3. "returned" \notin out BY <2>2, <2>4 DEF initialize_enclave, Order
    <3>4. "returned" \notin out' BY <2>4, <3>2, <3>3 DEF initialize_enclave
    <3>5. Order' BY <2>2, <2>3, <2>4, <3>1, <3>4 DEF initialize_enclave, Order
    <3> QED BY <2>3, <2>4, <3>1, <3>5 DEF initialize_enclave, AppInv
  <2>5. CASE ecall_handler_init
    <3>1. Prefix(n)' /\ i = 0 BY <2>1, <2>2, <2>5 DEF ecall_handler_init, Prefix, Order
    <3>2. Order' BY <2>2, <2>3, <2>5, <3>1 DEF ecall_handler_init, Reached, Order
    <3> QED BY <2>1, <2>5, <3>1, <3>2 DEF ecall_handler_init, AppInv
  <2>6. CASE handle_just
    <3>1. pc' = pc /\ i' = i + 1 /\ i \in Nat /\ pc = "keys" /\ UNCHANGED <<ready, out>>
      BY <2>2, <2>6 DEF handle_just, Order
    <3>2. CASE enclave = "live" /\ i < HEAPKEYS
      <4>1. n = i BY AppSizes, <2>1, <3>1, <3>2 DEF AppSizes
      <4>2. bitmap' = bitmap \cup {i + 1} /\ UNCHANGED enclave
        BY <2>6, <3>2 DEF handle_just, Reached, AddKey
      <4>3. bitmap = 1 .. i BY <2>1, <4>1 DEF Prefix
      <4>4. bitmap' = 1 .. (i + 1) BY <3>1, <4>2, <4>3
      <4>5. PICK m \in Nat : m = i + 1 /\ m <= HEAPKEYS BY AppSizes, <3>1, <3>2 DEF AppSizes
      <4>6. Prefix(m)' BY <3>1, <4>4, <4>5 DEF Prefix
      <4>7. Order' BY <2>2, <3>1, <3>2, <4>2 DEF Order
      <4> QED BY <3>1, <4>2, <4>5, <4>6, <4>7 DEF AppInv
    <3>3. CASE ~(enclave = "live" /\ i < HEAPKEYS)
      <4>1. bitmap' = bitmap /\ (enclave' = "live" => enclave = "live")
        BY <2>6, <3>3 DEF handle_just, Reached, AddKey
      <4>2. Prefix(n)' BY <2>1, <3>1, <4>1 DEF Prefix
      <4>3. Order' BY <2>2, <3>1, <4>1 DEF Order
      <4>4. ~(enclave' = "live" /\ i' <= HEAPKEYS)
        BY AppSizes, <3>1, <3>3, <4>1 DEF AppSizes
      <4> QED BY <4>2, <4>3, <4>4 DEF AppInv
    <3> QED BY <3>2, <3>3
  <2>7. CASE sgx_destroy_enclave
    <3>1. Prefix(n)' BY <2>1, <2>7 DEF sgx_destroy_enclave, Prefix
    <3>2. Order' BY <2>2, <2>7 DEF sgx_destroy_enclave, Order
    <3> QED BY <2>7, <3>1, <3>2 DEF sgx_destroy_enclave, AppInv
  <2>8. CASE PowerTransition
    <3>1. Prefix(n)' BY <2>1, <2>8 DEF PowerTransition, Prefix
    <3>2. Order' BY <2>2, <2>8 DEF PowerTransition, Reached, Order
    <3> QED BY <2>8, <3>1, <3>2 DEF PowerTransition, AppInv
  <2>9. CASE UNCHANGED vars BY <2>9 DEF vars, AppInv, Order, Prefix
  <2> QED BY <2>4, <2>5, <2>6, <2>7, <2>8, <2>9 DEF Next
<1> QED BY <1>1, <1>2, PTL DEF Spec

(* main's keys are a prefix of its calls whatever fails, and its message   *)
(* of success is untrue when the heap is too small.                        *)
THEOREM MainKeys == ASSUME AppSizes PROVE Spec => [](KeysArePrefix /\ SuccessIsHollow)
<1>1. AppInv => KeysArePrefix BY DEF AppInv, Order, KeysArePrefix, Prefix
<1>2. AppInv => SuccessIsHollow
  <2> SUFFICES ASSUME AppInv, HEAPKEYS < CALLS, bitmap = 1 .. CALLS PROVE FALSE
    BY DEF AppInv, Order, SuccessIsHollow
  <2>1. PICK n \in Nat : Prefix(n) BY DEF AppInv
  <2>2. CALLS \in 1 .. CALLS BY AppSizes DEF AppSizes
  <2>3. CALLS \in 1 .. n BY <2>1, <2>2 DEF Prefix
  <2> QED BY AppSizes, <2>1, <2>3 DEF AppSizes, Prefix
<1> QED BY <1>1, <1>2, AppInvInductive, PTL
=============================================================================
