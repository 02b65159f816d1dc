------------------------------ MODULE BlockFile ------------------------------
(***************************************************************************)
(* How a block gets to the data file and back: aes_encrypt and aes_decrypt *)
(* of Enclave/crypto/aes.cpp, the proxies' copies, and the system calls of *)
(* ocall_read_to_buffer and ocall_write_to_file in App/crypto/oram.cpp,    *)
(* one step each.  None of them reports a failure to its caller.           *)
(*                                                                         *)
(* AES works in pieces of 16 bytes that do not depend on each other, so a  *)
(* block is SIZE pieces and a position counts pieces.  A piece holds part  *)
(* of what was encrypted, or noise: zeros and missing pieces decrypt to    *)
(* noise too.  One key is used throughout (Oram is about keys).            *)
(***************************************************************************)
EXTENDS Integers, Sequences

CONSTANTS
  Threads,     \* threads in the enclave
  Offsets,     \* the blocks they access
  Vals,        \* contents of a block
  Noise, None,
  SIZE,        \* pieces in a block (BLOCKMAXSIZE)
  INTBITS,     \* width of int
  FaultSets    \* the sets of faults that a behaviour may have

ASSUME FileAssumption ==
  /\ Offsets \subseteq Nat
  /\ SIZE \in Nat \ {0}
  /\ INTBITS \in Nat \ {0}
  /\ FaultSets \subseteq SUBSET {"missing", "overflow", "ocalloc", "open", "short"}

(* The two facts about powers of two that the proofs use. *)
ASSUME WidthAssumption ==
  2^(INTBITS - 1) \in Nat \ {0} /\ 2^INTBITS = 2 * 2^(INTBITS - 1)

VARIABLES
  faults,         \* what may go wrong in this behaviour
  exists, file,   \* data.db: the piece at each position
  widens,         \* what the build makes of size * offset when it overflows
  pc, call,       \* per thread: where it is, and the block it accesses
  fd,             \* per thread: is its descriptor valid?
  pos,            \* per thread: the position of its descriptor
  buffer          \* per thread: encrypted_record, on the enclave's stack

vars == <<faults, exists, file, widens, pc, call, fd, pos, buffer>>

Pieces == 1 .. SIZE
Contents == [Pieces -> Vals \cup {Noise}]
Calls == [offset : Offsets, val : Vals \cup {None}]    \* val = None: a read
INT_MAX == 2^(INTBITS - 1) - 1

(* None is no call, and no call of the array that the file implements.     *)
ASSUME NoneAssumption ==
  /\ None \notin Calls
  /\ None \notin [offset : Offsets, val : Vals \cup {None}, done : BOOLEAN,
                  got : Vals \cup {Noise, None, "mixed"}]

(* The offsets whose block lies within the positions of an int. *)
InRange == {o \in Offsets : SIZE * o <= INT_MAX}

Positions == {0} \cup UNION {0 .. SIZE * o + SIZE - 1 : o \in Offsets}

(* Every piece is encrypted, and decrypted, on its own. *)
aes_encrypt(v) == [i \in Pieces |-> v]
aes_decrypt(b) ==
  IF \E v \in Vals \cup {Noise} : b = [i \in Pieces |-> v] THEN b[1] ELSE "mixed"

(* size * offset, and where lseek takes a descriptor that is at 0. *)
Wrap(n) ==
  LET word == n % 2^INTBITS IN IF word > INT_MAX THEN word - 2^INTBITS ELSE word

Product(o) == IF widens THEN SIZE * o ELSE Wrap(SIZE * o)

(* Mutant: the offset is taken for a position. *)
Position_Unscaled(o) == o

(* Mutants: a failed lseek is not seen, or the sign is dropped. *)
Position_Unchecked(o) == Product(o)
Position_Abs(o) == IF Product(o) < 0 THEN -Product(o) ELSE Product(o)

Position(o) == IF Product(o) < 0 THEN 0 ELSE Product(o)

Block(o) == [i \in Pieces |-> file[SIZE * o + i - 1]]

Reading(t) == call[t].val = None

-----------------------------------------------------------------------------
Init ==
  /\ faults \in FaultSets
  /\ exists = ("missing" \notin faults)              \* is data.db there?
  /\ file = [p \in Positions |-> Noise]
  /\ widens \in BOOLEAN
  /\ pc = [t \in Threads |-> "idle"]
  /\ call = [t \in Threads |-> None]
  /\ fd = [t \in Threads |-> FALSE]
  /\ pos = [t \in Threads |-> 0]
  /\ buffer = [t \in Threads |-> aes_encrypt(Noise)]

Goto(t, place) == pc' = [pc EXCEPT ![t] = place]

(***************************************************************************)
(* The enclave's function calls a proxy, with the block encrypted or with  *)
(* the array the block is to be read to.  The proxy passes zeros for it.   *)
(***************************************************************************)
Start(t, o, v) ==
  /\ pc[t] = "idle"
  /\ o \in InRange \/ "overflow" \in faults
  /\ call' = [call EXCEPT ![t] = [offset |-> o, val |-> v]]
  /\ buffer' = IF v = None THEN buffer ELSE [buffer EXCEPT ![t] = aes_encrypt(v)]
  /\ Goto(t, "proxy")
  /\ UNCHANGED <<exists, file, widens, fd, pos>>

Marshal(t) ==
  /\ pc[t] = "proxy"
  /\ buffer' = IF Reading(t) THEN [buffer EXCEPT ![t] = aes_encrypt(Noise)] ELSE buffer
  /\ Goto(t, "open")
  /\ UNCHANGED <<exists, file, widens, call, fd, pos>>

(* No room: the ocall is not made, and the array stays as the last one on  *)
(* this stack left it.                                                     *)
OcallocFails(t) ==
  /\ "ocalloc" \in faults
  /\ pc[t] = "proxy"
  /\ Goto(t, "return")
  /\ UNCHANGED <<exists, file, widens, call, fd, pos, buffer>>

(* A writer that cannot open the file goes on to create it. *)
Open(t) ==
  /\ pc[t] = "open"
  /\ \E ok \in {exists} \cup (IF "open" \in faults THEN {FALSE} ELSE {}) :
       /\ fd' = [fd EXCEPT ![t] = ok]
       /\ Goto(t, IF ok \/ Reading(t) THEN "lseek" ELSE "creat")
  /\ pos' = [pos EXCEPT ![t] = 0]
  /\ UNCHANGED <<exists, file, widens, call, buffer>>

(* creat empties a file that is there after all, unless it fails as well. *)
Creat(t) ==
  /\ pc[t] = "creat"
  /\ \/ /\ exists' = TRUE /\ file' = [p \in Positions |-> Noise]
        /\ fd' = [fd EXCEPT ![t] = TRUE]
     \/ /\ "open" \in faults
        /\ UNCHANGED <<exists, file, fd>>
  /\ Goto(t, "lseek")
  /\ UNCHANGED <<widens, call, pos, buffer>>

Lseek(t) ==
  /\ pc[t] = "lseek"
  /\ pos' = IF fd[t] THEN [pos EXCEPT ![t] = Position(call[t].offset)] ELSE pos
  /\ Goto(t, "transfer")
  /\ UNCHANGED <<exists, file, widens, call, fd, buffer>>

(* read and write move the first n pieces; they all do unless one fails. *)
Moved(t) ==
  IF ~fd[t] THEN {0} ELSE IF "short" \in faults THEN 0 .. SIZE ELSE {SIZE}

(* Mutant: what a short write leaves out is filled with zeros. *)
Written_Padded(t, n) ==
  [p \in Positions |->
     LET i == p - pos[t] + 1
     IN  IF i \in Pieces THEN (IF i <= n THEN buffer[t][i] ELSE Noise) ELSE file[p]]

Written(t, n) ==
  [p \in Positions |->
     LET i == p - pos[t] + 1 IN IF i \in 1 .. n THEN buffer[t][i] ELSE file[p]]

Received(t, n) ==
  [i \in Pieces |-> IF i <= n THEN file[pos[t] + i - 1] ELSE buffer[t][i]]

Transfer(t) ==
  /\ pc[t] = "transfer"
  /\ \E n \in Moved(t) :
       IF Reading(t)
       THEN buffer' = [buffer EXCEPT ![t] = Received(t, n)] /\ UNCHANGED file
       ELSE file' = Written(t, n) /\ UNCHANGED buffer
  /\ Goto(t, "return")
  /\ UNCHANGED <<exists, widens, call, fd, pos>>

(* close, the copy back to the enclave, and there the decryption. *)
Return(t) ==
  /\ pc[t] = "return"
  /\ Goto(t, "idle")
  /\ call' = [call EXCEPT ![t] = None]
  /\ fd' = [fd EXCEPT ![t] = FALSE]
  /\ pos' = [pos EXCEPT ![t] = 0]
  /\ UNCHANGED <<exists, file, widens, buffer>>

Access(t) ==
  \/ \E o \in Offsets, v \in Vals \cup {None} : Start(t, o, v)
  \/ Marshal(t) \/ OcallocFails(t)
  \/ Open(t) \/ Creat(t) \/ Lseek(t) \/ Transfer(t) \/ Return(t)

Next == UNCHANGED faults /\ \E t \in Threads : Access(t)

Spec == Init /\ [][Next]_vars

-----------------------------------------------------------------------------
(***************************************************************************)
(*                              Properties                                 *)
(***************************************************************************)

(* The types of the file, of the descriptors and of the buffers. *)
TypeOK ==
  /\ faults \in FaultSets
  /\ exists \in BOOLEAN
  /\ file \in [Positions -> Vals \cup {Noise}]
  /\ widens \in BOOLEAN
  /\ pc \in [Threads -> {"idle", "proxy", "open", "creat", "lseek", "transfer", "return"}]
  /\ call \in [Threads -> Calls \cup {None}]
  /\ \A t \in Threads : (call[t] = None) = (pc[t] = "idle")
  /\ fd \in [Threads -> BOOLEAN]
  /\ pos \in [Threads -> Positions]
  /\ buffer \in [Threads -> Contents]

(* The array that the file stands for, in a behaviour without a fault. *)
FileArray == [o \in InRange |-> IF faults = {} THEN aes_decrypt(Block(o)) ELSE Noise]

ArrayOp(t) ==
  IF call[t] = None \/ faults # {} THEN None
  ELSE [offset |-> call[t].offset, val |-> call[t].val, done |-> pc[t] = "return",
        got |-> IF pc[t] = "return" /\ Reading(t) THEN aes_decrypt(buffer[t]) ELSE None]

ArrayOps == [t \in Threads |-> ArrayOp(t)]

Array == INSTANCE BlockArray WITH array <- FileArray, Offsets <- InRange, op <- ArrayOps

(* While nothing fails, threads that open, seek and transfer side by side  *)
(* get the array of blocks that the ORAM takes the file for.               *)
ImplementsArray == Array!Spec

Transfers(t) == pc[t] = "transfer" /\ pc'[t] = "return"
ChangedBlocks == {o \in Offsets : Block(o)' # Block(o)}

(* A failure is contained: a step changes the block that its thread is     *)
(* writing and no other, but that creat, after an open that failed, loses  *)
(* all of them.                                                            *)
DamageContained ==
  [][\A o \in ChangedBlocks :
       \/ \E t \in Threads : pc[t] = "creat" /\ file' = [p \in Positions |-> Noise]
       \/ \E t \in Threads :
            /\ Transfers(t) /\ ~Reading(t)
            /\ call[t].offset \in InRange => call[t].offset = o]_vars

(* A short write leaves a block whose start is new and whose rest is what  *)
(* it was before.  Both decrypt: the count of entries and the entries may  *)
(* come from different writes, and nothing shows it.                       *)
ShortWriteMixes ==
  [][\A o \in ChangedBlocks, t \in Threads :
       Transfers(t) =>
         \E n \in Pieces : Block(o)' = [i \in Pieces |-> IF i <= n THEN buffer[t][i] ELSE Block(o)[i]]]_vars

(* Where an access goes whose positions overflow: to its own block if the  *)
(* build widens the product, to block 0, the root, if it does not.         *)
Lands(o) == IF widens THEN o ELSE 0

(* In the first level whose positions overflow, size * offset is negative  *)
(* or widened.  If negative, lseek fails, and the read or the write goes   *)
(* to the root, whole but for what a short transfer leaves out, and to no  *)
(* other block; nothing tells the caller.                                  *)
OverflowHitsRoot ==
  [][\A t \in Threads :
       Transfers(t) /\ call[t].offset \notin InRange =>
         \E n \in Moved(t) :
           IF Reading(t)
           THEN buffer'[t] = [i \in Pieces |-> IF i <= n THEN Block(Lands(call[t].offset))[i]
                                                        ELSE buffer[t][i]]
           ELSE \A o \in Offsets :
                  Block(o)' = IF o = Lands(call[t].offset)
                              THEN [i \in Pieces |-> IF i <= n THEN buffer[t][i] ELSE Block(o)[i]]
                              ELSE Block(o)]_vars

=============================================================================
