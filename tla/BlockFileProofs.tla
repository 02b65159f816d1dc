--------------------------- MODULE BlockFileProofs ---------------------------
(***************************************************************************)
(* Proofs about BlockFile, for every number of threads, blocks and pieces  *)
(* and every width of int: its types, what a failing call can damage, and  *)
(* that the file implements BlockArray while nothing fails.                *)
(***************************************************************************)
EXTENDS BlockFile, TLAPS

(* A descriptor that has been moved is at the position of the block.       *)
SeekInv ==
  \A t \in Threads : pc[t] = "transfer" /\ fd[t] => pos[t] = Position(call[t].offset)

(* What holds of a thread as long as nothing can fail.                     *)
CalmThread(t) ==
  /\ pc[t] # "creat"
  /\ pc[t] \in {"lseek", "transfer"} => fd[t]
  /\ pc[t] # "idle" => call[t].offset \in InRange
  /\ pc[t] \notin {"idle", "return"} /\ ~Reading(t) => buffer[t] = aes_encrypt(call[t].val)

(* While nothing can fail the file is there, no one creates it, and every  *)
(* buffer to be written holds the call's block.                            *)
CalmInv == faults = {} => exists /\ \A t \in Threads : CalmThread(t)

FileInv == TypeOK /\ SeekInv /\ CalmInv

(* The offsets of the levels up to the first whose positions overflow: the *)
(* ORAM appends one level at a time.                                       *)
FirstOverflow == \A o \in Offsets : SIZE * o < 2^INTBITS

-----------------------------------------------------------------------------
(* Positions.                                                              *)

LEMMA Sizes ==
  /\ SIZE \in Nat /\ SIZE >= 1 /\ 1 \in Pieces /\ SIZE \in Pieces
  /\ Offsets \subseteq Nat /\ InRange \subseteq Offsets
  /\ \A i \in Pieces : i \in Nat /\ i >= 1 /\ i <= SIZE
  /\ \A o \in Offsets : SIZE * o \in Nat
<1>1. SIZE \in Nat /\ SIZE >= 1 /\ Offsets \subseteq Nat
  BY FileAssumption
<1>2. \A o \in Nat : SIZE * o \in Nat
  BY <1>1
<1> QED BY <1>1, <1>2 DEF Pieces, InRange

(* A position belongs to one piece of one block. *)
LEMMA BlocksApart ==
  ASSUME NEW o \in Nat, NEW p \in Nat, NEW i \in Pieces, NEW j \in Pieces,
         SIZE * o + i - 1 = SIZE * p + j - 1
  PROVE  o = p /\ i = j
<1>1. /\ i \in Nat /\ i >= 1 /\ i <= SIZE /\ j \in Nat /\ j >= 1 /\ j <= SIZE
      /\ SIZE \in Nat /\ SIZE >= 1
  BY Sizes
<1>2. ASSUME NEW a \in Nat, NEW b \in Nat, a < b PROVE SIZE * a + SIZE <= SIZE * b
  <2> DEFINE d == b - a - 1
  <2>1. d \in Nat /\ b = a + 1 + d
    BY <1>2
  <2> HIDE DEF d
  <2>2. SIZE * b = SIZE * a + SIZE + SIZE * d /\ SIZE * d >= 0 /\ SIZE * a \in Nat /\ SIZE * d \in Nat
    BY <1>1, <2>1
  <2> QED BY <1>1, <2>2
<1>3. SIZE * o \in Nat /\ SIZE * p \in Nat
  BY <1>1
<1>4. ~(o < p)
  <2> SUFFICES ASSUME o < p PROVE FALSE
    OBVIOUS
  <2>1. SIZE * o + SIZE <= SIZE * p
    BY <1>2
  <2> DEFINE x == SIZE * o
             y == SIZE * p
  <2> HIDE DEF x, y
  <2>2. x + SIZE <= y /\ x \in Nat /\ y \in Nat /\ x + i - 1 = y + j - 1
    BY <1>3, <2>1 DEF x, y
  <2> QED BY <1>1, <2>2
<1>5. ~(p < o)
  <2> SUFFICES ASSUME p < o PROVE FALSE
    OBVIOUS
  <2>1. SIZE * p + SIZE <= SIZE * o
    BY <1>2
  <2> DEFINE x == SIZE * o
             y == SIZE * p
  <2> HIDE DEF x, y
  <2>2. y + SIZE <= x /\ x \in Nat /\ y \in Nat /\ x + i - 1 = y + j - 1
    BY <1>3, <2>1 DEF x, y
  <2> QED BY <1>1, <2>2
<1>6. o = p
  BY <1>4, <1>5
<1> QED BY <1>1, <1>3, <1>6

(* Every piece of a block, and of the place lseek leads to, is in the file. *)
LEMMA PiecePositions ==
  ASSUME NEW o \in Offsets, NEW p \in 0 .. SIZE * o, NEW i \in Pieces
  PROVE  p + i - 1 \in Positions /\ p \in Positions
<1>1. /\ SIZE \in Nat /\ SIZE >= 1 /\ SIZE * o \in Nat /\ i \in Nat /\ i >= 1 /\ i <= SIZE
  BY Sizes
<1> DEFINE range == 0 .. SIZE * o + SIZE - 1
<1>2. p + i - 1 \in range /\ p \in range
  <2> DEFINE x == SIZE * o
  <2> HIDE DEF x
  <2>1. x \in Nat /\ p \in 0 .. x /\ range = 0 .. x + SIZE - 1
    BY <1>1 DEF x
  <2> HIDE DEF range
  <2> QED BY <1>1, <2>1
<1>3. range \subseteq Positions
  BY DEF Positions
<1> QED BY <1>2, <1>3

(* Where lseek leads: never beyond the block, and to it if it is in range. *)
LEMMA Positioned ==
  ASSUME NEW o \in Offsets
  PROVE  /\ Position(o) \in 0 .. SIZE * o
         /\ o \in InRange => Position(o) = SIZE * o
         /\ FirstOverflow /\ o \notin InRange => Position(o) = IF widens THEN SIZE * o ELSE 0
<1> DEFINE x == SIZE * o
           h == 2^(INTBITS - 1)
           w == 2^INTBITS
           m == x % w
<1>1. x \in Nat /\ h \in Nat /\ h > 0 /\ w = 2 * h
  BY Sizes, WidthAssumption
<1>2. Wrap(x) = (IF m > h - 1 THEN m - w ELSE m)
  BY DEF Wrap, INT_MAX
<1>3. o \in InRange <=> x <= h - 1
  BY DEF InRange, INT_MAX
<1>4. FirstOverflow => x < w
  BY DEF FirstOverflow
<1>5. Position(o) = (IF widens THEN (IF x < 0 THEN 0 ELSE x) ELSE IF Wrap(x) < 0 THEN 0 ELSE Wrap(x))
  BY DEF Position, Product
<1> HIDE DEF x, h, w
<1>6. m \in 0 .. w - 1 /\ m <= x /\ (x < w => m = x)
  BY <1>1
<1> HIDE DEF m
<1>7. /\ Position(o) \in 0 .. x /\ (x <= h - 1 => Position(o) = x)
      /\ (x < w /\ x > h - 1 => Position(o) = IF widens THEN x ELSE 0)
  BY <1>1, <1>2, <1>5, <1>6
<1> QED BY <1>1, <1>3, <1>4, <1>7 DEF x

-----------------------------------------------------------------------------
(* Types.                                                                  *)

LEMMA Encrypted ==
  /\ \A v \in Vals \cup {Noise} : aes_encrypt(v) \in Contents
  /\ \A v \in Vals \cup {Noise} : aes_decrypt(aes_encrypt(v)) = v
<1>1. \A v \in Vals \cup {Noise} : aes_encrypt(v) \in Contents
  BY DEF aes_encrypt, Contents
<1>2. ASSUME NEW v \in Vals \cup {Noise} PROVE aes_decrypt(aes_encrypt(v)) = v
  <2> DEFINE b == [i \in Pieces |-> v]
  <2>1. b[1] = v
    BY Sizes
  <2>2. \E x \in Vals \cup {Noise} : b = [i \in Pieces |-> x]
    OBVIOUS
  <2> HIDE DEF b
  <2>3. aes_decrypt(b) = b[1]
    BY <2>2 DEF aes_decrypt
  <2> QED BY <2>1, <2>3 DEF b, aes_encrypt
<1> QED BY <1>1, <1>2

(* A call in progress is one of the enclave's calls. *)
LEMMA CallInProgress ==
  ASSUME TypeOK, NEW t \in Threads, pc[t] # "idle"
  PROVE  /\ call[t] \in Calls /\ call[t] # None
         /\ call[t].offset \in Offsets /\ call[t].val \in Vals \cup {None}
<1>1. call[t] # None /\ call[t] \in Calls \cup {None}
  BY DEF TypeOK
<1> QED BY <1>1 DEF Calls

(* The threads that do not move, and the one that does. *)
LEMMA OneMoves ==
  ASSUME TypeOK, NEW t \in Threads, NEW place, Goto(t, place)
  PROVE  /\ pc'[t] = place
         /\ \A u \in Threads \ {t} : pc'[u] = pc[u]
         /\ place \in {"idle", "proxy", "open", "creat", "lseek", "transfer", "return"} =>
              pc' \in [Threads -> {"idle", "proxy", "open", "creat", "lseek", "transfer", "return"}]
BY DEF Goto, TypeOK

(* What a thread keeps while others move. *)
LEMMA StaysCalm ==
  ASSUME NEW u \in Threads, CalmThread(u),
         pc'[u] = pc[u], call'[u] = call[u], fd'[u] = fd[u], buffer'[u] = buffer[u]
  PROVE  CalmThread(u)'
BY DEF CalmThread, Reading

LEMMA InitFileInv == Init => FileInv
<1> SUFFICES ASSUME Init PROVE FileInv
  OBVIOUS
<1>1. TypeOK
  BY Encrypted DEF Init, TypeOK, Positions
<1>2. SeekInv
  BY DEF Init, SeekInv
<1>3. CalmInv
  BY DEF Init, CalmInv, CalmThread
<1> QED BY <1>1, <1>2, <1>3 DEF FileInv

LEMMA StartInv ==
  ASSUME FileInv, UNCHANGED faults, NEW t \in Threads, NEW o \in Offsets,
         NEW v \in Vals \cup {None}, Start(t, o, v)
  PROVE  FileInv'
<1>1. /\ pc[t] = "idle" /\ Goto(t, "proxy") /\ call' = [call EXCEPT ![t] = [offset |-> o, val |-> v]]
      /\ o \in InRange \/ "overflow" \in faults
      /\ buffer' = IF v = None THEN buffer ELSE [buffer EXCEPT ![t] = aes_encrypt(v)]
      /\ UNCHANGED <<exists, file, widens, fd, pos>>
  BY DEF Start
<1>2. TypeOK /\ SeekInv /\ CalmInv
  BY DEF FileInv
<1>3. [offset |-> o, val |-> v] \in Calls /\ [offset |-> o, val |-> v] # None
  BY NoneAssumption DEF Calls
<1>4. v # None => aes_encrypt(v) \in Contents
  BY Encrypted
<1>5. /\ pc'[t] = "proxy" /\ \A u \in Threads \ {t} : pc'[u] = pc[u]
      /\ pc' \in [Threads -> {"idle", "proxy", "open", "creat", "lseek", "transfer", "return"}]
  BY <1>1, <1>2, OneMoves
<1>6. /\ call' \in [Threads -> Calls \cup {None}] /\ call'[t] = [offset |-> o, val |-> v]
      /\ \A u \in Threads \ {t} : call'[u] = call[u]
  BY <1>1, <1>2, <1>3 DEF TypeOK
<1>7. /\ buffer' \in [Threads -> Contents]
      /\ v # None => buffer'[t] = aes_encrypt(v)
      /\ \A u \in Threads \ {t} : buffer'[u] = buffer[u]
  BY <1>1, <1>2, <1>4 DEF TypeOK
<1>8. TypeOK'
  <2>1. \A u \in Threads : (call'[u] = None) = (pc'[u] = "idle")
    BY <1>2, <1>3, <1>5, <1>6 DEF TypeOK
  <2> QED BY <1>1, <1>2, <1>5, <1>6, <1>7, <2>1 DEF TypeOK
<1>9. SeekInv'
  BY <1>1, <1>2, <1>5, <1>6 DEF SeekInv, Position, Product, Wrap
<1>10. CalmInv'
  <2> SUFFICES ASSUME faults = {} PROVE exists' /\ \A u \in Threads : CalmThread(u)'
    BY DEF CalmInv
  <2>1. CalmThread(t)'
    BY <1>1, <1>5, <1>6, <1>7 DEF CalmThread, Reading
  <2>2. \A u \in Threads \ {t} : CalmThread(u)'
    BY <1>1, <1>2, <1>5, <1>6, <1>7, StaysCalm DEF CalmInv
  <2> QED BY <1>1, <1>2, <2>1, <2>2 DEF CalmInv
<1> QED BY <1>8, <1>9, <1>10 DEF FileInv

LEMMA ProxyInv ==
  ASSUME FileInv, UNCHANGED faults, NEW t \in Threads, Marshal(t) \/ OcallocFails(t)
  PROVE  FileInv'
<1>1. /\ pc[t] = "proxy" /\ UNCHANGED <<exists, file, widens, call, fd, pos>>
      /\ \/ Goto(t, "open")
         \/ Goto(t, "return") /\ "ocalloc" \in faults
      /\ \/ Reading(t) /\ buffer' = [buffer EXCEPT ![t] = aes_encrypt(Noise)]
         \/ buffer' = buffer
  BY DEF Marshal, OcallocFails
<1>2. TypeOK /\ SeekInv /\ CalmInv
  BY DEF FileInv
<1>3. /\ pc'[t] \in {"open", "return"} /\ (faults = {} => pc'[t] = "open")
      /\ \A u \in Threads \ {t} : pc'[u] = pc[u]
      /\ pc' \in [Threads -> {"idle", "proxy", "open", "creat", "lseek", "transfer", "return"}]
  BY <1>1, <1>2, OneMoves
<1>4. /\ buffer' \in [Threads -> Contents]
      /\ ~Reading(t) => buffer'[t] = buffer[t]
      /\ \A u \in Threads \ {t} : buffer'[u] = buffer[u]
  BY <1>1, <1>2, Encrypted DEF TypeOK
<1>5. TypeOK'
  <2>1. UNCHANGED <<exists, file, widens, call, fd, pos>>
    BY <1>1
  <2>2. \A u \in Threads : (call'[u] = None) = (pc'[u] = "idle")
    BY <1>1, <1>2, <1>3 DEF TypeOK
  <2> QED BY <1>2, <1>3, <1>4, <2>1, <2>2 DEF TypeOK
<1>6. SeekInv'
  BY <1>1, <1>2, <1>3 DEF SeekInv, Position, Product, Wrap
<1>7. CalmInv'
  <2> SUFFICES ASSUME faults = {} PROVE exists' /\ \A u \in Threads : CalmThread(u)'
    BY DEF CalmInv
  <2>1. CalmThread(t)'
    <3>1. CalmThread(t) /\ pc'[t] = "open"
      BY <1>2, <1>3 DEF CalmInv
    <3>2. ~Reading(t) => buffer'[t] = aes_encrypt(call[t].val)
      BY <1>1, <1>4, <3>1 DEF CalmThread
    <3>3. UNCHANGED <<call, fd>>
      BY <1>1
    <3>4. call[t].offset \in InRange
      BY <1>1, <3>1 DEF CalmThread
    <3> QED BY <3>1, <3>2, <3>3, <3>4 DEF CalmThread, Reading
  <2>2. \A u \in Threads \ {t} : CalmThread(u)'
    BY <1>1, <1>2, <1>3, <1>4, StaysCalm DEF CalmInv
  <2> QED BY <1>1, <1>2, <2>1, <2>2 DEF CalmInv
<1> QED BY <1>5, <1>6, <1>7 DEF FileInv

LEMMA OpenInv == ASSUME FileInv, UNCHANGED faults, NEW t \in Threads, Open(t) PROVE FileInv'
<1>1. /\ pc[t] = "open" /\ UNCHANGED <<exists, file, widens, call, buffer>>
      /\ pos' = [pos EXCEPT ![t] = 0]
  BY DEF Open
<1>2. TypeOK /\ SeekInv /\ CalmInv
  BY DEF FileInv
<1>3. PICK ok \in {exists} \cup (IF "open" \in faults THEN {FALSE} ELSE {}) :
        /\ fd' = [fd EXCEPT ![t] = ok]
        /\ Goto(t, IF ok \/ Reading(t) THEN "lseek" ELSE "creat")
  BY DEF Open
<1>4. ok \in BOOLEAN /\ (faults = {} => ok)
  BY <1>2, <1>3 DEF TypeOK, CalmInv
<1>5. /\ pc'[t] = (IF ok \/ Reading(t) THEN "lseek" ELSE "creat")
      /\ \A u \in Threads \ {t} : pc'[u] = pc[u]
      /\ pc' \in [Threads -> {"idle", "proxy", "open", "creat", "lseek", "transfer", "return"}]
  BY <1>2, <1>3, OneMoves
<1>6. /\ fd' \in [Threads -> BOOLEAN] /\ fd'[t] = ok /\ \A u \in Threads \ {t} : fd'[u] = fd[u]
  BY <1>2, <1>3, <1>4 DEF TypeOK
<1>7. /\ pos' \in [Threads -> Positions] /\ \A u \in Threads \ {t} : pos'[u] = pos[u]
  BY <1>1, <1>2 DEF TypeOK, Positions
<1>8. TypeOK'
  <2>1. \A u \in Threads : (call'[u] = None) = (pc'[u] = "idle")
    <3>1. pc'[t] # "idle"
      BY <1>5
    <3> QED BY <1>1, <1>2, <1>5, <3>1 DEF TypeOK
  <2>2. UNCHANGED <<exists, file, widens, call, buffer>>
    BY <1>1
  <2>3. fd' \in [Threads -> BOOLEAN] /\ pos' \in [Threads -> Positions]
      /\ pc' \in [Threads -> {"idle", "proxy", "open", "creat", "lseek", "transfer", "return"}]
    BY <1>5, <1>6, <1>7
  <2> QED BY <1>2, <2>1, <2>2, <2>3 DEF TypeOK
<1>9. SeekInv'
  BY <1>1, <1>2, <1>5, <1>6, <1>7 DEF SeekInv, Position, Product, Wrap
<1>10. CalmInv'
  <2> SUFFICES ASSUME faults = {} PROVE exists' /\ \A u \in Threads : CalmThread(u)'
    BY DEF CalmInv
  <2>1. CalmThread(t)'
    BY <1>1, <1>2, <1>4, <1>5, <1>6 DEF CalmInv, CalmThread, Reading
  <2>2. \A u \in Threads \ {t} : CalmThread(u)'
    BY <1>1, <1>2, <1>5, <1>6, StaysCalm DEF CalmInv
  <2> QED BY <1>1, <1>2, <2>1, <2>2 DEF CalmInv
<1> QED BY <1>8, <1>9, <1>10 DEF FileInv

LEMMA CreatInv == ASSUME FileInv, UNCHANGED faults, NEW t \in Threads, Creat(t) PROVE FileInv'
<1>1. pc[t] = "creat" /\ Goto(t, "lseek") /\ UNCHANGED <<widens, call, pos, buffer>>
  BY DEF Creat
<1>2. TypeOK /\ SeekInv /\ CalmInv
  BY DEF FileInv
<1>3. /\ exists' \in BOOLEAN /\ file' \in [Positions -> Vals \cup {Noise}] /\ fd' \in [Threads -> BOOLEAN]
      /\ \A u \in Threads \ {t} : fd'[u] = fd[u]
  BY <1>2 DEF Creat, TypeOK
<1>4. /\ pc'[t] = "lseek" /\ \A u \in Threads \ {t} : pc'[u] = pc[u]
      /\ pc' \in [Threads -> {"idle", "proxy", "open", "creat", "lseek", "transfer", "return"}]
  BY <1>1, <1>2, OneMoves
<1>5. TypeOK'
  <2>1. \A u \in Threads : (call'[u] = None) = (pc'[u] = "idle")
    BY <1>1, <1>2, <1>4 DEF TypeOK
  <2>2. UNCHANGED <<widens, call, pos, buffer>>
    BY <1>1
  <2> QED BY <1>2, <1>3, <1>4, <2>1, <2>2 DEF TypeOK
<1>6. SeekInv'
  BY <1>1, <1>2, <1>3, <1>4 DEF SeekInv, Position, Product, Wrap
<1>7. faults # {}
  BY <1>1, <1>2 DEF CalmInv, CalmThread
<1>8. CalmInv'
  BY <1>7 DEF CalmInv
<1> QED BY <1>5, <1>6, <1>8 DEF FileInv

LEMMA LseekInv == ASSUME FileInv, UNCHANGED faults, NEW t \in Threads, Lseek(t) PROVE FileInv'
<1>1. /\ pc[t] = "lseek" /\ Goto(t, "transfer") /\ UNCHANGED <<exists, file, widens, call, fd, buffer>>
      /\ pos' = IF fd[t] THEN [pos EXCEPT ![t] = Position(call[t].offset)] ELSE pos
  BY DEF Lseek
<1>2. TypeOK /\ SeekInv /\ CalmInv
  BY DEF FileInv
<1>3. /\ pc'[t] = "transfer" /\ \A u \in Threads \ {t} : pc'[u] = pc[u]
      /\ pc' \in [Threads -> {"idle", "proxy", "open", "creat", "lseek", "transfer", "return"}]
  BY <1>1, <1>2, OneMoves
<1>4. Position(call[t].offset) \in Positions
  <2>1. call[t].offset \in Offsets
    BY <1>1, <1>2, CallInProgress
  <2> QED BY <2>1, Positioned, PiecePositions, Sizes
<1>5. /\ pos' \in [Threads -> Positions]
      /\ fd[t] => pos'[t] = Position(call[t].offset)
      /\ \A u \in Threads \ {t} : pos'[u] = pos[u]
  BY <1>1, <1>2, <1>4 DEF TypeOK
<1>6. TypeOK'
  <2>1. UNCHANGED <<exists, file, widens, call, fd, buffer>>
    BY <1>1
  <2>2. \A u \in Threads : (call'[u] = None) = (pc'[u] = "idle")
    BY <1>1, <1>2, <1>3 DEF TypeOK
  <2> QED BY <1>2, <1>3, <1>5, <2>1, <2>2 DEF TypeOK
<1>7. SeekInv'
  <2>1. ASSUME NEW u \in Threads PROVE Position(call[u].offset)' = Position(call[u].offset)
    BY <1>1 DEF Position, Product, Wrap
  <2> QED BY <1>1, <1>2, <1>3, <1>5, <2>1 DEF SeekInv
<1>8. CalmInv'
  <2> SUFFICES ASSUME faults = {} PROVE exists' /\ \A u \in Threads : CalmThread(u)'
    BY DEF CalmInv
  <2>1. CalmThread(t)'
    BY <1>1, <1>2, <1>3 DEF CalmInv, CalmThread, Reading
  <2>2. \A u \in Threads \ {t} : CalmThread(u)'
    BY <1>1, <1>2, <1>3, StaysCalm DEF CalmInv
  <2> QED BY <1>1, <1>2, <2>1, <2>2 DEF CalmInv
<1> QED BY <1>6, <1>7, <1>8 DEF FileInv

(* How many pieces move, and where the descriptor is when some do. *)
LEMMA Moves ==
  ASSUME FileInv, NEW t \in Threads, pc[t] = "transfer", NEW n \in Moved(t)
  PROVE  /\ n \in 0 .. SIZE
         /\ n # 0 => /\ pos[t] = Position(call[t].offset)
                     /\ pos[t] \in 0 .. SIZE * call[t].offset
         /\ faults = {} => n = SIZE
<1>1. TypeOK /\ SeekInv /\ CalmInv
  BY DEF FileInv
<1>2. n \in 0 .. SIZE /\ (n # 0 => fd[t])
  BY Sizes DEF Moved
<1>3. n # 0 => pos[t] = Position(call[t].offset)
  BY <1>1, <1>2 DEF SeekInv
<1>4. call[t].offset \in Offsets
  BY <1>1, CallInProgress
<1>5. faults = {} => n = SIZE
  BY <1>1 DEF Moved, CalmInv, CalmThread
<1> QED BY <1>2, <1>3, <1>4, <1>5, Positioned

LEMMA TransferInv == ASSUME FileInv, UNCHANGED faults, NEW t \in Threads, Transfer(t) PROVE FileInv'
<1>1. pc[t] = "transfer" /\ Goto(t, "return") /\ UNCHANGED <<exists, widens, call, fd, pos>>
  BY DEF Transfer
<1>2. TypeOK /\ SeekInv /\ CalmInv
  BY DEF FileInv
<1>3. PICK n \in Moved(t) :
        IF Reading(t)
        THEN buffer' = [buffer EXCEPT ![t] = Received(t, n)] /\ UNCHANGED file
        ELSE file' = Written(t, n) /\ UNCHANGED buffer
  BY DEF Transfer
<1>4. /\ pc'[t] = "return" /\ \A u \in Threads \ {t} : pc'[u] = pc[u]
      /\ pc' \in [Threads -> {"idle", "proxy", "open", "creat", "lseek", "transfer", "return"}]
  BY <1>1, <1>2, OneMoves
<1>5. n \in 0 .. SIZE
  BY <1>1, Moves
<1>6. buffer[t] \in Contents /\ file \in [Positions -> Vals \cup {Noise}]
  BY <1>2 DEF TypeOK
<1>7. Received(t, n) \in Contents
  <2> SUFFICES ASSUME NEW i \in Pieces
               PROVE  (IF i <= n THEN file[pos[t] + i - 1] ELSE buffer[t][i]) \in Vals \cup {Noise}
    BY DEF Received, Contents
  <2>1. CASE i <= n
    <3>1. pos[t] \in 0 .. SIZE * call[t].offset
      BY <1>1, <1>5, <2>1, Moves, Sizes
    <3>2. pos[t] + i - 1 \in Positions
      BY <1>1, <1>2, <3>1, CallInProgress, PiecePositions
    <3> QED BY <1>6, <2>1, <3>2
  <2>2. CASE ~(i <= n)
    BY <1>6, <2>2 DEF Contents
  <2> QED BY <2>1, <2>2
<1>8. Written(t, n) \in [Positions -> Vals \cup {Noise}]
  <2>1. ASSUME NEW j \in 1 .. n PROVE buffer[t][j] \in Vals \cup {Noise}
    <3>1. j \in Pieces
      BY <1>5, <2>1, Sizes DEF Pieces
    <3> QED BY <1>6, <3>1 DEF Contents
  <2> QED BY <1>6, <2>1 DEF Written
<1>9. /\ buffer' \in [Threads -> Contents] /\ file' \in [Positions -> Vals \cup {Noise}]
      /\ \A u \in Threads \ {t} : buffer'[u] = buffer[u]
  BY <1>2, <1>3, <1>7, <1>8 DEF TypeOK
<1>10. TypeOK'
  <2>1. UNCHANGED <<exists, widens, call, fd, pos>>
    BY <1>1
  <2>2. \A u \in Threads : (call'[u] = None) = (pc'[u] = "idle")
    BY <1>1, <1>2, <1>4 DEF TypeOK
  <2> QED BY <1>2, <1>4, <1>9, <2>1, <2>2 DEF TypeOK
<1>11. SeekInv'
  <2>1. ASSUME NEW u \in Threads PROVE Position(call[u].offset)' = Position(call[u].offset)
    BY <1>1 DEF Position, Product, Wrap
  <2> QED BY <1>1, <1>2, <1>4, <2>1 DEF SeekInv
<1>12. CalmInv'
  <2> SUFFICES ASSUME faults = {} PROVE exists' /\ \A u \in Threads : CalmThread(u)'
    BY DEF CalmInv
  <2>1. CalmThread(t)'
    BY <1>1, <1>2, <1>4 DEF CalmInv, CalmThread
  <2>2. \A u \in Threads \ {t} : CalmThread(u)'
    BY <1>1, <1>2, <1>4, <1>9, StaysCalm DEF CalmInv
  <2> QED BY <1>1, <1>2, <2>1, <2>2 DEF CalmInv
<1> QED BY <1>10, <1>11, <1>12 DEF FileInv

LEMMA ReturnInv == ASSUME FileInv, UNCHANGED faults, NEW t \in Threads, Return(t) PROVE FileInv'
<1>1. /\ pc[t] = "return" /\ Goto(t, "idle") /\ UNCHANGED <<exists, file, widens, buffer>>
      /\ call' = [call EXCEPT ![t] = None] /\ fd' = [fd EXCEPT ![t] = FALSE]
      /\ pos' = [pos EXCEPT ![t] = 0]
  BY DEF Return
<1>2. TypeOK /\ SeekInv /\ CalmInv
  BY DEF FileInv
<1>3. /\ pc'[t] = "idle" /\ \A u \in Threads \ {t} : pc'[u] = pc[u]
      /\ pc' \in [Threads -> {"idle", "proxy", "open", "creat", "lseek", "transfer", "return"}]
  BY <1>1, <1>2, OneMoves
<1>4. /\ call' \in [Threads -> Calls \cup {None}] /\ call'[t] = None
      /\ \A u \in Threads \ {t} : call'[u] = call[u]
  BY <1>1, <1>2 DEF TypeOK
<1>5. /\ fd' \in [Threads -> BOOLEAN] /\ pos' \in [Threads -> Positions]
      /\ \A u \in Threads \ {t} : fd'[u] = fd[u] /\ pos'[u] = pos[u]
  BY <1>1, <1>2 DEF TypeOK, Positions
<1>6. TypeOK'
  <2>1. UNCHANGED <<exists, file, widens, buffer>>
    BY <1>1
  <2>2. \A u \in Threads : (call'[u] = None) = (pc'[u] = "idle")
    BY <1>2, <1>3, <1>4 DEF TypeOK
  <2> QED BY <1>2, <1>3, <1>4, <1>5, <2>1, <2>2 DEF TypeOK
<1>7. SeekInv'
  <2>1. ASSUME NEW u \in Threads \ {t} PROVE Position(call[u].offset)' = Position(call[u].offset)
    BY <1>1, <1>4 DEF Position, Product, Wrap
  <2> QED BY <1>2, <1>3, <1>4, <1>5, <2>1 DEF SeekInv
<1>8. CalmInv'
  <2> SUFFICES ASSUME faults = {} PROVE exists' /\ \A u \in Threads : CalmThread(u)'
    BY DEF CalmInv
  <2>1. CalmThread(t)'
    BY <1>3 DEF CalmThread
  <2>2. \A u \in Threads \ {t} : CalmThread(u)'
    BY <1>1, <1>2, <1>3, <1>4, <1>5, StaysCalm DEF CalmInv
  <2> QED BY <1>1, <1>2, <2>1, <2>2 DEF CalmInv
<1> QED BY <1>6, <1>7, <1>8 DEF FileInv

LEMMA StutterInv == ASSUME FileInv, UNCHANGED vars PROVE FileInv'
BY DEF FileInv, TypeOK, SeekInv, CalmInv, CalmThread, Reading, Position, Product, Wrap, vars

LEMMA NextFileInv == FileInv /\ [Next]_vars => FileInv'
<1> SUFFICES ASSUME FileInv, [Next]_vars PROVE FileInv'
  OBVIOUS
<1>1. CASE UNCHANGED vars
  BY <1>1, StutterInv
<1>2. CASE Next
  <2>1. PICK t \in Threads : UNCHANGED faults /\ Access(t)
    BY <1>2 DEF Next
  <2>2. CASE \E o \in Offsets, v \in Vals \cup {None} : Start(t, o, v)
    BY <2>1, <2>2, StartInv
  <2>3. CASE Marshal(t) \/ OcallocFails(t)
    BY <2>1, <2>3, ProxyInv
  <2>4. CASE Open(t)
    BY <2>1, <2>4, OpenInv
  <2>5. CASE Creat(t)
    BY <2>1, <2>5, CreatInv
  <2>6. CASE Lseek(t)
    BY <2>1, <2>6, LseekInv
  <2>7. CASE Transfer(t)
    BY <2>1, <2>7, TransferInv
  <2>8. CASE Return(t)
    BY <2>1, <2>8, ReturnInv
  <2> QED BY <2>1, <2>2, <2>3, <2>4, <2>5, <2>6, <2>7, <2>8 DEF Access
<1> QED BY <1>1, <1>2

(* FileInv is inductive: the types, where each descriptor is, and what a   *)
(* thread holds while nothing can fail.                                    *)
THEOREM FileInvariant == Spec => []FileInv
BY InitFileInv, NextFileInv, PTL DEF Spec

(* The types of the file, of the descriptors and of the buffers of the     *)
(* ocalls, for every number of threads and width of int.                   *)
THEOREM FileTypes == Spec => []TypeOK
<1>1. FileInv => TypeOK
  BY DEF FileInv
<1> QED BY <1>1, FileInvariant, PTL

-----------------------------------------------------------------------------
(* What a step changes in the file.                                        *)

(* A step changes the file only where a thread creates it or writes to it. *)
LEMMA FileChanges ==
  ASSUME FileInv, Next, file' # file
  PROVE  \E t \in Threads :
           \/ pc[t] = "creat" /\ file' = [p \in Positions |-> Noise] /\ pc'[t] = "lseek"
              /\ \A u \in Threads \ {t} : pc'[u] = pc[u]
           \/ /\ pc[t] = "transfer" /\ pc'[t] = "return" /\ ~Reading(t)
              /\ \E n \in Moved(t) : file' = Written(t, n)
              /\ \A u \in Threads \ {t} : pc'[u] = pc[u]
<1>1. PICK t \in Threads : Access(t)
  BY DEF Next
<1>2. Creat(t) \/ Transfer(t)
  BY <1>1 DEF Access, Start, Marshal, OcallocFails, Open, Lseek, Return
<1>3. CASE Creat(t)
  BY <1>3, OneMoves DEF Creat, FileInv
<1>4. CASE Transfer(t)
  BY <1>4, OneMoves DEF Transfer, FileInv
<1> QED BY <1>2, <1>3, <1>4

(* A block that a write changes overlaps the pieces that it moves. *)
LEMMA Overlap ==
  ASSUME FileInv, NEW t \in Threads, pc[t] = "transfer", NEW n \in Moved(t),
         file' = Written(t, n), NEW o \in Offsets, Block(o)' # Block(o)
  PROVE  /\ n \in Pieces
         /\ \E i \in Pieces, j \in Pieces : SIZE * o + i - 1 = pos[t] + j - 1
<1>1. PICK i \in Pieces : file'[SIZE * o + i - 1] # file[SIZE * o + i - 1]
  BY DEF Block
<1> DEFINE p == SIZE * o + i - 1
           j == p - pos[t] + 1
<1>2. SIZE * o \in 0 .. SIZE * o
  BY Sizes
<1>3. p \in Positions
  BY <1>2, PiecePositions
<1>4. j \in 1 .. n
  BY <1>1, <1>3 DEF Written
<1>5. n \in 0 .. SIZE
  BY Moves
<1>6. n # 0
  BY <1>4, <1>5
<1>7. pos[t] \in 0 .. SIZE * call[t].offset
  BY <1>6, Moves
<1>8. pos[t] \in Nat /\ p \in Nat
  <2>1. call[t].offset \in Offsets
    BY CallInProgress DEF FileInv
  <2>2. SIZE * o \in Nat /\ SIZE * call[t].offset \in Nat /\ i \in Nat /\ i >= 1
    BY <2>1, Sizes
  <2> QED BY <1>7, <2>2
<1>9. p = SIZE * o + i - 1
  OBVIOUS
<1> HIDE DEF p
<1>10. p = pos[t] + j - 1 /\ j \in Pieces /\ n \in Pieces
  BY <1>4, <1>5, <1>6, <1>8, Sizes DEF Pieces
<1> QED BY <1>9, <1>10

(* Where the descriptor of a write is, it changes that block and no other. *)
LEMMA OneBlock ==
  ASSUME FileInv, NEW t \in Threads, pc[t] = "transfer", NEW n \in Moved(t),
         file' = Written(t, n), NEW o \in Offsets, Block(o)' # Block(o),
         NEW c \in Nat, pos[t] = SIZE * c
  PROVE  o = c
<1>1. PICK i \in Pieces, j \in Pieces : SIZE * o + i - 1 = SIZE * c + j - 1
  BY Overlap
<1>2. o \in Nat
  BY Sizes
<1> QED BY <1>1, <1>2, BlocksApart

(* What the block at the descriptor becomes. *)
LEMMA NewBlock ==
  ASSUME FileInv, NEW t \in Threads, NEW n \in 0 .. SIZE,
         file' = Written(t, n), NEW o \in Offsets, pos[t] = SIZE * o
  PROVE  Block(o)' = [i \in Pieces |-> IF i <= n THEN buffer[t][i] ELSE Block(o)[i]]
<1>1. Block(o)' = [i \in Pieces |-> file'[SIZE * o + i - 1]]
  BY DEF Block
<1>2. ASSUME NEW i \in Pieces
      PROVE  file'[SIZE * o + i - 1] = (IF i <= n THEN buffer[t][i] ELSE Block(o)[i])
  <2> DEFINE x == SIZE * o
             p == x + i - 1
  <2>1. x \in Nat /\ i \in Nat /\ i >= 1 /\ pos[t] = x
    BY Sizes
  <2>2. p \in Positions
    <3>1. x \in 0 .. SIZE * o
      BY <2>1
    <3> QED BY <3>1, PiecePositions
  <2>3. file'[p] = (IF p - pos[t] + 1 \in 1 .. n THEN buffer[t][p - pos[t] + 1] ELSE file[p])
    BY <2>2 DEF Written
  <2>4. Block(o)[i] = file[p]
    BY DEF Block
  <2> HIDE DEF x
  <2>5. p - pos[t] + 1 = i
    BY <2>1
  <2>6. file'[p] = (IF i <= n THEN buffer[t][i] ELSE Block(o)[i])
    <3> HIDE DEF p
    <3>1. i \in 1 .. n <=> i <= n
      BY <2>1
    <3> QED BY <2>3, <2>4, <2>5, <3>1
  <2> QED BY <2>6 DEF p, x
<1> QED BY <1>1, <1>2

LEMMA StepDamage ==
  ASSUME FileInv, Next, NEW o \in ChangedBlocks
  PROVE  \/ \E t \in Threads : pc[t] = "creat" /\ file' = [p \in Positions |-> Noise]
         \/ \E t \in Threads : /\ Transfers(t) /\ ~Reading(t)
                               /\ call[t].offset \in InRange => call[t].offset = o
<1>1. o \in Offsets /\ Block(o)' # Block(o) /\ file' # file
  BY DEF ChangedBlocks, Block
<1>2. PICK t \in Threads :
        \/ pc[t] = "creat" /\ file' = [p \in Positions |-> Noise]
        \/ /\ pc[t] = "transfer" /\ pc'[t] = "return" /\ ~Reading(t)
           /\ \E n \in Moved(t) : file' = Written(t, n)
  BY <1>1, FileChanges
<1>3. CASE pc[t] = "transfer" /\ pc'[t] = "return" /\ ~Reading(t)
           /\ \E n \in Moved(t) : file' = Written(t, n)
  <2>1. PICK n \in Moved(t) : file' = Written(t, n)
    BY <1>3
  <2>2. ASSUME call[t].offset \in InRange PROVE call[t].offset = o
    <3>1. n # 0
      BY <1>1, <1>3, <2>1, Overlap, Sizes
    <3>2. pos[t] = SIZE * call[t].offset /\ call[t].offset \in Nat
      BY <1>3, <2>2, <3>1, Moves, Positioned, Sizes
    <3> QED BY <1>1, <1>3, <2>1, <3>2, OneBlock
  <2> QED BY <1>3, <2>2 DEF Transfers
<1> QED BY <1>2, <1>3

(* DamageContained: a step changes the block that its thread is writing,   *)
(* or creat loses them all.                                                *)
THEOREM WriterDamagesItsBlock == Spec => DamageContained
<1> DEFINE Damage ==
      \A o \in ChangedBlocks :
        \/ \E t \in Threads : pc[t] = "creat" /\ file' = [p \in Positions |-> Noise]
        \/ \E t \in Threads :
             /\ Transfers(t) /\ ~Reading(t)
             /\ call[t].offset \in InRange => call[t].offset = o
<1>1. FileInv /\ [Next]_vars => [Damage]_vars
  BY StepDamage
<1>2. DamageContained <=> [][Damage]_vars
  BY DEF DamageContained
<1> HIDE DEF Damage
<1> QED BY <1>1, <1>2, FileInvariant, PTL DEF Spec

(* The one thread that transfers, and the block its write goes to while    *)
(* offsets are below the second overflow.                                  *)
LEMMA WriteGoesTo ==
  ASSUME FirstOverflow, FileInv, Next, NEW o \in ChangedBlocks, NEW t \in Threads, Transfers(t)
  PROVE  /\ \E n \in Pieces : Block(o)' = [i \in Pieces |-> IF i <= n THEN buffer[t][i] ELSE Block(o)[i]]
         /\ call[t].offset \notin InRange => o \in {0, call[t].offset}
<1>1. o \in Offsets /\ Block(o)' # Block(o) /\ file' # file
  BY DEF ChangedBlocks, Block
<1>2. PICK s \in Threads :
        \/ pc'[s] = "lseek" /\ \A u \in Threads \ {s} : pc'[u] = pc[u]
        \/ /\ pc[s] = "transfer" /\ \A u \in Threads \ {s} : pc'[u] = pc[u]
           /\ \E n \in Moved(s) : file' = Written(s, n)
  BY <1>1, FileChanges
<1>3. s = t
  BY <1>2 DEF Transfers
<1>4. PICK n \in Moved(t) : file' = Written(t, n)
  BY <1>2, <1>3 DEF Transfers
<1>5. pc[t] = "transfer"
  BY DEF Transfers
<1>6. n \in Pieces /\ n \in 0 .. SIZE /\ n # 0
  BY <1>1, <1>4, <1>5, Overlap, Moves, Sizes
<1>7. /\ pos[t] = Position(call[t].offset)
      /\ call[t].offset \in Offsets
  BY <1>5, <1>6, Moves, CallInProgress DEF FileInv
<1>8. PICK c \in {0, call[t].offset} : pos[t] = SIZE * c
  <2>1. SIZE * 0 = 0
    BY Sizes
  <2> QED BY <1>7, <2>1, Positioned, Sizes
<1>9. o = c
  BY <1>1, <1>4, <1>5, <1>7, <1>8, OneBlock, Sizes
<1>10. Block(o)' = [i \in Pieces |-> IF i <= n THEN buffer[t][i] ELSE Block(o)[i]]
  BY <1>1, <1>4, <1>6, <1>8, <1>9, NewBlock
<1> QED BY <1>6, <1>8, <1>9, <1>10

(* ShortWriteMixes: a block that is written has a start of the new         *)
(* contents and the rest of the old.                                       *)
THEOREM WritesMix == ASSUME FirstOverflow PROVE Spec => ShortWriteMixes
<1> DEFINE Mix ==
      \A o \in ChangedBlocks, t \in Threads :
        Transfers(t) =>
          \E n \in Pieces : Block(o)' = [i \in Pieces |-> IF i <= n THEN buffer[t][i] ELSE Block(o)[i]]
<1>1. FileInv /\ [Next]_vars => [Mix]_vars
  BY WriteGoesTo
<1>2. ShortWriteMixes <=> [][Mix]_vars
  BY DEF ShortWriteMixes
<1> HIDE DEF Mix
<1> QED BY <1>1, <1>2, FileInvariant, PTL DEF Spec

(* The step by which a thread leaves its transfer is its transfer. *)
LEMMA TransferOf ==
  ASSUME FileInv, Next, NEW t \in Threads, Transfers(t)
  PROVE  Transfer(t)
<1>1. PICK s \in Threads : Access(s)
  BY DEF Next
<1>2. \A u \in Threads \ {s} : pc'[u] = pc[u]
  <2>1. PICK place : Goto(s, place)
    BY <1>1 DEF Access, Start, Marshal, OcallocFails, Open, Creat, Lseek, Transfer, Return
  <2> QED BY <2>1, OneMoves DEF FileInv
<1>3. s = t
  BY <1>2 DEF Transfers
<1> QED BY <1>1, <1>3 DEF Transfers, Access, Start, Marshal, OcallocFails, Open, Creat, Lseek, Return

(* What a read or a write of a block beyond the positions of an int does. *)
LEMMA OverflowGoesTo ==
  ASSUME FirstOverflow, FileInv, Next, NEW t \in Threads, Transfers(t),
         call[t].offset \notin InRange
  PROVE  \E n \in Moved(t) :
           IF Reading(t)
           THEN buffer'[t] = [i \in Pieces |-> IF i <= n THEN Block(Lands(call[t].offset))[i]
                                                        ELSE buffer[t][i]]
           ELSE \A o \in Offsets :
                  Block(o)' = IF o = Lands(call[t].offset)
                              THEN [i \in Pieces |-> IF i <= n THEN buffer[t][i] ELSE Block(o)[i]]
                              ELSE Block(o)
<1>1. Transfer(t) /\ pc[t] = "transfer" /\ TypeOK
  BY TransferOf DEF Transfers, FileInv
<1>2. PICK n \in Moved(t) :
        IF Reading(t)
        THEN buffer' = [buffer EXCEPT ![t] = Received(t, n)] /\ UNCHANGED file
        ELSE file' = Written(t, n) /\ UNCHANGED buffer
  BY <1>1 DEF Transfer
<1>3. n \in 0 .. SIZE
  BY <1>1, Moves
<1>4. PICK c : c = Lands(call[t].offset)
  OBVIOUS
<1>5. c \in Nat /\ (n # 0 => pos[t] = SIZE * c)
  <2>1. call[t].offset \in Offsets /\ call[t].offset \in Nat
    BY <1>1, CallInProgress, Sizes
  <2>2. n # 0 => pos[t] = Position(call[t].offset)
    BY <1>1, Moves
  <2>3. SIZE * 0 = 0
    BY Sizes
  <2> QED BY <1>4, <2>1, <2>2, <2>3, Positioned DEF Lands
<1>6. CASE Reading(t)
  <2>1. buffer'[t] = Received(t, n)
    BY <1>1, <1>2, <1>6 DEF TypeOK
  <2>2. ASSUME NEW i \in Pieces, i <= n PROVE file[pos[t] + i - 1] = Block(c)[i]
    <3>1. n # 0
      BY <1>3, <2>2, Sizes
    <3> QED BY <1>5, <3>1 DEF Block
  <2>3. Received(t, n) = [i \in Pieces |-> IF i <= n THEN Block(c)[i] ELSE buffer[t][i]]
    BY <2>2 DEF Received
  <2> QED BY <1>2, <1>4, <1>6, <2>1, <2>3
<1>7. CASE ~Reading(t)
  <2>1. file' = Written(t, n)
    BY <1>2, <1>7
  <2>2. ASSUME NEW o \in Offsets
        PROVE  Block(o)' = IF o = c
                           THEN [i \in Pieces |-> IF i <= n THEN buffer[t][i] ELSE Block(o)[i]]
                           ELSE Block(o)
    <3>1. CASE n # 0 /\ o = c
      BY <1>3, <1>5, <2>1, <3>1, NewBlock
    <3>2. CASE n # 0 /\ o # c
      BY <1>1, <1>5, <2>1, <3>2, OneBlock
    <3>3. CASE n = 0
      <4>1. Block(o)' = Block(o)
        BY <1>1, <2>1, <3>3, Overlap, Sizes
      <4>2. [i \in Pieces |-> IF i <= n THEN buffer[t][i] ELSE Block(o)[i]] = Block(o)
        BY <3>3, Sizes DEF Block
      <4> QED BY <4>1, <4>2
    <3> QED BY <3>1, <3>2, <3>3
  <2> QED BY <1>2, <1>4, <1>7, <2>2
<1> QED BY <1>6, <1>7

(* OverflowHitsRoot: a read or a write of the first level that overflows,  *)
(* in a build that does not widen the product, is one of the root.         *)
THEOREM OverflowGoesToRoot == ASSUME FirstOverflow PROVE Spec => OverflowHitsRoot
<1> DEFINE Hits ==
      \A t \in Threads :
        Transfers(t) /\ call[t].offset \notin InRange =>
          \E n \in Moved(t) :
            IF Reading(t)
            THEN buffer'[t] = [i \in Pieces |-> IF i <= n THEN Block(Lands(call[t].offset))[i]
                                                         ELSE buffer[t][i]]
            ELSE \A o \in Offsets :
                   Block(o)' = IF o = Lands(call[t].offset)
                               THEN [i \in Pieces |-> IF i <= n THEN buffer[t][i] ELSE Block(o)[i]]
                               ELSE Block(o)
<1>1. FileInv /\ [Next]_vars => [Hits]_vars
  <2>1. FileInv /\ Next => Hits
    BY OverflowGoesTo
  <2> HIDE DEF Hits
  <2> QED BY <2>1
<1>2. OverflowHitsRoot <=> [][Hits]_vars
  BY DEF OverflowHitsRoot
<1> HIDE DEF Hits
<1> QED BY <1>1, <1>2, FileInvariant, PTL DEF Spec

-----------------------------------------------------------------------------
(* The refinement of BlockArray.                                           *)

LEMMA Decrypted ==
  ASSUME NEW b \in Contents PROVE aes_decrypt(b) \in Vals \cup {Noise, None, "mixed"}
BY Sizes DEF Contents, aes_decrypt

(* What the array sees of a thread, at each place. *)
LEMMA OpAtPlace ==
  ASSUME TypeOK, faults = {}, NEW t \in Threads
  PROVE  /\ pc[t] = "idle" => ArrayOp(t) = None
         /\ pc[t] \notin {"idle", "return"} =>
              ArrayOp(t) = [offset |-> call[t].offset, val |-> call[t].val, done |-> FALSE, got |-> None]
         /\ pc[t] = "return" =>
              ArrayOp(t) = [offset |-> call[t].offset, val |-> call[t].val, done |-> TRUE,
                            got |-> IF Reading(t) THEN aes_decrypt(buffer[t]) ELSE None]
         /\ pc[t] # "idle" => ArrayOp(t) # None
<1>1. (call[t] = None) = (pc[t] = "idle")
  BY DEF TypeOK
<1>2. CASE pc[t] = "idle"
  BY <1>1, <1>2 DEF ArrayOp
<1>3. ASSUME pc[t] # "idle", NEW done \in BOOLEAN, NEW got \in Vals \cup {Noise, None, "mixed"}
      PROVE  [offset |-> call[t].offset, val |-> call[t].val, done |-> done, got |-> got] # None
  BY <1>3, NoneAssumption, CallInProgress
<1>4. CASE pc[t] \notin {"idle", "return"}
  <2>1. (pc[t] = "return") = FALSE
    BY <1>4
  <2>2. ArrayOp(t) = [offset |-> call[t].offset, val |-> call[t].val, done |-> FALSE, got |-> None]
    BY <1>1, <1>4, <2>1 DEF ArrayOp
  <2> QED BY <1>3, <1>4, <2>2
<1>5. CASE pc[t] = "return"
  <2>1. (pc[t] = "return") = TRUE
    BY <1>5
  <2> DEFINE got == IF Reading(t) THEN aes_decrypt(buffer[t]) ELSE None
  <2>2. ArrayOp(t) = [offset |-> call[t].offset, val |-> call[t].val, done |-> TRUE, got |-> got]
    BY <1>1, <1>5, <2>1 DEF ArrayOp
  <2>3. got \in Vals \cup {Noise, None, "mixed"}
    BY Decrypted DEF TypeOK
  <2> HIDE DEF got
  <2>4. ArrayOp(t) # None
    BY <1>3, <1>5, <2>2, <2>3
  <2> QED BY <1>5, <2>2, <2>4 DEF got
<1> QED BY <1>2, <1>4, <1>5

LEMMA OpKept ==
  ASSUME UNCHANGED faults, NEW u \in Threads,
         pc'[u] = pc[u], call'[u] = call[u], buffer'[u] = buffer[u]
  PROVE  ArrayOp(u)' = ArrayOp(u)
BY DEF ArrayOp, Reading

LEMMA ArrayKept == ASSUME UNCHANGED <<faults, file>> PROVE UNCHANGED FileArray
BY DEF FileArray, Block

LEMMA InitArray == Init => Array!Init
<1> SUFFICES ASSUME Init PROVE Array!Init
  OBVIOUS
<1>1. ASSUME NEW o \in InRange PROVE Block(o) = aes_encrypt(Noise)
  <2>1. ASSUME NEW i \in Pieces PROVE SIZE * o + i - 1 \in Positions
    <3>1. o \in Offsets /\ SIZE * o \in 0 .. SIZE * o
      BY Sizes
    <3> QED BY <3>1, PiecePositions
  <2> QED BY <2>1 DEF Block, aes_encrypt, Init
<1>2. FileArray = [o \in InRange |-> Noise]
  BY <1>1, Encrypted DEF FileArray
<1>3. ArrayOps = [t \in Threads |-> None]
  BY DEF ArrayOps, ArrayOp, Init
<1> QED BY <1>2, <1>3 DEF Array!Init

(* One thread's operation changes, and no other's. *)
LEMMA OneOp ==
  ASSUME NEW t \in Threads, \A u \in Threads \ {t} : ArrayOp(u)' = ArrayOp(u)
  PROVE  /\ ArrayOps[t] = ArrayOp(t)
         /\ ArrayOps' = [ArrayOps EXCEPT ![t] = ArrayOp(t)']
BY DEF ArrayOps

(* An operation before and after it is done. *)
Pending(o, v) == [offset |-> o, val |-> v, done |-> FALSE, got |-> None]
Finished(o, v, g) == [offset |-> o, val |-> v, done |-> TRUE, got |-> g]
Answered(r, g) == [r EXCEPT !.done = TRUE, !.got = g]

LEMMA OpDone ==
  ASSUME NEW a, NEW b, NEW c
  PROVE  /\ Answered(Pending(a, b), c) = Finished(a, b, c)
         /\ [Pending(a, b) EXCEPT !.done = TRUE] = Finished(a, b, None)
<1>1. PICK r : r = Pending(a, b)
  OBVIOUS
<1>2. PICK x : x = FALSE
  OBVIOUS
<1>3. PICK y : y = TRUE
  OBVIOUS
<1>4. [offset |-> a, val |-> b, done |-> x, got |-> None] = Pending(a, b)
  BY <1>2 DEF Pending
<1>5. r = [offset |-> a, val |-> b, done |-> x, got |-> None]
  BY <1>1, <1>4, Zenon
<1>6. [r EXCEPT !.done = y] = [offset |-> a, val |-> b, done |-> y, got |-> None]
  BY <1>5
<1>7. [[offset |-> a, val |-> b, done |-> y, got |-> None] EXCEPT !.got = c]
        = [offset |-> a, val |-> b, done |-> y, got |-> c]
  OBVIOUS
<1>8. [r EXCEPT !.done = y, !.got = c] = [[r EXCEPT !.done = y] EXCEPT !.got = c]
  OBVIOUS
<1>9. [r EXCEPT !.done = y, !.got = c] = [offset |-> a, val |-> b, done |-> y, got |-> c]
  BY <1>6, <1>7, <1>8
<1>10. \A g : Finished(a, b, g) = [offset |-> a, val |-> b, done |-> y, got |-> g]
  BY <1>3 DEF Finished
<1>11. /\ [r EXCEPT !.done = y] = [r EXCEPT !.done = TRUE]
       /\ [r EXCEPT !.done = y, !.got = c] = [r EXCEPT !.done = TRUE, !.got = c]
  BY <1>3
<1> QED BY <1>1, <1>6, <1>9, <1>10, <1>11, Zenon DEF Answered

LEMMA OpsDone ==
  ASSUME NEW S, NEW f \in [Threads -> S], NEW t \in Threads, NEW c
  PROVE  /\ [f EXCEPT ![t].done = TRUE, ![t].got = c]
              = [f EXCEPT ![t] = [f[t] EXCEPT !.done = TRUE, !.got = c]]
         /\ [f EXCEPT ![t].done = TRUE] = [f EXCEPT ![t] = [f[t] EXCEPT !.done = TRUE]]
OBVIOUS

LEMMA StartArray ==
  ASSUME FileInv, faults = {}, UNCHANGED faults, NEW t \in Threads, NEW o \in Offsets,
         NEW v \in Vals \cup {None}, Start(t, o, v)
  PROVE  Array!Next
<1>1. /\ pc[t] = "idle" /\ Goto(t, "proxy") /\ call' = [call EXCEPT ![t] = [offset |-> o, val |-> v]]
      /\ o \in InRange /\ UNCHANGED file
      /\ buffer' = IF v = None THEN buffer ELSE [buffer EXCEPT ![t] = aes_encrypt(v)]
  BY DEF Start
<1>2. TypeOK /\ TypeOK'
  BY StartInv DEF FileInv
<1>3. pc'[t] = "proxy" /\ \A u \in Threads \ {t} : pc'[u] = pc[u]
  BY <1>1, <1>2, OneMoves
<1>4. call'[t] = [offset |-> o, val |-> v] /\ \A u \in Threads \ {t} : call'[u] = call[u]
  BY <1>1, <1>2 DEF TypeOK
<1>5. \A u \in Threads \ {t} : buffer'[u] = buffer[u]
  BY <1>1, <1>2 DEF TypeOK
<1>6. ArrayOp(t) = None
  BY <1>1, <1>2, OpAtPlace
<1>7. ArrayOp(t)' = [offset |-> o, val |-> v, done |-> FALSE, got |-> None]
  <2>1. (call[t] = None)' = FALSE
    BY <1>2, <1>3 DEF TypeOK
  <2>2. (pc[t] = "return")' = FALSE
    BY <1>3
  <2>3. call'[t].offset = o /\ call'[t].val = v
    BY <1>4
  <2>4. ArrayOp(t)' = [offset |-> call'[t].offset, val |-> call'[t].val, done |-> FALSE, got |-> None]
    BY <2>1, <2>2 DEF ArrayOp
  <2> QED BY <2>3, <2>4
<1>8. \A u \in Threads \ {t} : ArrayOp(u)' = ArrayOp(u)
  BY <1>3, <1>4, <1>5, OpKept
<1>9. Array!Start(t, o, v)
  BY <1>1, <1>6, <1>7, <1>8, OneOp, ArrayKept DEF Array!Start
<1> QED BY <1>1, <1>9 DEF Array!Next

(* The steps that the array does not see. *)
LEMMA HiddenArray ==
  ASSUME FileInv, FileInv', faults = {}, UNCHANGED <<faults, file, call>>, NEW t \in Threads,
         pc[t] \notin {"idle", "return"}, pc'[t] \notin {"idle", "return"},
         \A u \in Threads \ {t} : pc'[u] = pc[u] /\ buffer'[u] = buffer[u]
  PROVE  UNCHANGED Array!vars
<1>1. ArrayOp(t)' = [offset |-> call[t].offset, val |-> call[t].val, done |-> FALSE, got |-> None]
  <2>1. (call[t] = None)' = FALSE /\ (pc[t] = "return")' = FALSE
    BY DEF FileInv, TypeOK
  <2> QED BY <2>1 DEF ArrayOp
<1>2. ArrayOp(t) = [offset |-> call[t].offset, val |-> call[t].val, done |-> FALSE, got |-> None]
  BY OpAtPlace DEF FileInv
<1>3. \A u \in Threads \ {t} : ArrayOp(u)' = ArrayOp(u)
  BY OpKept
<1>4. ArrayOps' = ArrayOps
  BY <1>1, <1>2, <1>3 DEF ArrayOps
<1> QED BY <1>4, ArrayKept DEF Array!vars

LEMMA TransferArray ==
  ASSUME FileInv, faults = {}, UNCHANGED faults, NEW t \in Threads, Transfer(t)
  PROVE  Array!Next
<1>1. pc[t] = "transfer" /\ Goto(t, "return") /\ UNCHANGED call
  BY DEF Transfer
<1>2. TypeOK /\ CalmThread(t) /\ SeekInv
  BY DEF FileInv, CalmInv
<1>3. SIZE \in Moved(t) /\ \A n \in Moved(t) : n = SIZE
  BY <1>1, <1>2 DEF Moved, CalmThread
<1>4. IF Reading(t)
      THEN buffer' = [buffer EXCEPT ![t] = Received(t, SIZE)] /\ UNCHANGED file
      ELSE file' = Written(t, SIZE) /\ UNCHANGED buffer
  BY <1>3 DEF Transfer
<1>5. pc'[t] = "return" /\ \A u \in Threads \ {t} : pc'[u] = pc[u]
  BY <1>1, <1>2, OneMoves
<1>13. PICK o \in Offsets : o = call[t].offset
  BY <1>1, <1>2, CallInProgress
<1>6. o \in InRange /\ o \in Offsets /\ pos[t] = SIZE * o
  BY <1>13, <1>1, <1>2, CallInProgress, Positioned DEF CalmThread, SeekInv
<1>7. ArrayOp(t) = [offset |-> o, val |-> call[t].val, done |-> FALSE, got |-> None] /\ ArrayOp(t) # None
  BY <1>13, <1>1, <1>2, OpAtPlace
<1>8. ArrayOp(t)' = [offset |-> o, val |-> call[t].val, done |-> TRUE,
                     got |-> IF Reading(t) THEN aes_decrypt(buffer'[t]) ELSE None]
  <2>1. (call[t] = None)' = FALSE /\ (pc[t] = "return")' = TRUE
    BY <1>1, <1>2, <1>5 DEF TypeOK
  <2> QED BY <1>13, <1>1, <2>1 DEF ArrayOp, Reading
<1>9. \A u \in Threads \ {t} : ArrayOp(u)' = ArrayOp(u)
  BY <1>1, <1>2, <1>4, <1>5, OpKept DEF TypeOK
<1>10. /\ ArrayOps[t] = ArrayOp(t) /\ ArrayOps' = [ArrayOps EXCEPT ![t] = ArrayOp(t)']
       /\ ArrayOps \in [Threads -> {ArrayOp(u) : u \in Threads}]
  BY <1>9, OneOp DEF ArrayOps
<1>11. CASE Reading(t)
  <2>1. buffer'[t] = Received(t, SIZE) /\ UNCHANGED file
    BY <1>2, <1>4, <1>11 DEF TypeOK
  <2>2. Received(t, SIZE) = Block(o)
    BY <1>6, Sizes DEF Received, Block
  <2>3. FileArray[o] = aes_decrypt(Block(o))
    BY <1>6 DEF FileArray
  <2>4. ArrayOp(t)' = [offset |-> o, val |-> call[t].val, done |-> TRUE, got |-> FileArray[o]]
    BY <1>8, <1>11, <2>1, <2>2, <2>3
  <2>5. ArrayOp(t)' = [ArrayOp(t) EXCEPT !.done = TRUE, !.got = FileArray[o]]
    <3>1. ArrayOp(t) = Pending(o, call[t].val) /\ ArrayOp(t)' = Finished(o, call[t].val, FileArray[o])
      BY <1>7, <2>4, Zenon DEF Pending, Finished
    <3>2. \A x, y : Answered(Pending(o, x), y) = Finished(o, x, y)
      BY OpDone
    <3>3. Answered(Pending(o, call[t].val), FileArray[o]) = Finished(o, call[t].val, FileArray[o])
      BY <3>2
    <3>4. Answered(ArrayOp(t), FileArray[o]) = ArrayOp(t)'
      BY <3>1, <3>3, Zenon
    <3> QED BY <3>4 DEF Answered
  <2>6. ArrayOps' = [ArrayOps EXCEPT ![t].done = TRUE, ![t].got = FileArray[o]]
    BY <1>10, <2>5, OpsDone
  <2>7. /\ ArrayOps[t] # None /\ ArrayOps[t].offset = o
        /\ ArrayOps[t].done = FALSE /\ ArrayOps[t].val = None
    BY <1>7, <1>10, <1>11 DEF Reading
  <2>8. Array!Read(t)
    BY <2>1, <2>6, <2>7, ArrayKept DEF Array!Read
  <2> QED BY <2>8 DEF Array!Next
<1>12. CASE ~Reading(t)
  <2>1. file' = Written(t, SIZE) /\ call[t].val \in Vals /\ buffer[t] = aes_encrypt(call[t].val)
    BY <1>1, <1>2, <1>4, <1>12, CallInProgress DEF CalmThread, Reading
  <2>2. Block(o)' = [i \in Pieces |-> IF i <= SIZE THEN buffer[t][i] ELSE Block(o)[i]]
    <3>1. SIZE \in 0 .. SIZE
      BY Sizes
    <3> QED BY <1>6, <2>1, <3>1, NewBlock
  <2>3. Block(o)' = aes_encrypt(call[t].val)
    BY <2>1, <2>2, Sizes DEF aes_encrypt
  <2>4. aes_decrypt(Block(o)') = call[t].val
    BY <2>1, <2>3, Encrypted
  <2>5. ASSUME NEW p \in InRange, p # o PROVE Block(p)' = Block(p)
    <3>1. p \in Offsets /\ o \in Nat
      BY <1>6, Sizes
    <3> QED BY <1>1, <1>3, <1>6, <2>1, <2>5, <3>1, OneBlock
  <2>6. FileArray' = [FileArray EXCEPT ![o] = call[t].val]
    <3>1. FileArray = [p \in InRange |-> aes_decrypt(Block(p))]
      BY DEF FileArray
    <3>2. FileArray' = [p \in InRange |-> aes_decrypt(Block(p)')]
      BY DEF FileArray, aes_decrypt
    <3>3. \A p \in InRange : aes_decrypt(Block(p)') = IF p = o THEN call[t].val ELSE FileArray[p]
      BY <2>4, <2>5, <3>1
    <3>4. FileArray' = [p \in InRange |-> IF p = o THEN call[t].val ELSE FileArray[p]]
      BY <3>2, <3>3
    <3>5. DOMAIN FileArray = InRange
      BY <3>1
    <3> QED BY <3>1, <3>4, <3>5
  <2>7. ArrayOp(t)' = [offset |-> o, val |-> call[t].val, done |-> TRUE, got |-> None]
    BY <1>8, <1>12
  <2>8. ArrayOp(t)' = [ArrayOp(t) EXCEPT !.done = TRUE]
    <3>1. ArrayOp(t) = Pending(o, call[t].val) /\ ArrayOp(t)' = Finished(o, call[t].val, None)
      BY <1>7, <2>7, Zenon DEF Pending, Finished
    <3>2. [Pending(o, call[t].val) EXCEPT !.done = TRUE] = Finished(o, call[t].val, None)
      BY OpDone, Zenon
    <3> QED BY <3>1, <3>2, Zenon
  <2>9. ArrayOps' = [ArrayOps EXCEPT ![t].done = TRUE]
    BY <1>10, <2>8, OpsDone
  <2>10. /\ ArrayOps[t] # None /\ ArrayOps[t].offset = o /\ ArrayOps[t].val = call[t].val
         /\ ArrayOps[t].done = FALSE /\ ArrayOps[t].val # None
    BY <1>7, <1>10, <1>12 DEF Reading
  <2>11. Array!Write(t)
    BY <2>6, <2>9, <2>10 DEF Array!Write
  <2> QED BY <2>11 DEF Array!Next
<1> QED BY <1>11, <1>12

LEMMA ReturnArray ==
  ASSUME FileInv, faults = {}, UNCHANGED faults, NEW t \in Threads, Return(t)
  PROVE  Array!Next
<1>1. /\ pc[t] = "return" /\ Goto(t, "idle") /\ UNCHANGED <<file, buffer>>
      /\ call' = [call EXCEPT ![t] = None]
  BY DEF Return
<1>2. TypeOK
  BY DEF FileInv
<1>3. /\ pc'[t] = "idle" /\ call'[t] = None
      /\ \A u \in Threads \ {t} : pc'[u] = pc[u] /\ call'[u] = call[u]
  BY <1>1, <1>2, OneMoves DEF TypeOK
<1>4. ArrayOp(t)' = None
  BY <1>3 DEF ArrayOp
<1>5. ArrayOp(t) # None /\ ArrayOp(t).done = TRUE
  BY <1>1, <1>2, OpAtPlace
<1>6. \A u \in Threads \ {t} : ArrayOp(u)' = ArrayOp(u)
  BY <1>1, <1>3, OpKept
<1>7. Array!Return(t)
  BY <1>1, <1>4, <1>5, <1>6, OneOp, ArrayKept DEF Array!Return
<1> QED BY <1>7 DEF Array!Next

LEMMA StepArray == FileInv /\ [Next]_vars => [Array!Next]_(Array!vars)
<1> SUFFICES ASSUME FileInv, [Next]_vars PROVE [Array!Next]_(Array!vars)
  OBVIOUS
<1>1. FileInv'
  BY NextFileInv
<1>2. CASE UNCHANGED vars
  BY <1>2 DEF vars, Array!vars, FileArray, ArrayOps, ArrayOp, Block, Reading
<1>3. CASE Next /\ faults # {}
  <2>1. faults' = faults
    BY <1>3 DEF Next
  <2> QED BY <1>3, <2>1 DEF Array!vars, FileArray, ArrayOps, ArrayOp
<1>4. CASE Next /\ faults = {}
  <2>1. PICK t \in Threads : UNCHANGED faults /\ Access(t)
    BY <1>4 DEF Next
  <2>2. TypeOK /\ CalmThread(t) /\ exists
    BY <1>4 DEF FileInv, CalmInv
  <2>3. CASE \E o \in Offsets, v \in Vals \cup {None} : Start(t, o, v)
    BY <1>4, <2>1, <2>3, StartArray
  <2>4. CASE Marshal(t)
    <3>1. /\ pc[t] = "proxy" /\ pc'[t] = "open" /\ UNCHANGED <<file, call>>
          /\ \A u \in Threads \ {t} : pc'[u] = pc[u] /\ buffer'[u] = buffer[u]
      BY <2>2, <2>4, OneMoves DEF Marshal, TypeOK
    <3> QED BY <1>1, <1>4, <2>1, <3>1, HiddenArray
  <2>5. ~OcallocFails(t) /\ ~Creat(t)
    BY <1>4, <2>2 DEF OcallocFails, Creat, CalmThread
  <2>6. CASE Open(t)
    <3>1. /\ pc[t] = "open" /\ pc'[t] \in {"lseek", "creat"} /\ UNCHANGED <<file, call, buffer>>
          /\ \A u \in Threads \ {t} : pc'[u] = pc[u]
      BY <2>2, <2>6, OneMoves DEF Open
    <3> QED BY <1>1, <1>4, <2>1, <3>1, HiddenArray
  <2>7. CASE Lseek(t)
    <3>1. /\ pc[t] = "lseek" /\ pc'[t] = "transfer" /\ UNCHANGED <<file, call, buffer>>
          /\ \A u \in Threads \ {t} : pc'[u] = pc[u]
      BY <2>2, <2>7, OneMoves DEF Lseek
    <3> QED BY <1>1, <1>4, <2>1, <3>1, HiddenArray
  <2>8. CASE Transfer(t)
    BY <1>4, <2>1, <2>8, TransferArray
  <2>9. CASE Return(t)
    BY <1>4, <2>1, <2>9, ReturnArray
  <2> QED BY <2>1, <2>3, <2>4, <2>5, <2>6, <2>7, <2>8, <2>9 DEF Access
<1> QED BY <1>2, <1>3, <1>4

(* ImplementsArray: in every behaviour without a fault the file is the     *)
(* array of blocks that the ORAM takes it for.                             *)
THEOREM FileIsAnArray == Spec => ImplementsArray
BY InitArray, StepArray, FileInvariant, PTL DEF Spec, ImplementsArray, Array!Spec
=============================================================================
