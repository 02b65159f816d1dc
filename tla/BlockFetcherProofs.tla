------------------------- MODULE BlockFetcherProofs -------------------------
(***************************************************************************)
(* Proofs about BlockFetcher, for chains of any height, blocks with any    *)
(* number of transactions and any number of runs.                          *)
(***************************************************************************)
EXTENDS BlockFetcher, TLAPS

Transaction == [run : Nat, block : Nat, index : Int]

Types ==
  /\ pc \in {"outer", "height", "inner", "block", "done"}
  /\ currentBlockHeight \in Nat
  /\ runs \in Nat
  /\ pending \subseteq Transaction
  /\ data \in Seq(Transaction)

(* What was appended, or will be, is of an earlier run or of a block that   *)
(* this run has passed: the block it asks for next is new to the file.      *)
Past(t) == t.run < runs \/ (t.run = runs /\ t.block < currentBlockHeight)

Passed ==
  /\ \A t \in pending : Past(t)
  /\ \A n \in DOMAIN data : Past(data[n])

(* Once the height is known the outer loop goes round only to end.          *)
Asked ==
  /\ asked \in 0 .. 1
  /\ pc = "height" => asked = 0
  /\ pc = "outer" /\ asked = 1 => ~Below

FetcherInv == Types /\ Passed /\ Asked /\ GapsAccounted /\ EachOncePerRun

-----------------------------------------------------------------------------
LEMMA AppendedData ==
  ASSUME data \in Seq(Transaction), NEW t \in Transaction
  PROVE  /\ Append(data, t) \in Seq(Transaction)
         /\ Len(data) \in Nat
         /\ DOMAIN data = 1 .. Len(data)
         /\ DOMAIN Append(data, t) = 1 .. Len(data) + 1
         /\ \A n \in 1 .. Len(data) : Append(data, t)[n] = data[n]
         /\ Append(data, t)[Len(data) + 1] = t
         /\ Range(Append(data, t)) = Range(data) \cup {t}
<1>1. /\ Append(data, t) \in Seq(Transaction)
      /\ Len(data) \in Nat
      /\ DOMAIN data = 1 .. Len(data)
      /\ DOMAIN Append(data, t) = 1 .. Len(data) + 1
      /\ \A n \in 1 .. Len(data) : Append(data, t)[n] = data[n]
      /\ Append(data, t)[Len(data) + 1] = t
  OBVIOUS
<1>2. Range(Append(data, t)) = Range(data) \cup {t}
  <2>1. 1 .. Len(data) + 1 = 1 .. Len(data) \cup {Len(data) + 1}
    BY <1>1
  <2> QED BY <1>1, <2>1, Zenon DEF Range
<1> QED BY <1>1, <1>2

LEMMA InitFetcher == ASSUME Init PROVE FetcherInv
<1>1. data = <<>> /\ data \in Seq(Transaction)
  BY DEF Init
<1>2. DOMAIN data = {}
  BY <1>1
<1>3. EachOncePerRun
  BY <1>2 DEF Init, EachOncePerRun, IsInjective
<1> QED BY <1>1, <1>2, <1>3 DEF Init, FetcherInv, Types, Passed, Asked, GapsAccounted

(* Steps of the script that leave the file and its appends alone.           *)
LEMMA LoopFetcher ==
  ASSUME FetcherInv, OuterLoop \/ HeightAnswer \/ InnerLoop \/ Grow \/ UNCHANGED vars
  PROVE  FetcherInv'
<1>1. UNCHANGED <<fileVars, currentBlockHeight, skipped, runs>>
  BY DEF OuterLoop, HeightAnswer, InnerLoop, Grow, vars
<1>2. Types'
  BY <1>1 DEF FetcherInv, Types, fileVars, OuterLoop, HeightAnswer, InnerLoop, Grow, vars
<1>3. Passed'
  BY <1>1 DEF FetcherInv, Passed, Past, fileVars
<1>4. GapsAccounted' /\ EachOncePerRun'
  BY <1>1 DEF FetcherInv, GapsAccounted, Transactions, EachOncePerRun, fileVars
<1>5. Asked'
  BY DEF FetcherInv, Asked, Below, OuterLoop, HeightAnswer, InnerLoop, Grow, vars
<1> QED BY <1>2, <1>3, <1>4, <1>5 DEF FetcherInv

(* The next block is passed, and its transactions are in progress or it is  *)
(* skipped.                                                                 *)
LEMMA BlockFetcherStep ==
  ASSUME FetcherInv, BlockAnswer \/ BlockFails
  PROVE  FetcherInv'
<1>1. /\ pc = "block" /\ pc' = "inner" /\ currentBlockHeight' = currentBlockHeight + 1
      /\ currentBlockHeight \in Nat /\ runs \in Nat
      /\ UNCHANGED <<currentTopHeight, data, lost, asked, runs>>
  BY DEF FetcherInv, Types, BlockAnswer, BlockFails, NextBlock, AfterBlock, fileVars
<1>2. /\ pending' \in {pending, pending \cup Transactions(currentBlockHeight)}
      /\ skipped' \in {skipped, skipped \cup {currentBlockHeight}}
      /\ \/ pending' = pending \cup Transactions(currentBlockHeight)
         \/ currentBlockHeight \in skipped'
  BY DEF BlockAnswer, BlockFails, fileVars
<1>3. \A t \in Transactions(currentBlockHeight) :
        t \in Transaction /\ t.run = runs /\ t.block = currentBlockHeight
  BY <1>1 DEF Transactions, Transaction
<1>4. Types'
  BY <1>1, <1>2, <1>3 DEF FetcherInv, Types
<1>5. \A t : Past(t) /\ t.run \in Nat /\ t.block \in Nat => Past(t)'
  BY <1>1 DEF Past
<1>6. Passed'
  <2>1. ASSUME NEW t \in pending' PROVE Past(t)'
    <3>1. CASE t \in pending
      BY <1>5, <3>1 DEF FetcherInv, Passed, Types, Transaction
    <3>2. CASE t \in Transactions(currentBlockHeight)
      BY <1>1, <1>3, <3>2 DEF Past
    <3> QED BY <1>2, <3>1, <3>2
  <2>2. ASSUME NEW n \in DOMAIN data' PROVE Past(data[n])'
    <3>1. data[n] \in Transaction /\ Past(data[n]) /\ data' = data
      BY <1>1 DEF FetcherInv, Passed, Types
    <3> QED BY <1>1, <3>1 DEF Past, Transaction
  <2> QED BY <2>1, <2>2 DEF Passed
<1>7. Asked'
  BY <1>1 DEF FetcherInv, Asked
<1>8. GapsAccounted'
  <2>1. SUFFICES ASSUME NEW b \in 0 .. currentBlockHeight, b \notin skipped'
                 PROVE  Transactions(b) \subseteq pending' \cup Range(data) \cup lost
    BY <1>1 DEF GapsAccounted, Transactions
  <2>2. CASE b = currentBlockHeight
    BY <1>2, <2>1, <2>2
  <2>3. CASE b # currentBlockHeight
    <3>1. b \in 0 .. currentBlockHeight - 1 /\ b \notin skipped
      BY <1>1, <1>2, <2>1, <2>3
    <3> QED BY <1>2, <3>1 DEF FetcherInv, GapsAccounted
  <2> QED BY <2>2, <2>3
<1>9. EachOncePerRun'
  <2>1. ASSUME NEW n \in DOMAIN data PROVE data[n] \notin Transactions(currentBlockHeight)
    <3>1. Past(data[n])
      BY DEF FetcherInv, Passed
    <3> QED BY <1>1, <1>3, <3>1 DEF Past
  <2> QED BY <1>1, <1>2, <2>1 DEF FetcherInv, EachOncePerRun, Range
<1> QED BY <1>4, <1>6, <1>7, <1>8, <1>9 DEF FetcherInv

(* An append that is done was in progress, and so was not in the file.      *)
LEMMA AppendFetcher ==
  ASSUME FetcherInv, NEW t \in pending, AppendFile(t)
  PROVE  FetcherInv'
<1>1. /\ pending' = pending \ {t}
      /\ UNCHANGED <<pc, currentBlockHeight, currentTopHeight, skipped, asked, runs>>
      /\ \/ data' = Append(data, t) /\ lost' = lost
         \/ data' = data /\ lost' = lost \cup {t}
  BY DEF AppendFile, AppendDone
<1>2. t \in Transaction /\ t \notin Range(data) /\ Past(t) /\ data \in Seq(Transaction)
  BY DEF FetcherInv, Types, Passed, EachOncePerRun
<1>3. Asked'
  BY <1>1 DEF FetcherInv, Asked, Below
<1>4. \A s : Past(s) => Past(s)'
  BY <1>1 DEF Past
<1>5. CASE data' = Append(data, t) /\ lost' = lost
  <2>1. Types'
    BY <1>1, <1>2, <1>5, AppendedData DEF FetcherInv, Types
  <2>2. Passed'
    <3>1. \A s \in pending' : Past(s)'
      BY <1>1, <1>4 DEF FetcherInv, Passed
    <3>2. ASSUME NEW n \in DOMAIN data' PROVE Past(data[n])'
      <4>1. n \in 1 .. Len(data) \/ n = Len(data) + 1
        BY <1>2, <1>5, AppendedData
      <4>2. data'[n] = t \/ (n \in DOMAIN data /\ data'[n] = data[n])
        BY <1>2, <1>5, <4>1, AppendedData
      <4> QED BY <1>1, <1>2, <4>2 DEF FetcherInv, Passed, Past
    <3> QED BY <3>1, <3>2 DEF Passed
  <2>3. GapsAccounted'
    BY <1>1, <1>2, <1>5, AppendedData DEF FetcherInv, GapsAccounted, Transactions
  <2>4. EachOncePerRun'
    <3>1. ASSUME NEW n \in DOMAIN data', NEW m \in DOMAIN data', data'[n] = data'[m], n # m
          PROVE  FALSE
      <4>1. /\ n \in 1 .. Len(data) \/ n = Len(data) + 1
            /\ m \in 1 .. Len(data) \/ m = Len(data) + 1
        BY <1>2, <1>5, AppendedData
      <4>2. \A l \in 1 .. Len(data) : data'[l] = data[l] /\ data[l] # t
        BY <1>2, <1>5, AppendedData DEF Range
      <4>3. data'[Len(data) + 1] = t
        BY <1>2, <1>5, AppendedData
      <4>4. n \in 1 .. Len(data) /\ m \in 1 .. Len(data)
        BY <3>1, <4>1, <4>2, <4>3
      <4> QED BY <1>2, <3>1, <4>2, <4>4, AppendedData DEF FetcherInv, EachOncePerRun, IsInjective
    <3>2. Range(data') \cap pending' = {}
      BY <1>1, <1>2, <1>5, AppendedData DEF FetcherInv, EachOncePerRun
    <3> QED BY <3>1, <3>2 DEF EachOncePerRun, IsInjective
  <2> QED BY <1>3, <2>1, <2>2, <2>3, <2>4 DEF FetcherInv
<1>6. CASE data' = data /\ lost' = lost \cup {t}
  <2>1. Types'
    BY <1>1, <1>6 DEF FetcherInv, Types
  <2>2. Passed'
    BY <1>1, <1>6 DEF FetcherInv, Passed, Past
  <2>3. GapsAccounted' /\ EachOncePerRun'
    BY <1>1, <1>6 DEF FetcherInv, GapsAccounted, Transactions, EachOncePerRun
  <2> QED BY <1>3, <2>1, <2>2, <2>3 DEF FetcherInv
<1> QED BY <1>1, <1>5, <1>6

(* Another run starts from block 0, with nothing but the file.              *)
LEMMA RunAgainFetcher == ASSUME FetcherInv, RunAgain PROVE FetcherInv'
<1>1. /\ pc' = "outer" /\ runs' = runs + 1 /\ currentBlockHeight' = 0
      /\ pending' = {} /\ asked' = 0 /\ data' = data
      /\ runs \in Nat
  BY DEF FetcherInv, Types, RunAgain, Start
<1>2. Types' /\ Asked' /\ GapsAccounted' /\ EachOncePerRun'
  BY <1>1 DEF FetcherInv, Types, Asked, GapsAccounted, EachOncePerRun
<1>3. ASSUME NEW n \in DOMAIN data PROVE Past(data[n])'
  <2>1. data[n] \in Transaction /\ Past(data[n])
    BY DEF FetcherInv, Types, Passed
  <2> QED BY <1>1, <2>1 DEF Past, Transaction
<1>4. Passed'
  BY <1>1, <1>3 DEF Passed, Past
<1> QED BY <1>2, <1>4 DEF FetcherInv

LEMMA FetcherInvariant == Spec => []FetcherInv
<1>1. Init => FetcherInv
  BY InitFetcher
<1>2. FetcherInv /\ [Next]_vars => FetcherInv'
  BY LoopFetcher, BlockFetcherStep, AppendFetcher, RunAgainFetcher DEF Next, Script
<1> QED BY <1>1, <1>2, PTL DEF Spec

(* Appends that nobody awaits and requests that fail leave no other gap     *)
(* than what they lose themselves.                                          *)
THEOREM GapsCorrect == Spec => []GapsAccounted
<1>1. FetcherInv => GapsAccounted
  BY DEF FetcherInv
<1> QED BY FetcherInvariant, <1>1, PTL

(* No run writes a transaction twice, in whatever order its appends end.    *)
THEOREM OnceCorrect == Spec => []EachOncePerRun
<1>1. FetcherInv => EachOncePerRun
  BY DEF FetcherInv
<1> QED BY FetcherInvariant, <1>1, PTL

(* A run asks for the height of the chain once, however much it grows.      *)
THEOREM HeightCorrect == Spec => []HeightAskedOnce
<1>1. FetcherInv => HeightAskedOnce
  BY DEF FetcherInv, Asked, HeightAskedOnce
<1> QED BY FetcherInvariant, <1>1, PTL

(* A run asks for no block that it takes the chain not to have: from the    *)
(* test of the inner loop to the answer, nothing else runs that could move   *)
(* either height.                                                           *)
Heights ==
  /\ TypeOK
  /\ pc = "block" => Below

(* Both heights stay within the chain's, whatever the node answers and      *)
(* however the chain grows: an answer without a result ends the loops, and  *)
(* no failure makes the block that is asked for skip ahead.                 *)
THEOREM HeightsCorrect == Spec => []TypeOK
<1>. USE FetcherAssumption
<1>1. Init => Heights
  BY DEF Init, Heights, TypeOK
<1>2. Heights /\ [Next]_vars => Heights'
  <2>1. SUFFICES ASSUME Heights, [Next]_vars PROVE Heights'
    OBVIOUS
  <2>2. CASE OuterLoop \/ InnerLoop \/ UNCHANGED vars
    BY <2>1, <2>2 DEF Heights, TypeOK, Below, OuterLoop, InnerLoop, vars, fileVars
  <2>3. CASE HeightAnswer
    BY <2>1, <2>3 DEF Heights, TypeOK, HeightAnswer
  <2>4. CASE BlockAnswer \/ BlockFails
    <3>1. currentTopHeight \in 0 .. MaxHeight /\ currentBlockHeight < currentTopHeight
      BY <2>1, <2>4 DEF Heights, TypeOK, Below, BlockAnswer, BlockFails
    <3>2. /\ pc' = "inner" /\ currentBlockHeight' = currentBlockHeight + 1
          /\ skipped' \in {skipped, skipped \cup {currentBlockHeight}}
          /\ UNCHANGED <<chain, currentTopHeight, runs>>
      BY <2>4 DEF BlockAnswer, BlockFails, NextBlock, AfterBlock
    <3> QED BY <2>1, <3>1, <3>2 DEF Heights, TypeOK
  <2>5. ASSUME NEW t \in pending, AppendFile(t) PROVE Heights'
    BY <2>1, <2>5 DEF Heights, TypeOK, Below, AppendFile
  <2>6. CASE Grow
    BY <2>1, <2>6 DEF Heights, TypeOK, Below, Grow
  <2>7. CASE RunAgain
    BY <2>1, <2>7 DEF Heights, TypeOK, RunAgain, Start
  <2> QED BY <2>1, <2>2, <2>3, <2>4, <2>5, <2>6, <2>7 DEF Next, Script
<1>3. Heights => TypeOK
  BY DEF Heights
<1> QED BY <1>1, <1>2, <1>3, PTL DEF Spec
=============================================================================
