---------------------------- MODULE BlockFetcher ----------------------------
(***************************************************************************)
(* js/vnt_js.js: run() asks a node of the chain for its height, then for   *)
(* each block below it, and appends the block's transactions to data.json. *)
(* Requests are awaited and appends are not: they are in progress, several *)
(* at a time and in any order, while the loops go on.  A request that      *)
(* fails is logged, and an append that fails is not even that.             *)
(***************************************************************************)
EXTENDS Integers, Sequences, FiniteSets, Functions

CONSTANTS
  Txs,         \* Txs[b]: the number of transactions in block b
  NaN,         \* what parseInt makes of an answer without a result
  MaxHeight,   \* bound of the model: the height of the chain
  MaxRuns      \* bound of the model: runs of the script

ASSUME FetcherAssumption ==
  /\ MaxHeight \in Nat \ {0} /\ MaxRuns \in Nat \ {0}
  /\ Txs \in [0 .. MaxHeight -> Nat]

VARIABLES
  chain,                \* the height of the chain; it grows
  pc,                   \* where run() is
  currentBlockHeight, currentTopHeight,
  pending,              \* the appends in progress
  data,                 \* data.json
  skipped, lost,        \* history: blocks passed over, appends that failed
  asked,                \* history: how often this run has asked for the height
  runs                  \* history: runs of the script so far

fileVars == <<pending, data, lost>>
vars == <<chain, pc, currentBlockHeight, currentTopHeight, fileVars, skipped, asked, runs>>

(* A transaction, as this run appends it. *)
Transactions(b) == {[run |-> runs, block |-> b, index |-> i] : i \in 1 .. Txs[b]}

(* currentBlockHeight < currentTopHeight: nothing is less than NaN. *)
(* Mutant: <= for <. *)
Below_Inclusive == currentTopHeight # NaN /\ currentBlockHeight <= currentTopHeight

Below == currentTopHeight # NaN /\ currentBlockHeight < currentTopHeight

-----------------------------------------------------------------------------
Start ==
  /\ pc' = "outer"
  /\ currentBlockHeight' = 0 /\ currentTopHeight' = 1
  /\ pending' = {} /\ skipped' = {} /\ lost' = {} /\ asked' = 0

Init ==
  /\ chain \in 0 .. MaxHeight
  /\ pc = "outer"
  /\ currentBlockHeight = 0 /\ currentTopHeight = 1
  /\ pending = {} /\ skipped = {} /\ lost = {} /\ asked = 0
  /\ data = <<>>
  /\ runs = 1

OuterLoop ==
  /\ pc = "outer"
  /\ pc' = IF Below THEN "height" ELSE "done"
  /\ UNCHANGED <<chain, currentBlockHeight, currentTopHeight, fileVars, skipped, asked, runs>>

(* await request(get_height): an answer, one without a result, or none. *)
HeightAnswer ==
  /\ pc = "height"
  /\ currentTopHeight' \in {chain, NaN, currentTopHeight}
  /\ asked' = asked + 1
  /\ pc' = "inner"
  /\ UNCHANGED <<chain, currentBlockHeight, fileVars, skipped, runs>>

InnerLoop ==
  /\ pc = "inner"
  /\ pc' = IF Below THEN "block" ELSE "outer"
  /\ UNCHANGED <<chain, currentBlockHeight, currentTopHeight, fileVars, skipped, asked, runs>>

(* Mutant: a block that failed is asked for again. *)
NextBlock_Retried(ok) ==
  currentBlockHeight' = IF ok THEN currentBlockHeight + 1 ELSE currentBlockHeight

(* Mutant: the callback moves on as well. *)
NextBlock_Twice(ok) == currentBlockHeight' = currentBlockHeight + (IF ok THEN 2 ELSE 1)

NextBlock(ok) == currentBlockHeight' = currentBlockHeight + 1

(* Mutant: a failure breaks the inner loop. *)
AfterBlock_Breaks(ok) == pc' = IF ok THEN "inner" ELSE "outer"

AfterBlock(ok) == pc' = "inner"

(* await request(get_block), whose appends start before it returns. *)
BlockAnswer ==
  /\ pc = "block"
  /\ pending' = pending \cup Transactions(currentBlockHeight)
  /\ NextBlock(TRUE) /\ AfterBlock(TRUE)
  /\ UNCHANGED <<chain, currentTopHeight, data, lost, skipped, asked, runs>>

BlockFails ==
  /\ pc = "block"
  /\ skipped' = skipped \cup {currentBlockHeight}
  /\ NextBlock(FALSE) /\ AfterBlock(FALSE)
  /\ UNCHANGED <<chain, currentTopHeight, fileVars, asked, runs>>

(* Mutant: the append that is done is not forgotten. *)
AppendDone_Kept(t) == pending' = pending

AppendDone(t) == pending' = pending \ {t}

AppendFile(t) ==
  /\ t \in pending
  /\ AppendDone(t)
  /\ \/ data' = Append(data, t) /\ UNCHANGED lost
     \/ lost' = lost \cup {t} /\ UNCHANGED data
  /\ UNCHANGED <<chain, pc, currentBlockHeight, currentTopHeight, skipped, asked, runs>>

Grow ==
  /\ chain < MaxHeight
  /\ chain' = chain + 1
  /\ UNCHANGED <<pc, currentBlockHeight, currentTopHeight, fileVars, skipped, asked, runs>>

(* The script is ended, or has ended, and is run again: it starts from     *)
(* block 0, and data.json stays.                                           *)
RunAgain ==
  /\ runs < MaxRuns
  /\ runs' = runs + 1
  /\ Start
  /\ UNCHANGED <<chain, data>>

Script ==
  \/ OuterLoop \/ HeightAnswer \/ InnerLoop \/ BlockAnswer \/ BlockFails

Next ==
  \/ Script
  \/ \E t \in pending : AppendFile(t)
  \/ Grow
  \/ RunAgain

(* The event loop runs what is ready, and every request and append comes   *)
(* to an end in one way or another.                                        *)
Fairness == WF_vars(Script) /\ WF_vars(\E t \in pending : AppendFile(t))

Spec == Init /\ [][Next]_vars /\ Fairness

-----------------------------------------------------------------------------
(***************************************************************************)
(*                              Properties                                 *)
(***************************************************************************)

(* The types of the heights; no run gets ahead of the chain. *)
TypeOK ==
  /\ chain \in 0 .. MaxHeight
  /\ pc \in {"outer", "height", "inner", "block", "done"}
  /\ currentBlockHeight \in 0 .. MaxHeight
  /\ currentTopHeight \in 0 .. MaxHeight \cup {NaN}
  /\ skipped \subseteq 0 .. MaxHeight - 1
  /\ runs \in 1 .. MaxRuns

(* Every transaction below currentBlockHeight is in the file, on its way   *)
(* there, or accounted for by a failure: the appends that nobody awaits,   *)
(* and the height that moves on after a failure, leave no other gap.       *)
GapsAccounted ==
  \A b \in 0 .. currentBlockHeight - 1 :
    b \notin skipped => Transactions(b) \subseteq pending \cup Range(data) \cup lost

(* One run appends no transaction twice, however its appends overlap; only *)
(* another run repeats them, for nothing but the file outlives a run.      *)
EachOncePerRun == IsInjective(data) /\ Range(data) \cap pending = {}

(* For all its loop, run() asks for the height of the chain once: blocks   *)
(* that the chain gains meanwhile are left to another run.                 *)
HeightAskedOnce == asked <= 1

(* Though the chain grows all the while, run() and its appends end.        *)
RunEnds == <>[](pc = "done" /\ pending = {})
=============================================================================
