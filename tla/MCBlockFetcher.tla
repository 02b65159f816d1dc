--------------------------- MODULE MCBlockFetcher ---------------------------
EXTENDS BlockFetcher
(* Block 0 has no transactions, block 1 two and block 2 one. *)
ThreeBlocks == [b \in 0 .. MaxHeight |-> CASE b = 1 -> 2 [] b = 2 -> 1 [] OTHER -> 0]
=============================================================================
