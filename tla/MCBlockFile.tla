---------------------------- MODULE MCBlockFile -----------------------------
EXTENDS BlockFile, TLC
FileSymmetry == Permutations(Vals) \cup Permutations(Threads)
=============================================================================
