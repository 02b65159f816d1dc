---------------------------- MODULE MCDataStack -----------------------------
EXTENDS DataStack, TLC

MCStartCounts == -1 .. 1

EntrySymmetry == Permutations(Entries)
=============================================================================
