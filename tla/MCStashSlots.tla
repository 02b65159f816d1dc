---------------------------- MODULE MCStashSlots ----------------------------
EXTENDS StashSlots, TLC
KeySymmetry == Permutations(Keys)
=============================================================================
