---------------------------- MODULE MCOramReinit ----------------------------
EXTENDS OramReinit, TLC
KeySymmetry == Permutations(Keys)
=============================================================================
