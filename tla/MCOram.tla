------------------------------- MODULE MCOram -------------------------------
EXTENDS Oram, TLC
KeySymmetry == Permutations(Keys \ JustKeys)
=============================================================================
