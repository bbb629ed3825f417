----------------------------- MODULE MCActivation ------------------------------
EXTENDS Activation, TLC

Symmetry == Permutations(Slots) \cup Permutations(Revs)
================================================================================
