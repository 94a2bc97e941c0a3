---------------------------- MODULE MCResources ----------------------------
EXTENDS Resources, TLC
CONSTANTS o1, o2, o3, o4, o5, b1, b2, s1

Symmetry == Permutations(Object) \cup Permutations(Block)
=============================================================================
