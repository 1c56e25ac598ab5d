-------------------------- MODULE MCScsRepository ---------------------------
EXTENDS ScsRepository, TLC
Sym == Permutations(Object) \cup Permutations(Name) \cup Permutations(Workspace)
=============================================================================
