---------------------------- MODULE MCAppState ----------------------------
EXTENDS AppState, TLC
Symmetry == Permutations(Callers) \cup Permutations(Indexes) \cup Permutations(Keys)
=============================================================================
