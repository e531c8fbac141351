------------------------------ MODULE MCSearch ------------------------------
EXTENDS Search, TLC

MCSymmetry ==
  Permutations(Call) \cup Permutations(Subject) \cup Permutations(Engine)
=============================================================================
