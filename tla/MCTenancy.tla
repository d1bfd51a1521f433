------------------------------ MODULE MCTenancy ------------------------------
EXTENDS Tenancy, TLC

CONSTANTS a1, a2, k1, k2, i1, i2, q1, q2

MCSymmetry == Permutations(Users) \cup Permutations(Interviews) \cup Permutations(Questions)
=============================================================================
