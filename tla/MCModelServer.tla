----------------------------- MODULE MCModelServer -----------------------------
EXTENDS ModelServer, TLC

CONSTANTS k1, k2, s0, s1

LinkAndSlotSymmetry == Permutations({k1, k2}) \union Permutations({s0, s1})
===============================================================================
