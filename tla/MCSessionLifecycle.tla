-------------------------- MODULE MCSessionLifecycle --------------------------
EXTENDS SessionLifecycle, TLC

CONSTANTS c1, c2

ConnSymmetry == Permutations({c1, c2})
===============================================================================
