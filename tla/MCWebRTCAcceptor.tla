--------------------------- MODULE MCWebRTCAcceptor ---------------------------
EXTENDS WebRTCAcceptor, TLC

CONSTANTS c1, c2

IdSymmetry == Permutations({c1, c2})
===============================================================================
