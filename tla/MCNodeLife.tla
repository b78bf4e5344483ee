------------------------------ MODULE MCNodeLife ------------------------------
(* Instances of NodeLife for TLC.                                            *)
EXTENDS NodeLife

CONSTANTS i1, i2, p1, p2, b1, b2

TwoIds == {i1, i2}
TwoPeers == {p1, p2}
TwoClients == {b1, b2}
===============================================================================
