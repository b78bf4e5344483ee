------------------------------- MODULE MCSearch -------------------------------
(* Instances of Search for TLC.                                              *)
EXTENDS Search

CONSTANTS me, q1, q2, c1, c2, s1

TwoProviders == {me, q1, q2}
TwoSockets == {c1, c2}
OneSearch == {s1}
================================================================================
