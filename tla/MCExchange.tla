----------------------------- MODULE MCExchange -----------------------------
(* Instances of Exchange for TLC.                                            *)
EXTENDS Exchange, TLC

CONSTANTS c1, c2

OneFile == {7}
OneKey == 7 :> "a"
OneDisk == 7 :> <<1, 2>>
TwoCalls == {c1, c2}
=============================================================================
