----------------------------- MODULE MCDownload -----------------------------
(* Instances of Download for TLC. *)
EXTENDS Download, TLC

CONSTANTS f1, f2, w1, w2, w3, r1, r2

OneFile == {f1}
TwoFiles == {f1, f2}
Workers2 == {w1, w2}
Workers3 == {w1, w2, w3}
Sequential == {r1}
Concurrent == {r1, r2}

Size1 == f1 :> 1
Size2 == f1 :> 2
Size3 == f1 :> 3
Size21 == f1 :> 2 @@ f2 :> 1
Size20 == f1 :> 2 @@ f2 :> 0

Named1 == f1 :> "a"
SameName == f1 :> "a" @@ f2 :> "a"
OwnName == f1 :> "a" @@ f2 :> "b"

WorkerSymmetry == Permutations(Workers)

=============================================================================
