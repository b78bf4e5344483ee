------------------------------- MODULE MCShare -------------------------------
(* Instances of Share for TLC.                                              *)
EXTENDS Share, TLC

CONSTANTS d1, d2, p1, p2, a1, a2

OneDir == {d1}
TwoDirs == {d1, d2}
TwoPaths == {p1, p2}
OneAdvert == {a1}
TwoAdverts == {a1, a2}

TwoBelowOne == (d1 :> {p1, p2})
Disjoint == (d1 :> {p1}) @@ (d2 :> {p2})

\* The two directories, each with its file, may change places; so may the two
\* advertised paths.
SwapDirs ==
    {f \in Permutations(TwoDirs \cup TwoPaths \cup TwoAdverts) :
        /\ {f[a] : a \in TwoAdverts} = TwoAdverts
        /\ \A d \in TwoDirs : f[d] \in TwoDirs /\ {f[p] : p \in Disjoint[d]} = Disjoint[f[d]]}

\* Two files of one name, in different directories or with other extensions.
SameKey == [p \in Paths |-> 1]
OwnKey == (p1 :> 1) @@ (p2 :> 2)
===============================================================================
