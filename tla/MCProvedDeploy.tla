--------------------------- MODULE MCProvedDeploy ---------------------------
(* Small instances of ProvedDeploy for TLC.                                *)
EXTENDS ProvedDeploy, TLC

CONSTANTS dev, prod, c1, c2

Pair == {dev, prod}
DevOnly == {dev}
TwoContents == {c1, c2}
OneUnknown == [c \in Clusters |-> IF c = prod THEN {c1} ELSE Contents]

Symmetry == Permutations(Requests) \union Permutations(Deployments)
=============================================================================
