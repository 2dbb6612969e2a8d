------------------------------ MODULE MCOracle ------------------------------
(* Three atoms over two targets, the smallest algebra in which two minimal  *)
(* witnesses have comparable target sets; and the malformed declarations.   *)
EXTENDS Oracle

MCNames == 1 .. 3
Environment == 11
Policy == 12
MCTargets == {Environment, Policy}
\* Every assignment of the two targets to the three atoms, up to their names.
MCTargetings == {f \in [MCNames -> MCTargets] : f[1] = Environment}
\* In order, out of order, duplicated, over the bound.
MCDeclarations == {<<1, 2, 3>>, <<2, 1>>, <<1, 1>>, <<1, 2, 3, 3>>}
=============================================================================
