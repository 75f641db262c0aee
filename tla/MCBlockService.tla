--------------------------- MODULE MCBlockService ---------------------------
(* BlockService instantiated for model checking: two validators the duties *)
(* service may name, alone or together, and two beacon nodes.  The merge   *)
(* is at slot 2, so that the proposals of slot 1 are for full blocks and   *)
(* those of slot 2 for blinded ones.                                       *)
EXTENDS BlockService

CONSTANTS v1, v2

MCValidators == {v1, v2}

\* The validators are interchangeable.
ValidatorSymmetry == Permutations(MCValidators)

=============================================================================
