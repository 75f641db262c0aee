-------------------------- MODULE MCMempoolSpawn --------------------------
(***************************************************************************)
(* MempoolSpawn instantiated for model checking: three validators, one of  *)
(* them with a key that is not in its committee.                           *)
(***************************************************************************)
EXTENDS MempoolSpawn, TLC

CONSTANTS v1, v2, v3

MCValidatorIds == {v1, v2, v3}
MCMembers      == {v1, v2}

\* The two members are interchangeable.
MemberSymmetry == Permutations(MCMembers)

=============================================================================
