--------------------------- MODULE MCSynchronizer ---------------------------
(***************************************************************************)
(* Synchronizer instantiated for model checking: one peer that never       *)
(* answers and one that does, two digests.                                 *)
(***************************************************************************)
EXTENDS Synchronizer, TLC

CONSTANTS p1, p2, d1, d2

MCPeers   == {p1, p2}
MCHonest  == {p2}
MCDigests == {d1, d2}

=============================================================================
