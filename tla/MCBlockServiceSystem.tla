------------------------ MODULE MCBlockServiceSystem ------------------------
(* BlockServiceSystem instantiated for model checking: one validator the   *)
(* duties service names in two notifications, so that the tasks of two     *)
(* calls of do_update run side by side, and one graffiti value.            *)
EXTENDS BlockServiceSystem

CONSTANTS v1, g1

OneValidator == {v1}
MCGraffiti   == {g1}
=============================================================================
