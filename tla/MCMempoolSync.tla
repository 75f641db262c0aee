--------------------------- MODULE MCMempoolSync ---------------------------
(***************************************************************************)
(* MempoolSync instantiated for model checking: a committee of four in     *)
(* which the producer n1 holds enough stake for the ACK of one peer to     *)
(* complete its quorum, so that with n4 silent the frame to n3 can be lost *)
(* for good.                                                               *)
(***************************************************************************)
EXTENDS MempoolSync, TLC

CONSTANTS n1, n2, n3, n4, t1

MCNodes == {n1, n2, n3, n4}
Heavy   == [n \in MCNodes |-> IF n = n1 THEN 4 ELSE 1]
OneTx   == {t1}

\* The connection the broadcast of n1 reaches n3 on may break.
LossyToSelf == {<<n1, n3>>}

=============================================================================
