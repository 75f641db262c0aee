----------------------------- MODULE MCMempool -----------------------------
(***************************************************************************)
(* Mempool instantiated for model checking: a committee of four equal      *)
(* authorities (f = 1), so that a quorum is two of the three peers.        *)
(***************************************************************************)
EXTENDS MempoolRefinement, TLC

CONSTANTS n1, n2, n3, n4

MCNodes == {n1, n2, n3, n4}
MCStake == [n \in MCNodes |-> 1]

CONSTANTS t1, t2

MCTxs == {t1, t2}

\* A single transaction, for the runs about requests and replies.
OneTx == {t1}
RestOnly == Permutations({n3, n4})

\* When n2 is singled out by a constant, n3 and n4 still are interchangeable.
RestSymmetry == Permutations({n3, n4}) \cup Permutations(MCTxs)

\* The connections that may break in the runs with faults.
LossyToN3 == {<<n1, n3>>, <<n2, n3>>}
LossyToN2 == {<<n1, n2>>}

=============================================================================
