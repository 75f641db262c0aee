------------------------- MODULE MempoolRefinement -------------------------
(***************************************************************************)
(* The mempool of mempool.rs implements MempoolAbstract.  Sealing a batch  *)
(* is Make, the ACK of MempoolReceiverHandler::dispatch for a frame that   *)
(* holds a batch is Promise, a Processor's write to the store with the     *)
(* digest it sends on tx_consensus is Persist; every other step leaves the *)
(* abstract state as it is.                                                *)
(***************************************************************************)
EXTENDS Mempool

\* The batch a serialised batch message holds.
BatchesOf(S) == {s.batch : s \in S}

Abstract ==
    INSTANCE MempoolAbstract WITH
        made      <- [n \in Nodes |-> BatchesOf(made[n])],
        promised  <- {<<f.dst, f.bytes.batch>> : f \in {g \in acked : IsBatch(g.bytes)}},
        stored    <- [n \in Nodes |-> BatchesOf(store[n])],
        delivered <- [n \in Nodes |->
                        [i \in DOMAIN consensus[n] |-> consensus[n][i].digest[2].batch]]

\* Every behaviour of the mempools is one the abstract specification allows:
\* whatever the interleaving of handlers and tasks, the digest a Processor
\* sends on tx_consensus is of a batch that was sealed once, that the store
\* of the authority got in the same step, and that the authority itself
\* acknowledged or made and saw acknowledged by a quorum.
Refinement == Abstract!Spec

=============================================================================
