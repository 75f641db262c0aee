-------------------------- MODULE MempoolAbstract --------------------------
(***************************************************************************)
(* What the mempools of a committee promise the consensus above them, with *)
(* the channels, the tasks and the frames left out.                        *)
(*                                                                         *)
(* Authorities make batches of transactions and acknowledge the batches of *)
(* others.  An authority persists a batch and hands its digest to its      *)
(* consensus in one step, and only a batch it may vouch for: one it        *)
(* acknowledged to a peer, or one it made and that authorities holding     *)
(* more than two thirds of the stake, itself included, acknowledged.       *)
(***************************************************************************)
EXTENDS Integers, Sequences, FiniteSets, Functions

CONSTANTS
    Nodes,      \* the authorities of the committee
    Stake,      \* Stake[n]: the voting power of authority n
    Txs,        \* the transactions
    BatchSize   \* the largest number of transactions in a batch

VARIABLES
    made,       \* made[n]: the batches authority n made
    promised,   \* <<n, b>>: authority n acknowledged batch b
    stored,     \* stored[n]: the batches n persisted
    delivered   \* delivered[n]: the batches whose digest n's consensus got

vars == <<made, promised, stored, delivered>>

Batches == UNION {[1..k -> Txs] : k \in 1..BatchSize}
AllMade == UNION Range(made)

\* The authorities that, with n, stand behind batch b.
Backers(n, b) == {n} \cup {p \in Nodes : <<p, b>> \in promised}
IsQuorum(S)   == 3 * SumFunctionOnSet(Stake, S) > 2 * SumFunction(Stake)

\* A transaction is put in one batch, once.
Make(n, b) ==
    /\ IsInjective(b)
    /\ \A c \in AllMade : Range(b) \cap Range(c) = {}
    /\ made' = [made EXCEPT ![n] = @ \cup {b}]
    /\ UNCHANGED <<promised, stored, delivered>>

Promise(n, b) ==
    /\ b \in AllMade
    /\ promised' = promised \cup {<<n, b>>}
    /\ UNCHANGED <<made, stored, delivered>>

Persist(n, b) ==
    /\ \/ <<n, b>> \in promised
       \/ b \in made[n] /\ IsQuorum(Backers(n, b))
    /\ stored' = [stored EXCEPT ![n] = @ \cup {b}]
    /\ delivered' = [delivered EXCEPT ![n] = Append(@, b)]
    /\ UNCHANGED <<made, promised>>

Init ==
    /\ made = [n \in Nodes |-> {}]
    /\ promised = {}
    /\ stored = [n \in Nodes |-> {}]
    /\ delivered = [n \in Nodes |-> <<>>]

Next ==
    \E n \in Nodes, b \in Batches : Make(n, b) \/ Promise(n, b) \/ Persist(n, b)

Spec == Init /\ [][Next]_vars

=============================================================================
