---------------------------- MODULE MempoolSync ----------------------------
(***************************************************************************)
(* The Synchronizer of one authority composed with the mempools of its     *)
(* committee.  Mempool::handle_consensus_messages spawns the Synchronizer  *)
(* on the store and the committee the other tasks use.  What module        *)
(* Synchronizer leaves to an honest peer, the answer to a BatchRequest, is *)
(* here the way through MempoolReceiverHandler::dispatch and the Helper of *)
(* the peer and back through dispatch and the Processor of this authority. *)
(***************************************************************************)
EXTENDS Mempool

CONSTANTS
    Self,           \* the authority whose Synchronizer is modelled
    GcDepth,        \* parameters.gc_depth
    SyncRetryNodes, \* parameters.sync_retry_nodes
    MaxRound,       \* bound on the rounds Cleanup names
    MaxCommands,    \* bound on the Synchronize commands
    MaxOutstanding  \* bound on the requests on their way when a retry is sent

ASSUME Self \in Nodes \ Silent /\ MaxOutstanding \in Nat \ {0}

VARIABLES
    pending,        \* pending[d]: since when d is missing, and who was asked
    current_round,  \* the watermark Cleanup advances
    commands        \* number of Synchronize commands handled

syncVars   == <<pending, current_round, commands>>
systemVars == <<vars, syncVars>>

\* Every digest there is, and self.committee.clone() without the own key.
Digests == {Digest(s) : s \in SerializedBatches}
Peers   == BroadcastAddresses(Self)

\* self.store.clone(): the Synchronizer reads the store the Processors write.
Held == {Digest(s) : s \in store[Self]}

\* The BatchRequests of Self that no handler has taken off the wire.
Asked ==
    UNION {{f.dst} \X f.bytes.missing :
             f \in {g \in wire : g.src = Self /\ IsRequest(g.bytes)}}

\* The running peers a BatchRequest of Self is on its way to or waits at.
Outstanding ==
    {p \in Peers \ Silent : ~exit[p] /\ <<p, Self>> \notin panicked /\
        \/ \E f \in wire : f.src = Self /\ f.dst = p /\ IsRequest(f.bytes)
        \/ rx[p][Self] # None /\ IsRequest(rx[p][Self])
        \/ \E i \in DOMAIN chan[p]["helper"] : chan[p]["helper"][i].origin = Self}

Sync == INSTANCE Synchronizer WITH
            Honest <- Peers \ Silent,
            store <- Held,
            requests <- Asked

\* Slip: the request carries the key of the peer it goes to as the origin.
RequestAsTarget(targets, missing) ==
    /\ wire' = wire \cup {Frame(Self, p, RequestMsg(missing, p)) :
                            p \in IF missing = {} THEN {} ELSE targets}
    /\ UNCHANGED <<chan, batching, waiting, persisted, links, panicked, exit,
                   unsent, injected>>

\* The Synchronizer sends BatchRequest(missing, self.name) to each target,
\* and touches nothing else of the mempool.
Request(targets, missing) ==
    /\ wire' = wire \cup {Frame(Self, p, RequestMsg(missing, Self)) :
                            p \in IF missing = {} THEN {} ELSE targets}
    /\ UNCHANGED <<chan, batching, waiting, persisted, links, panicked, exit,
                   unsent, injected>>

\* Consensus met a block with digests its mempool did not hand it: digests
\* the consensus of some authority was handed.
Synchronize(message) ==
    /\ ~exit[Self]
    /\ message.type = "Synchronize"
    /\ message.digests # {} /\ message.digests \subseteq Proposable
    /\ Request({message.target}, message.digests \ Held)
    /\ Sync!Synchronize(message)

\* The retry timer fires while the batch is not there, and is long against
\* the way of a request to a running peer.
Retry(d, targets) ==
    /\ ~exit[Self]
    /\ d \notin Held
    /\ Cardinality(Outstanding) < MaxOutstanding
    /\ Request(targets, {d})
    /\ Sync!Retry(d, targets)

NotifyRead(d) == ~exit[Self] /\ UNCHANGED vars /\ Sync!NotifyRead(d)

Cleanup(message) == ~exit[Self] /\ UNCHANGED vars /\ Sync!Cleanup(message)

SystemInit ==
    /\ Init
    /\ pending = [d \in Digests |-> None]
    /\ current_round = 0
    /\ commands = 0

SystemNext ==
    \/ Next /\ UNCHANGED syncVars
    \/ \E message \in Sync!ConsensusMempoolMessage : Synchronize(message)
    \/ \E message \in Sync!ConsensusMempoolMessage : Cleanup(message)
    \/ \E d \in Digests : NotifyRead(d)
    \/ \E d \in Digests, targets \in SUBSET Peers : Retry(d, targets)

SystemSpec == SystemInit /\ [][SystemNext]_systemVars

\* The tasks of the mempools as in module Mempool; the retry timer and the
\* waiter of notify_read are branches of the Synchronizer's loop.  Nothing
\* is assumed of consensus.
SystemFairness ==
    /\ Fairness
    /\ \A d \in Digests :
        /\ WF_systemVars(\E targets \in SUBSET Peers : Retry(d, targets))
        /\ WF_systemVars(NotifyRead(d))

SystemLiveSpec == SystemSpec /\ SystemFairness

-----------------------------------------------------------------------------

\* A batch consensus asks the Synchronizer for ends in the store of the
\* authority, unless a Cleanup gives it up, also when the authority never
\* got it from the broadcast: the QuorumWaiter of the producer released the
\* batch with the frame to this authority lost and dropped the handle that
\* would have sent it again (Mempool::handle_clients_transactions), so that
\* the batch comes only from the Helper of a peer that stored it, asked by
\* the Synchronizer handle_consensus_messages spawned; the peer consensus
\* names may not hold it yet, and another is silent.
MissingIsFetched == Sync!MissingIsResolved

=============================================================================
