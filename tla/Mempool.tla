------------------------------ MODULE Mempool ------------------------------
(***************************************************************************)
(* The transaction mempool of one validator, run by every authority of its *)
(* committee: hotstuff/mempool/src/mempool.rs.                             *)
(*                                                                         *)
(* The two receive handlers, the five channels and the way the tasks are   *)
(* wired to them are translated from mempool.rs.  The tasks themselves     *)
(* (BatchMaker, QuorumWaiter, Processor, Helper), the committee, the store *)
(* and the network live in other crates and are modelled from the design   *)
(* document, one action per handler of their loops.                        *)
(*                                                                         *)
(* Data is abstract: a transaction is a model value, a batch a sequence of *)
(* transactions, a frame the message it deserialises to, or a value of     *)
(* Malformed when it deserialises to nothing.                              *)
(***************************************************************************)
EXTENDS Integers, Sequences, FiniteSets, Functions

CONSTANTS
    Nodes,          \* the authorities of the committee (their public keys)
    Stake,          \* Stake[n]: the voting power of authority n
    Txs,            \* the transactions clients submit, each at most once
    Producers,      \* the authorities clients submit transactions to
    BatchSize,      \* parameters.batch_size, in transactions
    Capacity,       \* CHANNEL_CAPACITY
    Malformed,      \* frames that bincode cannot deserialise
    Silent,         \* authorities no frame ever reaches (faulty or cut off)
    StoreFaulty,    \* authorities whose store may fail a write
    MayExit,        \* authorities whose exit signal may fire
    Requesters,     \* authorities whose synchroniser asks peers for batches
    Garblers,       \* authorities that send bytes that are no message
    MaxInjected,    \* bound on the requests and garbage frames sent
    Lossy,          \* the connections <<sender, receiver>> that may break
    MaxLost,        \* bound on the frames and ACKs lost to broken connections
    None            \* "no value"

ASSUME /\ Stake \in [Nodes -> Nat \ {0}]
       /\ Producers \subseteq Nodes /\ Silent \subseteq Nodes
       /\ StoreFaulty \subseteq Nodes /\ MayExit \subseteq Nodes
       /\ Requesters \subseteq Nodes /\ Garblers \subseteq Nodes
       /\ Lossy \subseteq Nodes \X Nodes /\ MaxLost \in Nat
       /\ BatchSize \in Nat \ {0} /\ Capacity \in Nat \ {0}
       /\ MaxInjected \in Nat

VARIABLES
    chan,       \* chan[n][c]: content of channel c of authority n
    current,    \* current[n]: the batch the BatchMaker is filling
    waiting,    \* waiting[n]: the batch the QuorumWaiter holds, and who acked
    store,      \* store[n]: the serialised batches persisted, keyed by digest
    consensus,  \* consensus[n]: what was sent on tx_consensus, in order
    wire,       \* frames sent and not yet received
    rx,         \* rx[n][p]: frame of peer p that n acked and not yet forwarded
    acked,      \* frames whose receiver wrote "Ack" (history)
    lost,       \* frames lost in flight or taken without an ACK (history)
    made,       \* made[n]: the batches the BatchMaker of n sealed (history)
    panicked,   \* connections whose dispatch panicked
    exit,       \* exit[n]: the exit signal of n's mempool fired
    unsent,     \* transactions no client has submitted yet
    injected    \* number of frames injected so far

batching  == <<current, made>>      \* what the BatchMaker writes
persisted == <<store, consensus>>   \* what the Processors write
links     == <<rx, acked, lost>>    \* the state of the peer connections

vars == <<chan, batching, waiting, persisted, wire, links, panicked, exit,
          unsent, injected>>

Client == "client"

-----------------------------------------------------------------------------
(* Messages: mempool.rs, MempoolMessage.                                   *)

Batches == UNION {[1..k -> Txs] : k \in 1..BatchSize}

\* The digest of a serialised batch: deterministic and free of collisions.
Digest(serialized) == <<"digest", serialized>>

BatchMsg(batch) == [type |-> "Batch", batch |-> batch]
RequestMsg(missing, origin) ==
    [type |-> "BatchRequest", missing |-> missing, origin |-> origin]

MempoolMessage ==
    [type : {"Batch"}, batch : Batches]
        \cup [type : {"BatchRequest"},
              missing : SUBSET {Digest(m) : m \in [type : {"Batch"}, batch : Batches]},
              origin : Nodes]

Frame(src, dst, bytes) == [src |-> src, dst |-> dst, bytes |-> bytes]

\* bincode::deserialize yields a message of one of the two variants, or Err.
IsBatch(bytes)   == bytes \notin Malformed /\ bytes.type = "Batch"
IsRequest(bytes) == bytes \notin Malformed /\ bytes.type = "BatchRequest"

-----------------------------------------------------------------------------
(* Channels and wiring: Mempool::handle_clients_transactions and           *)
(* Mempool::handle_mempool_messages.                                       *)

Channels == {"tx-batch-maker", "tx-quorum-waiter", "tx-processor",
             "helper", "processor"}

\* Slip: the BatchMaker is handed the sender of the Processor's channel, so
\* that sealed batches go round the QuorumWaiter.
ClientPipelineBypass ==
    [handler       |-> [tx_batch_maker |-> "tx-batch-maker"],
     batch_maker   |-> [rx |-> "tx-batch-maker", tx |-> "tx-processor"],
     quorum_waiter |-> [rx |-> "tx-quorum-waiter", tx |-> "tx-processor"],
     processor     |-> [rx |-> "tx-processor"]]

\* Which end of which channel each task and handler of the client side gets.
ClientPipeline ==
    [handler       |-> [tx_batch_maker |-> "tx-batch-maker"],
     batch_maker   |-> [rx |-> "tx-batch-maker", tx |-> "tx-quorum-waiter"],
     quorum_waiter |-> [rx |-> "tx-quorum-waiter", tx |-> "tx-processor"],
     processor     |-> [rx |-> "tx-processor"]]

\* The same for the peer side.
PeerPipeline ==
    [handler   |-> [tx_helper |-> "helper", tx_processor |-> "processor"],
     helper    |-> [rx |-> "helper"],
     processor |-> [rx |-> "processor"]]

Room(n, c)        == Len(chan[n][c]) < Capacity
Push(ch, n, c, x) == [ch EXCEPT ![n][c] = Append(@, x)]
Pop(ch, n, c)     == [ch EXCEPT ![n][c] = Tail(@)]

\* Slip: the channel is unbounded, a full one is written all the same.
SendUnbounded(n, c, item, conn) ==
    \/ /\ ~exit[n]
       /\ chan' = Push(chan, n, c, item)
       /\ UNCHANGED panicked
    \/ /\ exit[n]
       /\ panicked' = panicked \cup {conn}
       /\ UNCHANGED chan

\* Slip: try_send instead of send().await, a full channel loses the item.
SendOrDrop(n, c, item, conn) ==
    \/ /\ ~exit[n]
       /\ chan' = IF Room(n, c) THEN Push(chan, n, c, item) ELSE chan
       /\ UNCHANGED panicked
    \/ /\ exit[n]
       /\ panicked' = panicked \cup {conn}
       /\ UNCHANGED chan

\* sender.send(item).await.expect(..): suspends while the channel is full;
\* panics once the receiving task is gone, which it is after exit.
SendOrPanic(n, c, item, conn) ==
    \/ /\ ~exit[n]
       /\ Room(n, c)
       /\ chan' = Push(chan, n, c, item)
       /\ UNCHANGED panicked
    \/ /\ exit[n]
       /\ panicked' = panicked \cup {conn}
       /\ UNCHANGED chan

-----------------------------------------------------------------------------
(* Committee (config crate).                                               *)

TotalStake             == SumFunction(Stake)
QuorumThreshold        == ((2 * TotalStake) \div 3) + 1
BroadcastAddresses(n)  == Nodes \ {n}

-----------------------------------------------------------------------------
(* Receive handlers: mempool.rs.                                           *)

\* TxReceiverHandler::dispatch: a client's message is one transaction.
TxDispatch(n, tx) ==
    /\ n \in Producers
    /\ tx \in unsent
    /\ <<n, Client>> \notin panicked
    /\ unsent' = unsent \ {tx}
    /\ SendOrPanic(n, ClientPipeline.handler.tx_batch_maker, tx, <<n, Client>>)
    /\ UNCHANGED <<batching, waiting, persisted, wire, links, exit, injected>>

\* A lossy connection can break, once per frame.
MayFail(f) == <<f.src, f.dst>> \in Lossy /\ f \notin lost /\ Cardinality(lost) < MaxLost

\* MempoolReceiverHandler::dispatch up to its first await: the frame is
\* taken off the connection and acknowledged, whatever it holds.  The
\* result of writing the ACK is discarded: the handler goes on with the
\* frame also when the write failed and the sender is told nothing.
DispatchAck(n, p) ==
    /\ n \notin Silent
    /\ rx[n][p] = None
    /\ <<n, p>> \notin panicked
    /\ \E f \in wire :
        /\ f.dst = n /\ f.src = p
        /\ wire' = wire \ {f}
        /\ rx' = [rx EXCEPT ![n][p] = f.bytes]
        /\ \/ acked' = acked \cup {f} /\ UNCHANGED lost
           \/ MayFail(f) /\ lost' = lost \cup {f} /\ UNCHANGED acked
    /\ UNCHANGED <<chan, batching, waiting, persisted, panicked, exit, unsent, injected>>

\* Slip: the match has no arm for a batch, which falls through to the last.
DispatchForwardDrops(n, p) ==
    LET bytes == rx[n][p] IN
    /\ bytes # None
    /\ \/ /\ IsRequest(bytes)
          /\ SendOrPanic(n, PeerPipeline.handler.tx_helper,
                         [missing |-> bytes.missing, origin |-> bytes.origin],
                         <<n, p>>)
       \/ /\ ~IsRequest(bytes)
          /\ UNCHANGED <<chan, panicked>>
    /\ rx' = [rx EXCEPT ![n][p] = None]
    /\ UNCHANGED <<batching, waiting, persisted, wire, acked, exit, unsent, injected, lost>>

\* MempoolReceiverHandler::dispatch from the match on: a batch goes to the
\* Processor as the bytes received, a request to the Helper, and a frame
\* that does not deserialise is dropped.
DispatchForward(n, p) ==
    LET bytes == rx[n][p] IN
    /\ bytes # None
    /\ \/ /\ IsBatch(bytes)
          /\ SendOrPanic(n, PeerPipeline.handler.tx_processor, bytes, <<n, p>>)
       \/ /\ IsRequest(bytes)
          /\ SendOrPanic(n, PeerPipeline.handler.tx_helper,
                         [missing |-> bytes.missing, origin |-> bytes.origin],
                         <<n, p>>)
       \/ /\ bytes \in Malformed
          /\ UNCHANGED <<chan, panicked>>
    /\ rx' = [rx EXCEPT ![n][p] = None]
    /\ UNCHANGED <<batching, waiting, persisted, wire, acked, exit, unsent, injected, lost>>

-----------------------------------------------------------------------------
(* BatchMaker (batch_maker.rs).                                            *)

\* seal: serialise once, broadcast reliably, hand the bytes downstream.
Seal(n, batch, ch) ==
    LET serialized == BatchMsg(batch)
        tx         == ClientPipeline.batch_maker.tx
    IN /\ Len(ch[n][tx]) < Capacity
       /\ wire' = wire \cup {Frame(n, p, serialized) : p \in BroadcastAddresses(n)}
       /\ chan' = Push(ch, n, tx, serialized)
       /\ current' = [current EXCEPT ![n] = <<>>]
       /\ made' = [made EXCEPT ![n] = @ \cup {serialized}]

BatchMakerReceive(n) ==
    LET c     == ClientPipeline.batch_maker.rx
        batch == Append(current[n], Head(chan[n][c]))
    IN /\ ~exit[n]
       /\ chan[n][c] # <<>>
       /\ IF Len(batch) >= BatchSize
            THEN Seal(n, batch, Pop(chan, n, c))
            ELSE /\ chan' = Pop(chan, n, c)
                 /\ current' = [current EXCEPT ![n] = batch]
                 /\ UNCHANGED <<wire, made>>
       /\ UNCHANGED <<waiting, persisted, links, panicked, exit, unsent, injected>>

BatchMakerTimeout(n) ==
    /\ ~exit[n]
    /\ current[n] # <<>>
    /\ Seal(n, current[n], chan)
    /\ UNCHANGED <<waiting, persisted, links, panicked, exit, unsent, injected>>

-----------------------------------------------------------------------------
(* QuorumWaiter (quorum_waiter.rs).                                        *)

\* Slip: the QuorumWaiter is not given the authority's own stake.
VotedStakeWithoutOwn(n, votes) == SumFunctionOnSet(Stake, votes)

\* Slip: the own stake is counted again with every vote.
VotedStakeOwnTwice(n, votes) ==
    Stake[n] + SumFunctionOnSet(Stake, votes \cup {n})

\* The stake the QuorumWaiter starts from is the authority's own.
VotedStake(n, votes) == Stake[n] + SumFunctionOnSet(Stake, votes)

QuorumWaiterReceive(n) ==
    LET c == ClientPipeline.quorum_waiter.rx IN
    /\ ~exit[n]
    /\ waiting[n] = None
    /\ chan[n][c] # <<>>
    /\ waiting' = [waiting EXCEPT ![n] = [batch |-> Head(chan[n][c]), votes |-> {}]]
    /\ chan' = Pop(chan, n, c)
    /\ UNCHANGED <<batching, persisted, wire, links, panicked, exit, unsent, injected>>

\* The delivery handle of peer p resolves: its ACK came back.
QuorumWaiterAck(n, p) ==
    /\ ~exit[n]
    /\ waiting[n] # None
    /\ p \notin waiting[n].votes
    /\ VotedStake(n, waiting[n].votes) < QuorumThreshold
    /\ Frame(n, p, waiting[n].batch) \in acked
    /\ waiting' = [waiting EXCEPT ![n].votes = @ \cup {p}]
    /\ UNCHANGED <<chan, batching, persisted, wire, links, panicked, exit, unsent, injected>>

QuorumWaiterRelease(n) ==
    LET c == ClientPipeline.quorum_waiter.tx IN
    /\ ~exit[n]
    /\ waiting[n] # None
    /\ VotedStake(n, waiting[n].votes) >= QuorumThreshold
    /\ Room(n, c)
    /\ chan' = Push(chan, n, c, waiting[n].batch)
    /\ waiting' = [waiting EXCEPT ![n] = None]
    /\ UNCHANGED <<batching, persisted, wire, links, panicked, exit, unsent, injected>>

-----------------------------------------------------------------------------
(* Processor (processor.rs), one instance per pipeline, and Helper         *)
(* (helper.rs).                                                            *)

ProcessorRx == {ClientPipeline.processor.rx, PeerPipeline.processor.rx}

\* Hash, write, then tell consensus; a failed write tells nothing.
Processor(n, c) ==
    /\ ~exit[n]
    /\ chan[n][c] # <<>>
    /\ chan' = Pop(chan, n, c)
    /\ LET serialized == Head(chan[n][c]) IN
        \/ /\ store' = [store EXCEPT ![n] = @ \cup {serialized}]
           /\ consensus' = [consensus EXCEPT ![n] =
                              Append(@, [digest |-> Digest(serialized), from |-> c])]
        \/ /\ n \in StoreFaulty
           /\ UNCHANGED <<store, consensus>>
    /\ UNCHANGED <<batching, waiting, wire, links, panicked, exit, unsent, injected>>

\* Send the requestor every batch asked for that the store holds.
Helper(n) ==
    LET c       == PeerPipeline.helper.rx
        request == Head(chan[n][c])
    IN /\ ~exit[n]
       /\ chan[n][c] # <<>>
       /\ chan' = Pop(chan, n, c)
       /\ wire' = wire \cup {Frame(n, request.origin, s) :
                               s \in {t \in store[n] : Digest(t) \in request.missing}}
       /\ UNCHANGED <<batching, waiting, persisted, links, panicked, exit, unsent, injected>>

-----------------------------------------------------------------------------
(* Environment: peers' synchronisers, faulty peers, shutdown.              *)

\* The synchroniser of p asks n for a batch its consensus misses: one whose
\* digest some authority's consensus was handed, and could put in a block.
Proposable ==
    UNION {{consensus[m][i].digest : i \in DOMAIN consensus[m]} : m \in Nodes}

PeerRequest(p, n) ==
    /\ p \in Requesters /\ p # n
    /\ injected < MaxInjected
    /\ injected' = injected + 1
    /\ \E d \in Proposable \ {Digest(s) : s \in store[p]} :
        wire' = wire \cup {Frame(p, n, RequestMsg({d}, p))}
    /\ UNCHANGED <<chan, batching, waiting, persisted, links, panicked, exit, unsent>>

\* Peer p sends n bytes that are no MempoolMessage.
PeerGarbage(p, n) ==
    /\ p \in Garblers /\ p # n
    /\ injected < MaxInjected
    /\ injected' = injected + 1
    /\ \E m \in Malformed : wire' = wire \cup {Frame(p, n, m)}
    /\ UNCHANGED <<chan, batching, waiting, persisted, links, panicked, exit, unsent>>

\* A connection breaks with a frame in flight.
Lose(f) ==
    /\ f \in wire
    /\ MayFail(f)
    /\ wire' = wire \ {f}
    /\ lost' = lost \cup {f}
    /\ UNCHANGED <<chan, batching, waiting, persisted, rx, acked, panicked,
                   exit, unsent, injected>>

\* The delivery handles of a broadcast travel with the batch to the
\* QuorumWaiter, which drops them when it releases the batch.
Pending(n, serialized) ==
    \/ waiting[n] # None /\ waiting[n].batch = serialized
    \/ \E i \in DOMAIN chan[n]["tx-quorum-waiter"] :
          chan[n]["tx-quorum-waiter"][i] = serialized

\* The reliable sender sends a frame again when the connection is back and
\* no ACK came, as long as the handle of the delivery is held.
Retransmit(f) ==
    /\ f \in lost \ (wire \cup acked)
    /\ ~exit[f.src]
    /\ Pending(f.src, f.bytes)
    /\ wire' = wire \cup {f}
    /\ UNCHANGED <<chan, batching, waiting, persisted, links, panicked, exit,
                   unsent, injected>>

Exit(n) ==
    /\ n \in MayExit
    /\ ~exit[n]
    /\ exit' = [exit EXCEPT ![n] = TRUE]
    /\ UNCHANGED <<chan, batching, waiting, persisted, wire, links, panicked, unsent, injected>>

-----------------------------------------------------------------------------

Init ==
    /\ chan = [n \in Nodes |-> [c \in Channels |-> <<>>]]
    /\ current = [n \in Nodes |-> <<>>]
    /\ waiting = [n \in Nodes |-> None]
    /\ store = [n \in Nodes |-> {}]
    /\ consensus = [n \in Nodes |-> <<>>]
    /\ wire = {}
    /\ rx = [n \in Nodes |-> [p \in Nodes \ {n} |-> None]]
    /\ acked = {}
    /\ made = [n \in Nodes |-> {}]
    /\ panicked = {}
    /\ exit = [n \in Nodes |-> FALSE]
    /\ unsent = Txs
    /\ injected = 0
    /\ lost = {}

Next ==
    \/ \E n \in Nodes, tx \in Txs : TxDispatch(n, tx)
    \/ \E n \in Nodes : \E p \in Nodes \ {n} : DispatchAck(n, p)
    \/ \E n \in Nodes : \E p \in Nodes \ {n} : DispatchForward(n, p)
    \/ \E n \in Nodes : BatchMakerReceive(n)
    \/ \E n \in Nodes : BatchMakerTimeout(n)
    \/ \E n \in Nodes : QuorumWaiterReceive(n)
    \/ \E n \in Nodes : \E p \in Nodes \ {n} : QuorumWaiterAck(n, p)
    \/ \E n \in Nodes : QuorumWaiterRelease(n)
    \/ \E n \in Nodes, c \in ProcessorRx : Processor(n, c)
    \/ \E n \in Nodes : Helper(n)
    \/ \E p, n \in Nodes : PeerRequest(p, n)
    \/ \E p, n \in Nodes : PeerGarbage(p, n)
    \/ \E f \in wire : Lose(f)
    \/ \E f \in lost : Retransmit(f)
    \/ \E n \in Nodes : Exit(n)

Spec == Init /\ [][Next]_vars

-----------------------------------------------------------------------------
(* Fairness.  Every task is a tokio task, polled whenever one of the       *)
(* branches of its loop can run, and so is the handler of a connection:    *)
(* weak fairness per task.  The client pipeline of an authority no client  *)
(* submits to never has work, and nothing is assumed of silent authorities.*)

BatchMaker(n)   == BatchMakerReceive(n) \/ BatchMakerTimeout(n)
QuorumWaiter(n) ==
    \/ QuorumWaiterReceive(n)
    \/ \E p \in Nodes \ {n} : QuorumWaiterAck(n, p)
    \/ QuorumWaiterRelease(n)
Dispatch(n, p)  == DispatchAck(n, p) \/ DispatchForward(n, p)

Fairness ==
    /\ \A n \in Producers :
        /\ WF_vars(BatchMaker(n))
        /\ WF_vars(QuorumWaiter(n))
        /\ WF_vars(\E f \in lost : f.src = n /\ Retransmit(f))
        /\ WF_vars(Processor(n, ClientPipeline.processor.rx))
    /\ \A n \in Nodes \ Silent :
        /\ WF_vars(Processor(n, PeerPipeline.processor.rx))
        /\ WF_vars(Helper(n))
        /\ \A p \in Nodes \ {n} : WF_vars(Dispatch(n, p))

LiveSpec == Spec /\ Fairness

-----------------------------------------------------------------------------
(* Properties.                                                             *)

SerializedBatches == [type : {"Batch"}, batch : Batches]
Requests == [missing : SUBSET {Digest(m) : m \in SerializedBatches}, origin : Nodes]
Frames   == [src : Nodes, dst : Nodes, bytes : MempoolMessage \cup Malformed]

\* The shape of the state.  Beyond the types: no channel ever holds more
\* than CHANNEL_CAPACITY items, because every send awaits room, and the
\* BatchMaker never keeps a batch that has reached batch_size.
TypeOK ==
    /\ \A n \in Nodes :
        /\ chan[n]["tx-batch-maker"] \in Seq(Txs)
        /\ chan[n]["tx-quorum-waiter"] \in Seq(SerializedBatches)
        /\ chan[n]["tx-processor"] \in Seq(SerializedBatches)
        /\ chan[n]["processor"] \in Seq(SerializedBatches)
        /\ chan[n]["helper"] \in Seq(Requests)
        /\ \A c \in Channels : Len(chan[n][c]) <= Capacity
        /\ current[n] \in Seq(Txs) /\ Len(current[n]) < BatchSize
        /\ waiting[n] \in {None} \cup [batch : SerializedBatches, votes : SUBSET Nodes]
        /\ store[n] \subseteq SerializedBatches
        /\ \A i \in DOMAIN consensus[n] :
            consensus[n][i] \in [digest : {Digest(m) : m \in SerializedBatches},
                                 from : ProcessorRx]
        /\ \A p \in Nodes \ {n} : rx[n][p] \in {None} \cup MempoolMessage \cup Malformed
    /\ wire \subseteq Frames /\ acked \subseteq Frames
    /\ lost \subseteq Frames /\ Cardinality(lost) <= MaxLost
    /\ made \in [Nodes -> SUBSET SerializedBatches]
    /\ panicked \subseteq Nodes \X (Nodes \cup {Client})
    /\ exit \in [Nodes -> BOOLEAN]
    /\ unsent \subseteq Txs
    /\ injected \in 0..MaxInjected

\* The peers of n that acknowledged the frame carrying this batch.
Ackers(n, serialized) ==
    {p \in Nodes \ {n} : Frame(n, p, serialized) \in acked}

HasQuorum(n, serialized) ==
    3 * (Stake[n] + SumFunctionOnSet(Stake, Ackers(n, serialized))) > 2 * TotalStake

\* A batch an authority made reaches its consensus through its own pipeline
\* only after peers that, with the authority, hold more than two thirds of
\* the stake wrote an ACK for it: BatchMaker, QuorumWaiter and Processor
\* are chained as handle_clients_transactions wires them, and what the
\* QuorumWaiter counts are ACKs of MempoolReceiverHandler::dispatch.
QuorumBeforeConsensus ==
    \A n \in Nodes : \A i \in DOMAIN consensus[n] :
        consensus[n][i].from = "tx-processor" =>
            \E s \in made[n] : Digest(s) = consensus[n][i].digest /\ HasQuorum(n, s)

\* The design document's form of the same claim: the digest of a batch an
\* authority made is sent to its consensus only after a quorum acknowledged
\* the batch.  In the code both Processors send on clones of tx_consensus
\* and MempoolReceiverHandler::dispatch forwards every batch, the
\* authority's own included.
QuorumBeforeAnyConsensus ==
    \A n \in Nodes : \A i \in DOMAIN consensus[n] :
        \A s \in made[n] :
            Digest(s) = consensus[n][i].digest => HasQuorum(n, s)

\* An ACK is backed by the bytes: a batch MempoolReceiverHandler::dispatch
\* acknowledged is held by the handler, queued for the Processor or in the
\* store, unless the authority shut down or its store failed.  The ACK is
\* written before the batch is forwarded, and the sender counts it at once.
AckedIsHeld ==
    \A f \in acked :
        IsBatch(f.bytes) =>
            LET n == f.dst IN
            \/ rx[n][f.src] = f.bytes
            \/ \E i \in DOMAIN chan[n]["processor"] : chan[n]["processor"][i] = f.bytes
            \/ f.bytes \in store[n]
            \/ exit[n] \/ n \in StoreFaulty

Occurrences(seq, x) == Cardinality({i \in DOMAIN seq : seq[i] = x})

\* Where a submitted transaction is: queued for the BatchMaker, in the batch
\* being filled, or in a sealed batch.
Copies(tx) ==
    LET In(n) == Occurrences(chan[n]["tx-batch-maker"], tx)
                    + Occurrences(current[n], tx)
                    + Cardinality({s \in made[n] : Occurrences(s.batch, tx) > 0})
    IN SumFunction([n \in Nodes |-> In(n)])

\* A transaction TxReceiverHandler::dispatch accepted is in exactly one
\* place, and in none only when a dispatch panicked on a mempool that shut
\* down: a full channel suspends the handler and drops nothing, and sealing
\* empties the batch it sent.
NoTxLostOrDuplicated ==
    \A tx \in Txs \ unsent :
        /\ Copies(tx) <= 1
        /\ Copies(tx) = 0 => \E n \in Nodes : <<n, Client>> \in panicked

\* The design document on the Processor: consensus sees exactly one digest
\* notification per locally-known batch, whatever its origin.  In the code
\* MempoolReceiverHandler::dispatch forwards every batch that arrives, and
\* both Processors notify consensus of what they were handed: a batch that
\* arrives from the broadcast and from a Helper, or that is sent again
\* because its ACK was not written, is notified each time.
ConsensusToldOnce ==
    \A n \in Nodes : \A i, j \in DOMAIN consensus[n] :
        consensus[n][i].digest = consensus[n][j].digest => i = j

\* The design document on the peer handler: a frame that does not
\* deserialise is logged and no ACK is sent for it.  The code writes the ACK
\* before it calls bincode::deserialize.
MalformedNeverAcked ==
    \A f \in acked : f.bytes \notin Malformed

\* Every batch sealed by an authority that keeps running is handed to its
\* consensus by its own Processor, although the peers of Silent never answer
\* and a connection lost a frame or an ACK: the ACKs of the others, counted
\* with the own stake, reach the quorum threshold, and the frame no ACK came
\* for is sent again while the QuorumWaiter holds its handle.  made and
\* consensus only grow, so this is "sealed leads to consensus" for each batch.
SealedReachesConsensus ==
    <>[](\A n \in Producers : \A s \in made[n] :
            \E i \in DOMAIN consensus[n] :
                consensus[n][i] = [digest |-> Digest(s), from |-> "tx-processor"])

\* Every batch a peer acknowledged is eventually in that peer's store: after
\* the ACK the handler waits for room in the channel of the peer Processor,
\* which the handlers of all connections send into, and it is not passed
\* over for ever.  acked and store only grow.
AckedEventuallyStored ==
    <>[](\A f \in acked :
            IsBatch(f.bytes) /\ f.dst \notin Silent => f.bytes \in store[f.dst])

=============================================================================
