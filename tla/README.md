# TLA+ models of the SafeStake operator: mempool core and block service

This directory holds the TLA+ specifications of the mempool and the block
production service of the operator,
the TLC configurations that check them, and `PROJECT.json`, which lists the
components, the runs, the mapping from definitions to source lines, the
findings and the hazards.

Run everything from this directory:

    tlasany Mempool.tla
    tlc -workers 2 -config MempoolSafety.cfg MCMempool
    tlc -workers 2 -config MempoolSync.cfg MCMempoolSync
    tlc -workers 2 -config BlockServiceSystem.cfg MCBlockServiceSystem
    tlc -workers 2 -config BlockServiceNotLeader.cfg MCBlockService
    tlc -workers 2 -config MempoolSpawnSafety.cfg MCMempoolSpawn
    tlc -workers 2 -config Synchronizer.cfg MCSynchronizer

## 1. Inventory

### 1.1 Mempool (`src/hotstuff/mempool/src/mempool.rs`)

One mempool runs per validator on every authority of the committee. The
file defines the messages, creates the channels, spawns the tasks and
implements the two network receive handlers. The tasks themselves live in
other crates and are described by the design document (`spec.md`).

| Part | State | Operations | Talks to |
|---|---|---|---|
| `TxReceiverHandler` | sender of `tx-batch-maker` | `dispatch`: send the transaction, suspend while the channel is full, panic when the receiver is gone | clients, BatchMaker |
| `MempoolReceiverHandler` | senders of `helper` and `processor` | `dispatch`: write `"Ack"`, then deserialise; Batch to the Processor, BatchRequest to the Helper, anything else logged | peers, Processor, Helper |
| wiring (`handle_clients_transactions`, `handle_mempool_messages`) | five channels of `CHANNEL_CAPACITY` | creates channels, registers the handlers in the shared maps, spawns the tasks | everything |
| `spawn` | the `Mempool` value | spawns the Synchronizer, both pipelines, then looks itself up in the committee | caller |
| BatchMaker | the batch being filled | receive, seal on size, seal on timer | network (broadcast), QuorumWaiter |
| QuorumWaiter | the batch held, the stake acknowledged | receive, count an ACK, release | Processor |
| Processor (two instances) | none | hash, write to the store, send the digest | Store, consensus |
| Helper | none | answer a request from the store | Store, network |
| Synchronizer | pending requests | request missing batches, retry, clean up by round | consensus, network |

What makes it hard: a dozen tasks per authority interleave through bounded
channels; the ACK a peer writes is counted by the sender before the
receiver has stored anything; the exit signal can fire between any two
steps and turns a later send into a panic; peers may be silent or send
bytes that are no message; a connection may break with a frame in flight or
with the ACK unwritten, and the sender then sends the frame again; both
Processors feed the same consensus channel.

What it must guarantee: a self-produced batch reaches consensus only after a
quorum of stake acknowledged it; an ACK is backed by the bytes; a
transaction is neither lost nor duplicated by backpressure; with one faulty
peer in four and a connection that breaks the pipeline still delivers.

### 1.2 Block service (`src/src/validation/block_service.rs`)

| Part | State | Operations | Talks to |
|---|---|---|---|
| `start_update_service` | the notification channel | loop: receive, `do_update`; ends when the channel is closed and empty | duties service |
| `do_update` | none | read the clock, skip expired and genesis slots, spawn one task per proposer | slot clock, executor |
| spawned task | payload type, result | `publish_block` blinded or full, fall back to full on `Recoverable`, log the result | validator store, beacon nodes |
| `publish_block` | clock reading, candidate, errors | clock, randao reveal, then per candidate: get block, check proposer, sign, post | validator store, beacon nodes |
| `From<Errors<BlockError>>` | none | `Irrecoverable` if any candidate failed so, else `Recoverable` | |
| `BlockServiceBuilder` | seven options | setters, `build` | |

What makes it hard: tasks run concurrently with the loop and the clock, so
the slot checked in `do_update` is used later; a failure may come before or
after the block was signed, and only the first kind may be retried with
another payload type; the errors of several candidates are merged into one.

What it must guarantee: no fallback after a signature; every notification
sent is handled and every task ends, also when the duties service goes
away; each kind of failure is reported as what it is.

### 1.3 `src/src/utils/error.rs`

`require` (panic unless a condition holds) and the enum `DvfError`. No
state, not used by the two files above; not modelled.

## 2. Modules

| Module | Models | Source |
|---|---|---|
| `Mempool` | the mempools of one validator on all authorities of a committee: handlers, channels, wiring, tasks, store, wire, broken connections and retransmission, exit | handlers and wiring from `mempool.rs`; tasks, committee, store and network from the design document |
| `MCMempool` | the committee of four, the transactions and the lossy connections used by the configurations | |
| `BlockService` | the service loop, the proposal tasks, the clock and the duties service | `block_service.rs`; `first_success`, the validator store and the clock as documented |
| `MCBlockService` | two validators, for the run of finding 3 | |
| `MempoolSpawn` | the mempools of all validators of one node as they come up and go down: the steps of `spawn`, the two shared handler maps, exit, dispatch through the maps | `mempool.rs`, `spawn` and the two `handle_*` functions |
| `MCMempoolSpawn` | three validators, two of them in their committee | |
| `Synchronizer` | the Synchronizer of one authority: pending table, retries, `notify_read`, garbage collection by round, lossy requests, silent peers | commands from `mempool.rs`; the loop from the design document (4.5) |
| `MCSynchronizer` | a silent and an honest peer, two digests | |
| `MempoolSync` | the Synchronizer of one authority composed with the mempools of its committee: its store is the store the Processors write, its requests are frames on the wire | `handle_consensus_messages` of `mempool.rs`; the loop from the design document (4.5) |
| `MCMempoolSync` | a committee of four in which one ACK completes the quorum of the producer | |
| `MempoolAbstract` | what the mempools promise consensus: batches made once, acknowledged, persisted and delivered in one step by an authority entitled to | design document (5, 8) |
| `MempoolRefinement` | the refinement mapping from `Mempool` to `MempoolAbstract` | |
| `BlockServiceBuilder` | the builder: setters and `build` | `block_service.rs` |
| `BlockServiceSystem` | the builder composed with the service: the service runs once `build` returned it | `block_service.rs` |
| `MCBlockServiceSystem` | one validator, one graffiti value | |

### 2.1 `Mempool`: state and actions

| Variable | Code |
|---|---|
| `chan[n][c]` | the five `MonitoredChannel`s of authority `n` |
| `current[n]` | the buffer of the BatchMaker |
| `waiting[n]` | the batch the QuorumWaiter holds and the peers whose handle resolved |
| `store[n]` | the Store, a set of serialised batches |
| `consensus[n]` | what was sent on `tx_consensus`, with the channel it came through |
| `wire` | frames sent and not yet taken by a receive handler |
| `rx[n][p]` | the frame `dispatch` holds between writing the ACK and forwarding |
| `exit[n]`, `panicked` | the exit signal; the connections whose `dispatch` panicked |
| `acked`, `made`, `lost` | history: frames acknowledged, batches sealed, frames a broken connection lost or took in without an ACK |
| `unsent`, `injected` | environment: transactions to come, frames injected |

`ClientPipeline` and `PeerPipeline` are records that say which end of which
channel each task and handler holds, exactly as the two `handle_*`
functions pass them; every action takes its channels from them. A wrong
argument in the wiring is therefore a change of one field.

`MempoolReceiverHandler::dispatch` is two actions because it awaits twice:
`DispatchAck` (the frame is read and the ACK written) and `DispatchForward`
(the match and the send, which suspends on a full channel and panics after
exit). One connection handles one frame at a time.

`send(..).await.expect(..)` is `SendOrPanic`: enabled when there is room,
and, once the exit signal has fired and the receiving task is gone, a panic
of the connection.

The variables are grouped by who writes them: `batching` (BatchMaker),
`persisted` (the Processors), `links` (the peer connections).

Faults of the transport. `Lossy` names the connections, as pairs of sender
and receiver, that may break; `MayFail(f)` lets each frame fail once, and
`MaxLost` frames in all. A frame is lost in flight (`Lose`), or taken in
with the write of the ACK failing: `dispatch` discards the result of that
write (`let _ = writer.send(..)`), so the second disjunct of `DispatchAck`
goes on to forward the frame although the sender was told nothing. The
reliable sender sends a lost frame again (`Retransmit`) as long as the
delivery is `Pending`, that is, while the batch is on its way to the
QuorumWaiter or held by it; the handles are dropped when the batch is
released. The Synchronizer asks only for digests its store misses
(`PeerRequest`).

Data is abstract: transactions are model values, a batch is a sequence of
them, serialisation is the record `BatchMsg(batch)`, a digest is a tagged
copy of the bytes. The batch size is counted in transactions, not bytes.

### 2.2 `BlockService`: state and actions

| Variable | Code |
|---|---|
| `clock` | the slot `slot_clock.now()` returns (or `None` when `ClockMayFail`) |
| `inbox` | `notification_rx` |
| `handled` | number of calls of `do_update`, used to name tasks |
| `loop` | `"open"` while the duties service holds the sender of the channel, `"closed"` once it dropped it, `"down"` when the loop of `start_update_service` has ended |
| `tasks[<<k, v>>]` | the task spawned by call `k` for proposer `v`: slot, program counter, payload type, clock reading, candidate, errors, what it signed, whether it fell back, what it logged |

`DoUpdate` is one turn of the loop, the whole of `do_update` (it awaits
nothing). `Close` is the duties service dropping the sender; `Shutdown` is
`recv` returning `None`, which it does when the channel is closed and
empty, and the tasks spawned before go on. A task takes one
action per await: `Start`, `RandaoReveal`, `GetBlock`, `SignBlock`,
`PostBlock`. The synchronous code between two awaits is part of the action
that precedes it: `CandidateFailed` (next candidate, or conversion of the
errors), `Conclude` (fallback or not) and `Begin` (the clock read of the
next `publish_block`). Graffiti, metrics and the content of blocks are left
out; the log level of the final result is kept because a property is about
it.

### 2.3 `MempoolSpawn`: state and actions

| Variable | Code |
|---|---|
| `mempool[i]` | the `Mempool` value of the i-th call of `spawn`: its `validator_id`, the stretch of `spawn` it is at (`pc`), the tasks spawned, whether its exit signal fired, and the connections that handed it a frame |
| `tx_handler_map`, `mempool_handler_map` | the two `Arc<RwLock<HashMap<u64, _>>>` shared by all mempools of the node; a handler is named by the mempool whose channels it sends on |
| `panicked` | connections whose `dispatch` hit a closed channel |

`spawn` awaits twice, for the write lock of each map, so it is four actions:
`Spawn` (the value is made, the Synchronizer spawned),
`HandleClientsTransactions` and `HandleMempoolMessages` (insert into the
map, then spawn the tasks, with no await in between) and `Booted` (the
committee lookup, which panics for a key the committee does not hold, after
everything else has happened). `Exit` may fire between any two of them; a
task spawned after it returns at once. `Dispatch` is the receive side: the
handler the map names sends on its channel, and panics when the receiving
task is gone.

Assumption about the caller, which is outside the repository: `spawn` is
called for a validator only when every earlier mempool of that validator
has finished its `spawn` and was told to exit.

### 2.4 `Synchronizer`: state and actions

| Variable | Design document |
|---|---|
| `pending[d]` | the mapping `Digest -> (missing_since_round, targets_tried)` |
| `current_round` | the watermark |
| `store` | the digests whose batch the local store holds |
| `requests` | `BatchRequest`s sent and neither answered nor lost |
| `commands` | number of `Synchronize` commands handled (bound) |

`Synchronize` and `Cleanup` handle the two commands; `Retry` is the retry
timer for one digest, `NotifyRead` the completion of `notify_read`, `Reply`
the answer of an honest peer arriving in the store, `Drop` a request lost or
ignored. Where the document leaves a choice open the model takes the
literal reading: a `Synchronize` for a digest already pending records it
anew, and when every peer was tried the choice of targets starts over.

### 2.5 `MempoolSync`: the Synchronizer among the mempools

`MempoolSync` extends `Mempool` and instantiates `Synchronizer` for the
authority `Self`, as `handle_consensus_messages` spawns it: on the store
and the committee of the mempool. Two variables of `Synchronizer` become
expressions over the state of `Mempool`:

| `Synchronizer` | `MempoolSync` |
|---|---|
| `store` | `Held`, the digests of the batches in `store[Self]` |
| `requests` | `Asked`, the `BatchRequest` frames of `Self` on the wire |
| `pending`, `current_round`, `commands` | variables of their own |

`Synchronize` and `Retry` put the frames on the wire (`Request`) and update
the pending table as in `Synchronizer`; `NotifyRead` and `Cleanup` touch the
table only. What `Synchronizer` models as one step `Reply` of an honest
peer is here the way of the request through `DispatchAck` and
`DispatchForward` of the peer, its Helper, the wire, `dispatch` of `Self`
and the peer Processor of `Self`, every step interleaved with everything
else; `Drop` is a frame to a silent peer or a Helper that does not hold the
batch. Consensus asks for digests some authority was handed (`Proposable`).

Two guards of `Retry` are the model's: the timer fires only while the batch
is not held, and only while fewer than `MaxOutstanding` requests are on
their way to running peers (the retry delay is long against the way of a
request). Without them every reply would be processed and told to consensus
again and again, and `consensus[Self]`, a sequence, would grow for ever.

### 2.6 `MempoolAbstract` and the refinement

The abstract state is `made[n]`, `promised` (who acknowledged which batch),
`stored[n]` and `delivered[n]`. `MempoolRefinement` maps `made` to the
batches in `Mempool!made`, `promised` to the receivers of acknowledged
frames that hold a batch, `stored` to the batches in `store`, `delivered` to
the batches whose digests are in `consensus`. `Seal` implements `Make`,
`DispatchAck` of a batch `Promise`, a successful `Processor` step `Persist`;
all other actions stutter. `Persist` requires that the authority
acknowledged the batch or made it and has a quorum behind it, so the
refinement fails when the QuorumWaiter is bypassed or miscounts, when a
digest is sent without the write, or when a transaction ends up in two
batches.

### 2.7 `BlockServiceBuilder` and `BlockServiceSystem`

`builder` is the record of the seven fields, `result` what `build`
returned. `Set(f, value)` is the setter of field `f`; `Build` folds `Unwrap`
over the required fields in the order `build` applies `ok_or(..)?` to them.

`BlockServiceSystem` extends `BlockService` and instantiates the builder
beside it. A step is a setter, `build`, or, once `Started` (the result is a
service whose `private_tx_proposals` is the flag the service model runs
with), a step of the service. Before `build` succeeded nothing of the
service moves, and a failed `build` leaves no service at all.

## 3. Runs

| Run | Configuration | Result | States |
|---|---|---|---|
| `mempool_safety` | `MempoolSafety.cfg` | `TypeOK`, `QuorumBeforeConsensus`, `AckedIsHeld`, `NoTxLostOrDuplicated`, `Refinement` hold | 195,567 |
| `mempool_backfill` | `MempoolBackfill.cfg` | `QuorumBeforeConsensus`, `AckedIsHeld` hold | 1,393,106 |
| `mempool_echo` | `MempoolEcho.cfg` | `QuorumBeforeAnyConsensus` violated | |
| `mempool_duplicate` | `MempoolDuplicate.cfg` | `ConsensusToldOnce` violated | |
| `mempool_malformed` | `MempoolMalformed.cfg` | `MalformedNeverAcked` violated | |
| `mempool_liveness` | `MempoolLiveness.cfg` | `QuorumBeforeConsensus`, `SealedReachesConsensus`, `AckedEventuallyStored` hold | 168,793 |
| `mempool_sync` | `MempoolSync.cfg` | `MissingIsFetched` holds | 185,521 |
| `blockservice` | `BlockServiceSystem.cfg` | `TypeOK`, `NoFallbackAfterSigning`, `BuildIsComplete`, `ProposalsConclude`, `NotificationsAreHandled` hold | 235,056 |
| `blockservice_notleader` | `BlockServiceNotLeader.cfg` | `NotLeaderIsNotCritical` violated | |
| `spawn_safety` | `MempoolSpawnSafety.cfg` | `TypeOK`, `BootedIsServed` hold | 466,081 |
| `spawn_shutdown` | `MempoolSpawnShutdown.cfg` | `HandlerRemovedOnShutdown` violated | |
| `synchronizer` | `Synchronizer.cfg` | `TypeOK`, `MissingWithinGcDepth`, `MissingIsResolved` hold | 21,940 |

### 3.1 Properties

* `QuorumBeforeConsensus`: a digest sent by the Processor of the client
  pipeline belongs to a batch of this authority whose ACKs, with the own
  stake, exceed two thirds of the total. It relates `consensus`, `made` and
  `acked` across BatchMaker, the peers' handlers and the QuorumWaiter.
* `AckedIsHeld`: an acknowledged batch is in the handler, in the channel of
  the Processor or in the store, unless the authority exited or its store
  failed. The exceptions are what the code really does: an ACK written just
  before shutdown is not backed.
* `NoTxLostOrDuplicated`: an accepted transaction is in exactly one of the
  channel, the buffer and a sealed batch; it is nowhere only after a panic
  of the client connection.
* `SealedReachesConsensus`, `AckedEventuallyStored`: progress with two
  producers, a silent peer, full channels and a connection that loses a
  frame or an ACK. Both are stated as "eventually always, for every batch
  sealed (frame acknowledged)": `made`, `acked`, `store` and `consensus`
  only grow and the batches are finitely many, so this says of each batch
  what "sealed leads to delivered" says, and TLC checks it once instead of
  once per batch. `QuorumBeforeConsensus` is checked in the same run: the
  batch is delivered late rather than early when ACKs are missing.
* `ConsensusToldOnce`: consensus is sent the digest of a batch once per
  authority. Violated, see finding 5.
* `Refinement`: `Mempool` implements `MempoolAbstract` under the mapping of
  section 2.6. It is checked step by step, as an action property.
* `BootedIsServed`: a mempool that booted and runs is the one both maps
  name for its validator, with all its tasks, and got frames of its own
  validator only, while other spawns insert into the same maps.
* `TypeOK` of `MempoolSpawn` also states that only a mempool whose key is in
  the committee counts as booted.
* `MissingWithinGcDepth`: nothing is pending for more than `gc_depth`
  rounds. `TypeOK` of `Synchronizer` also states that nothing is missing
  since a round the watermark has not reached, so the watermark never moves
  back.
* `MissingIsResolved`: what is missing is fetched or given up, with a silent
  peer and lost requests.
* `MissingIsFetched`: `MissingIsResolved` in the composition. The batch of
  n1 is released on the ACK of n2 while the frame to n3 is lost, and the
  handle that would send it again is dropped; when consensus names the
  digest, the Synchronizer of n3 asks the target consensus gave, which may
  be the silent n4 or a peer that does not hold the batch yet, retries, and
  the batch arrives from a Helper and is stored by n3's peer Processor, or a
  `Cleanup` gives the digest up.
* `BuildIsComplete`: `build` succeeds exactly with the four required fields
  and otherwise names the first one missing; checked in the composition,
  where the service runs only on a result that is complete.
* `NoFallbackAfterSigning`: no task signs both a blinded and a full block.
* `ProposalsConclude`: every spawned task ends, also after the loop that
  spawned it has.
* `NotificationsAreHandled`: every notification sent reaches `do_update`,
  although the duties service may drop the sender with notifications still
  in the channel.
* `TypeOK` of `BlockService` also states that no task exists for the genesis
  slot and that the clock reading a task signs with is never before its
  slot.

What the properties do not say. `QuorumBeforeConsensus` speaks of the
digests the client pipeline sends, and `Refinement` lets a batch that was
acknowledged be persisted at its maker: the echo of finding 2 is caught by
`QuorumBeforeAnyConsensus` alone. `AckedIsHeld` and `NoTxLostOrDuplicated`
except the authority that exited and the connection that panicked, as the
design document does: they bound the loss at shutdown and do not report it.
`AckedIsHeld` is about frames that are batches; that bytes which are no
message are acknowledged is `MalformedNeverAcked`. `BootedIsServed` is
about mempools that run; the handler a mempool leaves behind is
`HandlerRemovedOnShutdown`. The properties of `Synchronizer` check the
algorithm of the design document, there being no code of it to compare.

### 3.2 Findings

1. **Malformed frames are acknowledged** (`mempool.rs:238`). The ACK is
   written before `bincode::deserialize`; the design document says a
   malformed frame gets none.
2. **A self-produced batch can reach consensus without its quorum**
   (`mempool.rs:200`). Sealed by n1, acknowledged and stored by n2, asked
   back by n1's synchroniser, answered by n2's Helper: n1's peer Processor
   stores it and sends the digest while n1's QuorumWaiter holds the batch
   with one ACK. The digest sent by the client pipeline itself is always
   gated (`QuorumBeforeConsensus`).
3. **`SignBlockNotLeader` is never reported** (`block_service.rs:441`,
   `:286`). The `?` after `first_success` converts the collected errors to
   `Recoverable` or `Irrecoverable`; the info-level arm is unreachable, not
   being the leader is logged as critical, and with private transaction
   proposals it triggers the fallback to a full block.

4. **Handlers are not removed on shutdown** (`mempool.rs:135`, `:182`).
   The design document has the mempool remove its handlers from the shared
   maps when it shuts down; `mempool.rs` only inserts. After the exit signal
   every map the `spawn` had reached names a mempool without tasks (in the
   shortest trace `tx_handler_map` alone, the exit firing after the first
   insert), and `dispatch` panics on the next frame for that validator; during a new `spawn` for the validator one map
   can name the new mempool and the other the old one.

5. **Consensus is told of a batch more than once** (`mempool.rs:242`). The
   design document (4.3) has consensus see exactly one digest notification
   per batch an authority knows, whatever its origin. `dispatch` forwards
   every batch that arrives and the Processor stores and notifies without
   looking at the store. In the trace the Synchronizer of n1 asks for
   n1's own batch while it waits for its quorum; the client pipeline of n1
   stores and notifies the batch, then the reply of n2's Helper arrives and
   the peer Processor of n1 stores and notifies it again. A retransmission
   after an ACK that was not written has the same effect at a peer. The non-goals of the document
   accept duplicate arrivals at the cost of extra storage writes only.

## 4. Bounds

Mempool: four authorities of stake 1 (f = 1, threshold 3), the smallest
committee in which a quorum differs from everyone. In the safety runs
clients submit to n1 only; n1 and n2 may exit, so only n3 and n4 are
interchangeable (`RestSymmetry`), as are the transactions. Two transactions
with batch size 2 give batches sealed by size and by timer, in both orders. `Capacity = 1`
makes every channel fill, so every suspension point is reached. The
back-fill runs use one transaction (one batch) and two injected frames,
either requests by n1 or malformed frames from n1; exit may fire at n1 and
n2, which reaches the panic of `dispatch` for a batch (at n1, on a Helper
reply) and for a request (at n2). The back-fill run also lets the connection from
n1 to n2 break once. The liveness run has n1 and n2 both producing, the
clients giving the two transactions to them in any split, n4 silent, no exit and
no store failure, and the connections into n3 lossy with `MaxLost = 1`:
with n4 silent the quorum of either producer needs the ACK of n3, so the
lost frame or ACK is the one the QuorumWaiter waits for, and the batches
of both producers meet in the channel of n3's Processor, of capacity 1.
One loss is enough for each of the three cases (frame lost, ACK lost,
retransmitted frame arriving where the first copy is stored); a second
loss repeats one of them on another frame.

Block service: two beacon nodes are the least with which an early and a
late candidate can fail differently. Slots 0..2 with the merge at slot 2
give the genesis slot, a slot for full blocks and a slot for blinded ones.
The run has two notifications for one validator, so that tasks of
successive calls of `do_update` overlap, and the sender may be dropped
before, between or after them. Tasks share no state but the clock, so two
tasks of one validator show what two tasks of two validators would; two
validators in two notifications do not finish in the time a run is given.

Spawn: three validators, one outside its committee, and three calls of
`spawn`: enough for two spawns of different validators to interleave at
both maps while a third mempool exits, and for a validator to be spawned
again after its mempool exited.

Synchronizer: two peers, one silent and one honest, so that a retry can go
wrong; two digests, so that a command is partly in the store; rounds 0..3
with `gc_depth = 1`, so that entries of different ages meet a `Cleanup`;
`MaxCommands = 2` `Synchronize` commands. The bound on commands matters for
liveness: under the literal reading of the design document a consensus that
repeats `Synchronize` for the same digest for ever resets `targets_tried`
each time.

Composition of Synchronizer and mempools: n3 is `Self`. n1 has stake 4 of
7 (threshold 5), so the ACK of one peer completes its quorum and the batch
is released while the frame to n3 is still missing; the connection from n1
to n3 loses one frame (`MaxLost = 1`), n4 is silent. One transaction, hence
one digest; one `Synchronize` command (`MaxCommands = 1`) with any target;
`gc_depth = 0` and rounds 0..1, so that a `Cleanup` can give the digest up
at any moment; `SyncRetryNodes = 1`; `MaxOutstanding = 1`. Not in this run:
exit of an authority (the state space does not finish with it), store
failures, and two digests pending at once, which `synchronizer` covers.

Refinement: checked in `mempool_safety`, whose two transactions and batches
of up to two make `Make` refuse a transaction that is in a batch already.

Builder: all 128 settings of the seven fields, each followed by `build`
and, when it succeeds, by the runs of the service.

`CHECK_DEADLOCK FALSE` everywhere: the systems are servers that idle when
no input arrives, the models bound their input, and a builder is done after
`build`.

Symmetry sets are used in runs without liveness properties only.

## 5. Fairness

`Mempool!Fairness`: weak fairness per task (BatchMaker, QuorumWaiter, each
Processor, Helper) and per connection handler. Each is a tokio task that is
polled whenever one of its branches is ready. Only the client pipeline of
producers is constrained, and nothing is assumed of silent authorities.
The retransmission of a producer's lost frames is weakly fair as well: the
reliable sender is a task of its own that retries while the handle is held,
and a frame fails once, so the second copy is not lost. Weak fairness
suffices also with two producers: a handler that waits for room in the
Processor's channel stays enabled from the moment the Processor takes a
batch until some handler sends, and there are finitely many frames, so no
handler is overtaken for ever.

`BlockService!Fairness`: weak fairness of the loop and of every task: the
executor runs them, and every awaited call returns, if only with the error
of its timeout.

`Synchronizer!Fairness`: weak fairness of the retry timer and of the
completion of `notify_read`, which are branches of the Synchronizer's own
loop; strong fairness of the answer of an honest peer, because a request to
it can be lost each time and the assumption is that not all of them are.
Nothing is assumed of consensus, of `Cleanup` in particular: the property
holds without garbage collection.

`MempoolSync!SystemFairness`: that of `Mempool` for the tasks and handlers,
and weak fairness of the retry timer and of `notify_read` of `Self`. The
answer of a peer needs no strong fairness here: it is the steps of the
peer's handler and Helper, each weakly fair, and a request frame is lost at
most once. A retry that sends a request already on the wire changes nothing
and does not count as a step of the timer.

`BlockServiceSystem!SystemLiveSpec` takes the fairness of `BlockService`:
tasks and notifications exist only once `build` returned the service, which
then stays, so the loop and the tasks are enabled only when they run.
Nothing makes the caller call `build`, and nothing makes the duties service
send or close.

`MempoolSpawn`, `MempoolAbstract` and `BlockServiceBuilder` have safety
properties only and assume no fairness.

## 6. Not modelled

* The composition of `MempoolSpawn` with `Mempool` in one state space:
  `Mempool` starts from the state a completed `spawn` leaves. The
  Synchronizer is composed with the mempools for one authority
  (`MempoolSync`); the other authorities show of theirs the requests it
  sends (`PeerRequest`).
* Exit and store failures in the composition of Synchronizer and mempools,
  and more than one request on its way at a time.
* The lookup of a handler by the network receiver of the node, which is
  outside the repository: `Dispatch` of `MempoolSpawn` looks up and sends in
  one step.
* What follows the panic at the end of `spawn`: whether the exit signal
  fires then depends on the caller.
* The back-off and reconnection of the reliable sender, more than one
  failure of the same frame, and corruption of frames in transit.
* The choice of the graffiti (file, validator store, default) in
  `publish_block`: it changes the content of the block only, and a graffiti
  file that cannot be read is logged and passed over.
* Restart of a mempool on a persisted store.
* The cancellation of the loop and of the tasks by the executor when the
  client shuts down: the executor is outside the repository.
* Slashing protection of the validator store; the content of blocks.
* More than one pass of `first_success` over the candidates: each candidate
  is tried once and leaves one error. `FromErrors` asks whether any error
  is `Irrecoverable`, so no property depends on their number or order.
* Any check that a task is still in its slot: the code has none between the
  comparison in `do_update` and the request for the block, so the model
  lets a block be requested, signed and published after its slot, and no
  property speaks of it.
* `utils::error`: `require` is an assertion that panics and `DvfError` an
  enum of values; neither has state or is called by the modelled files.

## 7. Plan

1. Several losses of the same frame, with strong fairness of the delivery.
2. A validator store with slashing protection, to state that at most one
   block per slot is signed although `first_success` asks again.
3. Exit of peers and a failing store in `MempoolSync`, on a wire that drops
   the frames of connections that are gone.
