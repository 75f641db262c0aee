--------------------------- MODULE MempoolSpawn ---------------------------
(***************************************************************************)
(* How the mempools of one operator node come up and go down:              *)
(* Mempool::spawn in hotstuff/mempool/src/mempool.rs.                      *)
(*                                                                         *)
(* The node runs one mempool per validator.  All of them register their    *)
(* receive handlers in two maps the network receivers of the node look     *)
(* handlers up in, keyed by validator_id.  spawn awaits the write lock of  *)
(* each map, so the spawns of several validators, the dispatch of incoming *)
(* frames and the exit signals interleave at those points.                 *)
(*                                                                         *)
(* A mempool is identified by the position of its spawn among all spawns.  *)
(* What the tasks do once they run is the subject of module Mempool.       *)
(***************************************************************************)
EXTENDS Integers, Sequences, FiniteSets

CONSTANTS
    ValidatorIds,   \* the validators the node may run
    Members,        \* those whose public key the committee they name holds
    MaxSpawns,      \* bound on the calls of Mempool::spawn
    None

ASSUME Members \subseteq ValidatorIds /\ MaxSpawns \in Nat

VARIABLES
    mempool,                \* mempool[i]: the mempool the i-th spawn made
    tx_handler_map,         \* validator_id -> mempool of its TxReceiverHandler
    mempool_handler_map,    \* the same for MempoolReceiverHandler
    panicked                \* the connections whose dispatch panicked

vars == <<mempool, tx_handler_map, mempool_handler_map, panicked>>

ClientTasks == {"BatchMaker", "QuorumWaiter", "Processor"}
PeerTasks   == {"Helper", "PeerProcessor"}
Tasks       == {"Synchronizer"} \cup ClientTasks \cup PeerTasks
Kinds       == {"tx", "mempool"}

\* The tasks of a mempool that run: each one was handed a clone of the exit
\* signal and returns when it fires, also when it fired before the spawn.
Running(m) == IF m.exit THEN {} ELSE m.tasks

Live(i) == ~mempool[i].exit

-----------------------------------------------------------------------------

\* Slip: every mempool is given a map of its own instead of the shared one.
InsertIntoOwn(map, validator_id, handler) ==
    [v \in ValidatorIds |-> IF v = validator_id THEN handler ELSE None]

\* map.write().await.insert(validator_id, handler): the handler an earlier
\* mempool registered under the same id is replaced.
Insert(map, validator_id, handler) == [map EXCEPT ![validator_id] = handler]

\* struct Mempool, with the step spawn is at and what dispatch handed it.
NewMempool(validator_id) ==
    [validator_id |-> validator_id, pc |-> "clients", tasks |-> {"Synchronizer"},
     exit |-> FALSE, received |-> {}]

\* Mempool::spawn up to its first await: the instance is made and
\* handle_consensus_messages spawns the Synchronizer.  The node starts a
\* mempool for a validator only when it runs none for it.
Spawn(validator_id) ==
    /\ Len(mempool) < MaxSpawns
    /\ \A i \in DOMAIN mempool :
        mempool[i].validator_id = validator_id =>
            mempool[i].exit /\ mempool[i].pc \in {"booted", "panicked"}
    /\ mempool' = Append(mempool, NewMempool(validator_id))
    /\ UNCHANGED <<tx_handler_map, mempool_handler_map, panicked>>

\* handle_clients_transactions, once it holds the write lock.
HandleClientsTransactions(i) ==
    /\ mempool[i].pc = "clients"
    /\ tx_handler_map' = Insert(tx_handler_map, mempool[i].validator_id, i)
    /\ mempool' = [mempool EXCEPT ![i].pc = "peers", ![i].tasks = @ \cup ClientTasks]
    /\ UNCHANGED <<mempool_handler_map, panicked>>

\* handle_mempool_messages, once it holds the write lock.
HandleMempoolMessages(i) ==
    /\ mempool[i].pc = "peers"
    /\ mempool_handler_map' = Insert(mempool_handler_map, mempool[i].validator_id, i)
    /\ mempool' = [mempool EXCEPT ![i].pc = "address", ![i].tasks = @ \cup PeerTasks]
    /\ UNCHANGED <<tx_handler_map, panicked>>

\* Slip: the lookup falls back to a default address instead of panicking.
BootedUnchecked(i) ==
    /\ mempool[i].pc = "address"
    /\ mempool' = [mempool EXCEPT ![i].pc = "booted"]
    /\ UNCHANGED <<tx_handler_map, mempool_handler_map, panicked>>

\* The end of spawn: the address of the own key is looked up for the log
\* entry, and the lookup panics when the committee does not hold the key.
Booted(i) ==
    /\ mempool[i].pc = "address"
    /\ mempool' = [mempool EXCEPT ![i].pc =
                     IF mempool[i].validator_id \in Members
                         THEN "booted" ELSE "panicked"]
    /\ UNCHANGED <<tx_handler_map, mempool_handler_map, panicked>>

\* The exit signal of a mempool fires, during spawn or after it.
Exit(i) ==
    /\ Live(i)
    /\ mempool' = [mempool EXCEPT ![i].exit = TRUE]
    /\ UNCHANGED <<tx_handler_map, mempool_handler_map, panicked>>

\* A network receiver of the node has a frame for a validator, a client's
\* transaction or the message of a peer mempool, and a handler is registered
\* for it: dispatch sends the frame to the task at the other end of the
\* handler's channel, and panics when that task is gone.
Dispatch(kind, validator_id) ==
    LET map == IF kind = "tx" THEN tx_handler_map ELSE mempool_handler_map
        i   == map[validator_id]
        conn == <<kind, validator_id>>
    IN /\ i # None
       /\ conn \notin panicked
       /\ IF Live(i)
            THEN /\ mempool' = [mempool EXCEPT ![i].received = @ \cup {conn}]
                 /\ UNCHANGED panicked
            ELSE /\ panicked' = panicked \cup {conn}
                 /\ UNCHANGED mempool
       /\ UNCHANGED <<tx_handler_map, mempool_handler_map>>

-----------------------------------------------------------------------------

Init ==
    /\ mempool = <<>>
    /\ tx_handler_map = [v \in ValidatorIds |-> None]
    /\ mempool_handler_map = [v \in ValidatorIds |-> None]
    /\ panicked = {}

Next ==
    \/ \E v \in ValidatorIds : Spawn(v)
    \/ \E i \in DOMAIN mempool : HandleClientsTransactions(i)
    \/ \E i \in DOMAIN mempool : HandleMempoolMessages(i)
    \/ \E i \in DOMAIN mempool : Booted(i)
    \/ \E i \in DOMAIN mempool : Exit(i)
    \/ \E kind \in Kinds, v \in ValidatorIds : Dispatch(kind, v)

Spec == Init /\ [][Next]_vars

-----------------------------------------------------------------------------
(* Properties.                                                             *)

Handlers == {None} \cup 1..MaxSpawns

\* The shape of the state.  Beyond the types: spawn reports a mempool as
\* booted only when the committee lookup found its key.
TypeOK ==
    /\ mempool \in Seq([validator_id : ValidatorIds, tasks : SUBSET Tasks,
                        pc : {"clients", "peers", "address", "booted", "panicked"},
                        exit : BOOLEAN,
                        received : SUBSET (Kinds \X ValidatorIds)])
    /\ Len(mempool) <= MaxSpawns
    /\ \A i \in DOMAIN mempool :
        mempool[i].pc = "booted" => mempool[i].validator_id \in Members
    /\ tx_handler_map \in [ValidatorIds -> Handlers]
    /\ mempool_handler_map \in [ValidatorIds -> Handlers]
    /\ panicked \subseteq Kinds \X ValidatorIds

\* A mempool that booted and was not told to exit is the one both maps name
\* for its validator, all six of its tasks run, and every frame dispatch
\* handed it was for its validator: the spawns of the other validators,
\* which insert into the same two maps between its steps, and the mempools
\* that ran for the same validator before, leave it alone.
BootedIsServed ==
    \A i \in DOMAIN mempool :
        LET m == mempool[i] IN
        m.pc = "booted" /\ Live(i) =>
            /\ tx_handler_map[m.validator_id] = i
            /\ mempool_handler_map[m.validator_id] = i
            /\ Running(m) = Tasks
            /\ \A conn \in m.received : conn[2] = m.validator_id

\* The design document on registration: a mempool inserts its handler at
\* startup and removes it on shutdown.  mempool.rs inserts in
\* handle_clients_transactions and handle_mempool_messages and removes
\* nowhere: after the exit signal the maps still name the mempool.
HandlerRemovedOnShutdown ==
    \A v \in ValidatorIds : \A map \in {tx_handler_map, mempool_handler_map} :
        map[v] # None => Live(map[v])

=============================================================================
