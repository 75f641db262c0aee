---------------------------- MODULE Synchronizer ----------------------------
(***************************************************************************)
(* The Synchronizer of one authority's mempool.  mempool.rs declares the   *)
(* commands it takes from consensus (ConsensusMempoolMessage) and spawns   *)
(* it with gc_depth, sync_retry_delay and sync_retry_nodes; its loop is in *)
(* synchronizer.rs of the mempool crate and is modelled from the design    *)
(* document (4.5).                                                         *)
(*                                                                         *)
(* A peer is honest and holds every batch, or it never answers; a request  *)
(* may be lost on its way to either.  A batch is told apart by its digest. *)
(***************************************************************************)
EXTENDS Integers, FiniteSets

CONSTANTS
    Peers,          \* the other authorities of the committee
    Honest,         \* the peers that answer a BatchRequest
    Digests,        \* the digests consensus may ask for
    GcDepth,        \* parameters.gc_depth
    SyncRetryNodes, \* parameters.sync_retry_nodes
    MaxRound,       \* bound on the rounds Cleanup names
    MaxCommands,    \* bound on the Synchronize commands
    None

ASSUME /\ Honest \subseteq Peers
       /\ GcDepth \in Nat /\ SyncRetryNodes \in Nat \ {0}
       /\ MaxRound \in Nat /\ MaxCommands \in Nat

VARIABLES
    store,          \* the digests whose batch the local store holds
    pending,        \* pending[d]: since when d is missing, and who was asked
    current_round,  \* the watermark Cleanup advances
    requests,       \* <<p, d>>: a BatchRequest for d is with peer p
    commands        \* number of Synchronize commands handled

vars == <<store, pending, current_round, requests, commands>>

\* mempool.rs, ConsensusMempoolMessage.
ConsensusMempoolMessage ==
    [type : {"Synchronize"}, digests : SUBSET Digests, target : Peers]
        \cup [type : {"Cleanup"}, round : 0..MaxRound]

Waiting == {d \in Digests : pending[d] # None}

Ask(targets, digests) == requests \cup (targets \X digests)

\* Synchronize(digests, target): what the store holds is dropped, the rest
\* is recorded as missing since the current round and asked of the target.
Synchronize(message) ==
    LET missing == message.digests \ store IN
    /\ message.type = "Synchronize"
    /\ commands < MaxCommands
    /\ commands' = commands + 1
    /\ pending' = [d \in Digests |->
                     IF d \in missing
                         THEN [missing_since_round |-> current_round,
                               targets_tried |-> {}]
                         ELSE pending[d]]
    /\ requests' = Ask({message.target}, missing)
    /\ UNCHANGED <<store, current_round>>

\* An honest peer's Helper answers, and the Processor of the peer side of
\* this mempool writes the batch to the store.
Reply(p, d) ==
    /\ p \in Honest
    /\ <<p, d>> \in requests
    /\ requests' = requests \ {<<p, d>>}
    /\ store' = store \cup {d}
    /\ UNCHANGED <<pending, current_round, commands>>

\* The request is lost on its way, or its peer ignores it.
Drop(p, d) ==
    /\ <<p, d>> \in requests
    /\ requests' = requests \ {<<p, d>>}
    /\ UNCHANGED <<store, pending, current_round, commands>>

\* store.notify_read(d) completes: d is missing no more.
NotifyRead(d) ==
    /\ d \in Waiting \cap store
    /\ pending' = [pending EXCEPT ![d] = None]
    /\ UNCHANGED <<store, current_round, requests, commands>>

\* Slip: the peers asked before are not excluded, and not remembered.
RetryAnyone(d, targets) ==
    /\ d \in Waiting
    /\ targets # {} /\ Cardinality(targets) <= SyncRetryNodes
    /\ requests' = Ask(targets, {d})
    /\ UNCHANGED <<store, pending, current_round, commands>>

\* notify_read did not complete within sync_retry_delay: the request goes
\* to up to sync_retry_nodes peers that were not tried, which then count as
\* tried.  When every peer was tried the choice starts over.
Retry(d, targets) ==
    /\ d \in Waiting
    /\ LET tried      == pending[d].targets_tried
           candidates == IF Peers \subseteq tried THEN Peers ELSE Peers \ tried
       IN /\ targets \subseteq candidates
          /\ targets # {} /\ Cardinality(targets) <= SyncRetryNodes
          /\ pending' = [pending EXCEPT ![d].targets_tried =
                           (IF Peers \subseteq tried THEN {} ELSE tried) \cup targets]
    /\ requests' = Ask(targets, {d})
    /\ UNCHANGED <<store, current_round, commands>>

\* Slip: the watermark is set to the round of the command, also backwards.
Latest(a, b) == b

\* max(current_round, r)
Larger(a, b) == IF a >= b THEN a ELSE b

\* Slip: the sweep compares with the watermark as it was before the command.
SweepThenAdvance(message) ==
    /\ message.type = "Cleanup"
    /\ current_round' = Larger(current_round, message.round)
    /\ pending' = [d \in Digests |->
                     IF /\ pending[d] # None
                        /\ current_round - pending[d].missing_since_round > GcDepth
                         THEN None ELSE pending[d]]
    /\ UNCHANGED <<store, requests, commands>>

\* Cleanup(r): the watermark advances to r, never back, and what is missing
\* for more than gc_depth rounds is purged and its wait cancelled.
Cleanup(message) ==
    /\ message.type = "Cleanup"
    /\ current_round' = Larger(current_round, message.round)
    /\ pending' = [d \in Digests |->
                     IF /\ pending[d] # None
                        /\ current_round' - pending[d].missing_since_round > GcDepth
                         THEN None ELSE pending[d]]
    /\ UNCHANGED <<store, requests, commands>>

Init ==
    /\ store = {}
    /\ pending = [d \in Digests |-> None]
    /\ current_round = 0
    /\ requests = {}
    /\ commands = 0

Next ==
    \/ \E message \in ConsensusMempoolMessage : Synchronize(message)
    \/ \E message \in ConsensusMempoolMessage : Cleanup(message)
    \/ \E p \in Peers, d \in Digests : Reply(p, d)
    \/ \E p \in Peers, d \in Digests : Drop(p, d)
    \/ \E d \in Digests : NotifyRead(d)
    \/ \E d \in Digests, targets \in SUBSET Peers : Retry(d, targets)

Spec == Init /\ [][Next]_vars

\* The retry timer of the loop fires as long as something is missing, and
\* the waiter of notify_read is polled once the store has the key: weak
\* fairness.  The network may lose any request, but not every one of those
\* sent to an honest peer again and again: strong fairness of its answer.
\* Nothing is assumed of consensus.
Fairness ==
    /\ \A d \in Digests :
        /\ WF_vars(\E targets \in SUBSET Peers : Retry(d, targets))
        /\ WF_vars(NotifyRead(d))
        /\ \A p \in Honest : SF_vars(Reply(p, d))

LiveSpec == Spec /\ Fairness

-----------------------------------------------------------------------------
(* Properties.                                                             *)

\* The shape of the state.  Beyond the types: nothing is missing since a
\* round the watermark has not reached, because Cleanup never moves the
\* watermark back.
TypeOK ==
    /\ store \subseteq Digests
    /\ pending \in [Digests -> {None} \cup [missing_since_round : 0..current_round,
                                            targets_tried : SUBSET Peers]]
    /\ current_round \in 0..MaxRound
    /\ requests \subseteq Peers \X Digests
    /\ commands \in 0..MaxCommands

\* gc_depth bounds what the Synchronizer chases: nothing it waits for has
\* been missing for more than gc_depth rounds, whichever way Synchronize
\* and Cleanup commands, answers and retries follow each other.
MissingWithinGcDepth ==
    \A d \in Waiting : current_round - pending[d].missing_since_round <= GcDepth

\* A batch consensus asked for is in the store or given up in the end,
\* although the target consensus named and some of the peers never answer
\* and requests are lost: the retries go round the peers, so that an honest
\* one is asked again and again.
MissingIsResolved ==
    \A d \in Digests : d \in Waiting ~> d \notin Waiting

=============================================================================
