---------------------------- MODULE BlockService ----------------------------
(***************************************************************************)
(* The block production service of the validator client:                   *)
(* src/validation/block_service.rs.                                        *)
(*                                                                         *)
(* The service loop takes notifications of the duties service off a        *)
(* channel (do_update) and spawns one task per proposer; a task runs       *)
(* publish_block, for a blinded block first when private transaction       *)
(* proposals are on, and falls back to a full block when that is safe.     *)
(* Tasks, the loop and the slot clock interleave at every await.           *)
(*                                                                         *)
(* What the validator store and the beacon nodes answer is a               *)
(* nondeterministic outcome; BeaconNodeFallback::first_success, which is   *)
(* outside this repository, is modelled as it is documented: candidates    *)
(* are tried in order, the first Ok wins, the errors of all are returned.  *)
(***************************************************************************)
EXTENDS Integers, Sequences, FiniteSets, TLC

CONSTANTS
    Validators,         \* the public keys the duties service may name
    NumCandidates,      \* the number of beacon nodes first_success tries
    MaxSlot,            \* the slot at which the clock of the model stops
    GenesisSlot,        \* spec.genesis_slot
    MergeSlot,          \* start slot of spec.bellatrix_fork_epoch
    PrivateTxProposals, \* the private_tx_proposals flag of the builder
    ClockMayFail,       \* whether slot_clock.now() may return None
    MaxNotifications,   \* bound on the notifications sent
    None

ASSUME /\ NumCandidates \in Nat \ {0} /\ MaxNotifications \in Nat
       /\ GenesisSlot \in 0..MaxSlot /\ MergeSlot \in Nat
       /\ PrivateTxProposals \in BOOLEAN /\ ClockMayFail \in BOOLEAN

VARIABLES
    clock,      \* the slot the slot clock is in
    inbox,      \* notification_rx: notifications sent and not yet received
    handled,    \* number of notifications do_update was called with
    loop,       \* "open" while the duties service holds the sender, "closed"
                \* once it dropped it, "down" when the service loop has ended
    tasks       \* tasks[<<k, v>>]: the task spawned for proposer v by call k

vars == <<clock, inbox, handled, loop, tasks>>

\* What slot_clock.now() may return.
Now == {clock} \cup IF ClockMayFail THEN {None} ELSE {}

-----------------------------------------------------------------------------
(* BlockError and its conversion from the errors of first_success.         *)

\* Slip: the error of the last candidate decides.
FromErrorsLast(errors) ==
    IF errors[Len(errors)] = "Irrecoverable" THEN "Irrecoverable" ELSE "Recoverable"

\* impl From<Errors<BlockError>> for BlockError.
FromErrors(errors) ==
    IF \E i \in DOMAIN errors : errors[i] = "Irrecoverable"
        THEN "Irrecoverable" ELSE "Recoverable"

\* The level at which the task logs the result of publishing.
Report(result) ==
    CASE result = "Ok"                 -> "success"
      [] result = "RandaoNotLeader"    -> "error"
      [] result = "SignBlockNotLeader" -> "info"
      [] OTHER                         -> "crit"

-----------------------------------------------------------------------------
(* The spawned task: the closure of do_update around publish_block.        *)

Spawned(slot) ==
    [slot |-> slot, pc |-> "spawned", payload |-> None, current_slot |-> None,
     candidate |-> 1, errors |-> <<>>, signed |-> {}, fallback |-> FALSE,
     report |-> None]

FirstPayload(slot) ==
    IF PrivateTxProposals /\ slot >= MergeSlot THEN "Blinded" ELSE "Full"

Done(t, result) == [t EXCEPT !.pc = "done", !.report = Report(result)]

\* publish_block up to its first await: the clock is read again.  With no
\* clock every attempt, the fallback included, ends Recoverable.
Begin(t, payload, now) ==
    IF now = None
        THEN Done([t EXCEPT !.payload = "Full",
                            !.fallback = @ \/ payload = "Blinded"], "Recoverable")
        ELSE [t EXCEPT !.payload = payload, !.pc = "randao", !.current_slot = now,
                       !.candidate = 1, !.errors = <<>>]

\* Slip: any Recoverable error starts a full block, that of a full one too.
ConcludeAlwaysFallsBack(t, result, now) ==
    IF result = "Recoverable"
        THEN Begin([t EXCEPT !.fallback = TRUE], "Full", now)
        ELSE Done(t, result)

\* What follows the return of publish_block: a blinded attempt that ended
\* Recoverable is followed by a full one, everything else is logged.
Conclude(t, result, now) ==
    IF t.payload = "Blinded" /\ result = "Recoverable"
        THEN Begin([t EXCEPT !.fallback = TRUE], "Full", now)
        ELSE Done(t, result)

\* first_success: the closure failed on this candidate; the next is tried,
\* and after the last the errors are converted and returned with `?`.
CandidateFailed(t, error, now) ==
    LET errors == Append(t.errors, error) IN
    IF t.candidate < NumCandidates
        THEN [t EXCEPT !.errors = errors, !.candidate = @ + 1, !.pc = "get"]
        ELSE Conclude([t EXCEPT !.errors = errors], FromErrors(errors), now)

Update(id, t) ==
    /\ tasks' = [tasks EXCEPT ![id] = t]
    /\ UNCHANGED <<clock, inbox, handled, loop>>

Start(id) ==
    /\ tasks[id].pc = "spawned"
    /\ \E now \in Now :
        Update(id, Begin(tasks[id], FirstPayload(tasks[id].slot), now))

\* validator_store.randao_reveal returns.
RandaoReveal(id) ==
    LET t == tasks[id] IN
    /\ t.pc = "randao"
    /\ \E now \in Now :
        \/ Update(id, [t EXCEPT !.pc = "get"])
        \/ Update(id, Conclude(t, "RandaoNotLeader", now))
        \/ Update(id, Conclude(t, "Recoverable", now))

\* The candidate is skipped as unavailable, or get_validator_blocks (or its
\* blinded form) returns: an error, a block of another proposer, or a block.
GetBlock(id) ==
    LET t == tasks[id] IN
    /\ t.pc = "get"
    /\ \E now \in Now :
        \/ Update(id, CandidateFailed(t, "Unavailable", now))
        \/ Update(id, CandidateFailed(t, "Recoverable", now))
        \/ Update(id, [t EXCEPT !.pc = "sign"])

\* validator_store.sign_block returns.
SignBlock(id) ==
    LET t == tasks[id] IN
    /\ t.pc = "sign"
    /\ \E now \in Now :
        \/ Update(id, [t EXCEPT !.pc = "post", !.signed = @ \cup {t.payload}])
        \/ Update(id, CandidateFailed(t, "SignBlockNotLeader", now))
        \/ Update(id, CandidateFailed(t, "Recoverable", now))

\* post_beacon_blocks (or its blinded form) returns.
PostBlock(id) ==
    LET t == tasks[id] IN
    /\ t.pc = "post"
    /\ \E now \in Now :
        \/ Update(id, Conclude(t, "Ok", now))
        \/ Update(id, CandidateFailed(t, "Irrecoverable", now))

Step(id) ==
    /\ id \in DOMAIN tasks
    /\ Start(id) \/ RandaoReveal(id) \/ GetBlock(id) \/ SignBlock(id) \/ PostBlock(id)

-----------------------------------------------------------------------------
(* The service loop, the duties service and the clock.                     *)

\* Slip: the check of the genesis slot is missing.
Spawnable(notification, now) ==
    IF now # None /\ notification.slot = now
        THEN notification.block_proposers ELSE {}

\* The proposers do_update spawns a task for: none when the clock cannot be
\* read, when the slot of the notification has passed, or at genesis.
Proposers(notification, now) ==
    IF now # None /\ notification.slot = now /\ now # GenesisSlot
        THEN notification.block_proposers ELSE {}

\* start_update_service: one notification is received and do_update runs
\* to its end, which awaits nothing.
DoUpdate ==
    /\ loop # "down"
    /\ inbox # <<>>
    /\ inbox' = Tail(inbox)
    /\ handled' = handled + 1
    /\ \E now \in Now :
        tasks' = tasks @@ [id \in {handled + 1} \X Proposers(Head(inbox), now)
                              |-> Spawned(now)]
    /\ UNCHANGED <<clock, loop>>

\* Slip: the loop ends as soon as the sender is dropped.
ShutdownOnClose ==
    /\ loop = "closed"
    /\ loop' = "down"
    /\ UNCHANGED <<clock, inbox, handled, tasks>>

\* recv returns None, the sender is dropped and the channel is empty: the
\* loop ends.  The tasks it spawned are the executor's and go on.
Shutdown ==
    /\ loop = "closed"
    /\ inbox = <<>>
    /\ loop' = "down"
    /\ UNCHANGED <<clock, inbox, handled, tasks>>

\* The duties service names the proposers of the slot the clock is in.
Notify(proposers) ==
    /\ loop = "open"
    /\ handled + Len(inbox) < MaxNotifications
    /\ inbox' = Append(inbox, [slot |-> clock, block_proposers |-> proposers])
    /\ UNCHANGED <<clock, handled, loop, tasks>>

\* The duties service ends and drops the sender of the channel.
Close ==
    /\ loop = "open"
    /\ loop' = "closed"
    /\ UNCHANGED <<clock, inbox, handled, tasks>>

Tick ==
    /\ clock < MaxSlot
    /\ clock' = clock + 1
    /\ UNCHANGED <<inbox, handled, loop, tasks>>

-----------------------------------------------------------------------------

Init ==
    /\ clock = GenesisSlot
    /\ inbox = <<>>
    /\ handled = 0
    /\ loop = "open"
    /\ tasks = <<>>

Next ==
    \/ DoUpdate
    \/ Shutdown
    \/ Close
    \/ \E proposers \in SUBSET Validators : Notify(proposers)
    \/ Tick
    \/ \E id \in DOMAIN tasks : Start(id)
    \/ \E id \in DOMAIN tasks : RandaoReveal(id)
    \/ \E id \in DOMAIN tasks : GetBlock(id)
    \/ \E id \in DOMAIN tasks : SignBlock(id)
    \/ \E id \in DOMAIN tasks : PostBlock(id)

Spec == Init /\ [][Next]_vars

TaskIds == (1..MaxNotifications) \X Validators

\* The executor runs the loop and every spawned task, and every call a task
\* awaits returns, with an answer or with the error of its timeout.
Fairness ==
    /\ WF_vars(DoUpdate)
    /\ \A id \in TaskIds : WF_vars(Step(id))

LiveSpec == Spec /\ Fairness

-----------------------------------------------------------------------------
(* Properties.                                                             *)

Errors == {"Unavailable", "Recoverable", "SignBlockNotLeader", "Irrecoverable"}

\* The shape of the state.  Beyond the types: do_update spawns no task for
\* the genesis slot, and the clock reading publish_block goes on with is
\* never before the slot the task was spawned for.
TypeOK ==
    /\ clock \in GenesisSlot..MaxSlot
    /\ inbox \in Seq([slot : 0..MaxSlot, block_proposers : SUBSET Validators])
    /\ handled \in 0..MaxNotifications
    /\ loop \in {"open", "closed", "down"}
    /\ DOMAIN tasks \subseteq TaskIds
    /\ \A id \in DOMAIN tasks :
        LET t == tasks[id] IN
        /\ t.slot \in (GenesisSlot + 1)..MaxSlot
        /\ t.pc \in {"spawned", "randao", "get", "sign", "post", "done"}
        /\ t.payload \in {None, "Blinded", "Full"}
        /\ t.current_slot \in {None} \cup t.slot..MaxSlot
        /\ t.candidate \in 1..NumCandidates
        /\ t.errors \in Seq(Errors) /\ Len(t.errors) <= NumCandidates
        /\ t.signed \subseteq {"Blinded", "Full"}
        /\ t.fallback \in BOOLEAN
        /\ t.report \in {None, "success", "error", "info", "crit"}

\* A task never signs both a blinded and a full block for its slot: the
\* fallback to a full block is taken only when no candidate got as far as
\* signing the blinded one.  do_update falls back on Recoverable alone, and
\* the conversion of the errors of first_success makes the result
\* Irrecoverable when any candidate failed after signing.
NoFallbackAfterSigning ==
    \A id \in DOMAIN tasks : Cardinality(tasks[id].signed) <= 1

\* The arm of do_update for BlockError::SignBlockNotLeader: a proposal that
\* failed because sign_block found this operator not to be the leader, on
\* every candidate, is logged at info level as "Not a leader for proposing
\* this block", not as a critical error.
NotLeaderIsNotCritical ==
    \A id \in DOMAIN tasks :
        LET t == tasks[id] IN
        (/\ t.pc = "done"
         /\ t.errors # <<>>
         /\ \A i \in DOMAIN t.errors : t.errors[i] = "SignBlockNotLeader")
            => t.report = "info"

\* Every task do_update spawned comes to an end and logs its result,
\* however the candidates fail and whether or not it falls back.
ProposalsConclude ==
    \A id \in TaskIds :
        id \in DOMAIN tasks ~> (id \in DOMAIN tasks /\ tasks[id].pc = "done")

\* Every notification the duties service sent before it dropped the sender
\* is passed to do_update: the loop of start_update_service ends only when
\* recv finds the channel closed and empty, not when the sender goes.
NotificationsAreHandled ==
    \A k \in 1..MaxNotifications :
        (handled + Len(inbox) >= k) ~> (handled >= k)

=============================================================================
