------------------------- MODULE BlockServiceSystem -------------------------
(***************************************************************************)
(* The block service from its construction on: the builder of              *)
(* src/validation/block_service.rs composed with the service it builds.    *)
(* The setters and build run first; the loop of start_update_service, the  *)
(* duties service and the spawned tasks run once build returned a service, *)
(* and with the private_tx_proposals flag that service was built with.     *)
(***************************************************************************)
EXTENDS BlockService

CONSTANTS Graffiti      \* the values of the two graffiti options

VARIABLES
    builder,    \* the fields of the builder
    result      \* what build returned, None while it was not called

Builder == INSTANCE BlockServiceBuilder

systemVars == <<vars, builder, result>>

\* build returned Ok(BlockService), on which start_update_service is called.
Started ==
    /\ result # None /\ result.ok
    /\ result.inner.private_tx_proposals = PrivateTxProposals

SystemInit == Builder!Init /\ Init

SystemNext ==
    \/ \E f \in Builder!Fields : \E value \in Builder!Arguments(f) :
          Builder!Set(f, value) /\ UNCHANGED vars
    \/ Builder!Build /\ UNCHANGED vars
    \/ Started /\ Next /\ UNCHANGED <<builder, result>>

SystemSpec == SystemInit /\ [][SystemNext]_systemVars

\* A task exists only once the service runs, and the service runs for good:
\* the fairness of the loop and of the tasks is that of module BlockService.
\* Nothing makes the caller call build.
SystemLiveSpec == SystemSpec /\ Fairness

-----------------------------------------------------------------------------

\* build returns a service exactly when each of the four required setters
\* was called, in whatever order and however often; the service has the
\* options of the last calls; the message of a failed build names the
\* missing field declared first (BlockServiceBuilder::build).
BuildIsComplete == Builder!BuildIsComplete

=============================================================================
