------------------------ MODULE BlockServiceBuilder ------------------------
(***************************************************************************)
(* BlockServiceBuilder of src/validation/block_service.rs: the setters,    *)
(* called in any order and any number of times, and build, which consumes  *)
(* the builder and returns the service or the message of the first field   *)
(* it finds missing.                                                       *)
(***************************************************************************)
EXTENDS Integers, Sequences, FiniteSets, SequencesExt

CONSTANTS
    Graffiti,   \* the values of the two graffiti options
    None

VARIABLES
    builder,    \* the fields of the builder
    result      \* what build returned, None while it was not called

vars == <<builder, result>>

\* The fields build refuses to go without, in the order it unwraps them,
\* and the name its message has for each.
Required == <<"validator_store", "slot_clock", "beacon_nodes", "context">>
Message  == [validator_store |-> "validator_store", slot_clock |-> "slot_clock",
             beacon_nodes |-> "beacon_node", context |-> "runtime_context"]
Optional == {"graffiti", "graffiti_file"}
Fields   == ToSet(Required) \cup Optional \cup {"private_tx_proposals"}

New == [f \in Fields |-> IF f = "private_tx_proposals" THEN FALSE ELSE None]

\* The values a setter may be called with: the four required fields take a
\* value, the graffiti options an Option, the flag a bool.
Arguments(f) ==
    CASE f \in ToSet(Required)      -> {"set"}
      [] f \in Optional             -> Graffiti \cup {None}
      [] f = "private_tx_proposals" -> BOOLEAN

Set(f, value) ==
    /\ result = None
    /\ builder' = [builder EXCEPT ![f] = value]
    /\ UNCHANGED result

Err(field) == [ok |-> FALSE, error |-> Message[field]]

\* Slip: the fields are unwrapped in another order than they are declared.
UnwrapReversed(b, i) ==
    LET j == Len(Required) + 1 - i IN
    IF b[Required[j]] = None THEN Err(Required[j]) ELSE None

\* field.ok_or("Cannot build BlockService without ..")?
Unwrap(b, i) == IF b[Required[i]] = None THEN Err(Required[i]) ELSE None

\* build: the `?` of the first field that is None returns its message, and
\* nothing after it is looked at; with all four the service takes the
\* fields as they are.
BuildResult(b) ==
    LET first == FoldLeft(LAMBDA err, i : IF err # None THEN err ELSE Unwrap(b, i),
                          None, [i \in DOMAIN Required |-> i])
    IN IF first # None THEN first ELSE [ok |-> TRUE, inner |-> b]

Build ==
    /\ result = None
    /\ result' = BuildResult(builder)
    /\ UNCHANGED builder

Init == builder = New /\ result = None

Next ==
    \/ \E f \in Fields : \E value \in Arguments(f) : Set(f, value)
    \/ Build

Spec == Init /\ [][Next]_vars

-----------------------------------------------------------------------------

\* build returns a service exactly when each of the four required setters
\* was called, whatever the order of the calls and whatever was set twice;
\* the service has the graffiti options and the private_tx_proposals flag of
\* the last call of their setters; and the message of a failed build names
\* the missing field that is declared first.
BuildIsComplete ==
    result # None =>
        LET missing == {i \in DOMAIN Required : builder[Required[i]] = None} IN
        IF missing = {}
            THEN result = [ok |-> TRUE, inner |-> builder]
            ELSE /\ ~result.ok
                 /\ \E i \in missing :
                     /\ result.error = Message[Required[i]]
                     /\ \A j \in missing : i <= j

=============================================================================
