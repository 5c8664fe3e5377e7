------------------------- MODULE PortProtocolProperties -------------------------
(***************************************************************************)
(* What the handlers of app_port_protocol must keep true.                  *)
(***************************************************************************)
EXTENDS PortProtocols

\* No two classifications carry the same name, whatever its case: overlay
\* ACLs and policies refer to applications by name.  The checks are made
\* outside the mutex, some time before the POST, and answers may be lost;
\* only the UI may add a name twice.
NamesUnique ==
    "edit" \notin happened =>
        \A p, q \in DOMAIN defs : Fold[defs[p].name] = Fold[defs[q].name] => p = q

\* What a create or a rename refuses while it is applied, the plan had refused already:
\* a replaced block never has its old entry deleted and its new one refused,
\* unless the listing failed while planning or somebody edited entries since
\* ("a plan does not promise a create or rename that the apply would refuse",
\* app_port_protocol_resource.go:204).
PlanPromisesNoRefusal ==
    [][\A r \in Resource :
         pc[r] \in {"check", "recheck"} /\ pc'[r] = "failed" /\ UNCHANGED <<faults, edits>> =>
            happened \cap {"fault", "edit"} # {}]_vars

\* A plan is refused only for the sake of a definition that is not the
\* block's own: "the state's own entry never counts as a collision"
\* (app_port_protocol_resource.go:239).
OwnEntryNeverCollides ==
    [][\A r \in Resource :
         pc[r] \in {"plan", "replan"} /\ pc'[r] = "refused" =>
            \E p \in DOMAIN defs :
                /\ tf[r] # None => p # tf[r].pair
                /\ p = config[r].pair \/ Fold[defs[p].name] = Fold[config[r].name]]_vars

\* The promise of the resource, as KeyedStore states it.
Store == INSTANCE KeyedStore WITH
    store         <- defs,
    disturbed     <- ~Undisturbed,
    owner         <- [r \in Resource |-> IF tf[r] = None THEN None ELSE tf[r].pair],
    InitialStores <- InitialDefs

\* Until somebody interferes the handlers keep that promise, for blocks with
\* pairs and names of their own.
ImplementsKeyedStore == Store!StoreSpec
=============================================================================
