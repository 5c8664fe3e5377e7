----------------------------- MODULE DNSProperties -----------------------------
(***************************************************************************)
(* What the handlers of app_dns_classification must keep true.             *)
(***************************************************************************)
EXTENDS DNSClassifications

\* No two classifications have one domain in two spellings: a name server
\* knows no case, so which of them classifies a lookup would be left open.
DomainsUnique == "edit" \notin happened => \A d, e \in DOMAIN defs : Equal(d, e) => d = e

\* What a create or a rename refuses while it is applied, the plan had
\* refused already, unless the listing failed while planning or somebody
\* edited entries since: "a plan does not promise a create or rename that the
\* apply would refuse" (app_dns_classification_resource.go:167).
PlanPromisesNoRefusal ==
    [][\A r \in Resource :
         pc[r] \in {"check", "recheck"} /\ pc'[r] = "failed" /\ UNCHANGED <<faults, edits>> =>
            happened \cap {"fault", "edit"} # {}]_vars

\* The promise of the resource, as KeyedStore states it.
Store == INSTANCE KeyedStore WITH
    store         <- defs,
    disturbed     <- ~Undisturbed,
    owner         <- [r \in Resource |-> IF tf[r] = None THEN None ELSE tf[r].domain],
    InitialStores <- InitialDefs

\* Until somebody interferes the handlers keep that promise, for blocks with
\* domains and names of their own.
ImplementsKeyedStore == Store!StoreSpec
=============================================================================
