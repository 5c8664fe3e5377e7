---------------------------- MODULE GroupProperties ----------------------------
(***************************************************************************)
(* What the handlers of application_group must keep true.                  *)
(***************************************************************************)
EXTENDS ApplicationGroups

\* A POST replaces all groups, yet without an edit in the UI since its
\* listing it leaves the members of every group but the writer's own as they
\* are, and removes none of them.
OtherMembersUntouched ==
    [][edits' = edits =>
         \A n \in DOMAIN groups :
            n \notin DOMAIN groups' \/ groups'[n].apps # groups[n].apps =>
               \E r \in Resource :
                  /\ pc[r] = "post"
                  /\ r \in stale \/ (tf[r] # None /\ tf[r].name = n)]_vars

\* A create never replaces a group that exists, also when two blocks of one
\* configuration declare the same name and both pass the check made outside
\* the mutex: CreateApplicationGroup looks again inside it.
CreateReplacesNothing ==
    [][\A r \in Resource :
         pc[r] = "post" /\ pc'[r] # "post" /\ tf[r] = None /\ groups' # groups =>
            r \in stale \/ config[r].name \notin DOMAIN groups]_vars

\* A write of one group leaves the parent groups of the other groups alone:
\* the client "modifies the set locally, and POSTs the complete set back".
OtherParentsUntouched ==
    [][edits' = edits =>
         \A n \in DOMAIN groups \cap DOMAIN groups' :
            groups'[n].parents # groups[n].parents =>
               \E r \in Resource : config[r] # None /\ config[r].name = n]_vars

\* The promise of the resource, as KeyedStore states it, for the members.
Store == INSTANCE KeyedStore WITH
    store         <- [n \in DOMAIN groups |-> groups[n].apps],
    disturbed     <- ~Undisturbed,
    owner         <- [r \in Resource |-> IF tf[r] = None THEN None ELSE tf[r].name],
    InitialStores <- {[n \in DOMAIN start |-> start[n].apps] : start \in InitialGroups}

\* Until somebody interferes the handlers keep that promise.
ImplementsKeyedStore == Store!StoreSpec
=============================================================================
