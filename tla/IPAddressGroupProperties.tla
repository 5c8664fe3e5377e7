------------------------ MODULE IPAddressGroupProperties ------------------------
(***************************************************************************)
(* What the handlers of ip_address_group must keep true.                   *)
(***************************************************************************)
EXTENDS IPAddressGroups

\* A create never replaces a group, even when two blocks declare the same
\* name and are created in parallel: "to prevent accidental overwrites, this
\* function checks existence first" (ipobjects.go:194-196), in one critical
\* section with the POST.  An edit in the UI in between is beyond it.
CreateReplacesNothing ==
    [][\A r \in Resource :
         pc[r] = "create" /\ pc'[r] # "create" /\ groups' # groups =>
            r \in stale \/ config[r].name \notin DOMAIN groups]_vars

\* Every rule sets each of its lists, if only to the empty list.
SetsEveryList(rules) == \A i \in DOMAIN rules : \A f \in ListFields : rules[i].lists[f] # Null

\* What is read back after a write, without the mutex, is what was planned:
\* else Terraform refuses the result of the provider.  That goes for every
\* block whose rules set all their lists, also while other blocks of the run
\* declare, replace or delete groups, unless the read-back fails, somebody
\* edits groups in the UI, or a lost answer has left one group to two blocks.
\* A list that is left out is planned as null and read back as empty, so such
\* a block is refused although its group has been written.
ResultIsConsistent ==
    [][\A r \in Resource :
         pc[r] = "readback" /\ pc'[r] = "failed" /\ SetsEveryList(config[r].rules) =>
            faults' < faults \/ ~Undisturbed]_vars

\* The promise of the resource, as KeyedStore states it.
Store == INSTANCE KeyedStore WITH
    store         <- groups,
    disturbed     <- ~Undisturbed,
    owner         <- [r \in Resource |-> IF tf[r] = None THEN None ELSE tf[r].name],
    InitialStores <- InitialGroups

\* Until somebody interferes the handlers keep that promise, for copied
\* blocks too.
ImplementsKeyedStore == Store!StoreSpec
=============================================================================
