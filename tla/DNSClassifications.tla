-------------------------- MODULE DNSClassifications --------------------------
(***************************************************************************)
(* DNS classifications.  The Orchestrator keys them by domain, a POST is   *)
(* an upsert, and names are not unique.  The provider compares domains     *)
(* without case when it looks for conflicts, while it plans and once more  *)
(* while it applies, but looks its own entry up by the exact domain; all   *)
(* listings are made outside appDefMu.                                     *)
(***************************************************************************)
EXTENDS Terraform

CONSTANTS
    Domain,          \* domains, in every spelling
    Name,            \* names a classification may carry
    Fold,            \* case folding of domains and names, as strings.EqualFold
    Attr,            \* description, priority and the disabled flag
    InitialDefs      \* what the Orchestrator holds at the start

Definition == [name : Name, attr : Attr]
Wanted     == [domain : Domain, name : Name, attr : Attr]

ASSUME DNSAssumption ==
    /\ None \notin Wanted \cup Domain
    /\ Configs \subseteq [Resource -> Wanted \cup {None}]
    /\ Fold \in [Domain \cup Name -> Domain \cup Name]
    /\ InitialDefs \subseteq UNION {[S -> Definition] : S \in SUBSET Domain}

VARIABLE defs    \* the Orchestrator's classifications: a function from domains

vars == <<tfVars, defs>>

Applying == {"delete", "check", "recheck", "post"}

TypeOK ==
    /\ TerraformTypeOK(Applying, Wanted, Wanted)
    /\ defs \in UNION {[S -> Definition] : S \in SUBSET Domain}

-----------------------------------------------------------------------------
(* Terraform: a block with another domain, or another spelling of it, is   *)
(* deleted and created again.                                              *)

Replacing(r) == Kept(r) /\ config[r].domain # tf[r].domain
Updating(r)  == Kept(r) /\ ~Replacing(r) /\ config[r] # tf[r]
Renaming(r)  == Updating(r) /\ config[r].name # tf[r].name
Removing(r)  == Deleting(r) \/ Replacing(r)

Equal(s, t) == Fold[s] = Fold[t]

Stored(d)  == [domain |-> d, name |-> defs[d].name, attr |-> defs[d].attr]
Defined(w) == [name |-> w.name, attr |-> w.attr]

StartRun == StartTerraform /\ UNCHANGED defs

ImportState(r) ==
    /\ \E d \in DOMAIN defs :
          /\ \A q \in Resource : tf[q] # None => tf[q].domain # d
          /\ Import(r, Stored(d))
    /\ UNCHANGED defs

\* Read: the classification of exactly this domain, or drop the resource.
Read(r) ==
    /\ pc[r] = "refresh"
    /\ \/ tf[r] = None /\ UNCHANGED tf
       \/ tf[r] # None /\ tf[r].domain \notin DOMAIN defs /\ Record(r, None)
       \/ tf[r] # None /\ tf[r].domain \in DOMAIN defs /\ Record(r, Stored(tf[r].domain))
    /\ Refreshed(r, "plan")
    /\ UNCHANGED defs

\* Mutant: domains are compared case by case.
DomainInUse_ExactCase(d) == d \in DOMAIN defs

\* Some spelling of domain d is in use.
DomainInUse(d) == \E e \in DOMAIN defs : Equal(e, d)

\* findDNSByName: a classification of that name on a domain that is none of
\* the ignored ones, in any spelling.
NameInUse(n, ignored) ==
    \E e \in DOMAIN defs : Equal(defs[e].name, n) /\ ~\E d \in ignored : Equal(e, d)

\* The domains r holds and is to hold never count as another's.
Own(r) == {config[r].domain} \cup (IF tf[r] = None THEN {} ELSE {tf[r].domain})

\* Mutant: the plan looks for names only.
RefusedInPlan_NameOnly(r, ignored, checked) == NameInUse(config[r].name, ignored)

RefusedInPlan(r, ignored, checked) ==
    \/ checked /\ DomainInUse(config[r].domain)
    \/ NameInUse(config[r].name, ignored)

\* A change of the spelling alone is not looked up.
NewDomain(r) == Creating(r) \/ (Replacing(r) /\ ~Equal(config[r].domain, tf[r].domain))

ModifyPlan(r) ==
    /\ pc[r] = "plan"
    /\ Goto(r, IF (Creating(r) \/ Replacing(r) \/ Renaming(r)) /\ RefusedInPlan(r, Own(r), NewDomain(r))
               THEN "refused" ELSE Planned(Replacing(r)))
    /\ UNCHANGED <<config, tf, lock, stale, budgets, defs>>

\* ModifyPlan of the create of a replacement, which knows no state.
PlanCreate(r) ==
    /\ pc[r] = "replan"
    /\ Goto(r, IF RefusedInPlan(r, {config[r].domain}, TRUE) THEN "refused" ELSE "ready")
    /\ UNCHANGED <<config, tf, lock, stale, budgets, defs>>

EndPlanning ==
    /\ ApplyPlan([r \in Resource |-> IF Removing(r) THEN "delete"
                                     ELSE IF Creating(r) THEN "check"
                                     ELSE IF Updating(r) THEN "recheck"
                                     ELSE "ok"])
    /\ UNCHANGED defs

-----------------------------------------------------------------------------
(* The handlers. *)

\* Create rejects a domain in use in any spelling and a name in use.
CheckDomainAndName(r) ==
    /\ pc[r] = "check"
    /\ Goto(r, IF \/ DomainInUse(config[r].domain)
                  \/ NameInUse(config[r].name, {config[r].domain})
               THEN "failed" ELSE "post")
    /\ stale' = stale \ {r}
    /\ UNCHANGED <<config, tf, lock, budgets, defs>>

\* Update rejects a name in use on another domain.
CheckName(r) ==
    /\ pc[r] = "recheck"
    /\ Goto(r, IF NameInUse(config[r].name, {config[r].domain}) THEN "failed" ELSE "post")
    /\ stale' = stale \ {r}
    /\ UNCHANGED <<config, tf, lock, budgets, defs>>

\* The POST of a create or an update; the planned values are recorded.
Post(r) ==
    /\ pc[r] = "post"
    /\ defs' = Bind(defs, config[r].domain, Defined(config[r]))
    /\ Record(r, config[r])
    /\ Goto(r, "ok")
    /\ UNCHANGED <<config, lock, stale, budgets>>

PostLost(r) ==
    /\ pc[r] = "post"
    /\ defs' = Bind(defs, config[r].domain, Defined(config[r]))
    /\ LoseAnswer(r)

\* Mutant: a replaced block deletes the domain it is to get.
Delete_PlannedDomain(r) ==
    /\ pc[r] = "delete"
    /\ LET gone == IF Replacing(r) THEN config[r].domain ELSE tf[r].domain
       IN  defs' = Unbind(defs, gone)
    /\ Record(r, None)
    /\ Goto(r, IF Replacing(r) THEN "check" ELSE "ok")
    /\ UNCHANGED <<config, lock, stale, budgets>>

\* DELETE of the domain in state; a replaced block is created next.
Delete(r) ==
    /\ pc[r] = "delete"
    /\ tf[r].domain \in DOMAIN defs
    /\ defs' = Unbind(defs, tf[r].domain)
    /\ Record(r, None)
    /\ Goto(r, IF Replacing(r) THEN "check" ELSE "ok")
    /\ UNCHANGED <<config, lock, stale, budgets>>

DeleteLost(r) ==
    /\ pc[r] = "delete"
    /\ tf[r].domain \in DOMAIN defs
    /\ defs' = Unbind(defs, tf[r].domain)
    /\ LoseAnswer(r)

\* The Orchestrator knows no such domain: the answer is an error.
DeleteUnknown(r) ==
    /\ pc[r] = "delete"
    /\ tf[r].domain \notin DOMAIN defs
    /\ Goto(r, "failed")
    /\ UNCHANGED <<config, tf, lock, stale, budgets, defs>>

Requesting(r) ==
    \/ pc[r] = "refresh" /\ tf[r] # None
    \/ pc[r] = "replan"
    \/ pc[r] = "plan" /\ (Creating(r) \/ Replacing(r) \/ Renaming(r))
    \/ pc[r] \in Applying

RequestFails(r) ==
    /\ Requesting(r)
    /\ FailRequest(r, Planned(Replacing(r)))
    /\ UNCHANGED defs

\* Somebody adds, changes or removes a classification in the UI.
UIEdit ==
    /\ EditedInUI
    /\ \/ \E d \in Domain, def \in Definition : defs' = Bind(defs, d, def)
       \/ \E d \in DOMAIN defs : defs' = Unbind(defs, d)

Rest == Rested /\ UNCHANGED vars

-----------------------------------------------------------------------------

Init == TerraformInit /\ defs \in InitialDefs

Handler(r) ==
    \/ Read(r) \/ ModifyPlan(r) \/ PlanCreate(r)
    \/ CheckDomainAndName(r) \/ CheckName(r) \/ Post(r)
    \/ Delete(r) \/ DeleteUnknown(r)

Next ==
    \/ StartRun \/ EndPlanning
    \/ \E r \in Resource :
          Handler(r) \/ PostLost(r) \/ DeleteLost(r) \/ RequestFails(r) \/ ImportState(r)
    \/ UIEdit
    \/ Rest

Spec == Init /\ [][Next]_vars
=============================================================================
