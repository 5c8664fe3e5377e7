----------------------------- MODULE PortProtocols -----------------------------
(***************************************************************************)
(* Port/protocol classifications.  The Orchestrator keys them by the pair  *)
(* of port and protocol, a POST is an upsert, and names are not unique.    *)
(* The provider refuses a pair or a name in use when it plans and once     *)
(* more when it applies; both listings are made outside appDefMu, which    *)
(* guards the single POST or DELETE only.                                  *)
(***************************************************************************)
EXTENDS Terraform

CONSTANTS
    Pair,            \* pairs of a port and a protocol
    Name,            \* names a classification may carry
    Fold,            \* case folding: strings.EqualFold(m, n) is Fold[m] = Fold[n]
    Attr,            \* description, priority and the disabled flag
    InitialDefs      \* what the Orchestrator holds at the start

Definition == [name : Name, attr : Attr]
Wanted     == [pair : Pair, name : Name, attr : Attr]

ASSUME PortProtocolAssumption ==
    /\ None \notin Wanted \cup Pair
    /\ Configs \subseteq [Resource -> Wanted \cup {None}]
    /\ Fold \in [Name -> Name]
    /\ InitialDefs \subseteq UNION {[S -> Definition] : S \in SUBSET Pair}

VARIABLE defs    \* the Orchestrator's classifications: a function from pairs

vars == <<tfVars, defs>>

Applying == {"delete", "check", "recheck", "post"}

TypeOK ==
    /\ TerraformTypeOK(Applying, Wanted, Wanted)
    /\ defs \in UNION {[S -> Definition] : S \in SUBSET Pair}

-----------------------------------------------------------------------------
(* Terraform: a pair cannot change, so a block with another pair is        *)
(* deleted and created again.                                              *)

Replacing(r) == Kept(r) /\ config[r].pair # tf[r].pair
Updating(r)  == Kept(r) /\ ~Replacing(r) /\ config[r] # tf[r]
Renaming(r)  == Updating(r) /\ config[r].name # tf[r].name
Removing(r)  == Deleting(r) \/ Replacing(r)

Stored(p)     == [pair |-> p, name |-> defs[p].name, attr |-> defs[p].attr]
Defined(w)    == [name |-> w.name, attr |-> w.attr]

StartRun == StartTerraform /\ UNCHANGED defs

ImportState(r) ==
    /\ \E p \in DOMAIN defs :
          /\ \A q \in Resource : tf[q] # None => tf[q].pair # p
          /\ Import(r, Stored(p))
    /\ UNCHANGED defs

\* Read: the classification of the pair in the ID, or drop the resource.
Read(r) ==
    /\ pc[r] = "refresh"
    /\ \/ tf[r] = None /\ UNCHANGED tf
       \/ tf[r] # None /\ tf[r].pair \notin DOMAIN defs /\ Record(r, None)
       \/ tf[r] # None /\ tf[r].pair \in DOMAIN defs /\ Record(r, Stored(tf[r].pair))
    /\ Refreshed(r, "plan")
    /\ UNCHANGED defs

\* Mutant: names are compared case by case.
NameInUse_ExactCase(n, ignored) ==
    \E p \in DOMAIN defs \ ignored : defs[p].name = n

\* findPortProtocolByName: a classification of that name on another pair.
NameInUse(n, ignored) ==
    \E p \in DOMAIN defs \ ignored : Fold[defs[p].name] = Fold[n]

\* The pairs r holds and is to hold never count as another's.
Own(r) == {config[r].pair} \cup (IF tf[r] = None THEN {} ELSE {tf[r].pair})

\* Mutant: the plan does not look whether the pair is in use.
Refused_NameOnly(r, ignored) == NameInUse(config[r].name, ignored)

Refused(r, ignored) ==
    \/ (Creating(r) \/ Replacing(r)) /\ config[r].pair \in DOMAIN defs
    \/ NameInUse(config[r].name, ignored)

ModifyPlan(r) ==
    /\ pc[r] = "plan"
    /\ Goto(r, IF (Creating(r) \/ Replacing(r) \/ Renaming(r)) /\ Refused(r, Own(r))
               THEN "refused" ELSE Planned(Replacing(r)))
    /\ UNCHANGED <<config, tf, lock, stale, budgets, defs>>

\* ModifyPlan of the create of a replacement, which knows no state.
PlanCreate(r) ==
    /\ pc[r] = "replan"
    /\ Goto(r, IF Refused(r, {config[r].pair}) THEN "refused" ELSE "ready")
    /\ UNCHANGED <<config, tf, lock, stale, budgets, defs>>

EndPlanning ==
    /\ ApplyPlan([r \in Resource |-> IF Removing(r) THEN "delete"
                                     ELSE IF Creating(r) THEN "check"
                                     ELSE IF Updating(r) THEN "recheck"
                                     ELSE "ok"])
    /\ UNCHANGED defs

-----------------------------------------------------------------------------
(* The handlers. *)

\* Create rejects a pair in use and a name in use on another pair.
CheckPairAndName(r) ==
    /\ pc[r] = "check"
    /\ Goto(r, IF \/ config[r].pair \in DOMAIN defs
                  \/ NameInUse(config[r].name, {config[r].pair})
               THEN "failed" ELSE "post")
    /\ stale' = stale \ {r}
    /\ UNCHANGED <<config, tf, lock, budgets, defs>>

\* Update rejects a name in use on another pair, renaming or not.
CheckName(r) ==
    /\ pc[r] = "recheck"
    /\ Goto(r, IF NameInUse(config[r].name, {config[r].pair}) THEN "failed" ELSE "post")
    /\ stale' = stale \ {r}
    /\ UNCHANGED <<config, tf, lock, budgets, defs>>

\* The POST of a create or an update; the planned values are recorded.
Post(r) ==
    /\ pc[r] = "post"
    /\ defs' = Bind(defs, config[r].pair, Defined(config[r]))
    /\ Record(r, config[r])
    /\ Goto(r, "ok")
    /\ UNCHANGED <<config, lock, stale, budgets>>

PostLost(r) ==
    /\ pc[r] = "post"
    /\ defs' = Bind(defs, config[r].pair, Defined(config[r]))
    /\ LoseAnswer(r)

\* Mutant: a replaced block deletes the pair it is to get.
Delete_PlannedPair(r) ==
    /\ pc[r] = "delete"
    /\ LET gone == IF Replacing(r) THEN config[r].pair ELSE tf[r].pair
       IN  defs' = Unbind(defs, gone)
    /\ Record(r, None)
    /\ Goto(r, IF Replacing(r) THEN "check" ELSE "ok")
    /\ UNCHANGED <<config, lock, stale, budgets>>

\* DELETE of the pair in state; a replaced block is created next.
Delete(r) ==
    /\ pc[r] = "delete"
    /\ tf[r].pair \in DOMAIN defs
    /\ defs' = Unbind(defs, tf[r].pair)
    /\ Record(r, None)
    /\ Goto(r, IF Replacing(r) THEN "check" ELSE "ok")
    /\ UNCHANGED <<config, lock, stale, budgets>>

DeleteLost(r) ==
    /\ pc[r] = "delete"
    /\ tf[r].pair \in DOMAIN defs
    /\ defs' = Unbind(defs, tf[r].pair)
    /\ LoseAnswer(r)

\* The Orchestrator knows no such pair: the answer is an error.
DeleteUnknown(r) ==
    /\ pc[r] = "delete"
    /\ tf[r].pair \notin DOMAIN defs
    /\ Goto(r, "failed")
    /\ UNCHANGED <<config, tf, lock, stale, budgets, defs>>

Requesting(r) ==
    \/ pc[r] = "refresh" /\ tf[r] # None
    \/ pc[r] = "replan"
    \/ pc[r] = "plan" /\ (Creating(r) \/ Replacing(r) \/ Renaming(r))
    \/ pc[r] \in Applying

RequestFails(r) ==
    /\ Requesting(r)
    /\ FailRequest(r, Planned(Replacing(r)))
    /\ UNCHANGED defs

\* Somebody adds, changes or removes a classification in the UI.
UIEdit ==
    /\ EditedInUI
    /\ \/ \E p \in Pair, d \in Definition : defs' = Bind(defs, p, d)
       \/ \E p \in DOMAIN defs : defs' = Unbind(defs, p)

Rest == Rested /\ UNCHANGED vars

-----------------------------------------------------------------------------

Init == TerraformInit /\ defs \in InitialDefs

Handler(r) ==
    \/ Read(r) \/ ModifyPlan(r) \/ PlanCreate(r)
    \/ CheckPairAndName(r) \/ CheckName(r) \/ Post(r)
    \/ Delete(r) \/ DeleteUnknown(r)

Next ==
    \/ StartRun \/ EndPlanning
    \/ \E r \in Resource :
          Handler(r) \/ PostLost(r) \/ DeleteLost(r) \/ RequestFails(r) \/ ImportState(r)
    \/ UIEdit
    \/ Rest

Spec == Init /\ [][Next]_vars
=============================================================================
