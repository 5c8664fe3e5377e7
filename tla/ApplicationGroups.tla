--------------------------- MODULE ApplicationGroups ---------------------------
(***************************************************************************)
(* Application groups.  The Orchestrator keys them by name and replaces    *)
(* all of them with every POST; the client serialises listing and POST     *)
(* with appGroupMu.  The provider looks for a name in use, whatever its    *)
(* case, while it plans and before it takes the mutex, and the client      *)
(* looks once more, for the exact name, inside it.                         *)
(***************************************************************************)
EXTENDS Terraform

CONSTANTS
    Name,            \* names a group may carry
    Fold,            \* case folding: strings.EqualFold(m, n) is Fold[m] = Fold[n]
    Apps,            \* lists of member applications
    Parents,         \* lists of parent groups
    NoParents,       \* the empty one of them
    InitialGroups    \* what the Orchestrator holds at the start

Group == [apps : Apps, parents : Parents]

Wanted == [name : Name, apps : Apps]

ASSUME GroupsAssumption ==
    /\ None \notin Wanted \cup Name
    /\ Configs \subseteq [Resource -> Wanted \cup {None}]
    /\ Fold \in [Name -> Name]
    /\ NoParents \in Parents
    /\ InitialGroups \subseteq UNION {[S -> Group] : S \in SUBSET Name}

VARIABLES
    groups,    \* the Orchestrator's groups: a function from names to groups
    list       \* per resource the groups its handler listed under the mutex

vars == <<tfVars, groups, list>>

Applying == {"delete", "check", "create", "update", "post"}

GroupMaps == UNION {[S -> Group] : S \in SUBSET Name}

TypeOK ==
    /\ TerraformTypeOK(Applying, Wanted, Wanted)
    /\ groups \in GroupMaps
    /\ list \in [Resource -> GroupMaps \cup {None}]

-----------------------------------------------------------------------------
(* Terraform: a name cannot change, so a renamed block is deleted and      *)
(* created again.                                                          *)

Replacing(r) == Kept(r) /\ config[r].name # tf[r].name
Updating(r)  == Kept(r) /\ ~Replacing(r) /\ config[r].apps # tf[r].apps
Removing(r)  == Deleting(r) \/ Replacing(r)

SameName(m, n) == Fold[m] = Fold[n]

StartRun == StartTerraform /\ UNCHANGED <<groups, list>>

Stored(n) == [name |-> n, apps |-> groups[n].apps]

ImportState(r) ==
    /\ \E n \in DOMAIN groups :
          /\ \A q \in Resource : tf[q] # None => tf[q].name # n
          /\ Import(r, Stored(n))
    /\ UNCHANGED <<groups, list>>

\* Read: the group of exactly this name, or drop the resource.
Read(r) ==
    /\ pc[r] = "refresh"
    /\ \/ tf[r] = None /\ UNCHANGED tf
       \/ tf[r] # None /\ tf[r].name \notin DOMAIN groups /\ Record(r, None)
       \/ tf[r] # None /\ tf[r].name \in DOMAIN groups /\ Record(r, Stored(tf[r].name))
    /\ Refreshed(r, "plan")
    /\ UNCHANGED <<groups, list>>

\* Names in use, in any case, that stand in the way of r's name at plan time:
\* the name in state is about to be destroyed and does not count.
TakenInPlan(r) ==
    \E n \in DOMAIN groups :
        SameName(n, config[r].name) /\ (tf[r] # None => n # tf[r].name)

\* ModifyPlan: a create or a rename to a name in use fails the plan.
ModifyPlan(r) ==
    /\ pc[r] = "plan"
    /\ Goto(r, IF (Creating(r) \/ Replacing(r)) /\ TakenInPlan(r)
               THEN "refused" ELSE Planned(Replacing(r)))
    /\ UNCHANGED <<config, tf, lock, stale, budgets, groups, list>>

\* ModifyPlan of the create of a replacement: any name in use fails it.
PlanCreate(r) ==
    /\ pc[r] = "replan"
    /\ Goto(r, IF \E n \in DOMAIN groups : SameName(n, config[r].name)
               THEN "refused" ELSE "ready")
    /\ UNCHANGED <<config, tf, lock, stale, budgets, groups, list>>

EndPlanning ==
    /\ ApplyPlan([r \in Resource |-> IF Removing(r) THEN "delete"
                                     ELSE IF Creating(r) THEN "check"
                                     ELSE IF Updating(r) THEN "update"
                                     ELSE "ok"])
    /\ UNCHANGED <<groups, list>>

-----------------------------------------------------------------------------
(* The handlers. *)

\* Create lists the groups before it takes the mutex and rejects a name in
\* use, whatever its case.
CheckName(r) ==
    /\ pc[r] = "check"
    /\ Goto(r, IF \E n \in DOMAIN groups : SameName(n, config[r].name)
               THEN "failed" ELSE "create")
    /\ UNCHANGED <<config, tf, lock, stale, budgets, groups, list>>

\* The mutex is taken and all groups are listed.
Listed(r) ==
    /\ lock = Free
    /\ lock' = r
    /\ list' = [list EXCEPT ![r] = groups]
    /\ stale' = stale \ {r}
    /\ Goto(r, "post")
    /\ UNCHANGED <<config, tf, budgets, groups>>

\* Mutant: the listing is made before the mutex is taken.
ListToWrite_Unlocked(r) ==
    /\ pc[r] \in {"delete", "create", "update"}
    /\ list' = [list EXCEPT ![r] = groups]
    /\ stale' = stale \ {r}
    /\ Goto(r, "post")
    /\ UNCHANGED <<config, tf, lock, budgets, groups>>

\* Mutant: a create does not look for its name once more.
ListToWrite_Unchecked(r) ==
    /\ pc[r] \in {"delete", "create", "update"}
    /\ Listed(r)

\* Create, Update and DeleteApplicationGroup: list under the mutex; a create
\* goes on only when no group has exactly this name.
ListToWrite(r) ==
    /\ pc[r] \in {"delete", "create", "update"}
    /\ pc[r] = "create" => config[r].name \notin DOMAIN groups
    /\ Listed(r)

\* CreateApplicationGroup finds the name taken after all.
NameTaken(r) ==
    /\ pc[r] = "create" /\ lock = Free
    /\ config[r].name \in DOMAIN groups
    /\ Goto(r, "failed")
    /\ UNCHANGED <<config, tf, lock, stale, budgets, groups, list>>

\* What groupsToAPIPayload makes of a group: its applications only.
Sent(group) == [apps |-> group.apps, parents |-> NoParents]

\* Mutant: a delete posts the groups it has listed, its own included.
Payload_Unfiltered(r) ==
    LET kept   == list[r]
        posted == IF Removing(r) THEN kept
                  ELSE Bind(kept, config[r].name, [apps |-> config[r].apps, parents |-> NoParents])
    IN  [n \in DOMAIN posted |-> Sent(posted[n])]

\* The set to be posted: without the group of a delete, with the group of a
\* create or an update in place of one of that name.
Payload(r) ==
    LET kept   == IF Removing(r) THEN Unbind(list[r], tf[r].name) ELSE list[r]
        posted == IF Removing(r) THEN kept
                  ELSE Bind(kept, config[r].name, [apps |-> config[r].apps, parents |-> NoParents])
    IN  [n \in DOMAIN posted |-> Sent(posted[n])]

\* The POST is answered: the planned values are recorded; a replaced block is
\* created next.
Post(r) ==
    /\ pc[r] = "post"
    /\ groups' = Payload(r)
    /\ Record(r, IF Removing(r) THEN None ELSE config[r])
    /\ Goto(r, IF Replacing(r) THEN "check" ELSE "ok")
    /\ Released(r)
    /\ UNCHANGED <<config, stale, budgets, list>>

PostLost(r) ==
    /\ pc[r] = "post"
    /\ groups' = Payload(r)
    /\ LoseAnswer(r)
    /\ UNCHANGED list

Requesting(r) ==
    \/ pc[r] = "refresh" /\ tf[r] # None
    \/ pc[r] = "replan"
    \/ pc[r] = "plan" /\ (Creating(r) \/ Replacing(r))
    \/ pc[r] \in {"check", "post"}
    \/ pc[r] \in {"delete", "create", "update"} /\ lock = Free

RequestFails(r) ==
    /\ Requesting(r)
    /\ FailRequest(r, Planned(Replacing(r)))
    /\ UNCHANGED <<groups, list>>

\* Somebody adds, changes or removes a group in the UI.
UIEdit ==
    /\ EditedInUI
    /\ \/ \E n \in Name, g \in Group : groups' = Bind(groups, n, g)
       \/ \E n \in DOMAIN groups : groups' = Unbind(groups, n)
    /\ UNCHANGED list

Rest == Rested /\ UNCHANGED vars

-----------------------------------------------------------------------------

Init ==
    /\ TerraformInit
    /\ groups \in InitialGroups
    /\ list = [r \in Resource |-> None]

Handler(r) ==
    \/ Read(r) \/ ModifyPlan(r) \/ PlanCreate(r)
    \/ CheckName(r) \/ ListToWrite(r) \/ NameTaken(r) \/ Post(r)

Next ==
    \/ StartRun \/ EndPlanning
    \/ \E r \in Resource :
          Handler(r) \/ PostLost(r) \/ RequestFails(r) \/ ImportState(r)
    \/ UIEdit
    \/ Rest

Spec == Init /\ [][Next]_vars
=============================================================================
