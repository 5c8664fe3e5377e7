---------------------------- MODULE IPAddressGroups ----------------------------
(***************************************************************************)
(* IP address groups.  The Orchestrator keys them by name and a POST is an *)
(* upsert.  A create looks the name up and posts in one critical section   *)
(* of ipObjectMu; an update posts without a look; both read the group back *)
(* after the mutex has been released and record what they read.            *)
(***************************************************************************)
EXTENDS Terraform, Sequences

CONSTANTS
    Name,            \* names of groups
    Null,            \* an optional list that the configuration leaves out
    Lists,           \* lists a rule may have: sequences
    Comment,         \* comments of rules
    Rules,           \* sequences of rules in use, their lists never Null
    InitialGroups    \* what the Orchestrator holds at the start

ListFields == {"included_ips", "excluded_ips", "included_groups"}
Rule(L)    == [lists : [ListFields -> L], comment : Comment]

\* stringSliceFromTF and nilToEmpty: a list that is left out is sent empty,
\* and an empty list is read as an empty list.
Sent(rules) ==
    [i \in DOMAIN rules |->
        [rules[i] EXCEPT !.lists = [f \in ListFields |-> IF @[f] = Null THEN <<>> ELSE @[f]]]]

IsWanted(w) ==
    /\ w = [name |-> w.name, rules |-> w.rules]
    /\ w.name \in Name
    /\ w.rules \in Seq(Rule(Lists \cup {Null}))

\* The groups the Orchestrator holds.
Group    == [name : Name, rules : Rules]
GroupMap == UNION {[S -> Rules] : S \in SUBSET Name}

ASSUME IPAddressGroupAssumption ==
    /\ None \notin Name \cup Group
    /\ Null \notin Lists /\ <<>> \in Lists
    /\ \A c \in Configs, r \in Resource : c[r] = None \/ IsWanted(c[r])
    /\ Rules \subseteq Seq(Rule(Lists))
    /\ \A c \in Configs, r \in Resource : c[r] = None \/ Sent(c[r].rules) \in Rules
    /\ InitialGroups \subseteq GroupMap

VARIABLE groups    \* the Orchestrator's address groups: a function from names

vars == <<tfVars, groups>>

Applying == {"delete", "check", "create", "update", "readback"}

Wanted == UNION {{c[r] : r \in Resource} : c \in Configs}

TypeOK ==
    /\ TerraformTypeOK(Applying, Wanted, Group)
    /\ groups \in GroupMap

-----------------------------------------------------------------------------
(* Terraform: a group with another name is deleted and created again.      *)

Replacing(r) == Kept(r) /\ config[r].name # tf[r].name
Updating(r)  == Kept(r) /\ ~Replacing(r) /\ config[r] # tf[r]
Removing(r)  == Deleting(r) \/ Replacing(r)

Stored(n) == [name |-> n, rules |-> groups[n]]

StartRun == StartTerraform /\ UNCHANGED groups

ImportState(r) ==
    /\ \E n \in DOMAIN groups :
          /\ \A q \in Resource : tf[q] # None => tf[q].name # n
          /\ Import(r, Stored(n))
    /\ UNCHANGED groups

\* Read: the group of this name, or drop the resource.  No plan is checked.
Read(r) ==
    /\ pc[r] = "refresh"
    /\ \/ tf[r] = None /\ UNCHANGED tf
       \/ tf[r] # None /\ tf[r].name \notin DOMAIN groups /\ Record(r, None)
       \/ tf[r] # None /\ tf[r].name \in DOMAIN groups /\ Record(r, Stored(tf[r].name))
    /\ Refreshed(r, "ready")
    /\ UNCHANGED groups

EndPlanning ==
    /\ ApplyPlan([r \in Resource |-> IF Removing(r) THEN "delete"
                                     ELSE IF Creating(r) THEN "check"
                                     ELSE IF Updating(r) THEN "update"
                                     ELSE "ok"])
    /\ UNCHANGED groups

-----------------------------------------------------------------------------
(* The handlers. *)

\* Mutant: the lookup is made before the mutex is taken.
CheckName_Unlocked(r) ==
    /\ pc[r] = "check"
    /\ stale' = stale \ {r}
    /\ IF config[r].name \in DOMAIN groups THEN Goto(r, "failed") ELSE Goto(r, "create")
    /\ UNCHANGED <<config, tf, lock, budgets, groups>>

\* CreateIPAddressGroup: a name in use is refused inside the mutex.
CheckName(r) ==
    /\ pc[r] = "check"
    /\ lock = Free
    /\ stale' = stale \ {r}
    /\ IF config[r].name \in DOMAIN groups
       THEN Goto(r, "failed") /\ UNCHANGED lock
       ELSE Goto(r, "create") /\ lock' = r
    /\ UNCHANGED <<config, tf, budgets, groups>>

\* postIPAddressGroup, by a create that holds the mutex or an update that
\* takes it.
MayPost(r) == pc[r] = "create" \/ (pc[r] = "update" /\ lock = Free)

\* Mutant: nested groups are not sent.
Posted_NoNesting(r) ==
    groups' = Bind(groups, config[r].name,
                   [i \in DOMAIN config[r].rules |->
                       [config[r].rules[i] EXCEPT !.lists["included_groups"] = <<>>]])

Posted(r) == groups' = Bind(groups, config[r].name, Sent(config[r].rules))

Post(r) ==
    /\ MayPost(r)
    /\ Posted(r)
    /\ Released(r)
    /\ Goto(r, "readback")
    /\ UNCHANGED <<config, tf, stale, budgets>>

PostLost(r) == MayPost(r) /\ Posted(r) /\ LoseAnswer(r)

\* The group is recorded as it is read back; when that is not what was
\* planned, Terraform reports an inconsistent result.
ReadBack(r) ==
    /\ pc[r] = "readback"
    /\ LET n == config[r].name
       IN  \/ /\ n \in DOMAIN groups
              /\ Record(r, Stored(n))
              /\ Goto(r, IF Stored(n) = config[r] THEN "ok" ELSE "failed")
           \/ n \notin DOMAIN groups /\ Goto(r, "failed") /\ UNCHANGED tf
    /\ UNCHANGED <<config, lock, stale, budgets, groups>>

Without(n) == Unbind(groups, n)

\* Mutant: a replaced block deletes the group it is to get.
Delete_PlannedName(r) ==
    /\ pc[r] = "delete"
    /\ lock = Free
    /\ groups' = Without(IF Replacing(r) THEN config[r].name ELSE tf[r].name)
    /\ Record(r, None)
    /\ Goto(r, IF Replacing(r) THEN "check" ELSE "ok")
    /\ UNCHANGED <<config, lock, stale, budgets>>

\* DELETE of the name in state; a replaced block is created next.
Delete(r) ==
    /\ pc[r] = "delete"
    /\ lock = Free
    /\ tf[r].name \in DOMAIN groups
    /\ groups' = Without(tf[r].name)
    /\ Record(r, None)
    /\ Goto(r, IF Replacing(r) THEN "check" ELSE "ok")
    /\ UNCHANGED <<config, lock, stale, budgets>>

DeleteLost(r) ==
    /\ pc[r] = "delete"
    /\ lock = Free
    /\ tf[r].name \in DOMAIN groups
    /\ groups' = Without(tf[r].name)
    /\ LoseAnswer(r)

\* The Orchestrator knows no such group: the answer is an error.
DeleteUnknown(r) ==
    /\ pc[r] = "delete"
    /\ lock = Free
    /\ tf[r].name \notin DOMAIN groups
    /\ Goto(r, "failed")
    /\ UNCHANGED <<config, tf, lock, stale, budgets, groups>>

Requesting(r) ==
    \/ pc[r] = "refresh" /\ tf[r] # None
    \/ pc[r] \in {"create", "readback"}
    \/ pc[r] \in {"delete", "check", "update"} /\ lock = Free

RequestFails(r) ==
    /\ Requesting(r)
    /\ FailRequest(r, "ready")
    /\ UNCHANGED groups

\* Somebody adds, changes or removes a group in the UI.
UIEdit ==
    /\ EditedInUI
    /\ \/ \E n \in Name, rules \in Rules : groups' = Bind(groups, n, rules)
       \/ \E n \in DOMAIN groups : groups' = Without(n)

Rest == Rested /\ UNCHANGED vars

-----------------------------------------------------------------------------

Init == TerraformInit /\ groups \in InitialGroups

Handler(r) ==
    \/ Read(r) \/ CheckName(r) \/ Post(r) \/ ReadBack(r)
    \/ Delete(r) \/ DeleteUnknown(r)

Next ==
    \/ StartRun \/ EndPlanning
    \/ \E r \in Resource :
          Handler(r) \/ PostLost(r) \/ DeleteLost(r) \/ RequestFails(r) \/ ImportState(r)
    \/ UIEdit
    \/ Rest

Spec == Init /\ [][Next]_vars
=============================================================================
