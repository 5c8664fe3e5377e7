------------------------------ MODULE GroupProofs ------------------------------
(***************************************************************************)
(* Theorems about ApplicationGroups for every value of its constants.      *)
(***************************************************************************)
EXTENDS GroupProperties, TLAPS

\* Who is about to post holds appGroupMu and has a listing.
PostersHoldLock == \A r \in Resource : pc[r] = "post" => lock = r /\ list[r] \in GroupMaps

\* Where a handler stands tells what it is there for.
OperationIsKnown ==
    \A r \in Resource :
        /\ pc[r] = "delete" => Removing(r)
        /\ pc[r] \in {"check", "create"} => Creating(r)
        /\ pc[r] = "update" => Updating(r)
        /\ pc[r] = "post" => Creating(r) \/ Updating(r) \/ Removing(r)

\* The listing a POST is made of is what the Orchestrator holds.
ListIsCurrent == \A r \in Resource : pc[r] = "post" /\ r \notin stale => list[r] = groups

\* A create posts a name it has not found in its listing.
CreateIsNew ==
    \A r \in Resource : pc[r] = "post" /\ Creating(r) => config[r].name \notin DOMAIN list[r]

\* A listing is outdated by edits in the UI only.
OnlyEditsOutdate == "edit" \notin happened => stale = {}

\* What resources own exists, and no group has two owners.
OwnersAreDistinct ==
    Undisturbed =>
        /\ \A r \in Resource : tf[r] # None => tf[r].name \in DOMAIN groups
        /\ \A q, r \in Resource :
              tf[q] # None /\ tf[r] # None /\ tf[q].name = tf[r].name => q = r

GroupInv ==
    /\ TypeOK /\ PostersHoldLock /\ OperationIsKnown /\ ListIsCurrent
    /\ CreateIsNew /\ OnlyEditsOutdate /\ OwnersAreDistinct

-----------------------------------------------------------------------------
(* Tables of groups. *)

\* What a table of groups is.
LEMMA GroupMap ==
    ASSUME NEW f
    PROVE  f \in GroupMaps <=>
             /\ f = [n \in DOMAIN f |-> f[n]]
             /\ DOMAIN f \subseteq Name
             /\ \A n \in DOMAIN f : f[n] \in Group
BY DEF GroupMaps

\* A group more, or in place of another one.
LEMMA BindGroup ==
    ASSUME NEW f \in GroupMaps, NEW n \in Name, NEW g \in Group
    PROVE  Bind(f, n, g) \in GroupMaps
<1>1. /\ DOMAIN f \subseteq Name
      /\ \A m \in DOMAIN f : f[m] \in Group
  BY GroupMap
<1>2. /\ DOMAIN Bind(f, n, g) \subseteq Name
      /\ \A m \in DOMAIN Bind(f, n, g) : Bind(f, n, g)[m] \in Group
  BY <1>1 DEF Bind
<1>3. QED
  BY <1>2, GroupMap DEF Bind

\* A group less.
LEMMA UnbindGroup ==
    ASSUME NEW f \in GroupMaps, NEW n
    PROVE  Unbind(f, n) \in GroupMaps
<1>1. /\ DOMAIN f \subseteq Name
      /\ \A m \in DOMAIN f : f[m] \in Group
  BY GroupMap
<1>2. /\ DOMAIN Unbind(f, n) \subseteq Name
      /\ \A m \in DOMAIN Unbind(f, n) : Unbind(f, n)[m] \in Group
  BY <1>1 DEF Unbind, Restrict
<1>3. QED
  BY <1>2, GroupMap DEF Unbind, Restrict

\* What is left of a group in a POST is a group.
LEMMA SentGroups ==
    ASSUME NEW f \in GroupMaps
    PROVE  [n \in DOMAIN f |-> Sent(f[n])] \in GroupMaps
<1> DEFINE g == [n \in DOMAIN f |-> Sent(f[n])]
<1>1. /\ DOMAIN f \subseteq Name
      /\ \A m \in DOMAIN f : f[m] \in Group
  BY GroupMap
<1>2. \A m \in DOMAIN f : Sent(f[m]) \in Group
  BY <1>1, GroupsAssumption DEF Sent, Group
<1>3. DOMAIN g \subseteq Name /\ \A m \in DOMAIN g : g[m] \in Group
  BY <1>1, <1>2
<1>4. g = [n \in DOMAIN g |-> g[n]]
  OBVIOUS
<1>5. QED
  BY <1>3, <1>4, GroupMap

\* The members in a table of groups.
Members(f) == [n \in DOMAIN f |-> f[n].apps]

\* A delete posts the listing without its group.
LEMMA PayloadOfDelete ==
    ASSUME NEW r \in Resource, Removing(r)
    PROVE  Members(Payload(r)) = Unbind(Members(list[r]), tf[r].name)
BY DEF Payload, Members, Sent, Unbind, Restrict

\* A create or an update posts the listing with its group.
LEMMA PayloadOfWrite ==
    ASSUME NEW r \in Resource, ~Removing(r)
    PROVE  Members(Payload(r)) = Bind(Members(list[r]), config[r].name, config[r].apps)
BY DEF Payload, Members, Sent, Bind

\* What is posted is a table of groups.
LEMMA PayloadTyped ==
    ASSUME TypeOK, NEW r \in Resource, list[r] \in GroupMaps,
           Creating(r) \/ Updating(r) \/ Removing(r)
    PROVE  Payload(r) \in GroupMaps
<1>1. CASE Removing(r)
  BY <1>1, UnbindGroup, SentGroups DEF Payload
<1>2. CASE ~Removing(r)
  <2>1. config[r] \in Wanted
    BY <1>2 DEF Creating, Updating, Kept, TypeOK, TerraformTypeOK
  <2>2. [apps |-> config[r].apps, parents |-> NoParents] \in Group
    BY <2>1, GroupsAssumption DEF Wanted, Group
  <2>3. Bind(list[r], config[r].name, [apps |-> config[r].apps, parents |-> NoParents])
           \in GroupMaps
    BY <2>1, <2>2, BindGroup DEF Wanted
  <2>4. QED
    BY <1>2, <2>3, SentGroups DEF Payload
<1>3. QED
  BY <1>1, <1>2

-----------------------------------------------------------------------------
(* The invariant. *)

LEMMA GroupInit == Init => GroupInv
<1> SUFFICES ASSUME Init PROVE GroupInv
  OBVIOUS
<1>1. TypeOK
  BY GroupsAssumption, TerraformAssumption
  DEF Init, TerraformInit, TypeOK, TerraformTypeOK, Ended, GroupMaps, Group
<1>2. PostersHoldLock /\ OperationIsKnown /\ ListIsCurrent /\ CreateIsNew
  BY DEF Init, TerraformInit, PostersHoldLock, OperationIsKnown, ListIsCurrent, CreateIsNew
<1>3. OnlyEditsOutdate /\ OwnersAreDistinct
  BY DEF Init, TerraformInit, OnlyEditsOutdate, OwnersAreDistinct
<1>4. QED
  BY <1>1, <1>2, <1>3 DEF GroupInv

\* What is recorded of a group is a block that may be declared.
LEMMA StoredGroup ==
    ASSUME TypeOK, NEW n \in DOMAIN groups
    PROVE  Stored(n) \in Wanted /\ Stored(n) # None
<1>1. n \in Name /\ groups[n] \in Group
  BY GroupMap DEF TypeOK
<1>2. QED
  BY <1>1, GroupsAssumption DEF Stored, Group, Wanted

\* Only the handler of a resource records what is in its state, and only a
\* start of a run changes the configuration.
LEMMA GroupTypeStep == GroupInv /\ [Next]_vars => TypeOK'
<1> SUFFICES ASSUME GroupInv, [Next]_vars PROVE TypeOK'
  OBVIOUS
<1> USE DEF GroupInv, TerraformTypeOK
<1>1. CASE StartRun
  BY <1>1, GroupsAssumption DEF StartRun, StartTerraform, TypeOK, Planning, AllEnded
<1>2. CASE EndPlanning
  BY <1>2 DEF EndPlanning, ApplyPlan, TypeOK, Planning, Ended, Applying, budgets
<1>3. ASSUME NEW r \in Resource, Read(r) PROVE TypeOK'
  <2>1. tf'[r] \in Wanted \cup {None} /\ \A q \in Resource : q # r => tf'[q] = tf[q]
    <3>1. CASE tf[r] # None /\ tf[r].name \in DOMAIN groups /\ Record(r, Stored(tf[r].name))
      BY <3>1, StoredGroup DEF Record, TypeOK
    <3>2. CASE UNCHANGED tf \/ Record(r, None)
      BY <3>2 DEF Record, TypeOK
    <3>3. QED
      BY <1>3, <3>1, <3>2 DEF Read
  <2>2. tf' \in [Resource -> Wanted \cup {None}]
    BY <1>3, <2>1 DEF Read, Record, TypeOK
  <2>3. QED
    BY <1>3, <2>2 DEF Read, Refreshed, Goto, TypeOK, Planning, budgets
<1>4. ASSUME NEW r \in Resource, ModifyPlan(r) \/ PlanCreate(r) PROVE TypeOK'
  BY <1>4 DEF ModifyPlan, PlanCreate, Goto, Planned, TypeOK, Planning, budgets
<1>5. ASSUME NEW r \in Resource, CheckName(r) \/ NameTaken(r) PROVE TypeOK'
  BY <1>5 DEF CheckName, NameTaken, Goto, TypeOK, Ended, Applying, budgets
<1>6. ASSUME NEW r \in Resource, ListToWrite(r) PROVE TypeOK'
  BY <1>6 DEF ListToWrite, Listed, Goto, TypeOK, Applying, budgets
<1>7. ASSUME NEW r \in Resource, Post(r) PROVE TypeOK'
  <2>1. groups' \in GroupMaps
    BY <1>7, PayloadTyped DEF Post, PostersHoldLock, OperationIsKnown
  <2>2. tf' \in [Resource -> Wanted \cup {None}]
    BY <1>7 DEF Post, Record, TypeOK
  <2>3. QED
    BY <1>7, <2>1, <2>2 DEF Post, Released, Goto, TypeOK, Ended, Applying, budgets
<1>8. ASSUME NEW r \in Resource, PostLost(r) PROVE TypeOK'
  <2>1. groups' \in GroupMaps
    BY <1>8, PayloadTyped DEF PostLost, PostersHoldLock, OperationIsKnown
  <2>2. QED
    BY <1>8, <2>1 DEF PostLost, LoseAnswer, Released, Goto, TypeOK, Ended
<1>9. ASSUME NEW r \in Resource, RequestFails(r) PROVE TypeOK'
  BY <1>9 DEF RequestFails, FailRequest, Fault, Released, Goto, Planned, TypeOK, Ended, Planning
<1>10. ASSUME NEW r \in Resource, ImportState(r) PROVE TypeOK'
  <2>1. PICK n \in DOMAIN groups : Import(r, Stored(n))
    BY <1>10 DEF ImportState
  <2>2. QED
    BY <1>10, <2>1, StoredGroup DEF ImportState, Import, Record, TypeOK, budgets
<1>11. CASE UIEdit
  <2>1. groups' \in GroupMaps
    BY <1>11, BindGroup, UnbindGroup DEF UIEdit, TypeOK
  <2>2. QED
    BY <1>11, <2>1 DEF UIEdit, EditedInUI, TypeOK
<1>12. CASE Rest \/ UNCHANGED vars
  BY <1>12 DEF Rest, vars, tfVars, budgets, TypeOK
<1>13. QED
  BY <1>1, <1>2, <1>3, <1>4, <1>5, <1>6, <1>7, <1>8, <1>9, <1>10, <1>11, <1>12
  DEF Next, Handler

\* The mutex: whoever comes to a POST took it when it was free, and only the
\* end of that handler releases it.
LEMMA GroupLockStep == GroupInv /\ [Next]_vars => PostersHoldLock'
<1> SUFFICES ASSUME GroupInv, [Next]_vars, NEW q \in Resource, pc'[q] = "post"
             PROVE  lock' = q /\ list'[q] \in GroupMaps
  BY DEF PostersHoldLock
<1> USE DEF GroupInv, TypeOK, TerraformTypeOK, PostersHoldLock
<1>1. CASE StartRun \/ EndPlanning
  BY <1>1 DEF StartRun, StartTerraform, EndPlanning, ApplyPlan
<1>2. ASSUME NEW r \in Resource, Handler(r) PROVE lock' = q /\ list'[q] \in GroupMaps
  <2>1. CASE Read(r) \/ ModifyPlan(r) \/ PlanCreate(r) \/ CheckName(r) \/ NameTaken(r)
    BY <1>2, <2>1 DEF Read, Refreshed, ModifyPlan, PlanCreate, Planned, CheckName, NameTaken, Goto
  <2>2. CASE ListToWrite(r)
    BY <2>2, TerraformAssumption DEF ListToWrite, Listed, Goto
  <2>3. CASE Post(r)
    BY <2>3 DEF Post, Goto, Released
  <2>4. QED
    BY <1>2, <2>1, <2>2, <2>3 DEF Handler
<1>3. ASSUME NEW r \in Resource, PostLost(r) \/ RequestFails(r)
      PROVE  lock' = q /\ list'[q] \in GroupMaps
  BY <1>3 DEF PostLost, LoseAnswer, RequestFails, FailRequest, Fault, Goto, Released, Planned
<1>4. ASSUME NEW r \in Resource, ImportState(r) PROVE lock' = q /\ list'[q] \in GroupMaps
  BY <1>4 DEF ImportState, Import
<1>5. CASE UIEdit \/ Rest \/ UNCHANGED vars
  BY <1>5 DEF UIEdit, EditedInUI, Rest, vars, tfVars
<1>6. QED
  BY <1>1, <1>2, <1>3, <1>4, <1>5 DEF Next

\* What a handler is there for does not change while it is at work: nothing
\* but its own end writes its resource to the state.
LEMMA GroupOperationStep == GroupInv /\ [Next]_vars => OperationIsKnown'
<1> SUFFICES ASSUME GroupInv, [Next]_vars, NEW q \in Resource
             PROVE  /\ pc'[q] = "delete" => Removing(q)'
                    /\ pc'[q] \in {"check", "create"} => Creating(q)'
                    /\ pc'[q] = "update" => Updating(q)'
                    /\ pc'[q] = "post" => Creating(q)' \/ Updating(q)' \/ Removing(q)'
  BY DEF OperationIsKnown
<1> DEFINE Known == /\ pc'[q] = "delete" => Removing(q)'
                    /\ pc'[q] \in {"check", "create"} => Creating(q)'
                    /\ pc'[q] = "update" => Updating(q)'
                    /\ pc'[q] = "post" => Creating(q)' \/ Updating(q)' \/ Removing(q)'
<1> USE DEF GroupInv, TypeOK, TerraformTypeOK, OperationIsKnown,
            Removing, Replacing, Updating, Creating, Deleting, Kept
<1>1. CASE StartRun
  BY <1>1 DEF StartRun, StartTerraform
<1>2. CASE EndPlanning
  BY <1>2 DEF EndPlanning, ApplyPlan
<1>3. ASSUME NEW r \in Resource, Handler(r) PROVE Known
  <2>1. CASE Read(r)
    BY <2>1 DEF Read, Refreshed, Record, Goto
  <2>2. CASE ModifyPlan(r) \/ PlanCreate(r) \/ CheckName(r) \/ NameTaken(r)
    BY <2>2 DEF ModifyPlan, PlanCreate, Planned, CheckName, NameTaken, Goto
  <2>3. CASE ListToWrite(r)
    BY <2>3 DEF ListToWrite, Listed, Goto
  <2>4. CASE Post(r)
    BY <2>4 DEF Post, Record, Goto
  <2>5. QED
    BY <1>3, <2>1, <2>2, <2>3, <2>4 DEF Handler
<1>4. ASSUME NEW r \in Resource, PostLost(r) \/ RequestFails(r) PROVE Known
  BY <1>4 DEF PostLost, LoseAnswer, RequestFails, FailRequest, Fault, Goto, Planned
<1>5. ASSUME NEW r \in Resource, ImportState(r) PROVE Known
  BY <1>5 DEF ImportState, Import, Record, AllEnded, Ended
<1>6. CASE UIEdit \/ Rest \/ UNCHANGED vars
  BY <1>6 DEF UIEdit, EditedInUI, Rest, vars, tfVars
<1>7. QED
  BY <1>1, <1>2, <1>3, <1>4, <1>5, <1>6 DEF Next

\* A listing goes out of date by an edit in the UI, or by a POST, which ends
\* the critical section: no other handler holds a listing then.
LEMMA GroupListStep ==
    GroupInv /\ [Next]_vars => ListIsCurrent' /\ CreateIsNew'
<1> SUFFICES ASSUME GroupInv, [Next]_vars, NEW q \in Resource
             PROVE  /\ pc'[q] = "post" /\ q \notin stale' => list'[q] = groups'
                    /\ pc'[q] = "post" /\ Creating(q)' => config'[q].name \notin DOMAIN list'[q]
  BY DEF ListIsCurrent, CreateIsNew, Creating
<1> DEFINE Current == /\ pc'[q] = "post" /\ q \notin stale' => list'[q] = groups'
                      /\ pc'[q] = "post" /\ Creating(q)' =>
                            config'[q].name \notin DOMAIN list'[q]
<1> USE DEF GroupInv, TypeOK, TerraformTypeOK, ListIsCurrent, CreateIsNew, Creating, budgets
<1>1. CASE StartRun \/ EndPlanning
  BY <1>1 DEF StartRun, StartTerraform, EndPlanning, ApplyPlan
<1>2. ASSUME NEW r \in Resource, Handler(r) PROVE Current
  <2>1. CASE Read(r)
    BY <2>1 DEF Read, Refreshed, Record, Goto
  <2>2. CASE ModifyPlan(r) \/ PlanCreate(r) \/ CheckName(r) \/ NameTaken(r)
    BY <2>2 DEF ModifyPlan, PlanCreate, Planned, CheckName, NameTaken, Goto
  <2>3. CASE ListToWrite(r)
    BY <2>3 DEF ListToWrite, Listed, Goto, OperationIsKnown,
                Removing, Replacing, Updating, Deleting, Kept
  <2>4. CASE Post(r)
    <3>1. pc'[q] = "post" => pc[q] = "post" /\ q # r
      BY <2>4 DEF Post, Goto
    <3>2. pc'[q] # "post"
      BY <2>4, <3>1 DEF Post, PostersHoldLock
    <3>3. QED
      BY <2>4, <3>2 DEF Post
  <2>5. QED
    BY <1>2, <2>1, <2>2, <2>3, <2>4 DEF Handler
<1>3. ASSUME NEW r \in Resource, PostLost(r) PROVE Current
  <2>1. pc'[q] = "post" => pc[q] = "post" /\ q # r
    BY <1>3 DEF PostLost, LoseAnswer, Goto
  <2>2. pc'[q] # "post"
    BY <1>3, <2>1 DEF PostLost, PostersHoldLock
  <2>3. QED
    BY <1>3, <2>2 DEF PostLost, LoseAnswer
<1>4. ASSUME NEW r \in Resource, RequestFails(r) PROVE Current
  BY <1>4 DEF RequestFails, FailRequest, Fault, Goto, Planned
<1>5. ASSUME NEW r \in Resource, ImportState(r) PROVE Current
  BY <1>5 DEF ImportState, Import, Record, AllEnded, Ended
<1>6. CASE UIEdit
  BY <1>6 DEF UIEdit, EditedInUI
<1>7. CASE Rest \/ UNCHANGED vars
  BY <1>7 DEF Rest, vars, tfVars
<1>8. QED
  BY <1>1, <1>2, <1>3, <1>4, <1>5, <1>6, <1>7 DEF Next

LEMMA GroupOutdatedStep == GroupInv /\ [Next]_vars => OnlyEditsOutdate'
<1> SUFFICES ASSUME GroupInv, [Next]_vars, "edit" \notin happened' PROVE stale' = {}
  BY DEF OnlyEditsOutdate
<1> USE DEF GroupInv, OnlyEditsOutdate, budgets
<1>1. CASE StartRun \/ EndPlanning
  BY <1>1 DEF StartRun, StartTerraform, EndPlanning, ApplyPlan
<1>2. ASSUME NEW r \in Resource, Handler(r) PROVE stale' = {}
  BY <1>2 DEF Handler, Read, Refreshed, ModifyPlan, PlanCreate, CheckName, ListToWrite, Listed,
              NameTaken, Post
<1>3. ASSUME NEW r \in Resource, PostLost(r) \/ RequestFails(r) \/ ImportState(r)
      PROVE  stale' = {}
  BY <1>3 DEF PostLost, LoseAnswer, RequestFails, FailRequest, Fault, ImportState, Import
<1>4. CASE UIEdit
  BY <1>4 DEF UIEdit, EditedInUI
<1>5. CASE Rest \/ UNCHANGED vars
  BY <1>5 DEF Rest, vars, tfVars
<1>6. QED
  BY <1>1, <1>2, <1>3, <1>4, <1>5 DEF Next

-----------------------------------------------------------------------------
(* What a POST does. *)

\* A POST made of a current listing is a step of the abstract store.
LEMMA PostedMembers ==
    ASSUME GroupInv, NEW r \in Resource, pc[r] = "post", r \notin stale, groups' = Payload(r)
    PROVE  \/ /\ Creating(r) /\ config[r].name \notin DOMAIN groups
              /\ Members(groups') = Bind(Members(groups), config[r].name, config[r].apps)
           \/ /\ Updating(r) /\ config[r].name = tf[r].name
              /\ Members(groups') = Bind(Members(groups), tf[r].name, config[r].apps)
           \/ /\ Removing(r)
              /\ Members(groups') = Unbind(Members(groups), tf[r].name)
<1>1. list[r] = groups
  BY DEF GroupInv, ListIsCurrent
<1>2. CASE Removing(r)
  BY <1>1, <1>2, PayloadOfDelete
<1>3. CASE ~Removing(r)
  BY <1>1, <1>3, PayloadOfWrite
  DEF GroupInv, OperationIsKnown, CreateIsNew, Updating, Replacing, Kept, Removing
<1>4. QED
  BY <1>2, <1>3

\* A step that changes groups is a POST or an edit in the UI.
LEMMA WhoWritesGroups ==
    ASSUME [Next]_vars, groups' # groups
    PROVE  \/ UIEdit
           \/ \E r \in Resource : (Post(r) \/ PostLost(r)) /\ pc[r] = "post" /\ groups' = Payload(r)
BY DEF Next, Handler, StartRun, EndPlanning, Read, ModifyPlan, PlanCreate, CheckName,
       ListToWrite, Listed, NameTaken, Post, PostLost, RequestFails, ImportState, Rest, vars

\* Undisturbed, no handler posts an outdated listing.
LEMMA UndisturbedIsCurrent ==
    ASSUME GroupInv, Undisturbed
    PROVE  stale = {}
BY DEF GroupInv, OnlyEditsOutdate, Undisturbed

\* Nothing makes up for a disturbance.
LEMMA DisturbanceStays ==
    ASSUME [Next]_vars, Undisturbed'
    PROVE  Undisturbed
BY DEF Next, Handler, StartRun, StartTerraform, EndPlanning, ApplyPlan, Read, Refreshed, ModifyPlan,
       PlanCreate, CheckName, ListToWrite, Listed, NameTaken, Post, PostLost, LoseAnswer,
       RequestFails, FailRequest, Fault, ImportState, Import, UIEdit, EditedInUI, Rest, vars,
       tfVars, budgets, Undisturbed

\* Undisturbed, every change of the state or of the groups is one of these.
LEMMA UndisturbedSteps ==
    ASSUME [Next]_vars, Undisturbed'
    PROVE  \/ UNCHANGED <<tf, groups>>
           \/ \E r \in Resource : Read(r) \/ Post(r) \/ ImportState(r)
<1>1. ~UIEdit /\ \A r \in Resource : ~PostLost(r)
  BY DEF UIEdit, EditedInUI, PostLost, LoseAnswer, Undisturbed
<1>2. QED
  BY <1>1
  DEF Next, Handler, StartRun, StartTerraform, EndPlanning, ApplyPlan, ModifyPlan, PlanCreate,
      CheckName, ListToWrite, Listed, NameTaken, RequestFails, FailRequest, Rest, vars, tfVars

\* A create takes a name no resource owns, a delete gives up one that no other
\* resource owns.
LEMMA GroupOwnersStep == GroupInv /\ [Next]_vars => OwnersAreDistinct'
<1> SUFFICES ASSUME GroupInv, [Next]_vars, Undisturbed'
             PROVE  /\ \A r \in Resource : tf'[r] # None => tf'[r].name \in DOMAIN groups'
                    /\ \A p, q \in Resource :
                          tf'[p] # None /\ tf'[q] # None /\ tf'[p].name = tf'[q].name => p = q
  BY DEF OwnersAreDistinct
<1> DEFINE Distinct == /\ \A r \in Resource : tf'[r] # None => tf'[r].name \in DOMAIN groups'
                       /\ \A p, q \in Resource :
                             tf'[p] # None /\ tf'[q] # None /\ tf'[p].name = tf'[q].name => p = q
<1>1. Undisturbed
  BY DisturbanceStays
<1>2. /\ \A r \in Resource : tf[r] # None => tf[r].name \in DOMAIN groups
      /\ \A p, q \in Resource :
            tf[p] # None /\ tf[q] # None /\ tf[p].name = tf[q].name => p = q
  BY <1>1 DEF GroupInv, OwnersAreDistinct
<1>3. tf \in [Resource -> Wanted \cup {None}]
  BY DEF GroupInv, TypeOK, TerraformTypeOK
<1>4. CASE UNCHANGED <<tf, groups>>
  BY <1>2, <1>4
<1>5. ASSUME NEW r \in Resource, Read(r) PROVE Distinct
  <2>1. /\ \A q \in Resource : q # r => tf'[q] = tf[q]
        /\ tf'[r] = None \/ (tf[r] # None /\ tf'[r].name = tf[r].name)
    BY <1>3, <1>5 DEF Read, Record, Stored
  <2>2. QED
    BY <1>2, <1>5, <2>1 DEF Read
<1>6. ASSUME NEW r \in Resource, Post(r) PROVE Distinct
  <2>1. /\ \A q \in Resource : q # r => tf'[q] = tf[q]
        /\ tf'[r] = IF Removing(r) THEN None ELSE config[r]
    BY <1>3, <1>6 DEF Post, Record
  <2>2. DOMAIN groups' = DOMAIN Members(groups') /\ DOMAIN groups = DOMAIN Members(groups)
    BY DEF Members
  <2>3. pc[r] = "post" /\ r \notin stale /\ groups' = Payload(r)
    BY <1>1, <1>6, UndisturbedIsCurrent DEF Post
  <2>4. CASE Creating(r) /\ config[r].name \notin DOMAIN groups
             /\ Members(groups') = Bind(Members(groups), config[r].name, config[r].apps)
    <3>1. DOMAIN groups' = DOMAIN groups \cup {config[r].name}
      BY <2>2, <2>4 DEF Bind
    <3>2. QED
      BY <1>2, <2>1, <2>4, <3>1 DEF Creating, Removing, Deleting, Replacing, Kept
  <2>5. CASE Updating(r) /\ config[r].name = tf[r].name
             /\ Members(groups') = Bind(Members(groups), tf[r].name, config[r].apps)
    <3>1. DOMAIN groups' = DOMAIN groups \cup {tf[r].name}
      BY <2>2, <2>5 DEF Bind
    <3>2. QED
      BY <1>2, <2>1, <2>5, <3>1 DEF Updating, Removing, Deleting, Kept
  <2>6. CASE Removing(r) /\ Members(groups') = Unbind(Members(groups), tf[r].name)
    <3>1. DOMAIN groups' = DOMAIN groups \ {tf[r].name}
      BY <2>2, <2>6 DEF Unbind, Restrict
    <3>2. QED
      BY <1>2, <2>1, <2>6, <3>1 DEF Removing, Deleting, Replacing, Kept
  <2>7. QED
    BY <2>3, <2>4, <2>5, <2>6, PostedMembers
<1>7. ASSUME NEW r \in Resource, ImportState(r) PROVE Distinct
  <2>1. PICK n \in DOMAIN groups :
           /\ \A q \in Resource : tf[q] # None => tf[q].name # n
           /\ Import(r, Stored(n))
    BY <1>7 DEF ImportState
  <2>2. /\ \A q \in Resource : q # r => tf'[q] = tf[q]
        /\ tf'[r].name = n
    BY <1>3, <2>1 DEF Import, Record, Stored
  <2>3. QED
    BY <1>2, <1>7, <2>1, <2>2 DEF ImportState
<1>8. QED
  BY <1>4, <1>5, <1>6, <1>7, UndisturbedSteps

LEMMA GroupInvariant == Spec => []GroupInv
<1>1. GroupInv /\ [Next]_vars => GroupInv'
  BY GroupTypeStep, GroupLockStep, GroupOperationStep, GroupListStep, GroupOutdatedStep,
     GroupOwnersStep DEF GroupInv
<1>2. QED
  BY GroupInit, <1>1, PTL DEF Spec

-----------------------------------------------------------------------------

\* Every variable keeps its type: what is posted is a table of groups, with
\* any number of blocks, names and lists of applications.
THEOREM GroupsTypeCorrect == Spec => []TypeOK
<1>1. GroupInv => TypeOK
  BY DEF GroupInv
<1>2. QED
  BY <1>1, GroupInvariant, PTL

\* A POST replaces all groups and changes the members of its own only, with
\* any number of handlers in parallel, failed requests and lost answers.
THEOREM OtherMembersStayUntouched == Spec => OtherMembersUntouched
<1> DEFINE Touched(n) == n \notin DOMAIN groups' \/ groups'[n].apps # groups[n].apps
           Mine(n) == \E r \in Resource :
                         pc[r] = "post" /\ (r \in stale \/ (tf[r] # None /\ tf[r].name = n))
<1>1. ASSUME GroupInv, [Next]_vars, edits' = edits, NEW n \in DOMAIN groups, Touched(n)
      PROVE  Mine(n)
  <2>1. ~UIEdit
    BY <1>1 DEF UIEdit, EditedInUI, GroupInv, TypeOK, TerraformTypeOK
  <2>2. PICK r \in Resource : pc[r] = "post" /\ groups' = Payload(r)
    BY <1>1, <2>1, WhoWritesGroups
  <2>3. CASE r \notin stale
    <3>1. /\ n \notin DOMAIN Members(groups') \/ Members(groups')[n] # Members(groups)[n]
          /\ n \in DOMAIN Members(groups)
      BY <1>1 DEF Members
    <3>2. tf[r] # None /\ tf[r].name = n
      BY <1>1, <2>2, <2>3, <3>1, PostedMembers
      DEF Bind, Unbind, Restrict, Members, Creating, Updating, Removing, Deleting, Replacing, Kept
    <3>3. QED
      BY <2>2, <3>2
  <2>4. QED
    BY <2>2, <2>3
<1>2. GroupInv /\ [Next]_vars =>
        [edits' = edits =>
           \A n \in DOMAIN groups :
              n \notin DOMAIN groups' \/ groups'[n].apps # groups[n].apps =>
                 \E r \in Resource :
                    /\ pc[r] = "post"
                    /\ r \in stale \/ (tf[r] # None /\ tf[r].name = n)]_vars
  BY <1>1
<1>3. QED
  BY <1>2, GroupInvariant, PTL DEF Spec, OtherMembersUntouched

\* A create replaces no group, although the check of the resource is made
\* before the mutex is taken.
THEOREM GroupCreatesReplaceNothing == Spec => CreateReplacesNothing
<1> DEFINE Replaces(r) == pc[r] = "post" /\ pc'[r] # "post" /\ tf[r] = None /\ groups' # groups
<1>1. ASSUME GroupInv, [Next]_vars, NEW r \in Resource, Replaces(r), r \notin stale
      PROVE  config[r].name \notin DOMAIN groups
  BY <1>1 DEF GroupInv, OperationIsKnown, ListIsCurrent, CreateIsNew, Updating, Removing,
              Deleting, Replacing, Kept
<1>2. GroupInv /\ [Next]_vars =>
        [\A r \in Resource :
           Replaces(r) => r \in stale \/ config[r].name \notin DOMAIN groups]_vars
  BY <1>1
<1>3. QED
  BY <1>2, GroupInvariant, PTL DEF Spec, CreateReplacesNothing

\* Replacing all groups implements a store in which an operation touches the
\* object of its resource only, until the UI is used or an answer is lost.
THEOREM GroupsImplementKeyedStore == Spec => ImplementsKeyedStore
<1> DEFINE OwnerOf(state) == [r \in Resource |-> IF state[r] = None THEN None ELSE state[r].name]
<1>1. Init => Store!StoreInit
  BY GroupInit DEF Init, TerraformInit, Store!StoreInit, Undisturbed
<1>2. ASSUME GroupInv, GroupInv', [Next]_vars
      PROVE  [Store!StoreNext]_(Store!storeVars)
  <2>1. CASE ~Undisturbed'
    BY <2>1 DEF Store!StoreNext
  <2>2. CASE Undisturbed'
    <3>1. Undisturbed /\ stale = {}
      BY <1>2, <2>2, DisturbanceStays, UndisturbedIsCurrent
    <3>2. /\ tf \in [Resource -> Wanted \cup {None}]
          /\ config \in [Resource -> Wanted \cup {None}]
          /\ \A w \in Wanted : w # None /\ w.name # None
      BY <1>2, GroupsAssumption DEF GroupInv, TypeOK, TerraformTypeOK, Wanted
    <3>3. /\ \A r \in Resource : tf[r] # None => tf[r].name \in DOMAIN groups
          /\ \A q, r \in Resource :
                tf[q] # None /\ tf[r] # None /\ tf[q].name = tf[r].name => q = r
      BY <1>2, <3>1 DEF GroupInv, OwnersAreDistinct
    <3>4. CASE UNCHANGED <<tf, groups>>
      BY <2>2, <3>1, <3>4 DEF Store!storeVars
    <3>5. ASSUME NEW r \in Resource, Read(r) PROVE UNCHANGED Store!storeVars
      <4>1. groups' = groups /\ (Undisturbed <=> Undisturbed')
        BY <2>2, <3>1, <3>5 DEF Read
      <4>2. /\ \A q \in Resource : q # r => tf'[q] = tf[q]
            /\ tf'[r] = tf[r] \/ (tf[r] # None /\ tf'[r] = Stored(tf[r].name))
        BY <3>2, <3>3, <3>5 DEF Read, Record
      <4>3. tf[r] # None => Stored(tf[r].name) # None /\ Stored(tf[r].name).name = tf[r].name
        BY <1>2, <3>3, StoredGroup DEF GroupInv, Stored
      <4>4. OwnerOf(tf') = OwnerOf(tf)
        BY <4>2, <4>3
      <4>5. QED
        BY <4>1, <4>4 DEF Store!storeVars
    <3>6. ASSUME NEW r \in Resource, Post(r) PROVE Store!StoreNext
      <4>1. /\ \A q \in Resource : q # r => tf'[q] = tf[q]
            /\ tf'[r] = IF Removing(r) THEN None ELSE config[r]
        BY <3>2, <3>6 DEF Post, Record
      <4>2. pc[r] = "post" /\ r \notin stale /\ groups' = Payload(r)
        BY <3>1, <3>6 DEF Post
      <4>3. CASE Creating(r) /\ config[r].name \notin DOMAIN groups
                 /\ Members(groups') = Bind(Members(groups), config[r].name, config[r].apps)
        <5> DEFINE k == config[r].name
        <5>1. OwnerOf(tf') = [OwnerOf(tf) EXCEPT ![r] = k]
          BY <3>2, <4>1, <4>3 DEF Creating, Removing, Deleting, Replacing, Kept
        <5>2. OwnerOf(tf)[r] = None /\ \A q \in Resource : OwnerOf(tf)[q] # k
          BY <3>2, <3>3, <4>3 DEF Creating
        <5>3. /\ k \in DOMAIN Members(groups') /\ k \notin DOMAIN Members(groups)
              /\ Members(groups') = Bind(Members(groups), k, Members(groups')[k])
          BY <4>3 DEF Bind, Members
        <5>4. QED
          BY <5>1, <5>2, <5>3
          DEF Store!StoreNext, Store!Adopt, Store!Owned, Store!Stores, Store!Bind, Bind, Members
      <4>4. CASE Updating(r) /\ config[r].name = tf[r].name
                 /\ Members(groups') = Bind(Members(groups), tf[r].name, config[r].apps)
        <5> DEFINE k == tf[r].name
        <5>1. OwnerOf(tf') = OwnerOf(tf) /\ OwnerOf(tf)[r] = k
          BY <3>2, <4>1, <4>4 DEF Updating, Removing, Deleting, Kept
        <5>2. /\ k \in DOMAIN Members(groups) /\ k \in DOMAIN Members(groups')
              /\ Members(groups') = [Members(groups) EXCEPT ![k] = Members(groups')[k]]
          BY <3>3, <4>4 DEF Bind, Members, Updating, Kept
        <5>3. QED
          BY <5>1, <5>2 DEF Store!StoreNext, Store!Change, Members
      <4>5. CASE Removing(r) /\ Members(groups') = Unbind(Members(groups), tf[r].name)
        <5>1. OwnerOf(tf') = [OwnerOf(tf) EXCEPT ![r] = None] /\ OwnerOf(tf)[r] = tf[r].name
          BY <4>1, <4>5 DEF Removing, Deleting, Replacing, Kept
        <5>2. tf[r].name \in DOMAIN Members(groups)
          BY <3>3, <4>5 DEF Members, Removing, Deleting, Replacing, Kept
        <5>3. Store!Drop(r)
          BY <4>5, <5>1, <5>2 DEF Store!Drop, Store!Unbind, Store!Restrict, Unbind, Restrict, Members
        <5>4. QED
          BY <5>3 DEF Store!StoreNext
      <4>6. QED
        BY <1>2, <4>2, <4>3, <4>4, <4>5, PostedMembers
    <3>7. ASSUME NEW r \in Resource, ImportState(r) PROVE Store!StoreNext
      <4>1. PICK n \in DOMAIN groups :
               /\ \A q \in Resource : tf[q] # None => tf[q].name # n
               /\ Import(r, Stored(n))
        BY <3>7 DEF ImportState
      <4>2. Stored(n) # None /\ n # None /\ Stored(n).name = n
        BY <1>2, <3>2, StoredGroup DEF GroupInv, Stored
      <4>3. OwnerOf(tf') = [OwnerOf(tf) EXCEPT ![r] = n] /\ OwnerOf(tf)[r] = None
        BY <3>2, <4>1, <4>2 DEF Import, Record
      <4>4. \A q \in Resource : OwnerOf(tf)[q] # n
        BY <4>1, <4>2
      <4>5. Members(groups') = Members(groups) /\ n \in DOMAIN Members(groups')
        BY <3>7 DEF ImportState, Members
      <4>6. QED
        BY <4>3, <4>4, <4>5 DEF Store!StoreNext, Store!Adopt, Store!Owned, Members
    <3>8. QED
      BY <1>2, <2>2, <3>4, <3>5, <3>6, <3>7, UndisturbedSteps
  <2>3. QED
    BY <2>1, <2>2
<1>3. QED
  BY <1>1, <1>2, GroupInvariant, PTL DEF Spec, ImplementsKeyedStore, Store!StoreSpec
=============================================================================
