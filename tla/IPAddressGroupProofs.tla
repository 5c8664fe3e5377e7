------------------------- MODULE IPAddressGroupProofs -------------------------
(***************************************************************************)
(* Theorems about IPAddressGroups for every value of its constants.        *)
(***************************************************************************)
EXTENDS IPAddressGroupProperties, TLAPS

\* A create that has looked its name up holds ipObjectMu, and unless the UI
\* was used since, the name is still unused.
CreatorsHoldLock ==
    \A r \in Resource : pc[r] = "create" =>
        lock = r /\ (r \in stale \/ config[r].name \notin DOMAIN groups)

\* Where a handler stands tells what it is there for.
OperationIsKnown ==
    \A r \in Resource :
        /\ pc[r] = "delete" => Removing(r)
        /\ pc[r] \in {"check", "create"} => Creating(r)
        /\ pc[r] = "update" => Updating(r)
        /\ pc[r] = "readback" => Creating(r) \/ Updating(r)

\* A block is what the operator declared.
ConfigIsWanted ==
    \A r \in Resource : config[r] # None => IsWanted(config[r]) /\ Sent(config[r].rules) \in Rules

\* A listing is outdated by edits in the UI only.
OnlyEditsOutdate == "edit" \notin happened => stale = {}

\* The group a resource has: the one in its state, or the one it has posted.
Held(r) == IF pc[r] = "readback" THEN config[r].name
           ELSE IF tf[r] = None THEN None ELSE tf[r].name

\* What resources have exists, and no group is had twice.
HeldAreDistinct ==
    Undisturbed =>
        /\ \A r \in Resource : Held(r) # None => Held(r) \in DOMAIN groups
        /\ \A q, r \in Resource : Held(q) # None /\ Held(q) = Held(r) => q = r

\* What was posted stays until it is read back.
PostedStays ==
    Undisturbed =>
        \A r \in Resource : pc[r] = "readback" =>
            groups[config[r].name] = Sent(config[r].rules)

IPInv ==
    /\ TypeOK /\ CreatorsHoldLock /\ OperationIsKnown /\ ConfigIsWanted
    /\ OnlyEditsOutdate /\ HeldAreDistinct /\ PostedStays

-----------------------------------------------------------------------------
(* Tables of groups. *)

\* What a table of groups is.
LEMMA GroupMapping ==
    ASSUME NEW f
    PROVE  f \in GroupMap <=>
             /\ f = [n \in DOMAIN f |-> f[n]]
             /\ DOMAIN f \subseteq Name
             /\ \A n \in DOMAIN f : f[n] \in Rules
BY DEF GroupMap

\* A group more, or in place of another one.
LEMMA BindGroup ==
    ASSUME NEW f \in GroupMap, NEW n \in Name, NEW g \in Rules
    PROVE  Bind(f, n, g) \in GroupMap
<1>1. /\ DOMAIN f \subseteq Name
      /\ \A m \in DOMAIN f : f[m] \in Rules
  BY GroupMapping
<1>2. /\ DOMAIN Bind(f, n, g) \subseteq Name
      /\ \A m \in DOMAIN Bind(f, n, g) : Bind(f, n, g)[m] \in Rules
  BY <1>1 DEF Bind
<1>3. QED
  BY <1>2, GroupMapping DEF Bind

\* A group less.
LEMMA UnbindGroup ==
    ASSUME NEW f \in GroupMap, NEW n
    PROVE  Unbind(f, n) \in GroupMap
<1>1. /\ DOMAIN f \subseteq Name
      /\ \A m \in DOMAIN f : f[m] \in Rules
  BY GroupMapping
<1>2. /\ DOMAIN Unbind(f, n) \subseteq Name
      /\ \A m \in DOMAIN Unbind(f, n) : Unbind(f, n)[m] \in Rules
  BY <1>1 DEF Unbind, Restrict
<1>3. QED
  BY <1>2, GroupMapping DEF Unbind, Restrict

\* What is recorded of a group is no absent resource.
LEMMA StoredGroup ==
    ASSUME TypeOK, NEW n \in DOMAIN groups
    PROVE  Stored(n) \in Group /\ Stored(n) # None /\ n # None
<1>1. n \in Name /\ groups[n] \in Rules
  BY GroupMapping DEF TypeOK
<1>2. QED
  BY <1>1, IPAddressGroupAssumption DEF Stored, Group

\* A POST is of a well-formed group.
LEMMA PostedGroups ==
    ASSUME IPInv, NEW r \in Resource, MayPost(r), Posted(r)
    PROVE  groups' \in GroupMap
<1>1. config[r] # None
  BY DEF IPInv, OperationIsKnown, MayPost, Creating, Updating, Kept
<1>2. config[r].name \in Name /\ Sent(config[r].rules) \in Rules
  BY <1>1 DEF IPInv, ConfigIsWanted, IsWanted
<1>3. QED
  BY <1>2, BindGroup DEF Posted, IPInv, TypeOK

-----------------------------------------------------------------------------
(* The invariant. *)

LEMMA IPInit == Init => IPInv
<1> SUFFICES ASSUME Init PROVE IPInv
  OBVIOUS
<1>1. TypeOK
  BY IPAddressGroupAssumption, TerraformAssumption
  DEF Init, TerraformInit, TypeOK, TerraformTypeOK, Ended
<1>2. CreatorsHoldLock /\ OperationIsKnown /\ ConfigIsWanted
  BY DEF Init, TerraformInit, CreatorsHoldLock, OperationIsKnown, ConfigIsWanted
<1>3. OnlyEditsOutdate /\ HeldAreDistinct /\ PostedStays
  BY DEF Init, TerraformInit, OnlyEditsOutdate, HeldAreDistinct, Held, PostedStays
<1>4. QED
  BY <1>1, <1>2, <1>3 DEF IPInv

LEMMA IPTypeStep == IPInv /\ [Next]_vars => TypeOK'
<1> SUFFICES ASSUME IPInv, [Next]_vars PROVE TypeOK'
  OBVIOUS
<1> USE DEF IPInv, TerraformTypeOK
<1>1. CASE StartRun
  <2>1. config' \in Configs
    BY <1>1 DEF StartRun, StartTerraform
  <2>2. \A r \in Resource : config'[r] \in Wanted
    BY <2>1 DEF Wanted
  <2>3. config' \in [Resource -> Wanted \cup {None}]
    BY <2>1, <2>2, TerraformAssumption
  <2>4. QED
    BY <1>1, <2>3 DEF StartRun, StartTerraform, TypeOK, Planning
<1>2. CASE EndPlanning
  BY <1>2 DEF EndPlanning, ApplyPlan, TypeOK, Planning, Ended, Applying, budgets
<1>3. ASSUME NEW r \in Resource, Read(r) PROVE TypeOK'
  <2>1. tf' \in [Resource -> Group \cup {None}]
    BY <1>3, StoredGroup DEF Read, Record, TypeOK
  <2>2. QED
    BY <1>3, <2>1 DEF Read, Refreshed, Goto, TypeOK, Planning, budgets
<1>4. ASSUME NEW r \in Resource, CheckName(r) \/ DeleteUnknown(r) PROVE TypeOK'
  BY <1>4 DEF CheckName, DeleteUnknown, Goto, TypeOK, Ended, Applying, budgets
<1>5. ASSUME NEW r \in Resource, Post(r) PROVE TypeOK'
  <2>1. groups' \in GroupMap
    BY <1>5, PostedGroups DEF Post
  <2>2. QED
    BY <1>5, <2>1 DEF Post, Released, Goto, TypeOK, Applying, budgets
<1>6. ASSUME NEW r \in Resource, ReadBack(r) PROVE TypeOK'
  <2>1. tf' \in [Resource -> Group \cup {None}]
    BY <1>6, StoredGroup DEF ReadBack, Record, TypeOK
  <2>2. QED
    BY <1>6, <2>1 DEF ReadBack, Goto, TypeOK, Ended, budgets
<1>7. ASSUME NEW r \in Resource, Delete(r) PROVE TypeOK'
  <2>1. groups' \in GroupMap
    BY <1>7, UnbindGroup DEF Delete, Without, TypeOK
  <2>2. tf' \in [Resource -> Group \cup {None}]
    BY <1>7 DEF Delete, Record, TypeOK
  <2>3. pc' \in [Resource -> Ended \cup Planning \cup Applying]
    BY <1>7 DEF Delete, Goto, TypeOK, Ended, Applying
  <2>4. QED
    BY <1>7, <2>1, <2>2, <2>3 DEF Delete, TypeOK, budgets
<1>8. ASSUME NEW r \in Resource, PostLost(r) \/ DeleteLost(r) PROVE TypeOK'
  <2>1. groups' \in GroupMap
    BY <1>8, PostedGroups, UnbindGroup DEF PostLost, DeleteLost, Without, TypeOK
  <2>2. LoseAnswer(r)
    BY <1>8 DEF PostLost, DeleteLost
  <2>3. QED
    BY <2>1, <2>2 DEF LoseAnswer, Released, Goto, TypeOK, Ended
<1>9. ASSUME NEW r \in Resource, RequestFails(r) PROVE TypeOK'
  BY <1>9 DEF RequestFails, FailRequest, Fault, Released, Goto, TypeOK, Ended, Planning
<1>10. ASSUME NEW r \in Resource, ImportState(r) PROVE TypeOK'
  <2>1. PICK n \in DOMAIN groups : Import(r, Stored(n))
    BY <1>10 DEF ImportState
  <2>2. QED
    BY <1>10, <2>1, StoredGroup DEF ImportState, Import, Record, TypeOK, budgets
<1>11. CASE UIEdit
  <2>1. groups' \in GroupMap
    BY <1>11, BindGroup, UnbindGroup DEF UIEdit, Without, TypeOK
  <2>2. QED
    BY <1>11, <2>1 DEF UIEdit, EditedInUI, TypeOK
<1>12. CASE Rest \/ UNCHANGED vars
  BY <1>12 DEF Rest, vars, tfVars, budgets, TypeOK
<1>13. QED
  BY <1>1, <1>2, <1>3, <1>4, <1>5, <1>6, <1>7, <1>8, <1>9, <1>10, <1>11, <1>12
  DEF Next, Handler

\* Only a start of a run changes the configuration.
LEMMA IPConfigStep == IPInv /\ [Next]_vars => ConfigIsWanted'
<1> SUFFICES ASSUME IPInv, [Next]_vars, NEW r \in Resource, config'[r] # None
             PROVE  IsWanted(config'[r]) /\ Sent(config'[r].rules) \in Rules
  BY DEF ConfigIsWanted
<1>1. CASE config' \in Configs
  BY <1>1, IPAddressGroupAssumption
<1>2. CASE config' = config
  BY <1>2 DEF IPInv, ConfigIsWanted
<1>3. QED
  BY <1>1, <1>2
  DEF Next, Handler, StartRun, StartTerraform, EndPlanning, ApplyPlan, Read, Refreshed, CheckName,
      Post, ReadBack, Delete, DeleteUnknown, PostLost, DeleteLost, LoseAnswer, RequestFails,
      FailRequest, ImportState, Import, UIEdit, EditedInUI, Rest, vars, tfVars

LEMMA IPOutdatedStep == IPInv /\ [Next]_vars => OnlyEditsOutdate'
<1> SUFFICES ASSUME IPInv, [Next]_vars, "edit" \notin happened' PROVE stale' = {}
  BY DEF OnlyEditsOutdate
<1> USE DEF IPInv, OnlyEditsOutdate, budgets
<1>1. CASE StartRun \/ EndPlanning
  BY <1>1 DEF StartRun, StartTerraform, EndPlanning, ApplyPlan
<1>2. ASSUME NEW r \in Resource, Handler(r) PROVE stale' = {}
  BY <1>2 DEF Handler, Read, Refreshed, CheckName, Post, ReadBack, Delete, DeleteUnknown
<1>3. ASSUME NEW r \in Resource,
             PostLost(r) \/ DeleteLost(r) \/ RequestFails(r) \/ ImportState(r)
      PROVE  stale' = {}
  BY <1>3 DEF PostLost, DeleteLost, LoseAnswer, RequestFails, FailRequest, Fault, ImportState, Import
<1>4. CASE UIEdit
  BY <1>4 DEF UIEdit, EditedInUI
<1>5. CASE Rest \/ UNCHANGED vars
  BY <1>5 DEF Rest, vars, tfVars
<1>6. QED
  BY <1>1, <1>2, <1>3, <1>4, <1>5 DEF Next

\* What a handler is there for does not change while it is at work.
LEMMA IPOperationStep == IPInv /\ [Next]_vars => OperationIsKnown'
<1> DEFINE Known(q) == /\ pc'[q] = "delete" => Removing(q)'
                       /\ pc'[q] \in {"check", "create"} => Creating(q)'
                       /\ pc'[q] = "update" => Updating(q)'
                       /\ pc'[q] = "readback" => Creating(q)' \/ Updating(q)'
<1> SUFFICES ASSUME IPInv, [Next]_vars, NEW q \in Resource PROVE Known(q)
  BY DEF OperationIsKnown
<1> USE DEF IPInv, TypeOK, TerraformTypeOK, OperationIsKnown,
            Removing, Replacing, Updating, Creating, Deleting, Kept
<1>1. CASE StartRun
  BY <1>1 DEF StartRun, StartTerraform
<1>2. CASE EndPlanning
  BY <1>2 DEF EndPlanning, ApplyPlan
<1>3. ASSUME NEW r \in Resource, Handler(r) PROVE Known(q)
  <2>1. CASE Read(r)
    BY <2>1 DEF Read, Refreshed, Record, Goto
  <2>2. CASE CheckName(r) \/ DeleteUnknown(r)
    BY <2>2 DEF CheckName, DeleteUnknown, Goto
  <2>3. CASE Post(r)
    BY <2>3 DEF Post, MayPost, Goto
  <2>4. CASE ReadBack(r)
    BY <2>4 DEF ReadBack, Record, Goto
  <2>5. CASE Delete(r)
    BY <2>5 DEF Delete, Record, Goto
  <2>6. QED
    BY <1>3, <2>1, <2>2, <2>3, <2>4, <2>5 DEF Handler
<1>4. ASSUME NEW r \in Resource, PostLost(r) \/ DeleteLost(r) \/ RequestFails(r) PROVE Known(q)
  BY <1>4 DEF PostLost, DeleteLost, LoseAnswer, RequestFails, FailRequest, Fault, Goto
<1>5. ASSUME NEW r \in Resource, ImportState(r) PROVE Known(q)
  BY <1>5 DEF ImportState, Import, Record, AllEnded, Ended
<1>6. CASE UIEdit \/ Rest \/ UNCHANGED vars
  BY <1>6 DEF UIEdit, EditedInUI, Rest, vars, tfVars
<1>7. QED
  BY <1>1, <1>2, <1>3, <1>4, <1>5, <1>6 DEF Next

\* Who changes groups holds ipObjectMu or finds it free: a create that has
\* looked its name up is not disturbed between the lookup and its POST.
LEMMA IPLockStep == IPInv /\ [Next]_vars => CreatorsHoldLock'
<1> DEFINE Holds(q) == lock' = q /\ (q \in stale' \/ config'[q].name \notin DOMAIN groups')
<1> SUFFICES ASSUME IPInv, [Next]_vars, NEW q \in Resource, pc'[q] = "create" PROVE Holds(q)
  BY DEF CreatorsHoldLock
<1> USE DEF IPInv, TypeOK, TerraformTypeOK, CreatorsHoldLock
<1>1. CASE StartRun \/ EndPlanning
  BY <1>1 DEF StartRun, StartTerraform, EndPlanning, ApplyPlan
<1>2. ASSUME NEW r \in Resource, Handler(r) PROVE Holds(q)
  <2>1. CASE Read(r) \/ ReadBack(r) \/ DeleteUnknown(r)
    BY <2>1 DEF Read, Refreshed, ReadBack, DeleteUnknown, Goto
  <2>2. CASE CheckName(r)
    BY <2>2, TerraformAssumption DEF CheckName, Goto
  <2>3. CASE Post(r)
    <3>1. pc[q] = "create" /\ q # r
      BY <2>3 DEF Post, Goto
    <3>2. QED
      BY <2>3, <3>1, TerraformAssumption DEF Post, MayPost
  <2>4. CASE Delete(r)
    <3>1. pc[q] = "create"
      BY <2>4 DEF Delete, Goto
    <3>2. QED
      BY <2>4, <3>1, TerraformAssumption DEF Delete
  <2>5. QED
    BY <1>2, <2>1, <2>2, <2>3, <2>4 DEF Handler
<1>3. ASSUME NEW r \in Resource, PostLost(r) \/ DeleteLost(r) PROVE Holds(q)
  <2>1. pc[q] = "create" /\ q # r
    BY <1>3 DEF PostLost, DeleteLost, LoseAnswer, Goto
  <2>2. QED
    BY <1>3, <2>1, TerraformAssumption DEF PostLost, DeleteLost, MayPost
<1>4. ASSUME NEW r \in Resource, RequestFails(r) PROVE Holds(q)
  BY <1>4 DEF RequestFails, FailRequest, Fault, Goto, Released
<1>5. ASSUME NEW r \in Resource, ImportState(r) PROVE Holds(q)
  BY <1>5 DEF ImportState, Import
<1>6. CASE UIEdit
  BY <1>6 DEF UIEdit, EditedInUI
<1>7. CASE Rest \/ UNCHANGED vars
  BY <1>7 DEF Rest, vars, tfVars
<1>8. QED
  BY <1>1, <1>2, <1>3, <1>4, <1>5, <1>6, <1>7 DEF Next

\* Nothing makes up for a disturbance.
LEMMA DisturbanceStays ==
    ASSUME [Next]_vars, Undisturbed'
    PROVE  Undisturbed
BY DEF Next, Handler, StartRun, StartTerraform, EndPlanning, ApplyPlan, Read, Refreshed, CheckName,
       Post, ReadBack, Delete, DeleteUnknown, PostLost, DeleteLost, LoseAnswer, RequestFails,
       FailRequest, Fault, ImportState, Import, UIEdit, EditedInUI, Rest, vars, tfVars, budgets,
       Undisturbed

\* Undisturbed, there is no edit and every answer arrives.
LEMMA UndisturbedSteps ==
    ASSUME [Next]_vars, Undisturbed'
    PROVE  \/ StartRun \/ EndPlanning \/ UNCHANGED vars
           \/ \E r \in Resource : Handler(r) \/ RequestFails(r) \/ ImportState(r)
<1>1. ~UIEdit /\ \A r \in Resource : ~PostLost(r) /\ ~DeleteLost(r)
  BY DEF UIEdit, EditedInUI, PostLost, DeleteLost, LoseAnswer, Undisturbed
<1>2. QED
  BY <1>1 DEF Next, Rest

\* A block posts the group of nobody else.
LEMMA PostIsOwn ==
    ASSUME IPInv, Undisturbed, NEW r \in Resource, Post(r)
    PROVE  /\ config[r].name # None
           /\ Held(r) \in {None, config[r].name}
           /\ Held(r) = None => config[r].name \notin DOMAIN groups
           /\ Held(r) = None <=> tf[r] = None
<1>1. config[r] # None /\ config[r].name \in Name
  BY DEF IPInv, OperationIsKnown, ConfigIsWanted, IsWanted, Post, MayPost, Creating, Updating, Kept
<1>2. CASE pc[r] = "create"
  <2>1. tf[r] = None /\ r \notin stale
    BY <1>2 DEF IPInv, OperationIsKnown, Creating, OnlyEditsOutdate, Undisturbed
  <2>2. QED
    BY <1>1, <1>2, <2>1, IPAddressGroupAssumption DEF Held, IPInv, CreatorsHoldLock
<1>3. CASE pc[r] = "update"
  BY <1>1, <1>3, IPAddressGroupAssumption
  DEF Held, IPInv, OperationIsKnown, Updating, Replacing, Kept
<1>4. QED
  BY <1>2, <1>3 DEF Post, MayPost

\* What a resource has is taken away, or replaced, by nobody else.
LEMMA IPHeldStep == IPInv /\ TypeOK' /\ [Next]_vars => HeldAreDistinct' /\ PostedStays'
<1> DEFINE Exist    == \A q \in Resource : Held(q)' # None => Held(q)' \in DOMAIN groups'
           Distinct == \A p, q \in Resource : Held(p)' # None /\ Held(p)' = Held(q)' => p = q
           Stay     == \A q \in Resource : pc'[q] = "readback" =>
                           groups'[config'[q].name] = Sent(config'[q].rules)
<1> SUFFICES ASSUME IPInv, TypeOK', [Next]_vars, Undisturbed' PROVE Exist /\ Distinct /\ Stay
  BY DEF HeldAreDistinct, PostedStays
<1>1. Undisturbed
  BY DisturbanceStays
<1>2. /\ \A q \in Resource : Held(q) # None => Held(q) \in DOMAIN groups
      /\ \A p, q \in Resource : Held(p) # None /\ Held(p) = Held(q) => p = q
      /\ \A q \in Resource : pc[q] = "readback" => groups[config[q].name] = Sent(config[q].rules)
  BY <1>1 DEF IPInv, HeldAreDistinct, PostedStays
<1>3. /\ tf \in [Resource -> Group \cup {None}] /\ DOMAIN pc = Resource
      /\ DOMAIN tf' = Resource
  BY DEF IPInv, TypeOK, TerraformTypeOK
<1>4. ASSUME UNCHANGED groups,
             \A q \in Resource : Held(q)' \in {None, Held(q)},
             \A q \in Resource : pc'[q] = "readback" => pc[q] = "readback" /\ config'[q] = config[q]
      PROVE  Exist /\ Distinct /\ Stay
  BY <1>2, <1>4
<1>5. CASE StartRun \/ EndPlanning \/ UNCHANGED vars
  <2>1. \A q \in Resource : Held(q)' = Held(q)
    BY <1>5 DEF StartRun, StartTerraform, EndPlanning, ApplyPlan, AllEnded, Ended, vars, tfVars, Held
  <2>2. QED
    BY <1>4, <1>5, <2>1 DEF StartRun, StartTerraform, EndPlanning, ApplyPlan, vars, tfVars
<1>6. ASSUME NEW r \in Resource, Read(r) \/ CheckName(r) \/ DeleteUnknown(r) \/ ReadBack(r)
      PROVE  Exist /\ Distinct /\ Stay
  <2>1. \A q \in Resource : q # r => Held(q)' = Held(q)
    BY <1>3, <1>6
    DEF Read, Refreshed, Record, CheckName, DeleteUnknown, ReadBack, Goto, Held
  <2>2. Held(r)' \in {None, Held(r)}
    <3>1. CASE Read(r)
      BY <1>3, <3>1, StoredGroup DEF Read, Refreshed, Record, Goto, Held, Stored, IPInv
    <3>2. CASE CheckName(r) \/ DeleteUnknown(r)
      BY <1>3, <3>2 DEF CheckName, DeleteUnknown, Goto, Held
    <3>3. CASE ReadBack(r)
      <4>1. pc'[r] # "readback" /\ Held(r) = config[r].name
        BY <1>3, <3>3 DEF ReadBack, Goto, Held
      <4>2. tf'[r] = tf[r] \/ (config[r].name \in DOMAIN groups /\ tf'[r] = Stored(config[r].name))
        BY <1>3, <3>3 DEF ReadBack, Record
      <4>3. tf[r] = None \/ tf[r].name = config[r].name
        BY <3>3 DEF ReadBack, IPInv, OperationIsKnown, Creating, Updating, Replacing, Kept
      <4>4. QED
        BY <4>1, <4>2, <4>3, StoredGroup DEF Held, Stored, IPInv
    <3>4. QED
      BY <1>6, <3>1, <3>2, <3>3
  <2>3. UNCHANGED <<groups, config>> /\ pc'[r] # "readback"
          /\ \A q \in Resource : q # r => pc'[q] = pc[q]
    BY <1>3, <1>6 DEF Read, Refreshed, CheckName, DeleteUnknown, ReadBack, Goto
  <2>4. QED
    BY <1>4, <2>1, <2>2, <2>3
<1>7. ASSUME NEW r \in Resource, RequestFails(r) PROVE Exist /\ Distinct /\ Stay
  <2>1. \A q \in Resource : q # r => Held(q)' = Held(q)
    BY <1>3, <1>7 DEF RequestFails, FailRequest, Goto, Held
  <2>2. UNCHANGED <<groups, config, tf>> /\ pc'[r] # "readback"
          /\ \A q \in Resource : q # r => pc'[q] = pc[q]
    BY <1>3, <1>7 DEF RequestFails, FailRequest, Goto
  <2>3. Held(r)' \in {None, Held(r)}
    BY <2>2 DEF Held, IPInv, OperationIsKnown, Creating, Updating, Replacing, Kept
  <2>4. QED
    BY <1>4, <2>1, <2>2, <2>3
<1>8. ASSUME NEW r \in Resource, Post(r) PROVE Exist /\ Distinct /\ Stay
  <2>1. /\ \A q \in Resource : q # r => Held(q)' = Held(q) /\ pc'[q] = pc[q]
        /\ Held(r)' = config[r].name /\ UNCHANGED config
    BY <1>3, <1>8 DEF Post, Goto, Held
  <2>2. /\ DOMAIN groups' = DOMAIN groups \cup {config[r].name}
        /\ groups'[config[r].name] = Sent(config[r].rules)
        /\ \A n \in DOMAIN groups : n # config[r].name => groups'[n] = groups[n]
    BY <1>8 DEF Post, Posted, Bind
  <2>3. \A q \in Resource : q # r => Held(q) # config[r].name
    BY <1>1, <1>2, <1>8, PostIsOwn
  <2>4. \A q \in Resource : pc[q] = "readback" =>
           Held(q) = config[q].name /\ (config[q].name = None \/ config[q].name \in DOMAIN groups)
    BY <1>2 DEF Held
  <2>5. \A q \in Resource : pc[q] = "readback" => config[q].name # None
    BY IPAddressGroupAssumption
    DEF IPInv, OperationIsKnown, ConfigIsWanted, IsWanted, Creating, Updating, Kept
  <2>6. QED
    BY <1>2, <2>1, <2>2, <2>3, <2>4, <2>5
<1>9. ASSUME NEW r \in Resource, Delete(r) PROVE Exist /\ Distinct /\ Stay
  <2>1. /\ \A q \in Resource : q # r => Held(q)' = Held(q) /\ pc'[q] = pc[q]
        /\ Held(r)' = None /\ pc'[r] # "readback" /\ UNCHANGED config
    BY <1>3, <1>9 DEF Delete, Record, Goto, Held
  <2>2. /\ DOMAIN groups' = DOMAIN groups \ {tf[r].name}
        /\ \A n \in DOMAIN groups' : groups'[n] = groups[n]
    BY <1>9 DEF Delete, Without, Unbind, Restrict
  <2>3. Held(r) = tf[r].name /\ Held(r) # None
    BY <1>9, StoredGroup
    DEF Delete, Held, IPInv, OperationIsKnown, Removing, Deleting, Replacing, Kept
  <2>4. \A q \in Resource : q # r => Held(q) # tf[r].name
    BY <1>2, <2>3
  <2>5. \A q \in Resource : pc[q] = "readback" => Held(q) = config[q].name /\ config[q].name # None
    BY IPAddressGroupAssumption
    DEF Held, IPInv, OperationIsKnown, ConfigIsWanted, IsWanted, Creating, Updating, Kept
  <2>6. QED
    BY <1>2, <2>1, <2>2, <2>4, <2>5
<1>10. ASSUME NEW r \in Resource, ImportState(r) PROVE Exist /\ Distinct /\ Stay
  <2>1. PICK n \in DOMAIN groups :
           /\ \A q \in Resource : tf[q] # None => tf[q].name # n
           /\ Import(r, Stored(n))
    BY <1>10 DEF ImportState
  <2>2. \A q \in Resource : pc[q] # "readback" /\ pc'[q] = pc[q]
    BY <2>1 DEF Import, AllEnded, Ended
  <2>3. n # None /\ Stored(n) # None /\ Stored(n).name = n
    BY StoredGroup DEF IPInv, Stored
  <2>4. /\ \A q \in Resource : q # r => Held(q)' = Held(q) /\ Held(q) # n
        /\ Held(r)' = n /\ UNCHANGED groups
    BY <1>3, <1>10, <2>1, <2>2, <2>3 DEF Import, Record, Held, ImportState
  <2>5. QED
    BY <1>2, <2>2, <2>4
<1>11. QED
  BY <1>5, <1>6, <1>7, <1>8, <1>9, <1>10, UndisturbedSteps DEF Handler

LEMMA IPInvariant == Spec => []IPInv
<1>1. IPInv /\ [Next]_vars => IPInv'
  BY IPTypeStep, IPLockStep, IPOperationStep, IPConfigStep, IPOutdatedStep, IPHeldStep DEF IPInv
<1>2. QED
  BY IPInit, <1>1, PTL DEF Spec

-----------------------------------------------------------------------------

\* Every variable keeps its type: what is posted is a group whose lists are
\* lists, also where the configuration leaves them out.
THEOREM IPGroupsTypeCorrect == Spec => []TypeOK
<1>1. IPInv => TypeOK
  BY DEF IPInv
<1>2. QED
  BY <1>1, IPInvariant, PTL

\* A create replaces no group, because the lookup and the upsert are one
\* critical section, with any number of blocks that declare one name.
THEOREM IPCreatesReplaceNothing == Spec => CreateReplacesNothing
<1>1. IPInv /\ [Next]_vars =>
        [\A r \in Resource :
           pc[r] = "create" /\ pc'[r] # "create" /\ groups' # groups =>
              r \in stale \/ config[r].name \notin DOMAIN groups]_vars
  BY DEF IPInv, CreatorsHoldLock
<1>2. QED
  BY <1>1, IPInvariant, PTL DEF Spec, CreateReplacesNothing

\* The configuration of a block whose rules set every list is a group.
LEMMA ConfiguredGroup ==
    ASSUME IPInv, NEW r \in Resource, config[r] # None, SetsEveryList(config[r].rules)
    PROVE  config[r] \in Group /\ Sent(config[r].rules) = config[r].rules
<1> DEFINE R == config[r].rules
<1>1. /\ config[r] = [name |-> config[r].name, rules |-> R]
      /\ config[r].name \in Name
      /\ R \in Seq(Rule(Lists \cup {Null}))
      /\ Sent(R) \in Rules
  BY DEF IPInv, ConfigIsWanted, IsWanted
<1>2. SetsEveryList(R)
  OBVIOUS
<1> HIDE DEF R
<1>3. ASSUME NEW i \in DOMAIN R
      PROVE  [R[i] EXCEPT !.lists = [f \in ListFields |-> IF @[f] = Null THEN <<>> ELSE @[f]]] = R[i]
  <2>1. R[i] \in Rule(Lists \cup {Null})
    BY <1>1, <1>3
  <2>2. [f \in ListFields |-> IF R[i].lists[f] = Null THEN <<>> ELSE R[i].lists[f]] = R[i].lists
    BY <1>2, <1>3, <2>1 DEF Rule, SetsEveryList
  <2>3. QED
    BY <2>1, <2>2 DEF Rule
<1>4. Sent(R) = [i \in DOMAIN R |-> R[i]]
  BY <1>3 DEF Sent
<1>5. R = [i \in DOMAIN R |-> R[i]]
  BY <1>1
<1>6. Sent(R) = R
  BY <1>4, <1>5
<1>7. config[r] \in Group
  BY <1>1, <1>6 DEF Group
<1>8. QED
  BY <1>6, <1>7 DEF R

\* What is read back after a write is what was planned, for every block whose
\* rules set every list, whatever the other blocks declare: nobody touches
\* the group between the POST and the read-back, although both leave the
\* mutex in between.
THEOREM ResultsAreConsistent == Spec => ResultIsConsistent
<1>1. ASSUME IPInv, [Next]_vars, NEW r \in Resource, pc[r] = "readback", pc'[r] = "failed",
             SetsEveryList(config[r].rules)
      PROVE  faults' < faults \/ ~Undisturbed
  <2>1. ReadBack(r) \/ RequestFails(r)
    BY <1>1
    DEF IPInv, TypeOK, TerraformTypeOK, Next, Handler, StartRun, StartTerraform, EndPlanning, ApplyPlan,
        Read, Refreshed, CheckName, Post, MayPost, ReadBack, Delete, DeleteUnknown, PostLost, DeleteLost,
        LoseAnswer, RequestFails, FailRequest, ImportState, Import, UIEdit, EditedInUI, Rest, vars,
        tfVars, Goto
  <2>2. CASE RequestFails(r)
    BY <1>1, <2>2 DEF RequestFails, FailRequest, Fault, IPInv, TypeOK, TerraformTypeOK
  <2>3. CASE ReadBack(r) /\ Undisturbed
    <3>1. config[r] # None
      BY <1>1 DEF IPInv, OperationIsKnown, Creating, Updating, Kept
    <3>2. config[r] \in Group /\ Sent(config[r].rules) = config[r].rules
      BY <1>1, <3>1, ConfiguredGroup
    <3>3. Held(r) = config[r].name /\ config[r].name # None
      BY <1>1, <3>1, <3>2, IPAddressGroupAssumption DEF Held, Group
    <3>4. config[r].name \in DOMAIN groups
      BY <2>3, <3>3, <1>1 DEF IPInv, HeldAreDistinct
    <3>5. groups[config[r].name] = config[r].rules
      BY <1>1, <2>3, <3>2 DEF IPInv, PostedStays
    <3>6. Stored(config[r].name) = config[r]
      BY <3>2, <3>5 DEF Stored, Group
    <3>7. QED
      BY <1>1, <2>3, <3>4, <3>6 DEF ReadBack, Goto, IPInv, TypeOK, TerraformTypeOK
  <2>4. QED
    BY <2>1, <2>2, <2>3
<1>2. IPInv /\ [Next]_vars =>
        [\A r \in Resource :
           pc[r] = "readback" /\ pc'[r] = "failed" /\ SetsEveryList(config[r].rules) =>
              faults' < faults \/ ~Undisturbed]_vars
  BY <1>1
<1>3. QED
  BY <1>2, IPInvariant, PTL DEF Spec, ResultIsConsistent

\* Upserts and deletes by name implement a store in which an operation touches
\* the object of its resource only, until the UI is used or an answer is lost.
THEOREM IPGroupsImplementKeyedStore == Spec => ImplementsKeyedStore
<1> DEFINE OwnerOf(state) == [r \in Resource |-> IF state[r] = None THEN None ELSE state[r].name]
<1>1. Init => Store!StoreInit
  BY DEF Init, TerraformInit, Store!StoreInit, Undisturbed
<1>2. ASSUME IPInv, IPInv', [Next]_vars
      PROVE  [Store!StoreNext]_(Store!storeVars)
  <2>1. CASE ~Undisturbed'
    BY <2>1 DEF Store!StoreNext
  <2>2. CASE Undisturbed'
    <3>1. Undisturbed
      BY <1>2, <2>2, DisturbanceStays
    <3>2. /\ tf \in [Resource -> Group \cup {None}] /\ TypeOK
          /\ \A g \in Group : g # None /\ g.name # None
      BY <1>2, IPAddressGroupAssumption DEF IPInv, TypeOK, TerraformTypeOK, Group
    <3>3. /\ \A r \in Resource : Held(r) # None => Held(r) \in DOMAIN groups
          /\ \A q, r \in Resource : Held(q) # None /\ Held(q) = Held(r) => q = r
      BY <1>2, <3>1 DEF IPInv, HeldAreDistinct
    <3>4. ASSUME UNCHANGED <<tf, groups>> PROVE UNCHANGED Store!storeVars
      BY <2>2, <3>1, <3>4 DEF Store!storeVars
    <3>5. ASSUME NEW r \in Resource, Read(r) PROVE UNCHANGED Store!storeVars
      <4>1. /\ groups' = groups
            /\ \A q \in Resource : q # r => tf'[q] = tf[q]
        BY <3>2, <3>5 DEF Read, Record
      <4>2. tf[r] # None => tf[r].name \in DOMAIN groups
        BY <3>2, <3>3, <3>5 DEF Read, Held
      <4>3. tf'[r] = tf[r] \/ (tf[r] # None /\ tf'[r] = Stored(tf[r].name))
        BY <3>2, <3>5, <4>2 DEF Read, Record
      <4>4. tf[r] # None => Stored(tf[r].name) # None /\ Stored(tf[r].name).name = tf[r].name
        BY <3>2, <4>2, StoredGroup DEF Stored
      <4>5. OwnerOf(tf') = OwnerOf(tf)
        BY <4>1, <4>3, <4>4
      <4>6. QED
        BY <2>2, <3>1, <4>1, <4>5 DEF Store!storeVars
    <3>6. ASSUME NEW r \in Resource, Post(r) PROVE Store!StoreNext
      <4> DEFINE k == config[r].name
      <4>1. /\ groups' = Bind(groups, k, groups'[k]) /\ k \in DOMAIN groups'
            /\ tf' = tf
        BY <3>6 DEF Post, Posted, Bind
      <4>2. CASE tf[r] = None
        <5>1. k \notin DOMAIN groups
          BY <1>2, <3>1, <3>6, <4>2, PostIsOwn
        <5>2. QED
          BY <4>1, <5>1 DEF Store!StoreNext, Store!Add, Store!Stores, Store!Bind, Bind
      <4>3. CASE tf[r] # None
        <5>1. tf[r].name = k /\ k \in DOMAIN groups
          <6>1. pc[r] # "readback"
            BY <3>6 DEF Post, MayPost
          <6>2. QED
            BY <1>2, <3>1, <3>2, <3>3, <3>6, <4>3, <6>1, PostIsOwn DEF Held
        <5>2. OwnerOf(tf') = OwnerOf(tf) /\ OwnerOf(tf)[r] = k
          BY <4>1, <4>3, <5>1
        <5>3. groups' = [groups EXCEPT ![k] = groups'[k]]
          BY <1>2, <4>1, <5>1, GroupMapping DEF Bind, IPInv, TypeOK
        <5>4. QED
          BY <4>1, <5>1, <5>2, <5>3 DEF Store!StoreNext, Store!Change
      <4>4. QED
        BY <4>2, <4>3
    <3>7. ASSUME NEW r \in Resource, ReadBack(r) PROVE [Store!StoreNext]_(Store!storeVars)
      <4> DEFINE k == config[r].name
      <4>1. groups' = groups /\ pc[r] = "readback"
        BY <3>7 DEF ReadBack
      <4>2. CASE tf' = tf
        BY <3>4, <4>1, <4>2
      <4>3. CASE k \in DOMAIN groups /\ Record(r, Stored(k))
        <5>1. Stored(k) # None /\ Stored(k).name = k /\ k # None
          BY <3>2, <4>3, StoredGroup DEF Stored
        <5>2. OwnerOf(tf') = [OwnerOf(tf) EXCEPT ![r] = k]
          BY <3>2, <4>3, <5>1 DEF Record
        <5>3. CASE tf[r] # None
          <6>1. tf[r].name = k
            BY <1>2, <4>1, <5>3 DEF IPInv, OperationIsKnown, Creating, Updating, Replacing, Kept
          <6>2. OwnerOf(tf') = OwnerOf(tf)
            BY <5>2, <5>3, <6>1
          <6>3. QED
            BY <2>2, <3>1, <4>1, <6>2 DEF Store!storeVars
        <5>4. CASE tf[r] = None
          <6>1. OwnerOf(tf)[r] = None
            BY <5>4
          <6>2. ASSUME NEW q \in Resource PROVE OwnerOf(tf)[q] # k
            <7>1. Held(r) = k
              BY <4>1 DEF Held
            <7>2. CASE q = r
              BY <5>1, <6>1, <7>2
            <7>3. CASE q # r /\ tf[q] # None
              <8>1. Held(q) = tf[q].name
                BY <1>2, <7>3 DEF Held, IPInv, OperationIsKnown, Creating, Updating, Replacing, Kept
              <8>2. QED
                BY <3>3, <5>1, <7>1, <7>3, <8>1
            <7>4. CASE tf[q] = None
              BY <5>1, <7>4
            <7>5. QED
              BY <7>2, <7>3, <7>4
          <6>3. QED
            BY <4>1, <4>3, <5>2, <6>1, <6>2
            DEF Store!StoreNext, Store!Adopt, Store!Owned
        <5>5. QED
          BY <5>3, <5>4
      <4>4. QED
        BY <3>7, <4>2, <4>3 DEF ReadBack
    <3>8. ASSUME NEW r \in Resource, Delete(r) PROVE Store!StoreNext
      <4>1. tf[r] # None
        BY <1>2, <3>8
        DEF Delete, IPInv, OperationIsKnown, Removing, Deleting, Replacing, Kept
      <4>2. OwnerOf(tf') = [OwnerOf(tf) EXCEPT ![r] = None] /\ OwnerOf(tf)[r] = tf[r].name
        BY <3>2, <3>8, <4>1 DEF Delete, Record
      <4>3. groups' = Unbind(groups, tf[r].name) /\ tf[r].name \in DOMAIN groups
        BY <3>8 DEF Delete, Without
      <4>4. Store!Drop(r)
        BY <4>2, <4>3 DEF Store!Drop, Store!Unbind, Store!Restrict, Unbind, Restrict
      <4>5. QED
        BY <4>4 DEF Store!StoreNext
    <3>9. ASSUME NEW r \in Resource, ImportState(r) PROVE Store!StoreNext
      <4>1. PICK n \in DOMAIN groups :
               /\ \A q \in Resource : tf[q] # None => tf[q].name # n
               /\ Import(r, Stored(n))
        BY <3>9 DEF ImportState
      <4>2. Stored(n) # None /\ n # None /\ Stored(n).name = n
        BY <3>2, StoredGroup DEF Stored
      <4>3. OwnerOf(tf') = [OwnerOf(tf) EXCEPT ![r] = n] /\ OwnerOf(tf)[r] = None
        BY <3>2, <4>1, <4>2 DEF Import, Record
      <4>4. \A q \in Resource : OwnerOf(tf)[q] # n
        BY <4>1, <4>2
      <4>5. groups' = groups
        BY <3>9 DEF ImportState
      <4>6. QED
        BY <4>3, <4>4, <4>5 DEF Store!StoreNext, Store!Adopt, Store!Owned
    <3>10. ASSUME NEW r \in Resource, CheckName(r) \/ DeleteUnknown(r) \/ RequestFails(r)
           PROVE  UNCHANGED Store!storeVars
      BY <3>4, <3>10 DEF CheckName, DeleteUnknown, RequestFails, FailRequest
    <3>11. CASE StartRun \/ EndPlanning \/ UNCHANGED vars
      BY <3>4, <3>11 DEF StartRun, StartTerraform, EndPlanning, ApplyPlan, vars, tfVars
    <3>12. QED
      BY <1>2, <2>2, <3>5, <3>6, <3>7, <3>8, <3>9, <3>10, <3>11, UndisturbedSteps DEF Handler
  <2>3. QED
    BY <2>1, <2>2
<1>3. QED
  BY <1>1, <1>2, IPInvariant, PTL DEF Spec, ImplementsKeyedStore, Store!StoreSpec
=============================================================================
