--------------------------- MODULE PortProtocolProofs ---------------------------
(***************************************************************************)
(* Theorems about PortProtocols for every value of its constants.          *)
(***************************************************************************)
EXTENDS PortProtocolProperties, TLAPS

Definitions == UNION {[S -> Definition] : S \in SUBSET Pair}

\* No configuration declares a pair or a name twice, whatever its case.  The
\* provider cannot tell two blocks from one, and documents names as unique.
Apart(c) ==
    \A q, r \in Resource :
        /\ c[q] # None /\ c[r] # None
        /\ c[q].pair = c[r].pair \/ Fold[c[q].name] = Fold[c[r].name]
        => q = r

DistinctBlocks == \A c \in Configs : Apart(c)

\* All blocks are planned before any is applied.
PlannedTogether == \A q, r \in Resource : pc[q] \in Planning => pc[r] \in Planning

\* Where a handler stands tells what it is there for.
OperationIsKnown ==
    \A r \in Resource :
        /\ pc[r] = "delete" => Removing(r)
        /\ pc[r] = "check" => Creating(r)
        /\ pc[r] = "recheck" => Updating(r)
        /\ pc[r] = "post" => Creating(r) \/ Updating(r)

\* Nothing stands in the way of what r is to write.
Fits(r) ==
    /\ Creating(r) \/ Replacing(r) => config[r].pair \notin DOMAIN defs
    /\ ~NameInUse(config[r].name, {config[r].pair})

\* The state of r is what the Orchestrator holds.
Backed(r) == tf[r].pair \in DOMAIN defs /\ tf[r] = Stored(tf[r].pair)

\* A plan is made of what the Orchestrator holds.
PlanIsCurrent ==
    "edit" \notin happened =>
        \A r \in Resource : pc[r] \in {"plan", "replan", "ready"} /\ tf[r] # None => Backed(r)

\* What a handler has checked still holds when it writes.
CheckedFits == "edit" \notin happened => \A r \in Resource : pc[r] = "post" => Fits(r)

\* What a plan has checked still holds when it is applied.
PlanFits ==
    happened \cap {"fault", "edit"} = {} =>
        \A r \in Resource :
            config[r] # None /\ pc[r] \in {"ready", "delete", "check", "recheck"} => Fits(r)

\* What resources own exists, and no classification has two owners.
OwnersAreDistinct ==
    Undisturbed =>
        /\ \A r \in Resource : tf[r] # None => tf[r].pair \in DOMAIN defs
        /\ \A q, r \in Resource :
              tf[q] # None /\ tf[r] # None /\ tf[q].pair = tf[r].pair => q = r

PortInv == TypeOK /\ PlannedTogether /\ OperationIsKnown

\* What depends on the configurations.
BlockInv ==
    /\ PortInv /\ Apart(config) /\ PlanIsCurrent /\ CheckedFits /\ NamesUnique
    /\ PlanFits /\ OwnersAreDistinct

-----------------------------------------------------------------------------
(* Tables of classifications. *)

\* What a table of classifications is.
LEMMA DefinitionTable ==
    ASSUME NEW f
    PROVE  f \in Definitions <=>
             /\ f = [p \in DOMAIN f |-> f[p]]
             /\ DOMAIN f \subseteq Pair
             /\ \A p \in DOMAIN f : f[p] \in Definition
BY DEF Definitions

\* A classification more, or in place of another one.
LEMMA BindDefinition ==
    ASSUME NEW f \in Definitions, NEW p \in Pair, NEW d \in Definition
    PROVE  Bind(f, p, d) \in Definitions
<1>1. /\ DOMAIN f \subseteq Pair
      /\ \A x \in DOMAIN f : f[x] \in Definition
  BY DefinitionTable
<1>2. /\ DOMAIN Bind(f, p, d) \subseteq Pair
      /\ \A x \in DOMAIN Bind(f, p, d) : Bind(f, p, d)[x] \in Definition
  BY <1>1 DEF Bind
<1>3. QED
  BY <1>2, DefinitionTable DEF Bind

\* A classification less.
LEMMA UnbindDefinition ==
    ASSUME NEW f \in Definitions, NEW p
    PROVE  Unbind(f, p) \in Definitions
<1>1. /\ DOMAIN f \subseteq Pair
      /\ \A x \in DOMAIN f : f[x] \in Definition
  BY DefinitionTable
<1>2. /\ DOMAIN Unbind(f, p) \subseteq Pair
      /\ \A x \in DOMAIN Unbind(f, p) : Unbind(f, p)[x] \in Definition
  BY <1>1 DEF Unbind, Restrict
<1>3. Unbind(f, p) = [x \in DOMAIN Unbind(f, p) |-> Unbind(f, p)[x]]
  BY DEF Unbind, Restrict
<1>4. QED
  BY <1>2, <1>3, DefinitionTable

\* What is recorded of a classification is a block that may be declared.
LEMMA StoredDefinition ==
    ASSUME TypeOK, NEW p \in DOMAIN defs
    PROVE  Stored(p) \in Wanted /\ Stored(p) # None /\ Stored(p).pair = p
<1>1. p \in Pair /\ defs[p] \in Definition
  BY DefinitionTable DEF TypeOK, Definitions
<1>2. QED
  BY <1>1, PortProtocolAssumption DEF Stored, Definition, Wanted

\* What a block defines.
LEMMA DefinedBlock ==
    ASSUME TypeOK, NEW r \in Resource, config[r] # None
    PROVE  config[r] \in Wanted /\ config[r].pair \in Pair /\ Defined(config[r]) \in Definition
BY DEF TypeOK, TerraformTypeOK, Defined, Wanted, Definition

-----------------------------------------------------------------------------
(* The invariant, for any configurations. *)

LEMMA PortInit == Init => PortInv
BY PortProtocolAssumption, TerraformAssumption
DEF Init, TerraformInit, PortInv, TypeOK, TerraformTypeOK, Ended, Planning, PlannedTogether,
    OperationIsKnown

LEMMA PortTypeStep == PortInv /\ [Next]_vars => TypeOK'
<1> SUFFICES ASSUME PortInv, [Next]_vars PROVE TypeOK'
  OBVIOUS
<1> USE DEF PortInv, TerraformTypeOK
<1>1. CASE StartRun
  BY <1>1, PortProtocolAssumption DEF StartRun, StartTerraform, TypeOK, Planning
<1>2. CASE EndPlanning
  BY <1>2 DEF EndPlanning, ApplyPlan, TypeOK, Planning, Ended, Applying, budgets
<1>3. ASSUME NEW r \in Resource, Read(r) PROVE TypeOK'
  <2>1. tf' \in [Resource -> Wanted \cup {None}]
    <3>1. CASE tf[r] # None /\ tf[r].pair \in DOMAIN defs /\ Record(r, Stored(tf[r].pair))
      BY <3>1, StoredDefinition DEF Record, TypeOK
    <3>2. CASE UNCHANGED tf \/ Record(r, None)
      BY <3>2 DEF Record, TypeOK
    <3>3. QED
      BY <1>3, <3>1, <3>2 DEF Read
  <2>2. QED
    BY <1>3, <2>1 DEF Read, Refreshed, Goto, TypeOK, Planning, budgets
<1>4. ASSUME NEW r \in Resource, ModifyPlan(r) \/ PlanCreate(r) PROVE TypeOK'
  BY <1>4 DEF ModifyPlan, PlanCreate, Goto, Planned, TypeOK, Planning, budgets
<1>5. ASSUME NEW r \in Resource, CheckPairAndName(r) \/ CheckName(r) \/ DeleteUnknown(r) PROVE TypeOK'
  BY <1>5 DEF CheckPairAndName, CheckName, DeleteUnknown, Goto, TypeOK, Ended, Applying, budgets
<1>6. ASSUME NEW r \in Resource, Post(r) \/ PostLost(r) PROVE TypeOK'
  <2>1. config[r] # None /\ defs' = Bind(defs, config[r].pair, Defined(config[r]))
    BY <1>6 DEF Post, PostLost, OperationIsKnown, Creating, Updating, Kept
  <2>2. defs' \in Definitions
    BY <2>1, DefinedBlock, BindDefinition DEF TypeOK, Definitions
  <2>3. config[r] \in Wanted
    BY <2>1, DefinedBlock
  <2>4. CASE Post(r)
    BY <2>2, <2>3, <2>4 DEF Post, Record, Goto, TypeOK, Definitions, Ended, budgets
  <2>5. CASE PostLost(r)
    BY <2>2, <2>5 DEF PostLost, LoseAnswer, Goto, Released, TypeOK, Definitions, Ended
  <2>6. QED
    BY <1>6, <2>4, <2>5
<1>7. ASSUME NEW r \in Resource, Delete(r) \/ DeleteLost(r) PROVE TypeOK'
  <2>1. defs' \in Definitions
    BY <1>7, UnbindDefinition DEF Delete, DeleteLost, TypeOK, Definitions
  <2>2. CASE Delete(r)
    BY <2>1, <2>2 DEF Delete, Record, Goto, TypeOK, Definitions, Ended, Applying, budgets
  <2>3. CASE DeleteLost(r)
    BY <2>1, <2>3 DEF DeleteLost, LoseAnswer, Goto, Released, TypeOK, Definitions, Ended
  <2>4. QED
    BY <1>7, <2>2, <2>3
<1>8. ASSUME NEW r \in Resource, RequestFails(r) PROVE TypeOK'
  BY <1>8 DEF RequestFails, FailRequest, Fault, Released, Goto, Planned, TypeOK, Ended, Planning
<1>9. ASSUME NEW r \in Resource, ImportState(r) PROVE TypeOK'
  <2>1. PICK p \in DOMAIN defs : Import(r, Stored(p))
    BY <1>9 DEF ImportState
  <2>2. QED
    BY <1>9, <2>1, StoredDefinition DEF ImportState, Import, Record, TypeOK, budgets
<1>10. CASE UIEdit
  <2>1. defs' \in Definitions
    BY <1>10, BindDefinition, UnbindDefinition DEF UIEdit, TypeOK, Definitions
  <2>2. QED
    BY <1>10, <2>1 DEF UIEdit, EditedInUI, TypeOK, Definitions
<1>11. CASE Rest \/ UNCHANGED vars
  BY <1>11 DEF Rest, vars, tfVars, budgets, TypeOK
<1>12. QED
  BY <1>1, <1>2, <1>3, <1>4, <1>5, <1>6, <1>7, <1>8, <1>9, <1>10, <1>11 DEF Next, Handler

\* The phases of a run, and what a handler is there for while it is at work.
LEMMA PortPhaseStep == PortInv /\ [Next]_vars => PlannedTogether' /\ OperationIsKnown'
<1> DEFINE Known(r) == /\ pc'[r] = "delete" => Removing(r)'
                       /\ pc'[r] = "check" => Creating(r)'
                       /\ pc'[r] = "recheck" => Updating(r)'
                       /\ pc'[r] = "post" => Creating(r)' \/ Updating(r)'
           Good(p, q) == Known(q) /\ (pc'[p] \in Planning => pc'[q] \in Planning)
<1> SUFFICES ASSUME PortInv, [Next]_vars, NEW p \in Resource, NEW q \in Resource
             PROVE  Good(p, q)
  BY DEF PlannedTogether, OperationIsKnown, Creating, Removing, Updating, Replacing, Deleting, Kept
<1> USE DEF PortInv, TypeOK, TerraformTypeOK, PlannedTogether, OperationIsKnown, Planning,
            Removing, Replacing, Updating, Creating, Deleting, Kept
<1>1. CASE StartRun
  BY <1>1 DEF StartRun, StartTerraform
<1>2. CASE EndPlanning
  BY <1>2 DEF EndPlanning, ApplyPlan
<1>3. ASSUME NEW r \in Resource, Read(r) PROVE Good(p, q)
  BY <1>3 DEF Read, Refreshed, Record, Goto
<1>4. ASSUME NEW r \in Resource, ModifyPlan(r) \/ PlanCreate(r) PROVE Good(p, q)
  BY <1>4 DEF ModifyPlan, PlanCreate, Planned, Goto
<1>5. ASSUME NEW r \in Resource, CheckPairAndName(r) \/ CheckName(r) \/ DeleteUnknown(r)
      PROVE  Good(p, q)
  BY <1>5 DEF CheckPairAndName, CheckName, DeleteUnknown, Goto
<1>6. ASSUME NEW r \in Resource, Post(r) \/ Delete(r) PROVE Good(p, q)
  BY <1>6 DEF Post, Delete, Record, Goto
<1>7. ASSUME NEW r \in Resource, PostLost(r) \/ DeleteLost(r) PROVE Good(p, q)
  BY <1>7 DEF PostLost, DeleteLost, LoseAnswer, Goto
<1>8. ASSUME NEW r \in Resource, RequestFails(r) PROVE Good(p, q)
  BY <1>8 DEF RequestFails, Requesting, FailRequest, Fault, Planned, Goto, Applying
<1>9. ASSUME NEW r \in Resource, ImportState(r) PROVE Good(p, q)
  BY <1>9 DEF ImportState, Import, Record, AllEnded, Ended
<1>10. CASE UIEdit \/ Rest \/ UNCHANGED vars
  BY <1>10 DEF UIEdit, EditedInUI, Rest, vars, tfVars
<1>11. QED
  BY <1>1, <1>2, <1>3, <1>4, <1>5, <1>6, <1>7, <1>8, <1>9, <1>10 DEF Next, Handler

LEMMA PortInvariant == Spec => []PortInv
<1>1. PortInv /\ [Next]_vars => PortInv'
  BY PortTypeStep, PortPhaseStep DEF PortInv
<1>2. QED
  BY PortInit, <1>1, PTL DEF Spec

-----------------------------------------------------------------------------
(* The invariant, for configurations in which nothing is declared twice.   *)

\* The Orchestrator holds no name twice at the start.
DistinctInitially ==
    \A start \in InitialDefs : \A p, q \in DOMAIN start :
        Fold[start[p].name] = Fold[start[q].name] => p = q

\* Another block's entry is never in the way.
LEMMA FitsAfterPost ==
    ASSUME Apart(config), NEW q \in Resource, NEW r \in Resource, q # r,
           config[q] # None, config[r] # None, Fits(r),
           defs' = Bind(defs, config[q].pair, Defined(config[q])),
           config' = config, tf'[r] = tf[r]
    PROVE  Fits(r)'
<1>1. config[q].pair # config[r].pair /\ Fold[config[q].name] # Fold[config[r].name]
  BY DEF Apart
<1>2. config[r].pair \in DOMAIN defs' => config[r].pair \in DOMAIN defs
  BY <1>1 DEF Bind
<1>3. ASSUME NEW p \in DOMAIN defs', p # config[r].pair, Fold[defs'[p].name] = Fold[config[r].name]
      PROVE  FALSE
  BY <1>1, <1>3 DEF Bind, Defined, Fits, NameInUse
<1>4. QED
  BY <1>2, <1>3 DEF Fits, NameInUse, Creating, Replacing, Kept

\* Nor is anything that has been removed, the block's own old entry included.
LEMMA FitsAfterDelete ==
    ASSUME NEW r \in Resource, NEW p, Fits(r), defs' = Unbind(defs, p), config' = config,
           tf'[r] = tf[r] \/ (Replacing(r) /\ tf'[r] = None)
    PROVE  Fits(r)'
BY DEF Fits, NameInUse, Creating, Replacing, Kept, Unbind, Restrict

LEMMA FitsUnchanged ==
    ASSUME NEW r \in Resource, Fits(r), UNCHANGED <<defs, config>>, tf'[r] = tf[r]
    PROVE  Fits(r)'
BY DEF Fits, NameInUse, Creating, Replacing, Kept

LEMMA BlockInit ==
    ASSUME DistinctInitially
    PROVE  Init => BlockInv
<1> SUFFICES ASSUME Init PROVE BlockInv
  OBVIOUS
<1>1. Apart(config)
  BY DEF Init, TerraformInit, Apart
<1>2. NamesUnique
  BY DEF Init, NamesUnique, DistinctInitially
<1>3. PlanIsCurrent /\ CheckedFits /\ PlanFits /\ OwnersAreDistinct
  BY DEF Init, TerraformInit, PlanIsCurrent, CheckedFits, PlanFits, OwnersAreDistinct
<1>4. QED
  BY <1>1, <1>2, <1>3, PortInit DEF BlockInv

\* Nothing makes up for an edit, a failure or a lost answer.
LEMMA HappenedGrows ==
    ASSUME [Next]_vars
    PROVE  happened \subseteq happened'
BY DEF Next, Handler, StartRun, StartTerraform, EndPlanning, ApplyPlan, Read, Refreshed, ModifyPlan,
       PlanCreate, CheckPairAndName, CheckName, Post, PostLost, Delete, DeleteLost, LoseAnswer,
       DeleteUnknown, RequestFails, FailRequest, Fault, ImportState, Import, UIEdit, EditedInUI,
       Rest, vars, tfVars, budgets

\* A step that changes classifications is a write or an edit in the UI.
LEMMA WhoWrites ==
    ASSUME PortInv, [Next]_vars, defs' # defs
    PROVE  \/ UIEdit
           \/ \E r \in Resource :
                 /\ Post(r) \/ PostLost(r)
                 /\ pc[r] = "post" /\ config[r] # None
                 /\ defs' = Bind(defs, config[r].pair, Defined(config[r]))
           \/ \E r \in Resource :
                 /\ Delete(r) \/ DeleteLost(r)
                 /\ pc[r] = "delete" /\ tf[r].pair \in DOMAIN defs
                 /\ defs' = Unbind(defs, tf[r].pair)
BY DEF Next, Handler, StartRun, EndPlanning, Read, ModifyPlan, PlanCreate, CheckPairAndName,
       CheckName, Post, PostLost, Delete, DeleteLost, DeleteUnknown, RequestFails, ImportState,
       Rest, vars, PortInv, OperationIsKnown, Creating, Updating, Kept

\* The configuration of a run is one of those the operator applies.
LEMMA ApartStep ==
    ASSUME DistinctBlocks, Apart(config), [Next]_vars
    PROVE  Apart(config')
<1>1. CASE StartRun
  BY <1>1 DEF StartRun, StartTerraform, DistinctBlocks
<1>2. CASE ~StartRun
  <2>1. config' = config
    BY <1>2
    DEF Next, Handler, EndPlanning, ApplyPlan, Read, Refreshed, ModifyPlan, PlanCreate,
        CheckPairAndName, CheckName, Post, PostLost, Delete, DeleteLost, LoseAnswer, DeleteUnknown,
        RequestFails, FailRequest, ImportState, Import, UIEdit, EditedInUI, Rest, vars, tfVars
  <2>2. QED
    BY <2>1
<1>3. QED
  BY <1>1, <1>2

LEMMA NamesStep ==
    ASSUME BlockInv, [Next]_vars
    PROVE  NamesUnique'
<1> SUFFICES ASSUME "edit" \notin happened', NEW p \in DOMAIN defs', NEW q \in DOMAIN defs',
                    Fold[defs'[p].name] = Fold[defs'[q].name]
             PROVE  p = q
  BY DEF NamesUnique
<1>1. "edit" \notin happened /\ ~UIEdit
  BY HappenedGrows DEF UIEdit, EditedInUI
<1>2. \A x, y \in DOMAIN defs : Fold[defs[x].name] = Fold[defs[y].name] => x = y
  BY <1>1 DEF BlockInv, NamesUnique
<1>3. CASE defs' = defs
  BY <1>2, <1>3
<1>4. ASSUME NEW r \in Resource, pc[r] = "post", defs' = Bind(defs, config[r].pair, Defined(config[r]))
      PROVE  p = q
  <2>1. \A x \in DOMAIN defs : x # config[r].pair => Fold[defs[x].name] # Fold[config[r].name]
    BY <1>1, <1>4 DEF BlockInv, CheckedFits, Fits, NameInUse
  <2>2. QED
    BY <1>2, <1>4, <2>1 DEF Bind, Defined
<1>5. ASSUME NEW x, defs' = Unbind(defs, x) PROVE p = q
  BY <1>2, <1>5 DEF Unbind, Restrict
<1>6. QED
  BY <1>1, <1>3, <1>4, <1>5, WhoWrites DEF BlockInv

\* What was planned comes from a refresh of the same run, and while blocks are
\* planned only the UI writes.
LEMMA PlanStep ==
    ASSUME BlockInv, [Next]_vars
    PROVE  PlanIsCurrent'
<1> DEFINE Current(q) == pc'[q] \in {"plan", "replan", "ready"} /\ tf'[q] # None => Backed(q)'
<1> SUFFICES ASSUME "edit" \notin happened', NEW q \in Resource PROVE Current(q)
  BY DEF PlanIsCurrent, Backed, Stored
<1>1. "edit" \notin happened /\ ~UIEdit
  BY HappenedGrows DEF UIEdit, EditedInUI
<1> USE DEF BlockInv, PortInv, TypeOK, TerraformTypeOK, PlanIsCurrent, PlannedTogether, Planning,
            Backed, Stored
<1>2. CASE StartRun \/ EndPlanning
  BY <1>2 DEF StartRun, StartTerraform, EndPlanning, ApplyPlan
<1>3. ASSUME NEW r \in Resource, Read(r) PROVE Current(q)
  BY <1>1, <1>3 DEF Read, Refreshed, Record, Goto
<1>4. ASSUME NEW r \in Resource, ModifyPlan(r) \/ PlanCreate(r) PROVE Current(q)
  BY <1>1, <1>4 DEF ModifyPlan, PlanCreate, Planned, Goto
<1>5. ASSUME NEW r \in Resource, CheckPairAndName(r) \/ CheckName(r) \/ DeleteUnknown(r)
      PROVE  Current(q)
  BY <1>1, <1>5 DEF CheckPairAndName, CheckName, DeleteUnknown, Goto
<1>6. ASSUME NEW r \in Resource, Post(r) \/ Delete(r) \/ PostLost(r) \/ DeleteLost(r)
      PROVE  Current(q)
  <2>1. pc[r] \in {"post", "delete"} /\ pc'[r] \notin Planning
        /\ \A s \in Resource : s # r => pc'[s] = pc[s]
    BY <1>6 DEF Post, Delete, PostLost, DeleteLost, LoseAnswer, Goto
  <2>2. \A s \in Resource : pc[s] \notin Planning
    BY <2>1
  <2>3. QED
    BY <2>1, <2>2
<1>7. ASSUME NEW r \in Resource, RequestFails(r) PROVE Current(q)
  BY <1>1, <1>7 DEF RequestFails, Requesting, FailRequest, Fault, Planned, Goto, Applying
<1>8. ASSUME NEW r \in Resource, ImportState(r) PROVE Current(q)
  BY <1>8 DEF ImportState, Import, AllEnded, Ended
<1>9. CASE Rest \/ UNCHANGED vars
  BY <1>1, <1>9 DEF Rest, vars, tfVars
<1>10. QED
  BY <1>1, <1>2, <1>3, <1>4, <1>5, <1>6, <1>7, <1>8, <1>9 DEF Next, Handler

\* From the plan to the write.
Chosen == {"ready", "delete", "check", "recheck", "post"}

\* Unless somebody edits entries, no step puts anything in the way of a block:
\* the others of the configuration write other pairs and names.
LEMMA FitsStep ==
    ASSUME BlockInv, [Next]_vars, ~UIEdit, NEW q \in Resource,
           config[q] # None, Fits(q), pc[q] \in Chosen, pc'[q] \in Chosen
    PROVE  Fits(q)'
<1> USE DEF BlockInv, PortInv, TypeOK, TerraformTypeOK, Chosen
<1>1. CASE StartRun \/ EndPlanning \/ Rest \/ UNCHANGED vars
  BY <1>1, FitsUnchanged DEF StartRun, StartTerraform, EndPlanning, ApplyPlan, Rest, vars, tfVars
<1>2. ASSUME NEW r \in Resource, Read(r) \/ ModifyPlan(r) \/ PlanCreate(r) PROVE Fits(q)'
  <2>1. UNCHANGED <<defs, config>> /\ tf'[q] = tf[q]
    BY <1>2 DEF Read, Refreshed, Record, ModifyPlan, PlanCreate
  <2>2. QED
    BY <2>1, FitsUnchanged
<1>3. ASSUME NEW r \in Resource, CheckPairAndName(r) \/ CheckName(r) \/ DeleteUnknown(r) \/ RequestFails(r)
      PROVE  Fits(q)'
  <2>1. UNCHANGED <<defs, config, tf>>
    BY <1>3 DEF CheckPairAndName, CheckName, DeleteUnknown, RequestFails, FailRequest
  <2>2. QED
    BY <2>1, FitsUnchanged
<1>4. ASSUME NEW r \in Resource, Post(r) \/ PostLost(r) PROVE Fits(q)'
  <2>1. r # q /\ tf'[q] = tf[q] /\ config' = config
    BY <1>4 DEF Post, PostLost, LoseAnswer, Record, Goto
  <2>2. config[r] # None /\ defs' = Bind(defs, config[r].pair, Defined(config[r]))
    BY <1>4 DEF Post, PostLost, OperationIsKnown, Creating, Updating, Kept
  <2>3. QED
    BY <2>1, <2>2, FitsAfterPost
<1>5. ASSUME NEW r \in Resource, Delete(r) \/ DeleteLost(r) PROVE Fits(q)'
  <2>1. /\ config' = config /\ defs' = Unbind(defs, tf[r].pair)
        /\ tf'[q] = tf[q] \/ (Replacing(q) /\ tf'[q] = None)
    BY <1>5 DEF Delete, DeleteLost, LoseAnswer, Record, Goto
  <2>2. QED
    BY <2>1, FitsAfterDelete
<1>6. ASSUME NEW r \in Resource, ImportState(r) PROVE Fits(q)'
  BY <1>6 DEF ImportState, Import, AllEnded, Ended
<1>7. QED
  BY <1>1, <1>2, <1>3, <1>4, <1>5, <1>6 DEF Next, Handler

\* A handler writes what it has just checked; other handlers may write between
\* the two.
LEMMA CheckStep ==
    ASSUME BlockInv, [Next]_vars
    PROVE  CheckedFits'
<1> SUFFICES ASSUME "edit" \notin happened', NEW q \in Resource, pc'[q] = "post"
             PROVE  Fits(q)'
  BY DEF CheckedFits
<1>1. "edit" \notin happened /\ ~UIEdit
  BY HappenedGrows DEF UIEdit, EditedInUI
<1>2. CASE pc[q] = "post"
  <2>1. Fits(q) /\ config[q] # None
    BY <1>1, <1>2
    DEF BlockInv, CheckedFits, PortInv, OperationIsKnown, Creating, Updating, Kept
  <2>2. QED
    BY <1>1, <1>2, <2>1, FitsStep DEF Chosen
<1>3. CASE pc[q] # "post"
  <2>1. CheckPairAndName(q) \/ CheckName(q)
    BY <1>3
    DEF Next, Handler, StartRun, StartTerraform, EndPlanning, ApplyPlan, Read, Refreshed, ModifyPlan,
        PlanCreate, Planned, CheckPairAndName, CheckName, Post, PostLost, Delete, DeleteLost,
        LoseAnswer, DeleteUnknown, RequestFails, FailRequest, ImportState, Import, UIEdit,
        EditedInUI, Rest, vars, tfVars, Goto, BlockInv, PortInv, TypeOK, TerraformTypeOK
  <2>2. Fits(q)
    BY <1>3, <2>1
    DEF CheckPairAndName, CheckName, Goto, Fits, BlockInv, PortInv, OperationIsKnown, TypeOK,
        TerraformTypeOK, Creating, Updating, Replacing, Kept
  <2>3. UNCHANGED <<defs, config, tf>>
    BY <2>1 DEF CheckPairAndName, CheckName
  <2>4. QED
    BY <2>2, <2>3, FitsUnchanged
<1>4. QED
  BY <1>2, <1>3

\* A plan that is not refused has found nothing in the way of its block, also
\* of one that keeps its name: nobody else has it.
LEMMA PlanFinds ==
    ASSUME BlockInv, "edit" \notin happened, NEW q \in Resource, config[q] # None,
           ModifyPlan(q) \/ PlanCreate(q), pc'[q] = "ready"
    PROVE  Fits(q)
<1> USE DEF BlockInv, PortInv, TypeOK, TerraformTypeOK, Goto
<1>1. CASE PlanCreate(q)
  BY <1>1 DEF PlanCreate, Refused, Fits
<1>2. CASE ModifyPlan(q)
  <2>1. pc[q] = "plan" /\ ~Replacing(q)
    BY <1>2 DEF ModifyPlan, Planned
  <2>2. CASE Creating(q)
    BY <1>2, <2>1, <2>2 DEF ModifyPlan, Refused, Fits, Creating, Own
  <2>3. CASE ~Creating(q)
    <3>1. /\ tf[q] # None /\ config[q].pair = tf[q].pair /\ Backed(q)
          /\ config[q] \in Wanted /\ tf[q] \in Wanted
      BY <2>1, <2>3 DEF Creating, Replacing, Kept, PlanIsCurrent
    <3>2. CASE Renaming(q)
      BY <1>2, <2>1, <2>3, <3>1, <3>2 DEF ModifyPlan, Refused, Fits, Own
    <3>3. CASE ~Renaming(q)
      <4>1. config[q].name = tf[q].name
        BY <2>1, <3>1, <3>3 DEF Renaming, Updating, Kept
      <4>2. defs[config[q].pair].name = config[q].name /\ config[q].pair \in DOMAIN defs
        BY <3>1, <4>1 DEF Backed, Stored
      <4>3. ~NameInUse(config[q].name, {config[q].pair})
        BY <4>2 DEF NamesUnique, NameInUse
      <4>4. QED
        BY <2>1, <2>3, <4>3 DEF Fits
    <3>4. QED
      BY <3>2, <3>3
  <2>4. QED
    BY <2>2, <2>3
<1>3. QED
  BY <1>1, <1>2

LEMMA PromiseStep ==
    ASSUME BlockInv, [Next]_vars
    PROVE  PlanFits'
<1> SUFFICES ASSUME happened' \cap {"fault", "edit"} = {}, NEW q \in Resource, config'[q] # None,
                    pc'[q] \in {"ready", "delete", "check", "recheck"}
             PROVE  Fits(q)'
  BY DEF PlanFits
<1>1. /\ happened \cap {"fault", "edit"} = {} /\ ~UIEdit
      /\ \A r \in Resource : ~RequestFails(r)
  BY HappenedGrows DEF UIEdit, EditedInUI, RequestFails, FailRequest, Fault
<1>2. config' = config
  BY <1>1
  DEF Next, Handler, StartRun, StartTerraform, EndPlanning, ApplyPlan, Read, Refreshed, ModifyPlan,
      PlanCreate, CheckPairAndName, CheckName, Post, PostLost, Delete, DeleteLost, LoseAnswer,
      DeleteUnknown, ImportState, Import, Rest, vars, tfVars
<1>3. CASE pc[q] \in {"ready", "delete", "check", "recheck"}
  <2>1. Fits(q)
    BY <1>1, <1>2, <1>3 DEF BlockInv, PlanFits
  <2>2. QED
    BY <1>1, <1>2, <1>3, <2>1, FitsStep DEF Chosen
<1>4. CASE pc[q] \notin {"ready", "delete", "check", "recheck"}
  <2>1. (ModifyPlan(q) \/ PlanCreate(q)) /\ pc'[q] = "ready"
    <3> USE DEF Goto, BlockInv, PortInv, TypeOK, TerraformTypeOK
    <3>1. ~StartRun /\ ~EndPlanning /\ ~Rest /\ ~UNCHANGED vars
      BY <1>4 DEF StartRun, StartTerraform, EndPlanning, ApplyPlan, Rest, vars, tfVars
    <3>2. ASSUME NEW r \in Resource, Handler(r)
          PROVE  (ModifyPlan(q) \/ PlanCreate(q)) /\ pc'[q] = "ready"
      BY <1>4, <3>2
      DEF Handler, Read, Refreshed, ModifyPlan, PlanCreate, Planned, CheckPairAndName, CheckName,
          Post, Delete, DeleteUnknown
    <3>3. ASSUME NEW r \in Resource PROVE ~PostLost(r) /\ ~DeleteLost(r) /\ ~ImportState(r)
      BY <1>4 DEF PostLost, DeleteLost, LoseAnswer, ImportState, Import
    <3>4. QED
      BY <1>1, <3>1, <3>2, <3>3 DEF Next
  <2>2. Fits(q)
    BY <1>1, <1>2, <2>1, PlanFinds
  <2>3. UNCHANGED <<defs, config, tf>>
    BY <2>1 DEF ModifyPlan, PlanCreate
  <2>4. QED
    BY <2>2, <2>3, FitsUnchanged
<1>5. QED
  BY <1>3, <1>4

\* Nothing makes up for a disturbance.
LEMMA DisturbanceStays ==
    ASSUME [Next]_vars, Undisturbed'
    PROVE  Undisturbed
BY HappenedGrows DEF Undisturbed

\* Undisturbed, every change of the state or of the classifications is one of
\* these, and a create writes a pair that nothing has.
LEMMA UndisturbedSteps ==
    ASSUME BlockInv, [Next]_vars, Undisturbed'
    PROVE  \/ UNCHANGED <<tf, defs>>
           \/ \E r \in Resource : Read(r) \/ Post(r) \/ Delete(r) \/ ImportState(r)
<1>1. ~UIEdit /\ \A r \in Resource : ~PostLost(r) /\ ~DeleteLost(r)
  BY DEF UIEdit, EditedInUI, PostLost, DeleteLost, LoseAnswer, Undisturbed
<1>2. QED
  BY <1>1
  DEF Next, Handler, StartRun, StartTerraform, EndPlanning, ApplyPlan, ModifyPlan, PlanCreate,
      CheckPairAndName, CheckName, DeleteUnknown, RequestFails, FailRequest, Rest, vars, tfVars

LEMMA PostOfBlock ==
    ASSUME BlockInv, Undisturbed, NEW r \in Resource, Post(r)
    PROVE  /\ \A q \in Resource : q # r => tf'[q] = tf[q]
           /\ tf'[r] = config[r] /\ config[r] # None
           /\ defs' = Bind(defs, config[r].pair, Defined(config[r]))
           /\ \/ tf[r] = None /\ config[r].pair \notin DOMAIN defs
              \/ tf[r] # None /\ config[r].pair = tf[r].pair
<1>1. Fits(r) /\ (Creating(r) \/ Updating(r))
  BY DEF Post, BlockInv, CheckedFits, PortInv, OperationIsKnown, Undisturbed
<1>2. QED
  BY <1>1
  DEF Post, Record, Fits, Creating, Updating, Replacing, Kept, BlockInv, PortInv, TypeOK,
      TerraformTypeOK

LEMMA OwnersStep ==
    ASSUME BlockInv, [Next]_vars
    PROVE  OwnersAreDistinct'
<1> SUFFICES ASSUME Undisturbed'
             PROVE  /\ \A r \in Resource : tf'[r] # None => tf'[r].pair \in DOMAIN defs'
                    /\ \A p, q \in Resource :
                          tf'[p] # None /\ tf'[q] # None /\ tf'[p].pair = tf'[q].pair => p = q
  BY DEF OwnersAreDistinct
<1> DEFINE Distinct == /\ \A r \in Resource : tf'[r] # None => tf'[r].pair \in DOMAIN defs'
                       /\ \A p, q \in Resource :
                             tf'[p] # None /\ tf'[q] # None /\ tf'[p].pair = tf'[q].pair => p = q
<1>1. Undisturbed
  BY DisturbanceStays
<1>2. /\ \A r \in Resource : tf[r] # None => tf[r].pair \in DOMAIN defs
      /\ \A p, q \in Resource :
            tf[p] # None /\ tf[q] # None /\ tf[p].pair = tf[q].pair => p = q
      /\ tf \in [Resource -> Wanted \cup {None}]
  BY <1>1 DEF BlockInv, OwnersAreDistinct, PortInv, TypeOK, TerraformTypeOK
<1>3. CASE UNCHANGED <<tf, defs>>
  BY <1>2, <1>3
<1>4. ASSUME NEW r \in Resource, Read(r) PROVE Distinct
  <2>1. /\ \A q \in Resource : q # r => tf'[q] = tf[q]
        /\ tf'[r] = None \/ (tf[r] # None /\ tf'[r].pair = tf[r].pair)
    BY <1>2, <1>4 DEF Read, Record, Stored
  <2>2. QED
    BY <1>2, <1>4, <2>1 DEF Read
<1>5. ASSUME NEW r \in Resource, Post(r) PROVE Distinct
  <2>1. DOMAIN defs' = DOMAIN defs \cup {config[r].pair}
    BY <1>5 DEF Post, Bind
  <2>2. QED
    BY <1>1, <1>2, <1>5, <2>1, PostOfBlock
<1>6. ASSUME NEW r \in Resource, Delete(r) PROVE Distinct
  <2>1. /\ \A q \in Resource : q # r => tf'[q] = tf[q]
        /\ tf'[r] = None /\ tf[r] # None
        /\ DOMAIN defs' = DOMAIN defs \ {tf[r].pair}
    BY <1>2, <1>6 DEF Delete, Record, Unbind, Restrict, BlockInv, PortInv, OperationIsKnown,
                      Removing, Deleting, Replacing, Kept
  <2>2. QED
    BY <1>2, <2>1
<1>7. ASSUME NEW r \in Resource, ImportState(r) PROVE Distinct
  <2>1. PICK p \in DOMAIN defs :
           /\ \A q \in Resource : tf[q] # None => tf[q].pair # p
           /\ Import(r, Stored(p))
    BY <1>7 DEF ImportState
  <2>2. /\ \A q \in Resource : q # r => tf'[q] = tf[q]
        /\ tf'[r].pair = p
    BY <1>2, <2>1 DEF Import, Record, Stored
  <2>3. QED
    BY <1>2, <1>7, <2>1, <2>2 DEF ImportState
<1>8. QED
  BY <1>3, <1>4, <1>5, <1>6, <1>7, UndisturbedSteps

LEMMA BlockInvariant ==
    ASSUME DistinctBlocks, DistinctInitially
    PROVE  Spec => []BlockInv
<1>1. Init => BlockInv
  BY BlockInit
<1>2. BlockInv /\ [Next]_vars => BlockInv'
  <2> SUFFICES ASSUME BlockInv, [Next]_vars PROVE BlockInv'
    OBVIOUS
  <2>1. PortInv' /\ Apart(config')
    BY PortTypeStep, PortPhaseStep, ApartStep DEF BlockInv, PortInv
  <2>2. PlanIsCurrent' /\ CheckedFits' /\ NamesUnique' /\ PlanFits' /\ OwnersAreDistinct'
    BY PlanStep, CheckStep, NamesStep, PromiseStep, OwnersStep
  <2>3. QED
    BY <2>1, <2>2 DEF BlockInv, Apart
<1>3. QED
  BY <1>1, <1>2, PTL DEF Spec

-----------------------------------------------------------------------------

\* Every variable keeps its type, with any blocks, pairs and names, declared
\* twice or not.
THEOREM PortProtocolsTypeCorrect == Spec => []TypeOK
<1>1. PortInv => TypeOK
  BY DEF PortInv
<1>2. QED
  BY <1>1, PortInvariant, PTL

\* Names stay unique although they are checked outside the mutex and some
\* time before the POST, with any number of blocks applied in parallel, failed
\* requests and lost answers, until somebody edits entries in the UI.
THEOREM NamesStayUnique ==
    ASSUME DistinctBlocks, DistinctInitially
    PROVE  Spec => []NamesUnique
<1>1. BlockInv => NamesUnique
  BY DEF BlockInv
<1>2. QED
  BY <1>1, BlockInvariant, PTL

\* A plan that is not refused is not refused while it is applied either,
\* whatever the other blocks of the configuration do in between.
THEOREM PlansKeepTheirPromise ==
    ASSUME DistinctBlocks, DistinctInitially
    PROVE  Spec => PlanPromisesNoRefusal
<1> DEFINE Refusal(r) == /\ pc[r] \in {"check", "recheck"} /\ pc'[r] = "failed"
                         /\ UNCHANGED <<faults, edits>>
<1>1. ASSUME BlockInv, [Next]_vars, NEW r \in Resource, Refusal(r)
      PROVE  happened \cap {"fault", "edit"} # {}
  <2> USE DEF BlockInv, PortInv, TypeOK, TerraformTypeOK
  <2>1. ~UIEdit /\ \A q \in Resource : ~RequestFails(q)
    BY <1>1 DEF UIEdit, EditedInUI, RequestFails, FailRequest, Fault
  <2>2. CheckPairAndName(r) \/ CheckName(r)
    <3>1. ~StartRun /\ ~EndPlanning /\ ~Rest /\ ~UNCHANGED vars
      BY <1>1 DEF StartRun, StartTerraform, EndPlanning, ApplyPlan, Rest, vars, tfVars
    <3>2. ASSUME NEW q \in Resource, Handler(q) PROVE CheckPairAndName(r) \/ CheckName(r)
      BY <1>1, <3>2
      DEF Handler, Read, Refreshed, ModifyPlan, PlanCreate, Planned, CheckPairAndName, CheckName,
          Post, Delete, DeleteUnknown, Goto
    <3>3. ASSUME NEW q \in Resource PROVE ~PostLost(q) /\ ~DeleteLost(q) /\ ~ImportState(q)
      BY <1>1 DEF PostLost, DeleteLost, LoseAnswer, ImportState, Import, Goto
    <3>4. QED
      BY <1>1, <2>1, <3>1, <3>2, <3>3 DEF Next
  <2>3. ~Fits(r) /\ config[r] # None
    BY <1>1, <2>2
    DEF CheckPairAndName, CheckName, Goto, Fits, OperationIsKnown, Creating, Updating, Kept
  <2>4. QED
    BY <1>1, <2>3 DEF PlanFits
<1>2. BlockInv /\ [Next]_vars =>
        [\A r \in Resource :
           pc[r] \in {"check", "recheck"} /\ pc'[r] = "failed" /\ UNCHANGED <<faults, edits>> =>
              happened \cap {"fault", "edit"} # {}]_vars
  BY <1>1
<1>3. QED
  BY <1>2, BlockInvariant, PTL DEF Spec, PlanPromisesNoRefusal

\* For blocks that declare no pair or name twice, the handlers implement a
\* store in which an operation touches the object of its resource only, until
\* the UI is used or an answer is lost.
THEOREM PortProtocolsImplementKeyedStore ==
    ASSUME DistinctBlocks, DistinctInitially
    PROVE  Spec => ImplementsKeyedStore
<1> DEFINE OwnerOf(state) == [r \in Resource |-> IF state[r] = None THEN None ELSE state[r].pair]
<1>1. Init => Store!StoreInit
  BY DEF Init, TerraformInit, Store!StoreInit, Undisturbed
<1>2. ASSUME BlockInv, [Next]_vars
      PROVE  [Store!StoreNext]_(Store!storeVars)
  <2>1. CASE ~Undisturbed'
    BY <2>1 DEF Store!StoreNext
  <2>2. CASE Undisturbed'
    <3>1. Undisturbed
      BY <1>2, <2>2, DisturbanceStays
    <3>2. /\ tf \in [Resource -> Wanted \cup {None}]
          /\ \A w \in Wanted : w # None /\ w.pair # None
          /\ TypeOK
      BY <1>2, PortProtocolAssumption DEF BlockInv, PortInv, TypeOK, TerraformTypeOK, Wanted
    <3>3. /\ \A r \in Resource : tf[r] # None => tf[r].pair \in DOMAIN defs
          /\ \A q, r \in Resource :
                tf[q] # None /\ tf[r] # None /\ tf[q].pair = tf[r].pair => q = r
      BY <1>2, <3>1 DEF BlockInv, OwnersAreDistinct
    <3>4. CASE UNCHANGED <<tf, defs>>
      BY <2>2, <3>1, <3>4 DEF Store!storeVars
    <3>5. ASSUME NEW r \in Resource, Read(r) PROVE UNCHANGED Store!storeVars
      <4>1. defs' = defs /\ (Undisturbed <=> Undisturbed')
        BY <2>2, <3>1, <3>5 DEF Read
      <4>2. /\ \A q \in Resource : q # r => tf'[q] = tf[q]
            /\ tf'[r] = tf[r] \/ (tf[r] # None /\ tf'[r] = Stored(tf[r].pair))
        BY <3>2, <3>3, <3>5 DEF Read, Record
      <4>3. tf[r] # None => Stored(tf[r].pair) # None /\ Stored(tf[r].pair).pair = tf[r].pair
        BY <3>2, <3>3, StoredDefinition
      <4>4. OwnerOf(tf') = OwnerOf(tf)
        BY <4>2, <4>3
      <4>5. QED
        BY <4>1, <4>4 DEF Store!storeVars
    <3>6. ASSUME NEW r \in Resource, Post(r) PROVE Store!StoreNext
      <4> DEFINE k == config[r].pair
      <4>1. /\ \A q \in Resource : q # r => tf'[q] = tf[q]
            /\ tf'[r] = config[r] /\ config[r] # None
            /\ defs' = Bind(defs, k, Defined(config[r]))
        BY <1>2, <3>1, <3>6, PostOfBlock
      <4>2. k \in DOMAIN defs' /\ defs' = Bind(defs, k, defs'[k])
        BY <4>1 DEF Bind
      <4>3. CASE tf[r] = None /\ k \notin DOMAIN defs
        <5>1. OwnerOf(tf') = [OwnerOf(tf) EXCEPT ![r] = k]
          BY <3>2, <4>1, <4>3
        <5>2. OwnerOf(tf)[r] = None /\ \A q \in Resource : OwnerOf(tf)[q] # k
          <6>1. k # None
            BY <3>2, <4>1, PortProtocolAssumption DEF TypeOK, TerraformTypeOK
          <6>2. QED
            BY <3>3, <4>3, <6>1
        <5>3. QED
          BY <4>2, <4>3, <5>1, <5>2
          DEF Store!StoreNext, Store!Adopt, Store!Owned, Store!Stores, Store!Bind, Bind
      <4>4. CASE tf[r] # None /\ k = tf[r].pair
        <5>1. OwnerOf(tf') = OwnerOf(tf) /\ OwnerOf(tf)[r] = k
          BY <4>1, <4>4
        <5>2. k \in DOMAIN defs /\ defs' = [defs EXCEPT ![k] = defs'[k]]
          <6>1. k \in DOMAIN defs /\ defs = [p \in DOMAIN defs |-> defs[p]]
            BY <3>2, <3>3, <4>4 DEF TypeOK
          <6>2. QED
            BY <4>2, <6>1 DEF Bind
        <5>3. QED
          BY <4>2, <5>1, <5>2 DEF Store!StoreNext, Store!Change
      <4>5. QED
        BY <1>2, <3>1, <3>6, <4>3, <4>4, PostOfBlock
    <3>7. ASSUME NEW r \in Resource, Delete(r) PROVE Store!StoreNext
      <4>1. /\ tf[r] # None /\ tf[r].pair \in DOMAIN defs
            /\ defs' = Unbind(defs, tf[r].pair)
            /\ tf'[r] = None /\ \A q \in Resource : q # r => tf'[q] = tf[q]
        BY <1>2, <3>2, <3>7 DEF Delete, Record, BlockInv, PortInv, OperationIsKnown, Removing,
                                Deleting, Replacing, Kept
      <4>2. OwnerOf(tf') = [OwnerOf(tf) EXCEPT ![r] = None] /\ OwnerOf(tf)[r] = tf[r].pair
        BY <4>1
      <4>3. Store!Drop(r)
        BY <4>1, <4>2 DEF Store!Drop, Store!Unbind, Store!Restrict, Unbind, Restrict
      <4>4. QED
        BY <4>3 DEF Store!StoreNext
    <3>8. ASSUME NEW r \in Resource, ImportState(r) PROVE Store!StoreNext
      <4>1. PICK p \in DOMAIN defs :
               /\ \A q \in Resource : tf[q] # None => tf[q].pair # p
               /\ Import(r, Stored(p))
        BY <3>8 DEF ImportState
      <4>2. Stored(p) # None /\ p # None /\ Stored(p).pair = p
        BY <3>2, StoredDefinition
      <4>3. OwnerOf(tf') = [OwnerOf(tf) EXCEPT ![r] = p] /\ OwnerOf(tf)[r] = None
        BY <3>2, <4>1, <4>2 DEF Import, Record
      <4>4. \A q \in Resource : OwnerOf(tf)[q] # p
        BY <4>1, <4>2
      <4>5. defs' = defs
        BY <3>8 DEF ImportState
      <4>6. QED
        BY <4>3, <4>4, <4>5 DEF Store!StoreNext, Store!Adopt, Store!Owned
    <3>9. QED
      BY <1>2, <2>2, <3>4, <3>5, <3>6, <3>7, <3>8, UndisturbedSteps
  <2>3. QED
    BY <2>1, <2>2
<1>3. QED
  BY <1>1, <1>2, BlockInvariant, PTL DEF Spec, ImplementsKeyedStore, Store!StoreSpec
=============================================================================
