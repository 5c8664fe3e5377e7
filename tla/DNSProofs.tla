------------------------------- MODULE DNSProofs -------------------------------
(***************************************************************************)
(* Theorems about DNSClassifications for every value of its constants.     *)
(***************************************************************************)
EXTENDS DNSProperties, TLAPS

Definitions == UNION {[S -> Definition] : S \in SUBSET Domain}

\* No configuration declares a domain or a name twice, whatever its case.  The
\* provider cannot tell two blocks from one, and documents names as unique.
Apart(c) ==
    \A q, r \in Resource :
        /\ c[q] # None /\ c[r] # None
        /\ Equal(c[q].domain, c[r].domain) \/ Equal(c[q].name, c[r].name)
        => q = r

DistinctBlocks == \A c \in Configs : Apart(c)

\* All blocks are planned before any is applied.
PlannedTogether == \A q, r \in Resource : pc[q] \in Planning => pc[r] \in Planning

\* Where a handler stands tells what it is there for.
OperationIsKnown ==
    \A r \in Resource :
        /\ pc[r] = "delete" => Removing(r)
        /\ pc[r] = "check" => Creating(r)
        /\ pc[r] = "recheck" => Updating(r)
        /\ pc[r] = "post" => Creating(r) \/ Updating(r)

\* Nothing stands in the way of what r is to write.
Fits(r) ==
    /\ Creating(r) \/ Replacing(r) => ~DomainInUse(config[r].domain)
    /\ ~NameInUse(config[r].name, {config[r].domain})

\* No other spelling of the domain of r is in use.
Sole(r) == \A e \in DOMAIN defs : Equal(e, config[r].domain) => e = config[r].domain

\* The state of r is what the Orchestrator holds.
Backed(r) == tf[r].domain \in DOMAIN defs /\ tf[r] = Stored(tf[r].domain)

\* A plan is made of what the Orchestrator holds.
PlanIsCurrent ==
    "edit" \notin happened =>
        \A r \in Resource : pc[r] \in {"plan", "replan", "ready"} /\ tf[r] # None => Backed(r)

\* What a handler has checked still holds when it writes.
CheckedFits == "edit" \notin happened => \A r \in Resource : pc[r] = "post" => Fits(r)

\* What an update writes does not become another spelling of a domain in use.
UpdatesAreSole ==
    "edit" \notin happened =>
        \A r \in Resource : pc[r] \in {"recheck", "post"} /\ Updating(r) => Sole(r)

\* Names are unique as well, whatever their case.
NamesUnique ==
    "edit" \notin happened => \A d, e \in DOMAIN defs : Equal(defs[d].name, defs[e].name) => d = e

\* What a plan has checked still holds when it is applied.
PlanFits ==
    happened \cap {"fault", "edit"} = {} =>
        \A r \in Resource :
            config[r] # None /\ pc[r] \in {"ready", "delete", "check", "recheck"} => Fits(r)

\* What resources own exists, and no classification has two owners.
OwnersAreDistinct ==
    Undisturbed =>
        /\ \A r \in Resource : tf[r] # None => tf[r].domain \in DOMAIN defs
        /\ \A q, r \in Resource :
              tf[q] # None /\ tf[r] # None /\ tf[q].domain = tf[r].domain => q = r

DNSInv == TypeOK /\ PlannedTogether /\ OperationIsKnown

\* What depends on the configurations.
BlockInv ==
    /\ DNSInv /\ Apart(config) /\ PlanIsCurrent /\ CheckedFits /\ UpdatesAreSole
    /\ DomainsUnique /\ NamesUnique /\ PlanFits /\ OwnersAreDistinct

-----------------------------------------------------------------------------
(* Tables of classifications. *)

\* What a table of classifications is.
LEMMA DefinitionTable ==
    ASSUME NEW f
    PROVE  f \in Definitions <=>
             /\ f = [p \in DOMAIN f |-> f[p]]
             /\ DOMAIN f \subseteq Domain
             /\ \A p \in DOMAIN f : f[p] \in Definition
BY DEF Definitions

\* A classification more, or in place of another one.
LEMMA BindDefinition ==
    ASSUME NEW f \in Definitions, NEW p \in Domain, NEW d \in Definition
    PROVE  Bind(f, p, d) \in Definitions
<1>1. /\ DOMAIN f \subseteq Domain
      /\ \A x \in DOMAIN f : f[x] \in Definition
  BY DefinitionTable
<1>2. /\ DOMAIN Bind(f, p, d) \subseteq Domain
      /\ \A x \in DOMAIN Bind(f, p, d) : Bind(f, p, d)[x] \in Definition
  BY <1>1 DEF Bind
<1>3. QED
  BY <1>2, DefinitionTable DEF Bind

\* A classification less.
LEMMA UnbindDefinition ==
    ASSUME NEW f \in Definitions, NEW p
    PROVE  Unbind(f, p) \in Definitions
<1>1. /\ DOMAIN f \subseteq Domain
      /\ \A x \in DOMAIN f : f[x] \in Definition
  BY DefinitionTable
<1>2. /\ DOMAIN Unbind(f, p) \subseteq Domain
      /\ \A x \in DOMAIN Unbind(f, p) : Unbind(f, p)[x] \in Definition
  BY <1>1 DEF Unbind, Restrict
<1>3. Unbind(f, p) = [x \in DOMAIN Unbind(f, p) |-> Unbind(f, p)[x]]
  BY DEF Unbind, Restrict
<1>4. QED
  BY <1>2, <1>3, DefinitionTable

\* What is recorded of a classification is a block that may be declared.
LEMMA StoredDefinition ==
    ASSUME TypeOK, NEW p \in DOMAIN defs
    PROVE  Stored(p) \in Wanted /\ Stored(p) # None /\ Stored(p).domain = p
<1>1. p \in Domain /\ defs[p] \in Definition
  BY DefinitionTable DEF TypeOK, Definitions
<1>2. QED
  BY <1>1, DNSAssumption DEF Stored, Definition, Wanted

\* What a block defines.
LEMMA DefinedBlock ==
    ASSUME TypeOK, NEW r \in Resource, config[r] # None
    PROVE  config[r] \in Wanted /\ config[r].domain \in Domain /\ Defined(config[r]) \in Definition
BY DEF TypeOK, TerraformTypeOK, Defined, Wanted, Definition

-----------------------------------------------------------------------------
(* The invariant, for any configurations. *)

LEMMA DNSInit == Init => DNSInv
BY DNSAssumption, TerraformAssumption
DEF Init, TerraformInit, DNSInv, TypeOK, TerraformTypeOK, Ended, Planning, PlannedTogether,
    OperationIsKnown

LEMMA DNSTypeStep == DNSInv /\ [Next]_vars => TypeOK'
<1> SUFFICES ASSUME DNSInv, [Next]_vars PROVE TypeOK'
  OBVIOUS
<1> USE DEF DNSInv, TerraformTypeOK
<1>1. CASE StartRun
  BY <1>1, DNSAssumption DEF StartRun, StartTerraform, TypeOK, Planning
<1>2. CASE EndPlanning
  BY <1>2 DEF EndPlanning, ApplyPlan, TypeOK, Planning, Ended, Applying, budgets
<1>3. ASSUME NEW r \in Resource, Read(r) PROVE TypeOK'
  <2>1. tf' \in [Resource -> Wanted \cup {None}]
    <3>1. CASE tf[r] # None /\ tf[r].domain \in DOMAIN defs /\ Record(r, Stored(tf[r].domain))
      BY <3>1, StoredDefinition DEF Record, TypeOK
    <3>2. CASE UNCHANGED tf \/ Record(r, None)
      BY <3>2 DEF Record, TypeOK
    <3>3. QED
      BY <1>3, <3>1, <3>2 DEF Read
  <2>2. QED
    BY <1>3, <2>1 DEF Read, Refreshed, Goto, TypeOK, Planning, budgets
<1>4. ASSUME NEW r \in Resource, ModifyPlan(r) \/ PlanCreate(r) PROVE TypeOK'
  BY <1>4 DEF ModifyPlan, PlanCreate, Goto, Planned, TypeOK, Planning, budgets
<1>5. ASSUME NEW r \in Resource, CheckDomainAndName(r) \/ CheckName(r) \/ DeleteUnknown(r) PROVE TypeOK'
  BY <1>5 DEF CheckDomainAndName, CheckName, DeleteUnknown, Goto, TypeOK, Ended, Applying, budgets
<1>6. ASSUME NEW r \in Resource, Post(r) \/ PostLost(r) PROVE TypeOK'
  <2>1. config[r] # None /\ defs' = Bind(defs, config[r].domain, Defined(config[r]))
    BY <1>6 DEF Post, PostLost, OperationIsKnown, Creating, Updating, Kept
  <2>2. defs' \in Definitions
    BY <2>1, DefinedBlock, BindDefinition DEF TypeOK, Definitions
  <2>3. config[r] \in Wanted
    BY <2>1, DefinedBlock
  <2>4. CASE Post(r)
    BY <2>2, <2>3, <2>4 DEF Post, Record, Goto, TypeOK, Definitions, Ended, budgets
  <2>5. CASE PostLost(r)
    BY <2>2, <2>5 DEF PostLost, LoseAnswer, Goto, Released, TypeOK, Definitions, Ended
  <2>6. QED
    BY <1>6, <2>4, <2>5
<1>7. ASSUME NEW r \in Resource, Delete(r) \/ DeleteLost(r) PROVE TypeOK'
  <2>1. defs' \in Definitions
    BY <1>7, UnbindDefinition DEF Delete, DeleteLost, TypeOK, Definitions
  <2>2. CASE Delete(r)
    BY <2>1, <2>2 DEF Delete, Record, Goto, TypeOK, Definitions, Ended, Applying, budgets
  <2>3. CASE DeleteLost(r)
    BY <2>1, <2>3 DEF DeleteLost, LoseAnswer, Goto, Released, TypeOK, Definitions, Ended
  <2>4. QED
    BY <1>7, <2>2, <2>3
<1>8. ASSUME NEW r \in Resource, RequestFails(r) PROVE TypeOK'
  BY <1>8 DEF RequestFails, FailRequest, Fault, Released, Goto, Planned, TypeOK, Ended, Planning
<1>9. ASSUME NEW r \in Resource, ImportState(r) PROVE TypeOK'
  <2>1. PICK p \in DOMAIN defs : Import(r, Stored(p))
    BY <1>9 DEF ImportState
  <2>2. QED
    BY <1>9, <2>1, StoredDefinition DEF ImportState, Import, Record, TypeOK, budgets
<1>10. CASE UIEdit
  <2>1. defs' \in Definitions
    BY <1>10, BindDefinition, UnbindDefinition DEF UIEdit, TypeOK, Definitions
  <2>2. QED
    BY <1>10, <2>1 DEF UIEdit, EditedInUI, TypeOK, Definitions
<1>11. CASE Rest \/ UNCHANGED vars
  BY <1>11 DEF Rest, vars, tfVars, budgets, TypeOK
<1>12. QED
  BY <1>1, <1>2, <1>3, <1>4, <1>5, <1>6, <1>7, <1>8, <1>9, <1>10, <1>11 DEF Next, Handler

\* The phases of a run, and what a handler is there for while it is at work.
LEMMA DNSPhaseStep == DNSInv /\ [Next]_vars => PlannedTogether' /\ OperationIsKnown'
<1> DEFINE Known(r) == /\ pc'[r] = "delete" => Removing(r)'
                       /\ pc'[r] = "check" => Creating(r)'
                       /\ pc'[r] = "recheck" => Updating(r)'
                       /\ pc'[r] = "post" => Creating(r)' \/ Updating(r)'
           Good(p, q) == Known(q) /\ (pc'[p] \in Planning => pc'[q] \in Planning)
<1> SUFFICES ASSUME DNSInv, [Next]_vars, NEW p \in Resource, NEW q \in Resource
             PROVE  Good(p, q)
  BY DEF PlannedTogether, OperationIsKnown, Creating, Removing, Updating, Replacing, Deleting, Kept
<1> USE DEF DNSInv, TypeOK, TerraformTypeOK, PlannedTogether, OperationIsKnown, Planning,
            Removing, Replacing, Updating, Creating, Deleting, Kept
<1>1. CASE StartRun
  BY <1>1 DEF StartRun, StartTerraform
<1>2. CASE EndPlanning
  BY <1>2 DEF EndPlanning, ApplyPlan
<1>3. ASSUME NEW r \in Resource, Read(r) PROVE Good(p, q)
  BY <1>3 DEF Read, Refreshed, Record, Goto
<1>4. ASSUME NEW r \in Resource, ModifyPlan(r) \/ PlanCreate(r) PROVE Good(p, q)
  <2>1. /\ pc[r] \in Planning /\ pc'[r] \in {"refused", "replan", "ready"}
        /\ \A s \in Resource : s # r => pc'[s] = pc[s]
        /\ config' = config /\ tf' = tf
    BY <1>4 DEF ModifyPlan, PlanCreate, Planned, Goto
  <2>2. QED
    BY <2>1
<1>5. ASSUME NEW r \in Resource, CheckDomainAndName(r) \/ CheckName(r) \/ DeleteUnknown(r)
      PROVE  Good(p, q)
  BY <1>5 DEF CheckDomainAndName, CheckName, DeleteUnknown, Goto
<1>6. ASSUME NEW r \in Resource, Post(r) \/ Delete(r) PROVE Good(p, q)
  BY <1>6 DEF Post, Delete, Record, Goto
<1>7. ASSUME NEW r \in Resource, PostLost(r) \/ DeleteLost(r) PROVE Good(p, q)
  BY <1>7 DEF PostLost, DeleteLost, LoseAnswer, Goto
<1>8. ASSUME NEW r \in Resource, RequestFails(r) PROVE Good(p, q)
  BY <1>8 DEF RequestFails, Requesting, FailRequest, Fault, Planned, Goto, Applying
<1>9. ASSUME NEW r \in Resource, ImportState(r) PROVE Good(p, q)
  BY <1>9 DEF ImportState, Import, Record, AllEnded, Ended
<1>10. CASE UIEdit \/ Rest \/ UNCHANGED vars
  BY <1>10 DEF UIEdit, EditedInUI, Rest, vars, tfVars
<1>11. QED
  BY <1>1, <1>2, <1>3, <1>4, <1>5, <1>6, <1>7, <1>8, <1>9, <1>10 DEF Next, Handler

LEMMA DNSInvariant == Spec => []DNSInv
<1>1. DNSInv /\ [Next]_vars => DNSInv'
  BY DNSTypeStep, DNSPhaseStep DEF DNSInv
<1>2. QED
  BY DNSInit, <1>1, PTL DEF Spec

-----------------------------------------------------------------------------
(* The invariant, for configurations in which nothing is declared twice.   *)

\* The Orchestrator holds no domain and no name twice at the start.
DistinctInitially ==
    \A start \in InitialDefs : \A d, e \in DOMAIN start :
        Equal(d, e) \/ Equal(start[d].name, start[e].name) => d = e

\* Another block's entry is never in the way.
LEMMA FitsAfterPost ==
    ASSUME Apart(config), NEW q \in Resource, NEW r \in Resource, q # r,
           config[q] # None, config[r] # None,
           defs' = Bind(defs, config[q].domain, Defined(config[q])),
           config' = config, tf'[r] = tf[r]
    PROVE  (Fits(r) => Fits(r)') /\ (Sole(r) => Sole(r)')
<1>1. ~Equal(config[q].domain, config[r].domain) /\ ~Equal(config[q].name, config[r].name)
  BY DEF Apart
<1>2. DomainInUse(config[r].domain)' => DomainInUse(config[r].domain)
  BY <1>1 DEF Bind, DomainInUse
<1>3. NameInUse(config[r].name, {config[r].domain})' => NameInUse(config[r].name, {config[r].domain})
  BY <1>1 DEF Bind, Defined, NameInUse
<1>4. Sole(r) => Sole(r)'
  BY <1>1 DEF Bind, Sole
<1>5. QED
  BY <1>2, <1>3, <1>4 DEF Fits, Creating, Replacing, Kept

\* Nor is anything that has been removed, the block's own old entry included.
LEMMA FitsAfterDelete ==
    ASSUME NEW r \in Resource, NEW p, defs' = Unbind(defs, p), config' = config,
           tf'[r] = tf[r] \/ (Replacing(r) /\ tf'[r] = None)
    PROVE  (Fits(r) => Fits(r)') /\ (Sole(r) => Sole(r)')
BY DEF Fits, Sole, NameInUse, DomainInUse, Creating, Replacing, Kept, Unbind, Restrict

LEMMA FitsUnchanged ==
    ASSUME NEW r \in Resource, UNCHANGED <<defs, config>>, tf'[r] = tf[r]
    PROVE  (Fits(r) => Fits(r)') /\ (Sole(r) => Sole(r)')
BY DEF Fits, Sole, NameInUse, DomainInUse, Creating, Replacing, Kept

LEMMA BlockInit ==
    ASSUME DistinctInitially
    PROVE  Init => BlockInv
<1> SUFFICES ASSUME Init PROVE BlockInv
  OBVIOUS
<1>1. Apart(config)
  BY DEF Init, TerraformInit, Apart
<1>2. DomainsUnique /\ NamesUnique
  BY DEF Init, DomainsUnique, NamesUnique, DistinctInitially
<1>3. PlanIsCurrent /\ CheckedFits /\ UpdatesAreSole /\ PlanFits /\ OwnersAreDistinct
  BY DEF Init, TerraformInit, PlanIsCurrent, CheckedFits, UpdatesAreSole, PlanFits, OwnersAreDistinct
<1>4. QED
  BY <1>1, <1>2, <1>3, DNSInit DEF BlockInv

\* Nothing makes up for an edit, a failure or a lost answer.
LEMMA HappenedGrows ==
    ASSUME [Next]_vars
    PROVE  happened \subseteq happened'
BY DEF Next, Handler, StartRun, StartTerraform, EndPlanning, ApplyPlan, Read, Refreshed, ModifyPlan,
       PlanCreate, CheckDomainAndName, CheckName, Post, PostLost, Delete, DeleteLost, LoseAnswer,
       DeleteUnknown, RequestFails, FailRequest, Fault, ImportState, Import, UIEdit, EditedInUI,
       Rest, vars, tfVars, budgets

\* A step that changes classifications is a write or an edit in the UI.
LEMMA WhoWrites ==
    ASSUME DNSInv, [Next]_vars, defs' # defs
    PROVE  \/ UIEdit
           \/ \E r \in Resource :
                 /\ Post(r) \/ PostLost(r)
                 /\ pc[r] = "post" /\ config[r] # None
                 /\ defs' = Bind(defs, config[r].domain, Defined(config[r]))
           \/ \E r \in Resource :
                 /\ Delete(r) \/ DeleteLost(r)
                 /\ pc[r] = "delete" /\ tf[r].domain \in DOMAIN defs
                 /\ defs' = Unbind(defs, tf[r].domain)
BY DEF Next, Handler, StartRun, EndPlanning, Read, ModifyPlan, PlanCreate, CheckDomainAndName,
       CheckName, Post, PostLost, Delete, DeleteLost, DeleteUnknown, RequestFails, ImportState,
       Rest, vars, DNSInv, OperationIsKnown, Creating, Updating, Kept

\* The configuration of a run is one of those the operator applies.
LEMMA ApartStep ==
    ASSUME DistinctBlocks, Apart(config), [Next]_vars
    PROVE  Apart(config')
<1>1. CASE StartRun
  BY <1>1 DEF StartRun, StartTerraform, DistinctBlocks
<1>2. CASE ~StartRun
  <2>1. config' = config
    BY <1>2
    DEF Next, Handler, EndPlanning, ApplyPlan, Read, Refreshed, ModifyPlan, PlanCreate,
        CheckDomainAndName, CheckName, Post, PostLost, Delete, DeleteLost, LoseAnswer, DeleteUnknown,
        RequestFails, FailRequest, ImportState, Import, UIEdit, EditedInUI, Rest, vars, tfVars
  <2>2. QED
    BY <2>1
<1>3. QED
  BY <1>1, <1>2

\* What a handler is about to write has no other spelling.
LEMMA SoleWrites ==
    ASSUME BlockInv, "edit" \notin happened, NEW r \in Resource, pc[r] = "post"
    PROVE  Sole(r)
BY DEF BlockInv, CheckedFits, UpdatesAreSole, Fits, Sole, DomainInUse, DNSInv, OperationIsKnown

LEMMA UniqueStep ==
    ASSUME BlockInv, [Next]_vars
    PROVE  DomainsUnique' /\ NamesUnique'
<1> SUFFICES ASSUME "edit" \notin happened', NEW p \in DOMAIN defs', NEW q \in DOMAIN defs'
             PROVE  Equal(p, q) \/ Equal(defs'[p].name, defs'[q].name) => p = q
  BY DEF DomainsUnique, NamesUnique, Equal
<1>1. "edit" \notin happened /\ ~UIEdit
  BY HappenedGrows DEF UIEdit, EditedInUI
<1>2. \A x, y \in DOMAIN defs : Equal(x, y) \/ Equal(defs[x].name, defs[y].name) => x = y
  BY <1>1 DEF BlockInv, DomainsUnique, NamesUnique
<1>3. CASE defs' = defs
  BY <1>2, <1>3
<1>4. ASSUME NEW r \in Resource, pc[r] = "post",
             defs' = Bind(defs, config[r].domain, Defined(config[r]))
      PROVE  Equal(p, q) \/ Equal(defs'[p].name, defs'[q].name) => p = q
  <2>1. \A x \in DOMAIN defs : x # config[r].domain =>
            ~Equal(x, config[r].domain) /\ ~Equal(defs[x].name, config[r].name)
    <3>1. Sole(r)
      BY <1>1, <1>4, SoleWrites
    <3>2. QED
      BY <1>1, <1>4, <3>1 DEF BlockInv, CheckedFits, Fits, NameInUse, Sole
  <2>2. defs'[config[r].domain].name = config[r].name
    BY <1>4 DEF Bind, Defined
  <2>3. QED
    BY <1>2, <1>4, <2>1, <2>2 DEF Bind, Equal
<1>5. ASSUME NEW x, defs' = Unbind(defs, x)
      PROVE  Equal(p, q) \/ Equal(defs'[p].name, defs'[q].name) => p = q
  BY <1>2, <1>5 DEF Unbind, Restrict
<1>6. QED
  BY <1>1, <1>3, <1>4, <1>5, WhoWrites DEF BlockInv

\* What was planned comes from a refresh of the same run, and while blocks are
\* planned only the UI writes.
LEMMA PlanStep ==
    ASSUME BlockInv, [Next]_vars
    PROVE  PlanIsCurrent'
<1> DEFINE Current(q) == pc'[q] \in {"plan", "replan", "ready"} /\ tf'[q] # None => Backed(q)'
<1> SUFFICES ASSUME "edit" \notin happened', NEW q \in Resource PROVE Current(q)
  BY DEF PlanIsCurrent, Backed, Stored
<1>1. "edit" \notin happened /\ ~UIEdit
  BY HappenedGrows DEF UIEdit, EditedInUI
<1> USE DEF BlockInv, DNSInv, TypeOK, TerraformTypeOK, PlanIsCurrent, PlannedTogether, Planning,
            Backed, Stored
<1>2. CASE StartRun \/ EndPlanning
  BY <1>2 DEF StartRun, StartTerraform, EndPlanning, ApplyPlan
<1>3. ASSUME NEW r \in Resource, Read(r) PROVE Current(q)
  BY <1>1, <1>3 DEF Read, Refreshed, Record, Goto
<1>4. ASSUME NEW r \in Resource, ModifyPlan(r) \/ PlanCreate(r) PROVE Current(q)
  BY <1>1, <1>4 DEF ModifyPlan, PlanCreate, Planned, Goto
<1>5. ASSUME NEW r \in Resource, CheckDomainAndName(r) \/ CheckName(r) \/ DeleteUnknown(r)
      PROVE  Current(q)
  BY <1>1, <1>5 DEF CheckDomainAndName, CheckName, DeleteUnknown, Goto
<1>6. ASSUME NEW r \in Resource, Post(r) \/ Delete(r) \/ PostLost(r) \/ DeleteLost(r)
      PROVE  Current(q)
  <2>1. pc[r] \in {"post", "delete"} /\ pc'[r] \notin Planning
        /\ \A s \in Resource : s # r => pc'[s] = pc[s]
    BY <1>6 DEF Post, Delete, PostLost, DeleteLost, LoseAnswer, Goto
  <2>2. \A s \in Resource : pc[s] \notin Planning
    BY <2>1
  <2>3. QED
    BY <2>1, <2>2
<1>7. ASSUME NEW r \in Resource, RequestFails(r) PROVE Current(q)
  BY <1>1, <1>7 DEF RequestFails, Requesting, FailRequest, Fault, Planned, Goto, Applying
<1>8. ASSUME NEW r \in Resource, ImportState(r) PROVE Current(q)
  BY <1>8 DEF ImportState, Import, AllEnded, Ended
<1>9. CASE Rest \/ UNCHANGED vars
  BY <1>1, <1>9 DEF Rest, vars, tfVars
<1>10. QED
  BY <1>1, <1>2, <1>3, <1>4, <1>5, <1>6, <1>7, <1>8, <1>9 DEF Next, Handler

\* From the plan to the write.
Chosen == {"ready", "delete", "check", "recheck", "post"}

\* Unless somebody edits entries, no step puts anything in the way of a block:
\* the others of the configuration write other domains and names.
LEMMA FitsStep ==
    ASSUME BlockInv, [Next]_vars, ~UIEdit, NEW q \in Resource,
           config[q] # None, pc[q] \in Chosen, pc'[q] \in Chosen
    PROVE  (Fits(q) => Fits(q)') /\ (Sole(q) => Sole(q)')
<1> DEFINE Stays == (Fits(q) => Fits(q)') /\ (Sole(q) => Sole(q)')
<1> USE DEF BlockInv, DNSInv, TypeOK, TerraformTypeOK, Chosen
<1>1. CASE StartRun \/ EndPlanning \/ Rest \/ UNCHANGED vars
  BY <1>1, FitsUnchanged DEF StartRun, StartTerraform, EndPlanning, ApplyPlan, Rest, vars, tfVars
<1>2. ASSUME NEW r \in Resource, Read(r) \/ ModifyPlan(r) \/ PlanCreate(r) PROVE Stays
  <2>1. UNCHANGED <<defs, config>> /\ tf'[q] = tf[q]
    BY <1>2 DEF Read, Refreshed, Record, ModifyPlan, PlanCreate
  <2>2. QED
    BY <2>1, FitsUnchanged
<1>3. ASSUME NEW r \in Resource, CheckDomainAndName(r) \/ CheckName(r) \/ DeleteUnknown(r) \/ RequestFails(r)
      PROVE  Stays
  <2>1. UNCHANGED <<defs, config, tf>>
    BY <1>3 DEF CheckDomainAndName, CheckName, DeleteUnknown, RequestFails, FailRequest
  <2>2. QED
    BY <2>1, FitsUnchanged
<1>4. ASSUME NEW r \in Resource, Post(r) \/ PostLost(r) PROVE Stays
  <2>1. r # q /\ tf'[q] = tf[q] /\ config' = config
    BY <1>4 DEF Post, PostLost, LoseAnswer, Record, Goto
  <2>2. config[r] # None /\ defs' = Bind(defs, config[r].domain, Defined(config[r]))
    BY <1>4 DEF Post, PostLost, OperationIsKnown, Creating, Updating, Kept
  <2>3. QED
    BY <2>1, <2>2, FitsAfterPost
<1>5. ASSUME NEW r \in Resource, Delete(r) \/ DeleteLost(r) PROVE Stays
  <2>1. /\ config' = config /\ defs' = Unbind(defs, tf[r].domain)
        /\ tf'[q] = tf[q] \/ (Replacing(q) /\ tf'[q] = None)
    BY <1>5 DEF Delete, DeleteLost, LoseAnswer, Record, Goto
  <2>2. QED
    BY <2>1, FitsAfterDelete
<1>6. ASSUME NEW r \in Resource, ImportState(r) PROVE Stays
  BY <1>6 DEF ImportState, Import, AllEnded, Ended
<1>7. QED
  BY <1>1, <1>2, <1>3, <1>4, <1>5, <1>6 DEF Next, Handler

\* A handler writes what it has just checked; other handlers may write between
\* the two.
LEMMA CheckStep ==
    ASSUME BlockInv, [Next]_vars
    PROVE  CheckedFits'
<1> SUFFICES ASSUME "edit" \notin happened', NEW q \in Resource, pc'[q] = "post"
             PROVE  Fits(q)'
  BY DEF CheckedFits
<1>1. "edit" \notin happened /\ ~UIEdit
  BY HappenedGrows DEF UIEdit, EditedInUI
<1>2. CASE pc[q] = "post"
  <2>1. Fits(q) /\ config[q] # None
    BY <1>1, <1>2
    DEF BlockInv, CheckedFits, DNSInv, OperationIsKnown, Creating, Updating, Kept
  <2>2. QED
    BY <1>1, <1>2, <2>1, FitsStep DEF Chosen
<1>3. CASE pc[q] # "post"
  <2>1. CheckDomainAndName(q) \/ CheckName(q)
    BY <1>3
    DEF Next, Handler, StartRun, StartTerraform, EndPlanning, ApplyPlan, Read, Refreshed, ModifyPlan,
        PlanCreate, Planned, CheckDomainAndName, CheckName, Post, PostLost, Delete, DeleteLost,
        LoseAnswer, DeleteUnknown, RequestFails, FailRequest, ImportState, Import, UIEdit,
        EditedInUI, Rest, vars, tfVars, Goto, BlockInv, DNSInv, TypeOK, TerraformTypeOK
  <2>2. Fits(q)
    BY <1>3, <2>1
    DEF CheckDomainAndName, CheckName, Goto, Fits, BlockInv, DNSInv, OperationIsKnown, TypeOK,
        TerraformTypeOK, Creating, Updating, Replacing, Kept
  <2>3. UNCHANGED <<defs, config, tf>>
    BY <2>1 DEF CheckDomainAndName, CheckName
  <2>4. QED
    BY <2>2, <2>3, FitsUnchanged
<1>4. QED
  BY <1>2, <1>3

\* An update is of a domain that was in use when it was planned, and so was
\* no other spelling.
LEMMA SoleStep ==
    ASSUME BlockInv, [Next]_vars
    PROVE  UpdatesAreSole'
<1> SUFFICES ASSUME "edit" \notin happened', NEW q \in Resource,
                    pc'[q] \in {"recheck", "post"}, Updating(q)'
             PROVE  Sole(q)'
  BY DEF UpdatesAreSole
<1>1. "edit" \notin happened /\ ~UIEdit
  BY HappenedGrows DEF UIEdit, EditedInUI
<1>2. CASE pc[q] \in {"recheck", "post"} /\ Updating(q)
  <2>1. Sole(q) /\ config[q] # None
    BY <1>1, <1>2 DEF BlockInv, UpdatesAreSole, Updating, Kept
  <2>2. QED
    BY <1>1, <1>2, <2>1, FitsStep DEF Chosen
<1>3. CASE ~(pc[q] \in {"recheck", "post"} /\ Updating(q))
  <2>1. EndPlanning /\ pc[q] = "ready" /\ Updating(q)
    <3> USE DEF BlockInv, DNSInv, TypeOK, TerraformTypeOK, OperationIsKnown, Goto, Creating,
                Updating, Replacing, Removing, Deleting, Kept
    <3>1. ~StartRun /\ ~Rest /\ ~UNCHANGED vars
      BY <1>3 DEF StartRun, StartTerraform, Rest, vars, tfVars
    <3>2. ASSUME NEW r \in Resource PROVE ~Handler(r)
      <4>1. ~Read(r) /\ ~ModifyPlan(r) /\ ~PlanCreate(r)
        BY <1>3 DEF Read, Refreshed, Record, ModifyPlan, PlanCreate, Planned
      <4>2. ~CheckDomainAndName(r) /\ ~CheckName(r) /\ ~DeleteUnknown(r)
        BY <1>3 DEF CheckDomainAndName, CheckName, DeleteUnknown
      <4>3. ~Post(r) /\ ~Delete(r)
        BY <1>3 DEF Post, Delete, Record
      <4>4. QED
        BY <4>1, <4>2, <4>3 DEF Handler
    <3>3. ASSUME NEW r \in Resource
          PROVE  ~PostLost(r) /\ ~DeleteLost(r) /\ ~ImportState(r) /\ ~RequestFails(r)
      BY <1>3 DEF PostLost, DeleteLost, LoseAnswer, ImportState, Import, AllEnded, Ended,
                  RequestFails, FailRequest, Planned
    <3>4. EndPlanning
      BY <1>1, <3>1, <3>2, <3>3 DEF Next
    <3>5. QED
      BY <3>4 DEF EndPlanning, ApplyPlan
  <2>2. config[q].domain \in DOMAIN defs
    BY <1>1, <2>1 DEF BlockInv, PlanIsCurrent, Backed, Updating, Replacing, Kept
  <2>3. Sole(q)
    BY <1>1, <2>2 DEF BlockInv, DomainsUnique, Sole
  <2>4. QED
    BY <2>1, <2>3, FitsUnchanged DEF EndPlanning, ApplyPlan
<1>4. QED
  BY <1>2, <1>3

\* A plan that is not refused has found nothing in the way of its block, also
\* of one that keeps its name: nobody else has it.
LEMMA PlanFinds ==
    ASSUME BlockInv, "edit" \notin happened, NEW q \in Resource, config[q] # None,
           ModifyPlan(q) \/ PlanCreate(q), pc'[q] = "ready"
    PROVE  Fits(q)
<1> USE DEF BlockInv, DNSInv, TypeOK, TerraformTypeOK, Goto
<1>1. CASE PlanCreate(q)
  BY <1>1 DEF PlanCreate, RefusedInPlan, Fits
<1>2. CASE ModifyPlan(q)
  <2>1. pc[q] = "plan" /\ ~Replacing(q)
    BY <1>2 DEF ModifyPlan, Planned
  <2>2. CASE Creating(q)
    BY <1>2, <2>1, <2>2 DEF ModifyPlan, RefusedInPlan, NewDomain, Fits, Creating, Own
  <2>3. CASE ~Creating(q)
    <3>1. /\ tf[q] # None /\ config[q].domain = tf[q].domain /\ Backed(q)
          /\ config[q] \in Wanted /\ tf[q] \in Wanted
      BY <2>1, <2>3 DEF Creating, Replacing, Kept, PlanIsCurrent
    <3>2. CASE Renaming(q)
      BY <1>2, <2>1, <2>3, <3>1, <3>2 DEF ModifyPlan, RefusedInPlan, Fits, Own
    <3>3. CASE ~Renaming(q)
      <4>1. config[q].name = tf[q].name
        BY <2>1, <3>1, <3>3 DEF Renaming, Updating, Kept
      <4>2. defs[config[q].domain].name = config[q].name /\ config[q].domain \in DOMAIN defs
        BY <3>1, <4>1 DEF Backed, Stored
      <4>3. ~NameInUse(config[q].name, {config[q].domain})
        BY <4>2 DEF NamesUnique, NameInUse, Equal
      <4>4. QED
        BY <2>1, <2>3, <4>3 DEF Fits
    <3>4. QED
      BY <3>2, <3>3
  <2>4. QED
    BY <2>2, <2>3
<1>3. QED
  BY <1>1, <1>2

LEMMA PromiseStep ==
    ASSUME BlockInv, [Next]_vars
    PROVE  PlanFits'
<1> SUFFICES ASSUME happened' \cap {"fault", "edit"} = {}, NEW q \in Resource, config'[q] # None,
                    pc'[q] \in {"ready", "delete", "check", "recheck"}
             PROVE  Fits(q)'
  BY DEF PlanFits
<1>1. /\ happened \cap {"fault", "edit"} = {} /\ ~UIEdit
      /\ \A r \in Resource : ~RequestFails(r)
  BY HappenedGrows DEF UIEdit, EditedInUI, RequestFails, FailRequest, Fault
<1>2. config' = config
  BY <1>1
  DEF Next, Handler, StartRun, StartTerraform, EndPlanning, ApplyPlan, Read, Refreshed, ModifyPlan,
      PlanCreate, CheckDomainAndName, CheckName, Post, PostLost, Delete, DeleteLost, LoseAnswer,
      DeleteUnknown, ImportState, Import, Rest, vars, tfVars
<1>3. CASE pc[q] \in {"ready", "delete", "check", "recheck"}
  <2>1. Fits(q)
    BY <1>1, <1>2, <1>3 DEF BlockInv, PlanFits
  <2>2. QED
    BY <1>1, <1>2, <1>3, <2>1, FitsStep DEF Chosen
<1>4. CASE pc[q] \notin {"ready", "delete", "check", "recheck"}
  <2>1. (ModifyPlan(q) \/ PlanCreate(q)) /\ pc'[q] = "ready"
    <3> USE DEF Goto, BlockInv, DNSInv, TypeOK, TerraformTypeOK
    <3>1. ~StartRun /\ ~EndPlanning /\ ~Rest /\ ~UNCHANGED vars
      BY <1>4 DEF StartRun, StartTerraform, EndPlanning, ApplyPlan, Rest, vars, tfVars
    <3>2. ASSUME NEW r \in Resource, Handler(r)
          PROVE  (ModifyPlan(q) \/ PlanCreate(q)) /\ pc'[q] = "ready"
      BY <1>4, <3>2
      DEF Handler, Read, Refreshed, ModifyPlan, PlanCreate, Planned, CheckDomainAndName, CheckName,
          Post, Delete, DeleteUnknown
    <3>3. ASSUME NEW r \in Resource PROVE ~PostLost(r) /\ ~DeleteLost(r) /\ ~ImportState(r)
      BY <1>4 DEF PostLost, DeleteLost, LoseAnswer, ImportState, Import
    <3>4. QED
      BY <1>1, <3>1, <3>2, <3>3 DEF Next
  <2>2. Fits(q)
    BY <1>1, <1>2, <2>1, PlanFinds
  <2>3. UNCHANGED <<defs, config, tf>>
    BY <2>1 DEF ModifyPlan, PlanCreate
  <2>4. QED
    BY <2>2, <2>3, FitsUnchanged
<1>5. QED
  BY <1>3, <1>4

\* Nothing makes up for a disturbance.
LEMMA DisturbanceStays ==
    ASSUME [Next]_vars, Undisturbed'
    PROVE  Undisturbed
BY HappenedGrows DEF Undisturbed

\* Undisturbed, every change of the state or of the classifications is one of
\* these, and a create writes a domain that nothing has.
LEMMA UndisturbedSteps ==
    ASSUME BlockInv, [Next]_vars, Undisturbed'
    PROVE  \/ UNCHANGED <<tf, defs>>
           \/ \E r \in Resource : Read(r) \/ Post(r) \/ Delete(r) \/ ImportState(r)
<1>1. ~UIEdit /\ \A r \in Resource : ~PostLost(r) /\ ~DeleteLost(r)
  BY DEF UIEdit, EditedInUI, PostLost, DeleteLost, LoseAnswer, Undisturbed
<1>2. QED
  BY <1>1
  DEF Next, Handler, StartRun, StartTerraform, EndPlanning, ApplyPlan, ModifyPlan, PlanCreate,
      CheckDomainAndName, CheckName, DeleteUnknown, RequestFails, FailRequest, Rest, vars, tfVars

LEMMA PostOfBlock ==
    ASSUME BlockInv, Undisturbed, NEW r \in Resource, Post(r)
    PROVE  /\ \A q \in Resource : q # r => tf'[q] = tf[q]
           /\ tf'[r] = config[r] /\ config[r] # None
           /\ defs' = Bind(defs, config[r].domain, Defined(config[r]))
           /\ \/ tf[r] = None /\ config[r].domain \notin DOMAIN defs
              \/ tf[r] # None /\ config[r].domain = tf[r].domain
<1>1. Fits(r) /\ (Creating(r) \/ Updating(r))
  BY DEF Post, BlockInv, CheckedFits, DNSInv, OperationIsKnown, Undisturbed
<1>2. QED
  BY <1>1
  DEF Post, Record, Fits, DomainInUse, Equal, Creating, Updating, Replacing, Kept, BlockInv, DNSInv,
      TypeOK, TerraformTypeOK

LEMMA OwnersStep ==
    ASSUME BlockInv, [Next]_vars
    PROVE  OwnersAreDistinct'
<1> SUFFICES ASSUME Undisturbed'
             PROVE  /\ \A r \in Resource : tf'[r] # None => tf'[r].domain \in DOMAIN defs'
                    /\ \A p, q \in Resource :
                          tf'[p] # None /\ tf'[q] # None /\ tf'[p].domain = tf'[q].domain => p = q
  BY DEF OwnersAreDistinct
<1> DEFINE Distinct == /\ \A r \in Resource : tf'[r] # None => tf'[r].domain \in DOMAIN defs'
                       /\ \A p, q \in Resource :
                             tf'[p] # None /\ tf'[q] # None /\ tf'[p].domain = tf'[q].domain => p = q
<1>1. Undisturbed
  BY DisturbanceStays
<1>2. /\ \A r \in Resource : tf[r] # None => tf[r].domain \in DOMAIN defs
      /\ \A p, q \in Resource :
            tf[p] # None /\ tf[q] # None /\ tf[p].domain = tf[q].domain => p = q
      /\ tf \in [Resource -> Wanted \cup {None}]
  BY <1>1 DEF BlockInv, OwnersAreDistinct, DNSInv, TypeOK, TerraformTypeOK
<1>3. CASE UNCHANGED <<tf, defs>>
  BY <1>2, <1>3
<1>4. ASSUME NEW r \in Resource, Read(r) PROVE Distinct
  <2>1. /\ \A q \in Resource : q # r => tf'[q] = tf[q]
        /\ tf'[r] = None \/ (tf[r] # None /\ tf'[r].domain = tf[r].domain)
    BY <1>2, <1>4 DEF Read, Record, Stored
  <2>2. QED
    BY <1>2, <1>4, <2>1 DEF Read
<1>5. ASSUME NEW r \in Resource, Post(r) PROVE Distinct
  <2>1. DOMAIN defs' = DOMAIN defs \cup {config[r].domain}
    BY <1>5 DEF Post, Bind
  <2>2. QED
    BY <1>1, <1>2, <1>5, <2>1, PostOfBlock
<1>6. ASSUME NEW r \in Resource, Delete(r) PROVE Distinct
  <2>1. /\ \A q \in Resource : q # r => tf'[q] = tf[q]
        /\ tf'[r] = None /\ tf[r] # None
        /\ DOMAIN defs' = DOMAIN defs \ {tf[r].domain}
    BY <1>2, <1>6 DEF Delete, Record, Unbind, Restrict, BlockInv, DNSInv, OperationIsKnown,
                      Removing, Deleting, Replacing, Kept
  <2>2. QED
    BY <1>2, <2>1
<1>7. ASSUME NEW r \in Resource, ImportState(r) PROVE Distinct
  <2>1. PICK p \in DOMAIN defs :
           /\ \A q \in Resource : tf[q] # None => tf[q].domain # p
           /\ Import(r, Stored(p))
    BY <1>7 DEF ImportState
  <2>2. /\ \A q \in Resource : q # r => tf'[q] = tf[q]
        /\ tf'[r].domain = p
    BY <1>2, <2>1 DEF Import, Record, Stored
  <2>3. QED
    BY <1>2, <1>7, <2>1, <2>2 DEF ImportState
<1>8. QED
  BY <1>3, <1>4, <1>5, <1>6, <1>7, UndisturbedSteps

LEMMA BlockInvariant ==
    ASSUME DistinctBlocks, DistinctInitially
    PROVE  Spec => []BlockInv
<1>1. Init => BlockInv
  BY BlockInit
<1>2. BlockInv /\ [Next]_vars => BlockInv'
  <2> SUFFICES ASSUME BlockInv, [Next]_vars PROVE BlockInv'
    OBVIOUS
  <2>1. DNSInv' /\ Apart(config')
    BY DNSTypeStep, DNSPhaseStep, ApartStep DEF BlockInv, DNSInv
  <2>2. /\ PlanIsCurrent' /\ CheckedFits' /\ UpdatesAreSole' /\ DomainsUnique' /\ NamesUnique'
        /\ PlanFits' /\ OwnersAreDistinct'
    BY PlanStep, CheckStep, SoleStep, UniqueStep, PromiseStep, OwnersStep
  <2>3. QED
    BY <2>1, <2>2 DEF BlockInv, Apart
<1>3. QED
  BY <1>1, <1>2, PTL DEF Spec

-----------------------------------------------------------------------------

\* Every variable keeps its type, with any blocks, domains and names, declared
\* twice or not.
THEOREM DNSTypeCorrect == Spec => []TypeOK
<1>1. DNSInv => TypeOK
  BY DEF DNSInv
<1>2. QED
  BY <1>1, DNSInvariant, PTL

\* No domain is ever classified in two spellings, although domains are looked
\* up outside the mutex and some time before the POST, an update does not look
\* them up at all, and answers may be lost, until the UI is used.
THEOREM DomainsStayUnique ==
    ASSUME DistinctBlocks, DistinctInitially
    PROVE  Spec => []DomainsUnique
<1>1. BlockInv => DomainsUnique
  BY DEF BlockInv
<1>2. QED
  BY <1>1, BlockInvariant, PTL

\* A plan that is not refused is not refused while it is applied either,
\* whatever the other blocks of the configuration do in between.
THEOREM PlansKeepTheirPromise ==
    ASSUME DistinctBlocks, DistinctInitially
    PROVE  Spec => PlanPromisesNoRefusal
<1> DEFINE Refusal(r) == /\ pc[r] \in {"check", "recheck"} /\ pc'[r] = "failed"
                         /\ UNCHANGED <<faults, edits>>
<1>1. ASSUME BlockInv, [Next]_vars, NEW r \in Resource, Refusal(r)
      PROVE  happened \cap {"fault", "edit"} # {}
  <2> USE DEF BlockInv, DNSInv, TypeOK, TerraformTypeOK
  <2>1. ~UIEdit /\ \A q \in Resource : ~RequestFails(q)
    BY <1>1 DEF UIEdit, EditedInUI, RequestFails, FailRequest, Fault
  <2>2. CheckDomainAndName(r) \/ CheckName(r)
    <3>1. ~StartRun /\ ~EndPlanning /\ ~Rest /\ ~UNCHANGED vars
      BY <1>1 DEF StartRun, StartTerraform, EndPlanning, ApplyPlan, Rest, vars, tfVars
    <3>2. ASSUME NEW q \in Resource, Handler(q) PROVE CheckDomainAndName(r) \/ CheckName(r)
      BY <1>1, <3>2
      DEF Handler, Read, Refreshed, ModifyPlan, PlanCreate, Planned, CheckDomainAndName, CheckName,
          Post, Delete, DeleteUnknown, Goto
    <3>3. ASSUME NEW q \in Resource PROVE ~PostLost(q) /\ ~DeleteLost(q) /\ ~ImportState(q)
      BY <1>1 DEF PostLost, DeleteLost, LoseAnswer, ImportState, Import, Goto
    <3>4. QED
      BY <1>1, <2>1, <3>1, <3>2, <3>3 DEF Next
  <2>3. ~Fits(r) /\ config[r] # None
    BY <1>1, <2>2
    DEF CheckDomainAndName, CheckName, Goto, Fits, OperationIsKnown, Creating, Updating, Kept
  <2>4. QED
    BY <1>1, <2>3 DEF PlanFits
<1>2. BlockInv /\ [Next]_vars =>
        [\A r \in Resource :
           pc[r] \in {"check", "recheck"} /\ pc'[r] = "failed" /\ UNCHANGED <<faults, edits>> =>
              happened \cap {"fault", "edit"} # {}]_vars
  BY <1>1
<1>3. QED
  BY <1>2, BlockInvariant, PTL DEF Spec, PlanPromisesNoRefusal

\* For blocks that declare no domain or name twice, the handlers implement a
\* store in which an operation touches the object of its resource only, until
\* the UI is used or an answer is lost.
THEOREM DNSImplementsKeyedStore ==
    ASSUME DistinctBlocks, DistinctInitially
    PROVE  Spec => ImplementsKeyedStore
<1> DEFINE OwnerOf(state) == [r \in Resource |-> IF state[r] = None THEN None ELSE state[r].domain]
<1>1. Init => Store!StoreInit
  BY DEF Init, TerraformInit, Store!StoreInit, Undisturbed
<1>2. ASSUME BlockInv, [Next]_vars
      PROVE  [Store!StoreNext]_(Store!storeVars)
  <2>1. CASE ~Undisturbed'
    BY <2>1 DEF Store!StoreNext
  <2>2. CASE Undisturbed'
    <3>1. Undisturbed
      BY <1>2, <2>2, DisturbanceStays
    <3>2. /\ tf \in [Resource -> Wanted \cup {None}]
          /\ \A w \in Wanted : w # None /\ w.domain # None
          /\ TypeOK
      BY <1>2, DNSAssumption DEF BlockInv, DNSInv, TypeOK, TerraformTypeOK, Wanted
    <3>3. /\ \A r \in Resource : tf[r] # None => tf[r].domain \in DOMAIN defs
          /\ \A q, r \in Resource :
                tf[q] # None /\ tf[r] # None /\ tf[q].domain = tf[r].domain => q = r
      BY <1>2, <3>1 DEF BlockInv, OwnersAreDistinct
    <3>4. CASE UNCHANGED <<tf, defs>>
      BY <2>2, <3>1, <3>4 DEF Store!storeVars
    <3>5. ASSUME NEW r \in Resource, Read(r) PROVE UNCHANGED Store!storeVars
      <4>1. defs' = defs /\ (Undisturbed <=> Undisturbed')
        BY <2>2, <3>1, <3>5 DEF Read
      <4>2. /\ \A q \in Resource : q # r => tf'[q] = tf[q]
            /\ tf'[r] = tf[r] \/ (tf[r] # None /\ tf'[r] = Stored(tf[r].domain))
        BY <3>2, <3>3, <3>5 DEF Read, Record
      <4>3. tf[r] # None => Stored(tf[r].domain) # None /\ Stored(tf[r].domain).domain = tf[r].domain
        BY <3>2, <3>3, StoredDefinition
      <4>4. OwnerOf(tf') = OwnerOf(tf)
        BY <4>2, <4>3
      <4>5. QED
        BY <4>1, <4>4 DEF Store!storeVars
    <3>6. ASSUME NEW r \in Resource, Post(r) PROVE Store!StoreNext
      <4> DEFINE k == config[r].domain
      <4>1. /\ \A q \in Resource : q # r => tf'[q] = tf[q]
            /\ tf'[r] = config[r] /\ config[r] # None
            /\ defs' = Bind(defs, k, Defined(config[r]))
        BY <1>2, <3>1, <3>6, PostOfBlock
      <4>2. k \in DOMAIN defs' /\ defs' = Bind(defs, k, defs'[k])
        BY <4>1 DEF Bind
      <4>3. CASE tf[r] = None /\ k \notin DOMAIN defs
        <5>1. OwnerOf(tf') = [OwnerOf(tf) EXCEPT ![r] = k]
          BY <3>2, <4>1, <4>3
        <5>2. OwnerOf(tf)[r] = None /\ \A q \in Resource : OwnerOf(tf)[q] # k
          <6>1. k # None
            BY <3>2, <4>1, DNSAssumption DEF TypeOK, TerraformTypeOK
          <6>2. QED
            BY <3>3, <4>3, <6>1
        <5>3. QED
          BY <4>2, <4>3, <5>1, <5>2
          DEF Store!StoreNext, Store!Adopt, Store!Owned, Store!Stores, Store!Bind, Bind
      <4>4. CASE tf[r] # None /\ k = tf[r].domain
        <5>1. OwnerOf(tf') = OwnerOf(tf) /\ OwnerOf(tf)[r] = k
          BY <4>1, <4>4
        <5>2. k \in DOMAIN defs /\ defs' = [defs EXCEPT ![k] = defs'[k]]
          <6>1. k \in DOMAIN defs /\ defs = [p \in DOMAIN defs |-> defs[p]]
            BY <3>2, <3>3, <4>4 DEF TypeOK
          <6>2. QED
            BY <4>2, <6>1 DEF Bind
        <5>3. QED
          BY <4>2, <5>1, <5>2 DEF Store!StoreNext, Store!Change
      <4>5. QED
        BY <1>2, <3>1, <3>6, <4>3, <4>4, PostOfBlock
    <3>7. ASSUME NEW r \in Resource, Delete(r) PROVE Store!StoreNext
      <4>1. /\ tf[r] # None /\ tf[r].domain \in DOMAIN defs
            /\ defs' = Unbind(defs, tf[r].domain)
            /\ tf'[r] = None /\ \A q \in Resource : q # r => tf'[q] = tf[q]
        BY <1>2, <3>2, <3>7 DEF Delete, Record, BlockInv, DNSInv, OperationIsKnown, Removing,
                                Deleting, Replacing, Kept
      <4>2. OwnerOf(tf') = [OwnerOf(tf) EXCEPT ![r] = None] /\ OwnerOf(tf)[r] = tf[r].domain
        BY <4>1
      <4>3. Store!Drop(r)
        BY <4>1, <4>2 DEF Store!Drop, Store!Unbind, Store!Restrict, Unbind, Restrict
      <4>4. QED
        BY <4>3 DEF Store!StoreNext
    <3>8. ASSUME NEW r \in Resource, ImportState(r) PROVE Store!StoreNext
      <4>1. PICK p \in DOMAIN defs :
               /\ \A q \in Resource : tf[q] # None => tf[q].domain # p
               /\ Import(r, Stored(p))
        BY <3>8 DEF ImportState
      <4>2. Stored(p) # None /\ p # None /\ Stored(p).domain = p
        BY <3>2, StoredDefinition
      <4>3. OwnerOf(tf') = [OwnerOf(tf) EXCEPT ![r] = p] /\ OwnerOf(tf)[r] = None
        BY <3>2, <4>1, <4>2 DEF Import, Record
      <4>4. \A q \in Resource : OwnerOf(tf)[q] # p
        BY <4>1, <4>2
      <4>5. defs' = defs
        BY <3>8 DEF ImportState
      <4>6. QED
        BY <4>3, <4>4, <4>5 DEF Store!StoreNext, Store!Adopt, Store!Owned
    <3>9. QED
      BY <1>2, <2>2, <3>4, <3>5, <3>6, <3>7, <3>8, UndisturbedSteps
  <2>3. QED
    BY <2>1, <2>2
<1>3. QED
  BY <1>1, <1>2, BlockInvariant, PTL DEF Spec, ImplementsKeyedStore, Store!StoreSpec
=============================================================================
