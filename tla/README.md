# Verification of terraform-provider-arubasdwan

TLA+ specifications of the Terraform provider for the Aruba SD-WAN
Orchestrator, TLC configurations that check them on small instances, and
proofs that TLAPS checks for every instance.

## 1. The system

The provider (`internal/provider`) turns Terraform's resource operations into
requests of one shared HTTP client (`internal/client`). The code starts no
goroutine and no timer of its own. Its concurrency comes from Terraform, which
calls the handlers of up to ten resources at the same time, and from the
Orchestrator, which people and other tools edit meanwhile. Three kinds of state
matter:

* **the Orchestrator's**: for most objects one document or one list per kind,
  which is read and replaced as a whole;
* **the client's**: one mutex per kind of object (`zoneMu`, `policyMu`,
  `appDefMu`, `appGroupMu`, `ipObjectMu`, `overlayMu`) and the registry of the
  policies created by this process;
* **Terraform's state file**: what each resource block is believed to be,
  possibly written by a run long ago.

What is hard: handlers interleave between any two requests unless a mutex
forbids it; checks (names, conflicts) and the writes they guard are separate
requests; whole-set writes lose what was written since the read; numeric IDs
shift; a request may fail, or take effect without an answer; a later run starts
from a state file that the failures of earlier runs left behind.

### Inventory

| Component | State | Operations | What must hold |
|---|---|---|---|
| Compound classifications (`application.go`, `app_compound_classification_resource.go`) | priority-ordered list; the ID is the position; `appDefMu` | ModifyPlan, Create, Read, Update, Delete, ImportState | IDs resolved under the lock are current; no write hits another rule; names unique; no rule with two owners |
| Security policies (`client.go`, `security_policy_resource.go`) | a set of rules per segment pair; `policyMu`; `policyRegistry` | Create, Read, Update, Delete, ImportState | other rules survive the replacement of the set; slots are not shared; creates overwrite nothing; deletes delete |
| Zone translator (`vrf.go`) | zone-to-VRF mappings | ToVRF, ToDefaultVRF | translating a set to the default VRF and back is the identity |
| Security zones (`client.go`, `security_zone_resource.go`) | the zone set; next ID; `zoneMu` | CreateZone, UpdateZone, DeleteZone, import | no zone lost, IDs not reused, deletion takes policies along |
| Application groups (`application.go`, `application_group_resource.go`) | all groups; `appGroupMu` | ModifyPlan, CRUD, import | other groups survive with apps and parents |
| Port/protocol classifications (`application.go`, `app_port_protocol_resource.go`) | keyed by port and protocol; `appDefMu` | ModifyPlan, CRUD, import | names unique; a plan that passes is not refused by the apply |
| DNS classifications (`application.go`, `app_dns_classification_resource.go`) | keyed by domain; `appDefMu` | ModifyPlan, CRUD, import | no domain in two spellings; a plan that passes is not refused by the apply |
| Address maps (`addressmap.go`, `app_address_map_resource.go`) | keyed by IPv4 range; `appDefMu` | ModifyPlan, CRUD, import | ranges do not overlap; names unique |
| IP address groups (`ipobjects.go`) | keyed by name; `ipObjectMu` | CRUD, import | a create replaces nothing |
| Overlay ACLs (`overlay.go`, `overlay_acl_resource.go`) | one ACL per overlay; `overlayMu`; managed sequences in private state | ModifyPlan, CRUD, import | foreign entries are not removed unannounced |
| Wire format (`client.go`) | none | splitExact, parseZonePair, commaToPipe, composite IDs | round trips |
| Appliance deployments, BGP, VRRP, other data sources | none | read and flatten JSON | read-only |
| Transport (`doRequest`), provider configuration | none | requests | outcomes only |

Components interact through the mutexes (`appDefMu` is shared by four kinds of
classification), through zone IDs (policies name zones, and the deletion of a
zone removes policies), and through application names (groups, ACLs and
policies refer to classifications by name).

## 2. Modules

### What is shared

| Module | Role |
|---|---|
| `Terraform` | what Terraform core does with the blocks of one kind: runs, plans, parallel applies, imports, failed requests, lost answers, edits in the UI |
| `Tables` | functions as tables with keys (`Bind`, `Unbind`) |
| `KeyedStore` | the abstract promise of a resource that manages one object: an operation stores under an unused key or touches the object it owns; no key has two owners |
| `RuleBook` | the same promise for compound classifications, whose IDs shift |

### One component each

| Component | Model | Properties | TLC | Proofs |
|---|---|---|---|---|
| Compound classifications | `CompoundClassification` | `CompoundProperties` (refines `RuleBook`) | `MCCompound` | `CompoundProofs` |
| Security policies | `SecurityPolicies`, `ZoneTranslator` | `PolicyProperties` (refines `KeyedStore`) | `MCPolicies` | `PolicyProofs` |
| Security zones | `SecurityZones` | `ZoneProperties` (refines `KeyedStore`) | `MCZones` | `ZoneProofs` |
| Application groups | `ApplicationGroups` | `GroupProperties` (refines `KeyedStore`) | `MCGroups` | `GroupProofs` |
| Port/protocol classifications | `PortProtocols` | `PortProtocolProperties` (refines `KeyedStore`) | `MCPortProtocols` | `PortProtocolProofs` |
| DNS classifications | `DNSClassifications` | `DNSProperties` (refines `KeyedStore`) | `MCDNS` | `DNSProofs` |
| Address maps | `AddressMaps`, `AddressRange` | `AddressMapProperties` (refines `KeyedStore`) | `MCAddressMaps` | `CarryOverProofs` |
| IP address groups | `IPAddressGroups` | `IPAddressGroupProperties` (refines `KeyedStore`) | `MCIPAddressGroups` | `IPAddressGroupProofs` |
| Overlay ACLs | `OverlayACLs`, `ACLDocument` | `OverlayProperties` | `MCOverlays` | `CarryOverProofs` |

Address maps and overlay ACLs are the two kinds whose writes carry over fields
the client does not model; their proofs share `CarryOverProofs`. It extends both
models, so the definitions of `OverlayACLs` carry names of their own
(`OverlaySpec`, `ReadACL`, `EditOverlay`, ...).

Operators named `X_Something` beside a definition `X` are plausible bugs of the
code behind `X`. Each property of a passing run has one in whose place TLC finds
the property violated (`PROJECT.json`, "mutants").

### How the models correspond to the code

`pc[r]` says which request the handler of resource `r` sends next, and every
action covers the code from one request to the next: one GET, POST, PUT or
DELETE with the checks, assignments and unlocks around it. So every
interleaving that the HTTP requests allow is explored, and a check and the
write it guards are two actions wherever the code sends two requests. `lock` is
the mutex of the kind; the handler that holds it releases it on every path on
which the deferred unlock runs.

*Terraform.* `StartRun` chooses a configuration. Every resource is refreshed
(`Read`) and planned (`ModifyPlan`); a plan with an error ends the run, any
other is applied to all resources in parallel (`ApplyPlan`). `tf` is the state
file, `config` the configuration; whether a resource is created, updated,
replaced or deleted follows from the two, as in Terraform's core. A
replacement is planned twice, as core does it: first against the state, then as
a create without one ("replan"); it is applied as a delete and a create of the
same block. A resource whose handler failed keeps what it had in the state; core
also marks a block as tainted when its create ends with a state and an error
(an inconsistent result); the models treat that state like any other. `CompoundClassification` and
`SecurityPolicies` were written before `Terraform` and hold the same machinery
themselves; the other seven extend it.

*Failures.* A request may fail without an effect at any point where one is sent
(`RequestFails`). A failed refresh spoils the plan, a failed listing in
ModifyPlan is a warning, and any other failure ends the handler. A write may
take effect while its answer is lost. Somebody may use the UI (`UIEdit`, `EditOverlay`): add,
change or remove one object of the kind modelled (compound rules are added at
the end and removed anywhere, which renumbers; a zone is added, renamed or
removed with its policies, or gets a policy; the overlay is edited as described
below). Other settings of the Orchestrator do not change. Each of these spends a budget, and `Bounds` lists the combinations
of budgets a run of TLC explores. The ghost `happened` records which kinds have
occurred: `Undisturbed` means that no answer was lost and nothing was edited
(for policies also that every set was translated); requests that failed without
an effect do not count. The ghost `stale` marks the handlers whose listing is
older than an edit in the UI, which no handler could notice.

*Compound classifications.* `rules` is the Orchestrator's list, and an ID is an
index of it, so `RemoveAt` renumbers. `uid` and `minted` are ghosts: an
identity that survives renumbering, which no handler reads. Create and Update
check names (`CheckName`) without the lock, then list and write under it
(`AssignID` or `ResolveID`, then `Write`). `Vanished` is the path where the
name is not found. A create reads the rule back after unlocking (`ReadBack`).
Name comparison goes through `Fold`, the model of `strings.EqualFold`, here and
in the other modules. `id` models only IDs that exist; the -1 of
`resolveCompoundIDLocked` is `Vanished`.

*Security policies.* `server[p][s]` is the rule of pair `p` in slot `s` (source
zone, destination zone, priority) with IDs of the pair's VRFs; `tf` and
`config` use the IDs of the default VRF. `Fetch` takes the lock, lists and
checks; `Post` translates and replaces the set; `ReadBack` runs under the same
lock. Listing and mapping request are one action with a result for each
outcome of the second, because the mappings do not change in the model. A
listing whose mapping request fails continues with untranslated IDs; a post
fails (`Untranslated`). The registry is emptied by `StartRun`: it lives in the
provider process. For `KeyedStore` the key of a rule is its pair and its slot in
the zones of the pair: neither is stored with Terraform, so every operation
computes the key anew from the state, and a wrong translation is a wrong key.
`Configs` are in IDs of the default VRF, and the
Orchestrator is assumed to keep only rules between zones of the VRFs of the
pair, and to give a name one ID per VRF (`WellFormed`).

*Security zones.* `zones` maps IDs to names, and `rules` are the policies as
the pairs of zones they refer to. Create asks for the next ID, lists, and posts
all zones (`NextZoneID`, `ListZones`, `Post`) under `zoneMu`. What the Orchestrator
does on `nextId` is not in the source: `Reserved` gives both answers, setting
the ID aside or only naming it, and TLC explores both. `Accepted` and
`ZonesPosted` are `deleteDependencies`.

*Application groups.* `groups` maps names to member lists and parent groups.
`ModifyPlan` and `CheckName` compare names without case outside `appGroupMu`;
`ListToWrite` and `NameTaken` list and compare exactly inside it; `Post`
replaces all groups by the listed ones with one changed, and with no parents.

*Port/protocol and DNS classifications.* `defs` maps a pair, or a domain as
spelled, to a definition. `ModifyPlan`, `PlanCreate`, `CheckPairAndName` or
`CheckDomainAndName`, and `CheckName` are the listings outside `appDefMu`; the
POST is an upsert. Domains are compared without case by the checks and exactly by the
lookups, as in the code.

*Address maps.* `maps` maps spans of 32-bit numbers to entries; the
configuration and the state hold dotted notation, and `AddressRange` converts
(`ParseIPv4`, `FormatIPv4`), compares (`Overlap`) and makes IDs of ranges. An
update reads the fields the client does not model inside the mutex (`CarryOver`)
and posts them back (`Repost`); a listing that fails there is ignored
(`CarryNothing`), as in the code. Every write is read back after the mutex has been released.

*IP address groups.* `groups` maps names to sequences of rules. A create looks
the name up and posts in one critical section; an update posts without a look.
A list that a rule leaves out is `Null` in the plan, `<<>>` in what is sent and
read (`Sent`).

*Overlay ACLs.* `overlays` maps overlays to an ACL document and the other
settings; `managed` is the record of sequence numbers in private state.
`Guard` is the part of `applyEntries` before `SetOverlayACL`; `Reread`, `Put`
and `ReadBackACL` run under `overlayMu`. A removal writes the ACL of a new
overlay. `ACLDocument` parses and builds entries with the fields the client
does not know; the comment of an entry and the name of an ACL are left out.
`EditOverlay` adds an entry, replaces one, removes any of them, changes the
other settings, or removes the overlay. `ImportACL` takes any overlay that no
other block has, with entries or without. `Upgrade` is the start with a state of
a provider that kept no record. `foreign`, `slipped`, `unguarded` and
`contested` are ghosts: entries somebody added, those of them whose number
Terraform takes for its own, the resources whose guard is older than an edit, and
the overlays that a create has found without entries while another block still
had them in its state.

## 3. Runs

`Bound` gives the numbers of Terraform runs, failed requests, lost answers and
edits in the UI that may go together (for policies: runs, failed requests,
failed mapping requests, lost answers, edits). Every run has two resources
unless stated.

| Run | Bounds | Checks |
|---|---|---|
| `compound` | (2,1,1,0), (1,1,0,1) | `ResolvedIdIsCurrent`, `NamesUnique`, `NoSharedRule`, `AppliedIsStored`, `BystandersUntouched`, refinement of `RuleBook`, `EveryRunEnds` |
| `policies` | (2,1,0,0,0), (1,0,1,1,0), (1,0,0,0,1) | `NoSharedSlot`, `AppliedIsStored`, `CreateOverwritesNothing`, `TranslatedDeleteIsDone`, `OtherRulesUntouched`, refinement of `KeyedStore`, `EveryRunEnds` |
| `policies_delete_fallback` | (2,0,1,0,0) | **violation** of `DeletedIsGone` |
| `zones` | (2,1,1,0), (1,0,0,2) | `NoSharedZone`, `OtherZonesUntouched`, `OnlyDeletesDropRules`, refinement of `KeyedStore` |
| `groups` | (2,1,1,0), (1,1,1,1) | `OtherMembersUntouched`, `CreateReplacesNothing`, refinement of `KeyedStore` |
| `groups_parents` | one resource, (1,0,0,0) | **violation** of `OtherParentsUntouched` |
| `port_protocols` | (2,1,1,0), (1,1,1,1) | `NamesUnique`, `PlanPromisesNoRefusal`, refinement of `KeyedStore` |
| `port_protocols_moved` | (1,0,0,0) | **violation** of `OwnEntryNeverCollides` |
| `dns` | (2,1,1,0), (1,1,1,1) | `DomainsUnique`, `PlanPromisesNoRefusal`, refinement of `KeyedStore` |
| `address_maps` | (2,1,1,0), (1,1,1,1) | `NoOverlap`, `AppliedIsStored`, `HiddenFieldsSurvive`, refinement of `KeyedStore` |
| `ip_groups` | (2,1,1,0), (1,1,1,1) | `ResultIsConsistent`, `CreateReplacesNothing`, refinement of `KeyedStore` |
| `overlays` | (2,1,1,0), (1,1,1,1) | type invariant, `AppliedACLIsStored`, `ForeignEntriesSurvive`, `UnmodelledSurvive`, `CreateDropsNothing`, `EveryRunEnds` |

TLC looks for deadlocks in every run. A state in which everything has ended and
no run is left may stutter (`Rest`); a mutex that an error path kept would
leave a handler waiting and show up as a deadlock, also in the runs without a
liveness property.

*Why the bounds suffice.* Races in this code are between two handlers: one
between another's check and write, or between its listing and write; or between
a handler and the UI. With two runs, the second starts from what the failures
of the first left in the state file and in the Orchestrator. Imports let a
single run start with resources that own objects, so that updates, deletes,
replacements and creates all occur with one run beside an edit. The instances
are chosen for the cases that decide:

* the compound lists hold a rule in front of the contended one, so deletion
  renumbers; names include a pair that differs only in case, as they do for
  groups, port/protocol and DNS classifications and address maps;
* the zones of the policy run include one that only the default VRF knows, so a
  set may be untranslatable, and one that only VRF 1 knows, so the way back
  takes its fallback; both blocks may declare one slot;
* zone blocks may share a name, and two edits let the UI take an ID and free it;
* the address ranges meet at one shared address, lie on both sides of an octet
  boundary, or are the wrong way round;
* blocks of groups and of IP address groups may be copied, name and all;
* a rule of one block of IP address groups leaves a list out;
* overlays have no entry, or one with fields or criteria the client does not
  model, or an empty overlay lies beside such a one; blocks have no, one or two
  entries, so an update removes one; imports, blocks and edits each bring about
  an overlay without entries that a block owns.

*What is not claimed.* With lost answers `NoSharedRule`, `NoSharedSlot` and
`AppliedIsStored` (of overlays `AppliedACLIsStored`) do not hold: a delete or a rename that took effect without
Terraform knowing frees a name or slot that another block may then take, and
both states claim it. No client of this API could tell, for an object carries
no owner. Hence `Undisturbed` in these properties and in `KeyedStore`; zones,
whose IDs are not reused, keep the promise with lost answers too. `NamesUnique`,
`DomainsUnique`, `NoOverlap` and `NoSharedZone` are stated with lost answers,
`NoSharedZone` also with edits. `compound`, `port_protocols`, `dns`
and `address_maps` are run with blocks that are distinct; copied ones are
among the disagreements below.

*Fairness.* `FairSpec` (compound classifications, policies; `FairOverlaySpec` for
overlays) assumes
weak fairness of each resource's handler (a request ends, with an answer or an
error; Go's mutexes do not starve waiters) and of the end of planning. Weak
fairness is enough for the lock because the number of other handlers that can
take it is finite in one run. The client sets no HTTP timeout, so "a request
ends" is really an assumption about the network: see the hazard at
`client.go:126`. Runs, failures and edits are not fair: nothing forces them.
The other models state safety only; their handlers are straight lines whose
single wait is the mutex, which the deadlock check covers.

## 4. Findings

1. **Delete under a failed mapping request** (`policies_delete_fallback`). The
   listing falls back to untranslated IDs, the delete finds nothing to remove,
   posts the set back and reports success. The rule stays in force and
   Terraform no longer knows it.
2. **Parents of application groups** (`groups_parents`). `groupsToAPIPayload`
   sends the members of every group and nothing else, so each write of one group
   removes the parent groups of all others.
3. **Change of a port** (`port_protocols_moved`). A block that keeps its name and
   gets another port or protocol cannot be planned: in its second round
   ModifyPlan has no state to compare with and finds the block's own old entry
   under its name.

Each of these is a run. The following disagreements between code and docs or
comments came up while modelling and have no run of their own. Where one
touches a property, it is excepted in the formula of the property, in a ghost
the formula names, or by the configurations of the run; each item says which. An
exception is stated in the terms of the model and may cover more than the case
that led to it.

* *Compound, copied blocks.* The documentation says that a create to a used
  name aborts. The check is made before `appDefMu` is taken and not repeated,
  so two blocks of one apply that declare one name are both created
  (the configurations of the run are of distinct blocks).
* *Policies, create under a failed mapping request.* The conflict check compares
  IDs of different VRFs and passes, and the post replaces a rule that existed
  (`CreateOverwritesNothing` excepts it in its formula). `OtherRulesUntouched` holds all the
  same: IDs left untranslated on the way in are fixed points of the
  translation on the way out.
* *Groups whose names differ in case.* The check without case is made outside
  `appGroupMu`, the exact one inside: blocks named "web" and "WEB" of one apply
  are both created (`CreateReplacesNothing` is about exact names).
* *Port/protocol and DNS classifications, copied blocks.* Both pass the checks,
  which are made outside the mutex, and the second POST replaces what the first
  one created (the configurations of the runs are of distinct blocks).
* *Address maps, failed listing of an update.* `UpdateAddressMap` goes on with
  empty fields for those it wanted to carry over (`HiddenFieldsSurvive` excepts
  runs with a failed request).
* *IP address groups, lists left out.* They are planned as null and read back
  as empty, which Terraform refuses as an inconsistent result after the group has
  been written (`ResultIsConsistent` excepts blocks with such a rule in its
  formula; the run has one).
* *Overlay guard.* `applyEntries` compares with an overlay read before
  `overlayMu` is taken; an entry added between that read and the one inside is
  dropped without a word (`unguarded`).
* *Overlay record.* It is made from what is read back after the PUT: an entry
  added between the two requests counts as the resource's own (`slipped`).
* *Overlay refusals.* When the read-back after a successful PUT fails, the record
  keeps its old numbers, and a later plan that drops the entries just written
  is refused as if somebody else had added them.
* *Overlays that change hands without entries.* A block owns an overlay without
  entries when it has imported one, declares none (the schema accepts an empty
  set), or somebody has cleared the ACL in the UI. When the overlay is then
  declared under another block name, one apply removes the old block and creates
  the new one on the same overlay, and both plans pass. The removal resets the
  ACL to one entry that permits everything
  (`overlay_acl_resource.go:833`): between the guard of the create and its
  re-read, that entry is dropped unnoticed; after its write, what was applied is
  overwritten. With entries the plan of the create is refused.
  `CreateDropsNothing` and `AppliedACLIsStored` except these overlays
  (`contested`), until a run begins in which they have one owner again; the run
  reaches them.
* *Overlay entries replaced in the UI.* The guard compares numbers only: an entry
  that somebody replaces under its number counts as the resource's own
  (`slipped`).

## 5. Proofs

All theorems hold for any number of resources, any bounds and any failures
these allow. They assume the ASSUMEs of the modules, which TLC evaluates on
every instance, and the hypotheses in their statements.

### Compound classifications (`CompoundProofs`)

* `TypeCorrect`: `Spec => []TypeOK`.
* `ResolvedIdsAreCurrent`: `Spec => []ResolvedIdIsCurrent`. On its own the
  property is not inductive. The strengthening adds mutual exclusion (a handler at
  "write" is the one that holds the lock) and that updates and deletes resolve
  what their state names; a step of another handler then cannot change the list.
* `BystandersAreUntouched`: `Spec => BystandersUntouched`, from that
  invariant. The step that matters is a delete: the rules that remain are those
  of the old list except the one at the resolved ID, whatever their new
  positions (lemma `RemoveAtProperties`).
* `NamesStayUnique`: for configurations that name each rule once,
  `Spec => []NamesUnique`, with failures and lost answers. The check
  made outside the lock is enough because every writer in between writes a name
  of its own; the invariant (`NamesInv`) says that of all the handlers past
  their check.
* `NoRuleIsShared`, `AppliedRulesAreStored`, for the same configurations:
  `Spec => []NoSharedRule`, `Spec => []AppliedIsStored`. `OwnInv` adds, while
  nobody has interfered, that no rule is listed twice (`UidsUnique`), that every
  state holds a rule as the list has it (`StateIsListed`), that no two states
  hold one name (`OwnersApart`), that the rule of a create is there, and
  unowned, until the create has read it back (`CreatedIsUnowned`), and that what
  has ended well is recorded as declared (`EndedAsDeclared`). The read-back runs
  without the lock: what keeps it right is that nobody else of the run writes
  that name.
* `CompoundImplementsRuleBook`: `Spec => ImplementsRuleBook`, step by step from
  `OwnInv`. A list whose IDs shift maps to a set of rules with lasting identity;
  an update that resolves its name again after a shift must reach the rule its
  state names.
* `CompoundHandlersAreNotStuck`, `CompoundHandlersAdvance`: see "Termination".

### Security policies (`PolicyProofs`)

* `RoundTrip`, for every finite and consistent (`WellFormed`) listing of
  assignments: an ID of VRF `v`, translated to the default VRF or left alone, and
  then translated to `v`, is what it was. The indices are built by a loop in
  which later assignments overwrite earlier ones, modelled as a maximum; the
  proof first needs that a finite set has one (`FiniteMaximum`).
* `PoliciesTypeCorrect`: `Spec => []TypeOK`.
* `PolicyMuIsExclusive`: a handler past its fetch holds `policyMu`.
* `OtherRulesStayUntouched`: `Spec => OtherRulesUntouched`. The invariant
  `PolicyInv` adds that the Orchestrator holds rules of a pair's own VRFs only
  (`ServerIsValid`), that configuration and state speak of the default VRF
  (`ZonesAreDefault`), that the set a handler is about to post comes from slots of
  its pair, each translated or not (`SnapIsOfPair`), and that it is the current set
  unless the UI has edited it (`SnapIsCurrent`). No step but its own
  post disturbs that (`PosterIsAlone`, from mutual exclusion). With `RoundTrip`,
  every rule but the handler's own is posted to the slot it came from
  (`OthersGoBack`), which is the theorem. The fetched set may
  be translated or not, so the theorem covers the fallback of finding 1.
* `DefaultRoundTrip`: a zone of the default VRF, translated to a VRF in which it
  has an ID, comes back as itself. `RoundTrip` is about what is posted back,
  this about what a handler looks for.
* `TranslatedDeletesAreDone`, `CreatesOverwriteNothing`: from `TranslationInv`,
  which says that the zones of every state have IDs in the VRFs of the pair
  (`StateIsTranslatable`), that what was fetched is translated until a mapping
  request fails, and is the current set until the UI is used
  (`SnapIsTranslated`), and that a create goes on only without a rule in its
  slot (`CreateHasNoConflict`). Neither theorem has a hypothesis on the
  configurations: two blocks may declare one slot.
* `NoSlotIsShared`, `AppliedPoliciesAreStored`: from `OwnInv`, while nobody has
  interfered. What is in the state is stored (`StateIsStored`), no two states
  hold one slot (`SlotsApart`), and between its post and its read-back a handler
  is alone in its slot (`PostedIsStored`), although a replacement gives its old
  slot up in the same apply in which another block may take it.
* `PoliciesImplementKeyedStore`: `Spec => ImplementsKeyedStore`, from `OwnInv`.
  One POST replaces every rule of a pair; mapped to the store under pair and
  slot it changes one key (`OneCellWritten`), that of its resource.
* `PolicyHandlersAreNotStuck`, `PolicyHandlersAdvance`: see "Termination".

### The keyed kinds

Besides policies, six kinds refine `KeyedStore`, and the refinement is proved for
each: the initial
states map to initial states of the store, and under the inductive invariant
every step maps to a step of the store or a stutter. What the invariants need
differs with where a kind makes its checks.

* `ZoneProofs`, `ZoneInv`: `ZonesTypeCorrect`, `NoZoneIsShared`,
  `OtherZonesStayUntouched`, `OnlyDeletesTakeRules`, `ZonesImplementKeyedStore`.
  A handler between listing and POST holds `zoneMu` and posts the current zones
  with its own change, unless the UI interfered; an ID handed out to a create is
  in no state.
* `GroupProofs`, `GroupInv`: `GroupsTypeCorrect`, `OtherMembersStayUntouched`,
  `GroupCreatesReplaceNothing`, `GroupsImplementKeyedStore`. The same for the
  list of groups, for copied blocks too: the name is compared once more inside
  the mutex.
* `IPAddressGroupProofs`, `IPInv`: `IPGroupsTypeCorrect`,
  `IPCreatesReplaceNothing`, `IPGroupsImplementKeyedStore`,
  `ResultsAreConsistent`, with no hypothesis. Nobody else writes the name of a
  handler between its POST and its read-back, and a block whose rules set every
  list is sent as it is (`ConfiguredGroup`), whatever the other blocks declare.
* `PortProtocolProofs` (`PortInv`, `BlockInv`), `DNSProofs` (`DNSInv`,
  `BlockInv`), `CarryOverProofs` (`MapInv`, `BlockInv`): type correctness with
  no hypothesis, and, for configurations and initial tables without duplicates
  (`DistinctBlocks`, `DistinctInitially`, `DisjointBlocks`, `DisjointInitially`),
  `NamesStayUnique`, `DomainsStayUnique` and `NoAddressIsAmbiguous`,
  `PlansKeepTheirPromise` (port/protocol, DNS), `AppliedMapsAreStored`
  and `HiddenFieldsStay` (address maps), and the refinements. Here every check
  is outside the mutex, so the invariant is about what others may still write:
  each handler past its check has seen no conflict, every later writer writes
  its own block, and the blocks of one configuration do not conflict.
* `CarryOverProofs` also proves the arithmetic: `FormattedIsParsed` and
  `ParsedIsFormatted`, the round trip between dotted addresses and 32-bit
  numbers, for every address.

### Overlay ACLs (`CarryOverProofs`)

* *Documents.* The lemmas say what the conversions do for all entries: a parsed
  entry is well formed and keeps its number (`ParsedEntry`), the model shows each
  stored number once (`ModelOfACL`), a built document is a document again
  (`BuiltACL`), what is merged keeps the numbers (`MergedACL`) and the fields the
  client does not know (`CarriedField`).
* `OverlaysTypeCorrect`: `OverlaySpec => []OverlayTypeOK`, which says that what is
  written is always a document.
* `ForeignEntriesStay`, `UnmodelledFieldsStay`, for all configurations, imports
  and upgrades: from `GuardInv`. Its core is the argument behind the guard. A
  foreign entry whose number a resource takes for its own has slipped
  (`TakenIsSlipped`), so has one that came before a read-back
  (`ReadBackIsSlipped`), a refreshed resource has a record
  (`RefreshedIsRecorded`), and so what an update that has passed its guard would
  still drop has slipped, unless the UI was used after the guard
  (`GuardedUpdate`). The fields survive because what is put was read under
  `overlayMu` (`SeenIsCurrent`).
* `CreatesDropNothing`: for configurations in which each overlay is declared once
  (`SeparateOverlays`), with or without entries, and any imports and edits. The
  guard of a create is outside the mutex; `CreateInv` says that its overlay stays
  without entries and without an owner (`GuardedCreate`), unless it had an owner
  when the guard found it empty (`contested`). No other block of the run then
  writes to it: an update or create would declare it, and a removal would own it.
* `AppliedACLsAreStored`: for the same configurations,
  `OverlaySpec => []AppliedACLIsStored`. `ACLOwnInv` adds that edits alone evade
  guards (`OnlyEditsEvadeGuards`), that each overlay of the state exists and,
  unless contested, has one owner (`OverlayOwnersApart`), that plans are made of
  what is stored (`ACLPlanIsCurrent`), and that what ended well is stored as
  declared, unless contested (`ACLEndedAsDeclared`). A contested overlay is
  released when a run starts in which one block owns it.
* `OverlayHandlersAreNotStuck`, `OverlayHandlersAdvance`: see below.

### Termination

That a run ends (`EveryRunEnds`) is a liveness property and rests on fairness,
which the prover cannot treat; TLC checks it. Its two safety halves are proved
for compound classifications, policies and overlays, for any number of
resources and without hypotheses:

* `...HandlersAreNotStuck`: whenever a handler has not ended, one can move, or
  planning is over and the plan can be applied. It follows from the fact that
  the mutex is always held by a handler that has a request to send under it
  (`LockIsHeld`, `OverlayMuIsHeld`), whatever paths and failures came before:
  every error path releases it, and no handler waits while it holds one.
  `CanMove` and `ACLCanMove` say where a handler waits for nobody; that its
  action is enabled there can be read off the action, but ENABLED itself is
  beyond the prover.
* `...HandlersAdvance`: `StepsLeft` and `ACLStepsLeft` bound the steps a handler
  has still to take, through the delete and the create of a replacement as well.
  Each of its steps makes the bound smaller, and no step of another handler or
  of the UI makes it larger, until the next run starts.

So a handler loses the mutex to another only finitely often, and weak fairness,
where strong fairness might seem to be needed, is enough.

### Only model-checked

Liveness: `EveryRunEnds` of compound classifications, policies and overlays, which
needs fairness and ENABLED. Every other property of a passing run is stated by a
theorem.

The findings are not theorems but counterexamples of TLC; the theorems next to
them (`TranslatedDeletesAreDone`, `OtherMembersStayUntouched`,
`PlansKeepTheirPromise`) say what remains true.

## 6. Not modelled

* *Wire format of policies* (`splitExact`, `parseZonePair`, `commaToPipe`,
  `compositeID` and their inverses): rewriting of text without state. The
  models work on the parsed form. That a rule the parser cannot decode is
  dropped by the next post (`client.go:929`) is therefore a hazard without a
  property.
* *Appliance deployments, BGP and VRRP queries, list data sources*: one GET each,
  flattened into Terraform's types; they keep nothing and write nothing.
* *Provider configuration*: read once, before any handler runs.
* *HTTP transport*: only by its outcomes. TLS, headers and JSON encoding are
  left out; that a request may never end is a hazard without a property.
* *Zone translator under changing mappings*: policies run with fixed mappings,
  and zones know policies only as pairs of zones. The composition, in which a
  zone is deleted between the fetch and the post of a pair that uses it, is not
  modelled: what the Orchestrator answers to such a post is not in the source.

What would come next: that composition, once the Orchestrator's answer is known;
an abstract specification of what the owner of an overlay's ACL is promised; and
the two safety halves of termination for the kinds whose runs check deadlock
only.
