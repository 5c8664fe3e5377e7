------------------------ MODULE CompoundClassification ------------------------
(***************************************************************************)
(* User-defined compound classifications: the Orchestrator's priority-     *)
(* ordered list, the shared HTTP client that guards it with appDefMu, and  *)
(* the CRUD handlers Terraform runs in parallel for the resources of one   *)
(* apply.  A rule's numeric ID is its position in the list, so each delete *)
(* renumbers what lies behind it; the name is the only stable handle, and  *)
(* the server does not keep names unique.                                  *)
(***************************************************************************)
EXTENDS Integers, Sequences, SequencesExt

CONSTANTS
    Resource,      \* resource blocks of the Terraform configuration
    Name,          \* names a rule may carry
    Fold,          \* case folding: strings.EqualFold(m, n) is Fold[m] = Fold[n]
    Attr,          \* everything else a definition carries
    None,          \* a resource that is not declared, or not in the state
    Free,          \* appDefMu while nobody holds it
    Configs,       \* the configurations an operator may apply
    InitialLists,  \* the lists the Orchestrator may hold at the start
    Bounds         \* bounds: how many terraform runs, requests that fail without an
                   \* effect, writes that take effect but whose answer is lost, and
                   \* edits made in the Orchestrator UI may go together

Wanted == [name : Name, attr : Attr]
Rule   == [uid : Nat, name : Name, attr : Attr]

\* The rule of identity u with the wanted definition w.
Defined(u, w) == [uid |-> u, name |-> w.name, attr |-> w.attr]

SameName(m, n) == Fold[m] = Fold[n]

\* No two rules of a list carry the same name.
Distinct(list) ==
    \A i, j \in DOMAIN list : SameName(list[i].name, list[j].name) => i = j

ASSUME ConstantsAssumption ==
    /\ None \notin Wanted \cup Rule \cup Nat
    /\ Free \notin Resource
    /\ Fold \in [Name -> Name]
    /\ Configs \subseteq [Resource -> Wanted \cup {None}]
    /\ InitialLists \subseteq Seq(Rule)
    /\ \A list \in InitialLists :
          Distinct(list) /\ \A i \in DOMAIN list : list[i].uid = i
    /\ Bounds \subseteq [runs : Nat, faults : Nat, lost : Nat, edits : Nat]

VARIABLES
    rules,    \* the Orchestrator's list; an ID is an index of it
    minted,   \* ghost: uids handed out so far, a rule's identity across renumbering
    lock,     \* appDefMu: the resource whose handler holds it, or Free
    config,   \* the configuration of the run
    tf,       \* Terraform state: per resource the rule as last recorded
    pc,       \* where each resource's handler stands
    id,       \* the ID a handler resolved (or assigned) under the lock
    stale,    \* ghost: the UI edited the list after that ID was resolved
    runs, faults, lost, edits,   \* what is left of the bounds
    happened   \* ghost: which of "lost" and "edit" there has been

budgets == <<runs, faults, lost, edits, happened>>
vars == <<rules, minted, lock, config, tf, pc, id, stale, budgets>>

Ended    == {"ok", "failed"}
Planning == {"refresh", "plan", "ready", "refused"}
Applying == {"check", "lock", "write", "readback"}

TypeOK ==
    /\ rules \in Seq(Rule)
    /\ minted \in Nat
    /\ lock \in Resource \cup {Free}
    /\ config \in [Resource -> Wanted \cup {None}]
    /\ tf \in [Resource -> Rule \cup {None}]
    /\ pc \in [Resource -> Ended \cup Planning \cup Applying]
    /\ id \in [Resource -> Nat]
    /\ stale \in BOOLEAN
    /\ runs \in Nat /\ faults \in Nat /\ lost \in Nat /\ edits \in Nat
    /\ happened \subseteq {"lost", "edit"}

-----------------------------------------------------------------------------
(* What the operation on r is: Terraform derives it from configuration and state. *)

Creating(r) == tf[r] = None /\ config[r] # None
Deleting(r) == tf[r] # None /\ config[r] = None
Updating(r) == /\ tf[r] # None
               /\ config[r] # None
               /\ \/ config[r].name # tf[r].name
                  \/ config[r].attr # tf[r].attr
Renaming(r) == Updating(r) /\ config[r].name # tf[r].name

\* The IDs that carry name n.
Named(n) == {i \in DOMAIN rules : SameName(rules[i].name, n)}

\* The listing is sorted by ID: a search by name ends at the lowest ID.
FirstNamed(n, i) == i \in Named(n) /\ \A j \in Named(n) : i <= j

\* Mutant: the comparison respects case.
Taken_ExactCase(r) ==
    \E i \in Named(config[r].name) :
        /\ rules[i].name = config[r].name
        /\ tf[r] # None => rules[i].name # tf[r].name

\* Mutant: the duplicate check is missing.
Taken_Unchecked(r) == FALSE

\* findCompoundByName: another rule carries the name r is to get; the rule
\* that r itself holds in state does not count.
Taken(r) ==
    \E i \in Named(config[r].name) :
        tf[r] # None => ~SameName(rules[i].name, tf[r].name)

-----------------------------------------------------------------------------
(* The Orchestrator. *)

\* POST ...?id=k writes slot k, and adds a rule when there is no such slot.
Posted(k, w) ==
    IF k \in DOMAIN rules
    THEN [rules EXCEPT ![k] = Defined(rules[k].uid, w)]
    ELSE Append(rules, Defined(minted + 1, w))

PostedUid(k) == IF k \in DOMAIN rules THEN rules[k].uid ELSE minted + 1

\* The request r sends while it holds the lock takes effect.
RequestApplied(r) ==
    IF Deleting(r)
    THEN /\ id[r] \in DOMAIN rules
         /\ rules' = RemoveAt(rules, id[r])
         /\ UNCHANGED minted
    ELSE /\ rules' = Posted(id[r], config[r])
         /\ minted' = IF id[r] \in DOMAIN rules THEN minted ELSE minted + 1

\* Somebody adds, deletes or edits a rule in the Orchestrator UI.
UIEdit ==
    /\ edits > 0
    /\ edits' = edits - 1
    /\ happened' = happened \cup {"edit"}
    /\ \/ \E w \in Wanted :
             /\ rules' = Append(rules, Defined(minted + 1, w))
             /\ minted' = minted + 1
       \/ \E i \in DOMAIN rules :
             /\ rules' = RemoveAt(rules, i)
             /\ UNCHANGED minted
       \/ \E i \in DOMAIN rules, w \in Wanted :
             /\ rules' = [rules EXCEPT ![i] = Defined(rules[i].uid, w)]
             /\ UNCHANGED minted
    /\ stale' = TRUE
    /\ UNCHANGED <<lock, config, tf, pc, id, runs, faults, lost>>

-----------------------------------------------------------------------------
(* One terraform run: refresh and plan every resource, then apply in parallel. *)

AllEnded == \A r \in Resource : pc[r] \in Ended

StartRun ==
    /\ runs > 0
    /\ runs' = runs - 1
    /\ AllEnded
    /\ config' \in Configs
    /\ pc' = [r \in Resource |-> "refresh"]
    /\ UNCHANGED <<rules, minted, lock, tf, id, stale, faults, lost, edits, happened>>

\* terraform import: the name is looked up by the Read that follows it.  The
\* operator imports a rule that no other resource manages.
ImportState(r, n) ==
    /\ AllEnded
    /\ runs > 0
    /\ tf[r] = None
    /\ \A q \in Resource : tf[q] # None => ~SameName(tf[q].name, n)
    /\ \E i \in Named(n) : FirstNamed(n, i) /\ tf' = [tf EXCEPT ![r] = rules[i]]
    /\ UNCHANGED <<rules, minted, lock, config, pc, id, stale, budgets>>

\* Read: bind the resource to the rule that carries its name, or drop it.
Read(r) ==
    /\ pc[r] = "refresh"
    /\ \/ tf[r] = None /\ UNCHANGED tf
       \/ /\ tf[r] # None
          /\ Named(tf[r].name) = {}
          /\ tf' = [tf EXCEPT ![r] = None]
       \/ /\ tf[r] # None
          /\ \E i \in Named(tf[r].name) :
                FirstNamed(tf[r].name, i) /\ tf' = [tf EXCEPT ![r] = rules[i]]
    /\ pc' = [pc EXCEPT ![r] = "plan"]
    /\ UNCHANGED <<rules, minted, lock, config, id, stale, budgets>>

\* ModifyPlan: a create or a rename to a name in use fails the plan.
ModifyPlan(r) ==
    /\ pc[r] = "plan"
    /\ pc' = [pc EXCEPT ![r] =
                 IF (Creating(r) \/ Renaming(r)) /\ Taken(r) THEN "refused" ELSE "ready"]
    /\ UNCHANGED <<rules, minted, lock, config, tf, id, stale, budgets>>

\* A plan with an error is not applied; any other is applied in full.
EndPlanning ==
    /\ \A r \in Resource : pc[r] \in {"ready", "refused"}
    /\ pc' = [r \in Resource |->
                 IF \E q \in Resource : pc[q] = "refused" THEN "failed"
                 ELSE IF Creating(r) \/ Updating(r) THEN "check"
                 ELSE IF Deleting(r) THEN "lock"
                 ELSE "ok"]
    /\ UNCHANGED <<rules, minted, lock, config, tf, id, stale, budgets>>

\* Create and Update look for a rule of that name before they take the lock.
CheckName(r) ==
    /\ pc[r] = "check"
    /\ pc' = [pc EXCEPT ![r] = IF Taken(r) THEN "failed" ELSE "lock"]
    /\ UNCHANGED <<rules, minted, lock, config, tf, id, stale, budgets>>

\* Mutant: the next ID is the number of rules.
AssignID_OffByOne(r) ==
    /\ pc[r] = "lock" /\ lock = Free
    /\ Creating(r)
    /\ lock' = r
    /\ id' = [id EXCEPT ![r] = Len(rules)]
    /\ stale' = FALSE
    /\ pc' = [pc EXCEPT ![r] = "write"]
    /\ UNCHANGED <<rules, minted, config, tf, budgets>>

\* Mutant: a create lists and posts without the lock.
AssignID_Unlocked(r) ==
    /\ pc[r] = "lock"
    /\ Creating(r)
    /\ id' = [id EXCEPT ![r] = Len(rules) + 1]
    /\ stale' = FALSE
    /\ pc' = [pc EXCEPT ![r] = "write"]
    /\ UNCHANGED <<rules, minted, lock, config, tf, budgets>>

\* CreateCompoundClassification: take the lock, list, assign the ID behind the last.
AssignID(r) ==
    /\ pc[r] = "lock" /\ lock = Free
    /\ Creating(r)
    /\ lock' = r
    /\ id' = [id EXCEPT ![r] = Len(rules) + 1]
    /\ stale' = FALSE
    /\ pc' = [pc EXCEPT ![r] = "write"]
    /\ UNCHANGED <<rules, minted, config, tf, budgets>>

\* Mutant: the ID is resolved before the lock is taken, as when each write
\* had locked on its own.
ResolveID_Unlocked(r) ==
    /\ pc[r] = "lock"
    /\ ~Creating(r)
    /\ \E i \in Named(tf[r].name) :
          FirstNamed(tf[r].name, i) /\ id' = [id EXCEPT ![r] = i]
    /\ stale' = FALSE
    /\ pc' = [pc EXCEPT ![r] = "write"]
    /\ UNCHANGED <<rules, minted, lock, config, tf, budgets>>

\* resolveCompoundIDLocked: take the lock, list, find the ID the name has now.
ResolveID(r) ==
    /\ pc[r] = "lock" /\ lock = Free
    /\ ~Creating(r)
    /\ \E i \in Named(tf[r].name) :
          FirstNamed(tf[r].name, i) /\ id' = [id EXCEPT ![r] = i]
    /\ lock' = r
    /\ stale' = FALSE
    /\ pc' = [pc EXCEPT ![r] = "write"]
    /\ UNCHANGED <<rules, minted, config, tf, budgets>>

\* No rule carries the name: a delete has nothing left to do, an update fails.
Vanished(r) ==
    /\ pc[r] = "lock" /\ lock = Free
    /\ ~Creating(r)
    /\ Named(tf[r].name) = {}
    /\ \/ /\ Deleting(r)
          /\ tf' = [tf EXCEPT ![r] = None]
          /\ pc' = [pc EXCEPT ![r] = "ok"]
       \/ /\ Updating(r)
          /\ pc' = [pc EXCEPT ![r] = "failed"]
          /\ UNCHANGED tf
    /\ UNCHANGED <<rules, minted, lock, config, id, stale, budgets>>

\* The write is answered: the lock is released and the outcome recorded.  A
\* create records nothing before it has read the rule back.
Write(r) ==
    /\ pc[r] = "write"
    /\ RequestApplied(r)
    /\ lock' = Free
    /\ pc' = [pc EXCEPT ![r] = IF Creating(r) THEN "readback" ELSE "ok"]
    /\ tf' = [tf EXCEPT ![r] =
                 IF Updating(r)
                 THEN Defined(PostedUid(id[r]), config[r])
                 ELSE None]
    /\ UNCHANGED <<config, id, stale, budgets>>

\* The write takes effect but its answer never arrives: the handler fails.
WriteLost(r) ==
    /\ lost > 0
    /\ lost' = lost - 1
    /\ happened' = happened \cup {"lost"}
    /\ pc[r] = "write"
    /\ RequestApplied(r)
    /\ lock' = Free
    /\ pc' = [pc EXCEPT ![r] = "failed"]
    /\ UNCHANGED <<config, tf, id, stale, runs, faults, edits>>

\* The server knows no rule of that ID: DELETE is answered 404.
DeleteUnknown(r) ==
    /\ pc[r] = "write"
    /\ Deleting(r) /\ id[r] \notin DOMAIN rules
    /\ lock' = Free
    /\ pc' = [pc EXCEPT ![r] = "failed"]
    /\ UNCHANGED <<rules, minted, config, tf, id, stale, budgets>>

\* Create records the planned values for the first rule of that name.
ReadBack(r) ==
    /\ pc[r] = "readback"
    /\ \/ /\ Named(config[r].name) = {}
          /\ pc' = [pc EXCEPT ![r] = "failed"]
          /\ UNCHANGED tf
       \/ \E i \in Named(config[r].name) :
             /\ FirstNamed(config[r].name, i)
             /\ tf' = [tf EXCEPT ![r] = Defined(rules[i].uid, config[r])]
             /\ pc' = [pc EXCEPT ![r] = "ok"]
    /\ UNCHANGED <<rules, minted, lock, config, id, stale, budgets>>

\* The handler of r has a request to send next.
Requesting(r) ==
    \/ pc[r] = "refresh" /\ tf[r] # None
    \/ pc[r] = "plan" /\ (Creating(r) \/ Renaming(r))
    \/ pc[r] \in {"check", "write", "readback"}
    \/ pc[r] = "lock" /\ lock = Free

\* Mutant: the error path returns without unlocking.
RequestFails_Locked(r) ==
    /\ faults > 0
    /\ faults' = faults - 1
    /\ Requesting(r)
    /\ pc' = [pc EXCEPT ![r] = CASE @ = "refresh" -> "refused"
                                 [] @ = "plan"    -> "ready"
                                 [] OTHER         -> "failed"]
    /\ UNCHANGED <<rules, minted, lock, config, tf, id, stale, runs, lost, edits, happened>>

\* A request fails without an effect: a listing that fails at plan time is a
\* warning, any other failure ends the handler and releases the lock.
RequestFails(r) ==
    /\ faults > 0
    /\ faults' = faults - 1
    /\ Requesting(r)
    /\ pc' = [pc EXCEPT ![r] = CASE @ = "refresh" -> "refused"
                                 [] @ = "plan"    -> "ready"
                                 [] OTHER         -> "failed"]
    /\ lock' = IF lock = r THEN Free ELSE lock
    /\ UNCHANGED <<rules, minted, config, tf, id, stale, runs, lost, edits, happened>>

\* Nothing is left to do: every bounded behaviour may rest here.
Rest == AllEnded /\ runs = 0 /\ UNCHANGED vars

-----------------------------------------------------------------------------

Init ==
    /\ rules \in InitialLists
    /\ minted = Len(rules)
    /\ lock = Free
    /\ config = [r \in Resource |-> None]
    /\ tf = [r \in Resource |-> None]
    /\ pc = [r \in Resource |-> "ok"]
    /\ id = [r \in Resource |-> 0]
    /\ stale = FALSE
    /\ \E b \in Bounds :
          runs = b.runs /\ faults = b.faults /\ lost = b.lost /\ edits = b.edits
    /\ happened = {}

Handler(r) ==
    \/ Read(r) \/ ModifyPlan(r)
    \/ CheckName(r)
    \/ AssignID(r) \/ ResolveID(r) \/ Vanished(r)
    \/ Write(r) \/ DeleteUnknown(r)
    \/ ReadBack(r)

Next ==
    \/ StartRun \/ EndPlanning
    \/ \E r \in Resource : Handler(r) \/ WriteLost(r) \/ RequestFails(r)
    \/ \E r \in Resource, n \in Name : ImportState(r, n)
    \/ UIEdit
    \/ Rest

Spec == Init /\ [][Next]_vars

(* Every request is answered or fails in the end, and a Go mutex wakes its *)
(* waiters; nothing makes an operator start a run or edit the list.        *)
Fairness == WF_vars(EndPlanning) /\ \A r \in Resource : WF_vars(Handler(r))
FairSpec == Spec /\ Fairness
=============================================================================
