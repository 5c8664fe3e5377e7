------------------------------- MODULE Terraform -------------------------------
(***************************************************************************)
(* What Terraform core does with the resource blocks of one kind, as far   *)
(* as the provider's handlers depend on it: a run refreshes and plans      *)
(* every block, refuses the run when one plan has an error, and otherwise  *)
(* applies all blocks in parallel.  A kind of resource extends this module *)
(* with the Orchestrator's objects and one action per request its handlers *)
(* send; the mutex of the shared client that guards the kind is lock.      *)
(***************************************************************************)
EXTENDS Integers, Tables

CONSTANTS
    Resource,      \* resource blocks of the Terraform configuration
    None,          \* a resource that is not declared, or not in the state
    Free,          \* the mutex while nobody holds it
    Configs,       \* the configurations an operator may apply
    Bounds         \* bounds: how many terraform runs, requests that fail without
                   \* an effect, writes that take effect but whose answer is
                   \* lost, and edits in the Orchestrator UI may go together

ASSUME TerraformAssumption ==
    /\ Free \notin Resource
    /\ \A c \in Configs : c = [r \in Resource |-> c[r]]
    /\ Bounds \subseteq [runs : Nat, faults : Nat, lost : Nat, edits : Nat]

VARIABLES
    config,    \* the configuration of the run
    tf,        \* Terraform state: per resource what was last recorded
    pc,        \* where each resource's handler stands
    lock,      \* the client's mutex: the resource whose handler holds it, or Free
    stale,     \* ghost: the resources whose last listing predates an edit in the UI
    runs, faults, lost, edits,   \* what is left of the bounds
    happened   \* ghost: which of "fault", "lost" and "edit" there has been

budgets == <<runs, faults, lost, edits, happened>>
tfVars == <<config, tf, pc, lock, stale, budgets>>

Ended    == {"ok", "failed"}
Planning == {"refresh", "plan", "replan", "ready", "refused"}

TerraformTypeOK(Labels, Wanted, Stored) ==
    /\ config \in [Resource -> Wanted \cup {None}]
    /\ tf \in [Resource -> Stored \cup {None}]
    /\ pc \in [Resource -> Ended \cup Planning \cup Labels]
    /\ lock \in Resource \cup {Free}
    /\ stale \subseteq Resource
    /\ {runs, faults, lost, edits} \subseteq Nat
    /\ happened \subseteq {"fault", "lost", "edit"}

\* The operation on r, derived from configuration and state.
Creating(r) == tf[r] = None /\ config[r] # None
Deleting(r) == tf[r] # None /\ config[r] = None
Kept(r)     == tf[r] # None /\ config[r] # None

\* Nobody has interfered with the provider: no edit in the UI, and every
\* answer the Orchestrator has given has arrived.
Undisturbed == happened \subseteq {"fault"}

AllEnded == \A r \in Resource : pc[r] \in Ended

Goto(r, label)  == pc' = [pc EXCEPT ![r] = label]
Record(r, what) == tf' = [tf EXCEPT ![r] = what]

\* A block is declared under one identity only.
Distinctly(c, Id(_)) ==
    \A q, r \in Resource : c[q] # None /\ c[r] # None /\ Id(c[q]) = Id(c[r]) => q = r

-----------------------------------------------------------------------------

TerraformInit ==
    /\ config = [r \in Resource |-> None]
    /\ tf = [r \in Resource |-> None]
    /\ pc = [r \in Resource |-> "ok"]
    /\ lock = Free
    /\ stale = {}
    /\ \E b \in Bounds :
          runs = b.runs /\ faults = b.faults /\ lost = b.lost /\ edits = b.edits
    /\ happened = {}

StartTerraform ==
    /\ runs > 0
    /\ runs' = runs - 1
    /\ AllEnded
    /\ config' \in Configs
    /\ pc' = [r \in Resource |-> "refresh"]
    /\ UNCHANGED <<tf, lock, stale, faults, lost, edits, happened>>

\* A replacement is planned twice: as a change of what is in the state, and,
\* when that is no error, as a create, with no state to compare it with.
Planned(replacing) == IF replacing THEN "replan" ELSE "ready"

\* A plan with an error is not applied; any other is applied in full.
ApplyPlan(first) ==
    /\ \A r \in Resource : pc[r] \in {"ready", "refused"}
    /\ pc' = IF \E r \in Resource : pc[r] = "refused"
             THEN [r \in Resource |-> "failed"]
             ELSE first
    /\ UNCHANGED <<config, tf, lock, stale, budgets>>

\* An import binds a block that is not in the state to an object of the
\* Orchestrator that no other block manages, as an operator does it.
Import(r, what) ==
    /\ AllEnded
    /\ runs > 0
    /\ tf[r] = None
    /\ Record(r, what)
    /\ UNCHANGED <<config, pc, lock, stale, budgets>>

\* A refresh has recorded what it found.
Refreshed(r, next) ==
    /\ Goto(r, next)
    /\ UNCHANGED <<config, lock, stale, budgets>>

\* The mutex is released by the handler that holds it, when it ends.
Released(r) == lock' = IF lock = r THEN Free ELSE lock

\* A request fails without an effect: it is not sent, or not carried out.
Fault ==
    /\ faults > 0
    /\ faults' = faults - 1
    /\ happened' = happened \cup {"fault"}

\* A failed refresh spoils the plan, a failed listing at plan time is a
\* warning, and any other failure ends the handler, whose deferred unlock
\* releases the mutex.
FailRequest(r, planned) ==
    /\ Fault
    /\ Goto(r, CASE pc[r] = "refresh" -> "refused"
                 [] pc[r] = "plan"    -> planned
                 [] pc[r] = "replan"  -> "ready"
                 [] OTHER             -> "failed")
    /\ Released(r)
    /\ UNCHANGED <<config, tf, stale, runs, lost, edits>>

\* A write has taken effect and its answer is lost: the handler fails.
LoseAnswer(r) ==
    /\ lost > 0
    /\ lost' = lost - 1
    /\ happened' = happened \cup {"lost"}
    /\ Goto(r, "failed")
    /\ Released(r)
    /\ UNCHANGED <<config, tf, stale, runs, faults, edits>>

\* Somebody edits the Orchestrator's objects in its UI.
EditedInUI ==
    /\ edits > 0
    /\ edits' = edits - 1
    /\ happened' = happened \cup {"edit"}
    /\ stale' = Resource
    /\ UNCHANGED <<config, tf, pc, lock, runs, faults, lost>>

Rested == AllEnded /\ runs = 0 /\ UNCHANGED tfVars
=============================================================================
