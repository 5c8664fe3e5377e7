--------------------------- MODULE SecurityPolicies ---------------------------
(***************************************************************************)
(* Firewall policies of VRF segment pairs.  The API only knows the whole   *)
(* set of a pair, so every write is a read-modify-write under policyMu,    *)
(* with zone IDs translated to the default VRF on the way in and back on   *)
(* the way out.  A read whose mapping request fails goes on with the IDs   *)
(* as they are; a write fails.                                             *)
(***************************************************************************)
EXTENDS ZoneTranslator

CONSTANTS
    Resource,       \* resource blocks
    Pair,           \* segment pairs: records of a source and a destination VRF
    ZoneId,         \* zone IDs of all VRFs
    Priority,
    Body,           \* action, match criteria, state, logging, comment
    None,           \* no rule, no declaration, no state
    Free,           \* policyMu while nobody holds it
    Configs,        \* the configurations an operator may apply
    InitialServers, \* what the Orchestrator may hold at the start
    Bounds          \* bounds: how many terraform runs, requests that fail without an
                    \* effect, mapping requests that fail, posts that take effect but
                    \* whose answer is lost, and edits in the UI may go together

Slot   == [src : ZoneId, dst : ZoneId, prio : Priority]
Wanted == [pair : Pair, slot : Slot, body : Body]
Policy == [slot : Slot, body : Body]
Rules  == [Slot -> Body \cup {None}]

\* A slot of pair p: zones of the VRFs that p connects.
Belongs(s, p) == ZoneOf(s.src, p.src) /\ ZoneOf(s.dst, p.dst)

ASSUME PoliciesAssumption ==
    /\ WellFormed
    /\ ZoneId \subseteq Nat
    /\ \A m \in Mappings : m.zone \in ZoneId
    /\ \A p \in Pair : p.src \in Nat /\ p.dst \in Nat
    /\ None \notin Wanted \cup Body \cup (Pair \X Slot)
    /\ Free \notin Resource
    /\ Configs \subseteq [Resource -> Wanted \cup {None}]
    /\ \A c \in Configs, r \in Resource :
          c[r] # None => ZoneOf(c[r].slot.src, DefaultVRF) /\ ZoneOf(c[r].slot.dst, DefaultVRF)
    /\ InitialServers \subseteq [Pair -> Rules]
    /\ \A o \in InitialServers, p \in Pair, s \in Slot : o[p][s] # None => Belongs(s, p)
    /\ Bounds \subseteq [runs : Nat, faults : Nat, mapFaults : Nat, lost : Nat, edits : Nat]

VARIABLES
    server,    \* per segment pair the rule in each slot, in the IDs of the pair
    lock,      \* policyMu: the resource whose handler holds it, or Free
    registry,  \* policyRegistry: the slots created by this provider process
    config,    \* the configuration of the run
    tf,        \* Terraform state, in the IDs of the default VRF
    pc,        \* where each resource's handler stands
    snap,      \* the set a handler has fetched and is about to post back
    stale,     \* ghost: the UI edited the policies after that fetch
    runs, faults, mapFaults, lost, edits,   \* what is left of the bounds
    happened   \* ghost: which of "untranslated", "lost" and "edit" there has been

budgets == <<runs, faults, mapFaults, lost, edits, happened>>
vars == <<server, lock, registry, config, tf, pc, snap, stale, budgets>>

Ended    == {"ok", "failed"}
Planning == {"refresh", "ready", "refused"}
Applying == {"fetch", "post", "readback"}

TypeOK ==
    /\ server \in [Pair -> Rules]
    /\ lock \in Resource \cup {Free}
    /\ registry \subseteq Pair \X Slot
    /\ config \in [Resource -> Wanted \cup {None}]
    /\ tf \in [Resource -> Wanted \cup {None}]
    /\ pc \in [Resource -> Ended \cup Planning \cup Applying]
    /\ snap \in [Resource -> SUBSET Policy]
    /\ stale \in BOOLEAN
    /\ runs \in Nat /\ faults \in Nat /\ mapFaults \in Nat /\ lost \in Nat /\ edits \in Nat
    /\ happened \subseteq {"untranslated", "lost", "edit"}

-----------------------------------------------------------------------------
(* What Terraform makes of configuration and state.  Segment pair, zones and *)
(* priority are RequiresReplace: another slot is a delete, then a create.    *)

SameSlot(v, w) == v.pair = w.pair /\ v.slot = w.slot

Creating(r) == tf[r] = None /\ config[r] # None
Deleting(r) == /\ tf[r] # None
               /\ config[r] # None => ~SameSlot(tf[r], config[r])
Updating(r) == /\ tf[r] # None
               /\ config[r] # None
               /\ SameSlot(tf[r], config[r])
               /\ tf[r].body # config[r].body

\* The policy the running operation is about: compositeID names its slot.
Subject(r) == IF Deleting(r) THEN tf[r] ELSE config[r]

-----------------------------------------------------------------------------
(* Reading and writing the set of a segment pair. *)

\* A slot in the IDs of the default VRF.
InDefault(s) ==
    [src |-> ToDefaultVRF(s.src), dst |-> ToDefaultVRF(s.dst), prio |-> s.prio]

\* Mutant: both zones are translated to the VRF of the source.
InPair_SourceOnly(s, p) ==
    [src  |-> IF p.src = DefaultVRF THEN s.src ELSE ToVRF(s.src, p.src),
     dst  |-> IF p.src = DefaultVRF THEN s.dst ELSE ToVRF(s.dst, p.src),
     prio |-> s.prio]

\* A slot in the IDs of a segment pair.
InPair(s, p) ==
    [src  |-> IF p.src = DefaultVRF THEN s.src ELSE ToVRF(s.src, p.src),
     dst  |-> IF p.dst = DefaultVRF THEN s.dst ELSE ToVRF(s.dst, p.dst),
     prio |-> s.prio]

\* GetSecurityPolicies: the rules of pair p as a flat set, translated unless
\* the mapping request failed.
Listed(p, translated) ==
    {[slot |-> IF translated THEN InDefault(s) ELSE s, body |-> server[p][s]] :
        s \in {t \in Slot : server[p][t] # None}}

Find(list, s) == {q \in list : q.slot = s}

\* A mapping request is answered, or it fails and uses up one of the faults.
MapRequest(answered) ==
    IF answered THEN UNCHANGED <<mapFaults, happened>>
                ELSE /\ mapFaults > 0
                     /\ mapFaults' = mapFaults - 1
                     /\ happened' = happened \cup {"untranslated"}

\* Mutant: a delete looks for its policy in the IDs of the pair.
Posting_TargetTranslated(r) ==
    IF Deleting(r) THEN {q \in snap[r] : q.slot # InPair(tf[r].slot, tf[r].pair)}
    ELSE LET p   == config[r].pair
             new == [slot |-> config[r].slot, body |-> config[r].body]
         IN  {q \in snap[r] : InPair(q.slot, p) # InPair(new.slot, p)} \cup {new}

\* The set r posts: its policy takes the place of one of the same slot.
Posting(r) ==
    IF Deleting(r) THEN {q \in snap[r] : q.slot # tf[r].slot}
    ELSE LET p   == config[r].pair
             new == [slot |-> config[r].slot, body |-> config[r].body]
         IN  {q \in snap[r] : InPair(q.slot, p) # InPair(new.slot, p)} \cup {new}

\* translatePoliciesToVRF: one zone without a translation fails the whole set.
Translatable(list, p) == \A q \in list : InPair(q.slot, p) \in Slot

\* buildSecurityPoliciesPayload, posted with merge = false.
Payload(list, p) ==
    [s \in Slot |->
        IF \E q \in list : InPair(q.slot, p) = s
        THEN (CHOOSE q \in list : InPair(q.slot, p) = s).body
        ELSE None]

-----------------------------------------------------------------------------
(* The Orchestrator UI. *)

UIEdit ==
    /\ edits > 0
    /\ edits' = edits - 1
    /\ happened' = happened \cup {"edit"}
    /\ \E p \in Pair, s \in Slot, b \in Body \cup {None} :
          /\ Belongs(s, p)
          /\ server' = [server EXCEPT ![p][s] = b]
    /\ stale' = TRUE
    /\ UNCHANGED <<lock, registry, config, tf, pc, snap, runs, faults, mapFaults, lost>>

-----------------------------------------------------------------------------
(* One terraform run. *)

AllEnded == \A r \in Resource : pc[r] \in Ended

\* The registry belongs to the provider process, which is started anew.
StartRun ==
    /\ runs > 0
    /\ runs' = runs - 1
    /\ AllEnded
    /\ config' \in Configs
    /\ registry' = {}
    /\ pc' = [r \in Resource |-> "refresh"]
    /\ UNCHANGED <<server, lock, tf, snap, stale, faults, mapFaults, lost, edits, happened>>

\* terraform import: the slot is looked up by the Read that follows it.  The
\* operator imports a rule that no other resource manages, in default VRF IDs.
ImportState(r, p, s) ==
    /\ AllEnded
    /\ runs > 0
    /\ tf[r] = None
    /\ ZoneOf(s.src, DefaultVRF) /\ ZoneOf(s.dst, DefaultVRF)
    /\ \A q \in Resource : tf[q] # None => ~(tf[q].pair = p /\ tf[q].slot = s)
    /\ \E answered \in BOOLEAN :
          /\ MapRequest(answered)
          /\ \E q \in Find(Listed(p, answered), s) :
                tf' = [tf EXCEPT ![r] = [pair |-> p, slot |-> s, body |-> q.body]]
    /\ UNCHANGED <<server, lock, registry, config, pc, snap, stale, runs, faults, lost, edits>>

\* Read: take over the rule of that slot, or drop the resource from the state.
Read(r) ==
    /\ pc[r] = "refresh"
    /\ \/ tf[r] = None /\ UNCHANGED <<tf, mapFaults, happened>>
       \/ /\ tf[r] # None
          /\ \E answered \in BOOLEAN :
                LET found == Find(Listed(tf[r].pair, answered), tf[r].slot)
                IN  /\ MapRequest(answered)
                    /\ IF found = {} THEN tf' = [tf EXCEPT ![r] = None]
                       ELSE \E q \in found : tf' = [tf EXCEPT ![r].body = q.body]
    /\ pc' = [pc EXCEPT ![r] = "ready"]
    /\ UNCHANGED <<server, lock, registry, config, snap, stale, runs, faults, lost, edits>>

EndPlanning ==
    /\ \A r \in Resource : pc[r] \in {"ready", "refused"}
    /\ pc' = [r \in Resource |->
                 IF \E q \in Resource : pc[q] = "refused" THEN "failed"
                 ELSE IF Creating(r) \/ Updating(r) \/ Deleting(r) THEN "fetch"
                 ELSE "ok"]
    /\ UNCHANGED <<server, lock, registry, config, tf, snap, stale, budgets>>

Key(v) == <<v.pair, v.slot>>

\* CreateSecurityPolicy: another block of this run has created that slot.
Duplicate(r) ==
    /\ pc[r] = "fetch" /\ lock = Free
    /\ Creating(r) /\ Key(config[r]) \in registry
    /\ pc' = [pc EXCEPT ![r] = "failed"]
    /\ UNCHANGED <<server, lock, registry, config, tf, snap, stale, budgets>>

\* Mutant: the set is fetched before the lock is taken.
Fetch_Unlocked(r) ==
    /\ pc[r] = "fetch"
    /\ Creating(r) => Key(config[r]) \notin registry
    /\ \E answered \in BOOLEAN :
          LET list == Listed(Subject(r).pair, answered)
          IN  /\ MapRequest(answered)
              /\ Creating(r) => Find(list, config[r].slot) = {}
              /\ snap' = [snap EXCEPT ![r] = list]
    /\ stale' = FALSE
    /\ pc' = [pc EXCEPT ![r] = "post"]
    /\ UNCHANGED <<server, lock, registry, config, tf, runs, faults, lost, edits>>

\* Mutant: a create does not look for a rule in its slot.
Fetch_NoConflictCheck(r) ==
    /\ pc[r] = "fetch" /\ lock = Free
    /\ Creating(r) => Key(config[r]) \notin registry
    /\ \E answered \in BOOLEAN :
          /\ MapRequest(answered)
          /\ snap' = [snap EXCEPT ![r] = Listed(Subject(r).pair, answered)]
    /\ lock' = r
    /\ stale' = FALSE
    /\ registry' = registry
    /\ pc' = [pc EXCEPT ![r] = "post"]
    /\ UNCHANGED <<server, config, tf, runs, faults, lost, edits>>

\* Take the lock and fetch the set of the pair.  A create fails when the slot is
\* in use; a delete takes its slot out of the registry before it posts.
Fetch(r) ==
    /\ pc[r] = "fetch" /\ lock = Free
    /\ Creating(r) => Key(config[r]) \notin registry
    /\ \E answered \in BOOLEAN :
          LET list     == Listed(Subject(r).pair, answered)
              conflict == Creating(r) /\ Find(list, config[r].slot) # {}
          IN  /\ MapRequest(answered)
              /\ snap' = [snap EXCEPT ![r] = IF conflict THEN {} ELSE list]
              /\ lock' = IF conflict THEN Free ELSE r
              /\ pc' = [pc EXCEPT ![r] = IF conflict THEN "failed" ELSE "post"]
    /\ registry' = IF Deleting(r) THEN registry \ {Key(tf[r])} ELSE registry
    /\ stale' = FALSE
    /\ UNCHANGED <<server, config, tf, runs, faults, lost, edits>>

\* The set the handler posts replaces all rules of the pair.
PostApplied(r) ==
    LET p == Subject(r).pair
    IN  /\ Translatable(Posting(r), p)
        /\ server' = [server EXCEPT ![p] = Payload(Posting(r), p)]

\* A create or update goes on to read the rule back, still under the lock; a
\* delete is done, and the create of a replacement follows it.
Post(r) ==
    /\ pc[r] = "post"
    /\ PostApplied(r)
    /\ registry' = IF Creating(r) THEN registry \cup {Key(config[r])} ELSE registry
    /\ lock' = IF Deleting(r) THEN Free ELSE lock
    /\ tf' = IF Deleting(r) THEN [tf EXCEPT ![r] = None] ELSE tf
    /\ pc' = [pc EXCEPT ![r] = IF ~Deleting(r) THEN "readback"
                              ELSE IF config[r] = None THEN "ok" ELSE "fetch"]
    /\ snap' = [snap EXCEPT ![r] = {}]
    /\ UNCHANGED <<config, stale, budgets>>

\* The post takes effect but its answer never arrives.
PostLost(r) ==
    /\ lost > 0
    /\ lost' = lost - 1
    /\ happened' = happened \cup {"lost"}
    /\ pc[r] = "post"
    /\ PostApplied(r)
    /\ lock' = Free
    /\ pc' = [pc EXCEPT ![r] = "failed"]
    /\ snap' = [snap EXCEPT ![r] = {}]
    /\ UNCHANGED <<registry, config, tf, stale, runs, faults, mapFaults, edits>>

\* setSecurityPolicies fails before it posts: the mapping request fails, or
\* some zone of the set has no ID in the VRF it is posted to.
Untranslated(r) ==
    /\ pc[r] = "post"
    /\ \/ MapRequest(FALSE)
       \/ /\ ~Translatable(Posting(r), Subject(r).pair)
          /\ MapRequest(TRUE)
    /\ lock' = Free
    /\ pc' = [pc EXCEPT ![r] = "failed"]
    /\ snap' = [snap EXCEPT ![r] = {}]
    /\ UNCHANGED <<server, registry, config, tf, stale, runs, faults, lost, edits>>

\* The rule as the API reports it now goes into the state, and Terraform refuses
\* the result when it is not the planned one.  The planned one goes into the
\* state when the API does not report it.
ReadBack(r) ==
    /\ pc[r] = "readback"
    /\ \E answered \in BOOLEAN :
          LET found == Find(Listed(config[r].pair, answered), config[r].slot)
          IN  /\ MapRequest(answered)
              /\ \E b \in IF found = {} THEN {config[r].body} ELSE {q.body : q \in found} :
                    /\ tf' = [tf EXCEPT ![r] = [config[r] EXCEPT !.body = b]]
                    /\ pc' = [pc EXCEPT ![r] = IF b = config[r].body THEN "ok" ELSE "failed"]
    /\ lock' = Free
    /\ UNCHANGED <<server, registry, config, snap, stale, runs, faults, lost, edits>>

\* The handler of r has a request to send next.
Requesting(r) ==
    \/ pc[r] = "refresh" /\ tf[r] # None
    \/ pc[r] \in {"post", "readback"}
    \/ pc[r] = "fetch" /\ lock = Free /\ (Creating(r) => Key(config[r]) \notin registry)

\* Mutant: the error path returns without unlocking.
RequestFails_Locked(r) ==
    /\ faults > 0
    /\ faults' = faults - 1
    /\ Requesting(r)
    /\ pc' = [pc EXCEPT ![r] = IF @ = "refresh" THEN "refused" ELSE "failed"]
    /\ snap' = [snap EXCEPT ![r] = {}]
    /\ UNCHANGED <<server, lock, registry, config, tf, stale, runs, mapFaults, lost, edits,
                   happened>>

\* A request fails without an effect: the handler ends and releases the lock.
RequestFails(r) ==
    /\ faults > 0
    /\ faults' = faults - 1
    /\ Requesting(r)
    /\ pc' = [pc EXCEPT ![r] = IF @ = "refresh" THEN "refused" ELSE "failed"]
    /\ lock' = IF lock = r THEN Free ELSE lock
    /\ snap' = [snap EXCEPT ![r] = {}]
    /\ UNCHANGED <<server, registry, config, tf, stale, runs, mapFaults, lost, edits,
                   happened>>

Rest == AllEnded /\ runs = 0 /\ UNCHANGED vars

-----------------------------------------------------------------------------

Init ==
    /\ server \in InitialServers
    /\ lock = Free
    /\ registry = {}
    /\ config = [r \in Resource |-> None]
    /\ tf = [r \in Resource |-> None]
    /\ pc = [r \in Resource |-> "ok"]
    /\ snap = [r \in Resource |-> {}]
    /\ stale = FALSE
    /\ \E b \in Bounds :
          /\ runs = b.runs /\ faults = b.faults /\ mapFaults = b.mapFaults
          /\ lost = b.lost /\ edits = b.edits
    /\ happened = {}

Handler(r) == Read(r) \/ Duplicate(r) \/ Fetch(r) \/ Post(r) \/ Untranslated(r) \/ ReadBack(r)

Next ==
    \/ StartRun \/ EndPlanning
    \/ \E r \in Resource : Handler(r) \/ PostLost(r) \/ RequestFails(r)
    \/ \E r \in Resource, p \in Pair, s \in Slot : ImportState(r, p, s)
    \/ UIEdit
    \/ Rest

Spec == Init /\ [][Next]_vars

(* As for compound classifications: requests end, the mutex wakes its waiters, *)
(* and nothing makes an operator start a run.                                  *)
Fairness == WF_vars(EndPlanning) /\ \A r \in Resource : WF_vars(Handler(r))
FairSpec == Spec /\ Fairness
=============================================================================
