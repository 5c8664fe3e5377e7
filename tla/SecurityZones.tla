----------------------------- MODULE SecurityZones -----------------------------
(***************************************************************************)
(* Security zones.  The Orchestrator replaces the whole set of zones with  *)
(* every POST; the client serialises list, change and POST with zoneMu.  A *)
(* zone is known by its ID, names are free.  A create and an update post   *)
(* with deleteDependencies = false, a delete with true: policies of a zone *)
(* that goes away go with it.                                              *)
(***************************************************************************)
EXTENDS Terraform

CONSTANTS
    Name,           \* names a zone may carry
    FirstFree,      \* the ID of the next zone at the start
    Reserved,       \* how many IDs a nextId request may set aside: 1 when it
                    \* reserves the ID it answers, 0 when only creation does
    InitialZones    \* what the Orchestrator holds at the start

ASSUME ZonesAssumption ==
    /\ None \notin Name \cup Nat \cup [id : Nat, name : Name]
    /\ Configs \subseteq [Resource -> Name \cup {None}]
    /\ FirstFree \in Nat
    /\ Reserved \subseteq {0, 1} /\ Reserved # {}
    /\ InitialZones \subseteq [zones : UNION {[S -> Name] : S \in SUBSET (0..FirstFree - 1)},
                               rules : SUBSET (Nat \X Nat)]
    /\ \A start \in InitialZones :
          start.rules \subseteq (DOMAIN start.zones) \X (DOMAIN start.zones)

VARIABLES
    zones,     \* the Orchestrator's zones: a function from IDs to names
    next,      \* the ID the Orchestrator answers to the next nextId request
    rules,     \* the policies, as the pairs of zones they refer to
    list,      \* per resource the zones its handler listed
    id         \* per resource the ID its handler writes

zoneVars == <<zones, next, rules>>
vars == <<tfVars, zoneVars, list, id>>

\* A zone the Orchestrator has, or once had, under an ID it has given out.
Zone == [id : 0..next - 1, name : Name]
Stored(z) == [id |-> z, name |-> zones[z]]

Applying == {"nextid", "list", "post", "readback"}

ZoneMaps == UNION {[S -> Name] : S \in SUBSET (0..next - 1)}

TypeOK ==
    /\ TerraformTypeOK(Applying, Name, Zone)
    /\ next \in Nat
    /\ zones \in ZoneMaps
    /\ rules \subseteq (DOMAIN zones) \X (DOMAIN zones)
    /\ list \in [Resource -> ZoneMaps \cup {None}]
    /\ id \in [Resource -> 0..next]

-----------------------------------------------------------------------------
(* The Orchestrator. *)

Reaching(set) == {rule \in rules : rule[1] \in set /\ rule[2] \in set}

\* A zone that is missing from a POST is deleted; unless deleteDependencies
\* says so, the request is rejected while a policy refers to it.
Accepted(payload, deleteDependencies) ==
    deleteDependencies \/ Reaching(DOMAIN payload) = rules

ZonesPosted(payload) ==
    /\ zones' = payload
    /\ rules' = Reaching(DOMAIN payload)
    /\ next' = CHOOSE n \in {next} \cup {z + 1 : z \in DOMAIN payload} :
                  \A z \in DOMAIN payload : n >= next /\ n > z

\* Somebody adds, renames or removes a zone, or adds a policy, in the UI.
UIEdit ==
    /\ EditedInUI
    /\ \/ \E n \in Name : /\ zones' = Bind(zones, next, n)
                          /\ next' = next + 1
                          /\ UNCHANGED rules
       \/ \E z \in DOMAIN zones, n \in Name :
             zones' = [zones EXCEPT ![z] = n] /\ UNCHANGED <<next, rules>>
       \/ \E z \in DOMAIN zones : ZonesPosted(Unbind(zones, z))
       \/ \E pair \in (DOMAIN zones) \X (DOMAIN zones) :
             rules' = rules \cup {pair} /\ UNCHANGED <<zones, next>>
    /\ UNCHANGED <<list, id>>

-----------------------------------------------------------------------------
(* Terraform. *)

StartRun == StartTerraform /\ UNCHANGED <<zoneVars, list, id>>

\* terraform import of an ID: the Read that follows fetches the name.
ImportState(r) ==
    /\ \E z \in DOMAIN zones :
          /\ \A q \in Resource : tf[q] # None => tf[q].id # z
          /\ Import(r, Stored(z))
    /\ UNCHANGED <<zoneVars, list, id>>

\* Read: GetZoneByID, or drop the resource when the ID is gone.
Read(r) ==
    /\ pc[r] = "refresh"
    /\ \/ tf[r] = None /\ UNCHANGED tf
       \/ tf[r] # None /\ tf[r].id \notin DOMAIN zones /\ Record(r, None)
       \/ tf[r] # None /\ tf[r].id \in DOMAIN zones /\ Record(r, Stored(tf[r].id))
    /\ Refreshed(r, "ready")
    /\ UNCHANGED <<zoneVars, list, id>>

Renaming(r) == Kept(r) /\ config[r] # tf[r].name

EndPlanning ==
    /\ ApplyPlan([r \in Resource |-> IF Creating(r) THEN "nextid"
                                     ELSE IF Deleting(r) \/ Renaming(r) THEN "list"
                                     ELSE "ok"])
    /\ UNCHANGED <<zoneVars, list, id>>

-----------------------------------------------------------------------------
(* The handlers. *)

\* Mutant: the ID is requested before zoneMu is taken.
NextZoneID_Unlocked(r) ==
    /\ pc[r] = "nextid"
    /\ id' = [id EXCEPT ![r] = next]
    /\ \E n \in Reserved : next' = next + n
    /\ Goto(r, "list")
    /\ UNCHANGED <<lock, config, tf, stale, budgets, zones, rules, list>>

\* CreateZone takes zoneMu and asks for an ID before it lists the zones.
NextZoneID(r) ==
    /\ pc[r] = "nextid" /\ lock = Free
    /\ lock' = r
    /\ id' = [id EXCEPT ![r] = next]
    /\ \E n \in Reserved : next' = next + n
    /\ Goto(r, "list")
    /\ UNCHANGED <<config, tf, stale, budgets, zones, rules, list>>

\* Mutant: the zones are listed outside the critical section.
ListZones_Unlocked(r) ==
    /\ pc[r] = "list"
    /\ list' = [list EXCEPT ![r] = zones]
    /\ id' = [id EXCEPT ![r] = IF Creating(r) THEN @ ELSE tf[r].id]
    /\ stale' = stale \ {r}
    /\ Goto(r, "post")
    /\ UNCHANGED <<config, tf, lock, budgets, zoneVars>>

\* Each handler lists the zones under zoneMu.
ListZones(r) ==
    /\ pc[r] = "list" /\ lock \in {Free, r}
    /\ Deleting(r) => tf[r].id \in DOMAIN zones
    /\ lock' = r
    /\ list' = [list EXCEPT ![r] = zones]
    /\ id' = [id EXCEPT ![r] = IF Creating(r) THEN @ ELSE tf[r].id]
    /\ stale' = stale \ {r}
    /\ Goto(r, "post")
    /\ UNCHANGED <<config, tf, budgets, zoneVars>>

\* DeleteZone has nothing to do when the zone is gone.
Vanished(r) ==
    /\ pc[r] = "list" /\ lock = Free
    /\ Deleting(r) /\ tf[r].id \notin DOMAIN zones
    /\ Record(r, None)
    /\ Goto(r, "ok")
    /\ UNCHANGED <<config, lock, stale, budgets, zoneVars, list, id>>

\* The set to be posted: a create appends, an update replaces or appends, a
\* delete leaves out.  Of two entries with one ID the JSON object keeps the
\* last, which is the handler's own.
Payload(r) ==
    IF Deleting(r) THEN Unbind(list[r], id[r])
                   ELSE Bind(list[r], id[r], config[r])

\* Mutant: every POST may delete dependencies.
Cascading_Always(r) == TRUE

Cascading(r) == Deleting(r)

\* The POST is accepted: a delete is done, the others read the zone back.
Post(r) ==
    /\ pc[r] = "post"
    /\ Accepted(Payload(r), Cascading(r))
    /\ ZonesPosted(Payload(r))
    /\ \/ /\ Deleting(r)
          /\ Record(r, None) /\ Goto(r, "ok") /\ Released(r)
       \/ /\ ~Deleting(r)
          /\ Goto(r, "readback")
          /\ UNCHANGED <<tf, lock>>
    /\ UNCHANGED <<config, stale, budgets, list, id>>

PostRejected(r) ==
    /\ pc[r] = "post"
    /\ ~Accepted(Payload(r), Cascading(r))
    /\ Goto(r, "failed") /\ Released(r)
    /\ UNCHANGED <<config, tf, stale, budgets, zoneVars, list, id>>

PostLost(r) ==
    /\ pc[r] = "post"
    /\ Accepted(Payload(r), Cascading(r))
    /\ ZonesPosted(Payload(r))
    /\ LoseAnswer(r)
    /\ UNCHANGED <<list, id>>

\* The zone read back is recorded, or the one posted when it is not found.
\* Terraform refuses a name other than the planned one.
ReadBack(r) ==
    /\ pc[r] = "readback"
    /\ LET name == IF id[r] \in DOMAIN zones THEN zones[id[r]] ELSE config[r]
       IN  /\ Record(r, [id |-> id[r], name |-> name])
           /\ Goto(r, IF name = config[r] THEN "ok" ELSE "failed")
    /\ Released(r)
    /\ UNCHANGED <<config, stale, budgets, zoneVars, list, id>>

Requesting(r) ==
    \/ pc[r] = "refresh" /\ tf[r] # None
    \/ pc[r] \in {"nextid", "list"} /\ lock \in {Free, r}
    \/ pc[r] \in {"post", "readback"}

RequestFails(r) ==
    /\ Requesting(r)
    /\ FailRequest(r, "ready")
    /\ UNCHANGED <<zoneVars, list, id>>

Rest == Rested /\ UNCHANGED vars

-----------------------------------------------------------------------------

Init ==
    /\ TerraformInit
    /\ \E start \in InitialZones : zones = start.zones /\ rules = start.rules
    /\ next = FirstFree
    /\ list = [r \in Resource |-> None]
    /\ id = [r \in Resource |-> 0]

Handler(r) ==
    \/ Read(r)
    \/ NextZoneID(r) \/ ListZones(r) \/ Vanished(r)
    \/ Post(r) \/ PostRejected(r) \/ ReadBack(r)

Next ==
    \/ StartRun \/ EndPlanning
    \/ \E r \in Resource :
          Handler(r) \/ PostLost(r) \/ RequestFails(r) \/ ImportState(r)
    \/ UIEdit
    \/ Rest

Spec == Init /\ [][Next]_vars
=============================================================================
