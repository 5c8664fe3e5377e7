------------------------------- MODULE ZoneProofs -------------------------------
(***************************************************************************)
(* Theorems about SecurityZones for every value of its constants.          *)
(***************************************************************************)
EXTENDS ZoneProperties, TLAPS

\* A handler that has an ID to create, or a listing to post, holds zoneMu.
WritersHoldLock ==
    \A r \in Resource :
        /\ pc[r] = "list" /\ Creating(r) => lock = r
        /\ pc[r] \in {"post", "readback"} => lock = r
        /\ pc[r] = "post" => list[r] \in ZoneMaps

\* Where a handler stands tells what it is there for.
OperationIsKnown ==
    \A r \in Resource :
        /\ pc[r] = "nextid" => Creating(r)
        /\ pc[r] \in {"list", "post"} => Creating(r) \/ Renaming(r) \/ Deleting(r)
        /\ pc[r] = "readback" => Creating(r) \/ Renaming(r)

\* A handler writes the zone of its resource.
WritesItsOwn ==
    \A r \in Resource :
        pc[r] \in {"post", "readback"} /\ ~Creating(r) => id[r] = tf[r].id

\* What has been posted has been given out.
GivenOut == \A r \in Resource : pc[r] = "readback" => id[r] < next

\* A create was given an ID that no resource owns, ...
CreateIsUnowned ==
    \A q, r \in Resource :
        pc[r] \in {"list", "post", "readback"} /\ Creating(r) /\ tf[q] # None =>
            tf[q].id # id[r]

\* ... and that no zone has before it is written, unless the UI took it.
CreateIsNew ==
    \A r \in Resource :
        pc[r] \in {"list", "post"} /\ Creating(r) =>
            /\ 0 \notin Reserved => id[r] < next
            /\ 0 \notin Reserved \/ "edit" \notin happened => id[r] \notin DOMAIN zones

\* A zone that has been created is there to be read back.
CreatedIsThere ==
    \A r \in Resource :
        pc[r] = "readback" /\ Creating(r) /\ "edit" \notin happened => id[r] \in DOMAIN zones

\* The listing a POST is made of is what the Orchestrator holds.
ListIsCurrent == \A r \in Resource : pc[r] = "post" /\ r \notin stale => list[r] = zones

\* A listing is outdated by edits in the UI only.
OnlyEditsOutdate == "edit" \notin happened => stale = {}

ZoneInv ==
    /\ TypeOK /\ WritersHoldLock /\ OperationIsKnown /\ WritesItsOwn /\ GivenOut /\ CreateIsUnowned
    /\ CreateIsNew /\ CreatedIsThere /\ ListIsCurrent /\ OnlyEditsOutdate /\ NoSharedZone

-----------------------------------------------------------------------------
(* Tables of zones. *)

\* What a table of zones is, below any bound on the IDs.
LEMMA ZoneMap ==
    ASSUME NEW n \in Nat, NEW f
    PROVE  f \in UNION {[S -> Name] : S \in SUBSET (0..n - 1)} <=>
             /\ f = [z \in DOMAIN f |-> f[z]]
             /\ DOMAIN f \subseteq 0..n - 1
             /\ \A z \in DOMAIN f : f[z] \in Name
OBVIOUS

\* A zone more, or another name for one.
LEMMA BindZone ==
    ASSUME NEW n \in Nat, NEW f \in UNION {[S -> Name] : S \in SUBSET (0..n - 1)},
           NEW z \in 0..n - 1, NEW m \in Name
    PROVE  Bind(f, z, m) \in UNION {[S -> Name] : S \in SUBSET (0..n - 1)}
<1>1. /\ DOMAIN f \subseteq 0..n - 1
      /\ \A x \in DOMAIN f : f[x] \in Name
  BY ZoneMap
<1>2. /\ DOMAIN Bind(f, z, m) \subseteq 0..n - 1
      /\ \A x \in DOMAIN Bind(f, z, m) : Bind(f, z, m)[x] \in Name
  BY <1>1 DEF Bind
<1>3. QED
  BY <1>2, ZoneMap DEF Bind

\* A zone less.
LEMMA UnbindZone ==
    ASSUME NEW n \in Nat, NEW f \in UNION {[S -> Name] : S \in SUBSET (0..n - 1)}, NEW z
    PROVE  Unbind(f, z) \in UNION {[S -> Name] : S \in SUBSET (0..n - 1)}
<1>1. /\ DOMAIN f \subseteq 0..n - 1
      /\ \A x \in DOMAIN f : f[x] \in Name
  BY ZoneMap
<1>2. /\ DOMAIN Unbind(f, z) \subseteq 0..n - 1
      /\ \A x \in DOMAIN Unbind(f, z) : Unbind(f, z)[x] \in Name
  BY <1>1 DEF Unbind, Restrict
<1>3. Unbind(f, z) = [x \in DOMAIN Unbind(f, z) |-> Unbind(f, z)[x]]
  BY DEF Unbind, Restrict
<1>4. QED
  BY <1>2, <1>3, ZoneMap

\* IDs that have been given out stay so.
LEMMA IntervalsGrow ==
    ASSUME NEW m \in Nat, NEW n \in Nat, m <= n
    PROVE  0..m - 1 \subseteq 0..n - 1 /\ 0..m \subseteq 0..n
OBVIOUS

LEMMA ZonesGrow ==
    ASSUME NEW m \in Nat, NEW n \in Nat, m <= n,
           NEW f \in UNION {[S -> Name] : S \in SUBSET (0..m - 1)}
    PROVE  f \in UNION {[S -> Name] : S \in SUBSET (0..n - 1)}
<1>1. 0..m - 1 \subseteq 0..n - 1
  OBVIOUS
<1>2. QED
  BY <1>1, ZoneMap

\* The ID that follows a POST is behind every zone it holds.
LEMMA NextAfterPost ==
    ASSUME next \in Nat, NEW payload, DOMAIN payload \subseteq 0..next, ZonesPosted(payload)
    PROVE  /\ next' = IF next \in DOMAIN payload THEN next + 1 ELSE next
           /\ next' \in Nat /\ next <= next' /\ DOMAIN payload \subseteq 0..next' - 1
<1> DEFINE Candidate == {next} \cup {z + 1 : z \in DOMAIN payload}
           Behind(n) == \A z \in DOMAIN payload : n >= next /\ n > z
           top == IF next \in DOMAIN payload THEN next + 1 ELSE next
<1>1. CASE DOMAIN payload = {}
  BY <1>1 DEF ZonesPosted
<1>2. CASE DOMAIN payload # {}
  <2>1. top \in Candidate /\ Behind(top)
    OBVIOUS
  <2>2. \A n \in Candidate : Behind(n) => n = top
    BY <1>2
  <2>3. (CHOOSE n \in Candidate : Behind(n)) = top
    BY <2>1, <2>2
  <2>4. next' = top
    BY <2>3 DEF ZonesPosted
  <2>5. QED
    BY <2>4
<1>3. QED
  BY <1>1, <1>2

-----------------------------------------------------------------------------
(* The invariant. *)

LEMMA ZoneInit == Init => ZoneInv
<1> SUFFICES ASSUME Init PROVE ZoneInv
  OBVIOUS
<1>1. TypeOK
  <2>1. PICK start \in InitialZones : zones = start.zones /\ rules = start.rules
    BY DEF Init
  <2>2. zones \in ZoneMaps /\ rules \subseteq (DOMAIN zones) \X (DOMAIN zones)
    BY <2>1, ZonesAssumption DEF Init, ZoneMaps
  <2>3. QED
    BY <2>2, ZonesAssumption, TerraformAssumption
    DEF Init, TerraformInit, TypeOK, TerraformTypeOK, Ended
<1>2. WritersHoldLock /\ OperationIsKnown /\ WritesItsOwn /\ GivenOut /\ CreateIsUnowned
  BY DEF Init, TerraformInit, WritersHoldLock, OperationIsKnown, WritesItsOwn, GivenOut,
         CreateIsUnowned
<1>3. CreateIsNew /\ CreatedIsThere /\ ListIsCurrent /\ OnlyEditsOutdate /\ NoSharedZone
  BY DEF Init, TerraformInit, CreateIsNew, CreatedIsThere, ListIsCurrent, OnlyEditsOutdate,
         NoSharedZone
<1>4. QED
  BY <1>1, <1>2, <1>3 DEF ZoneInv

\* What is recorded of a zone is a zone.
LEMMA StoredZone ==
    ASSUME TypeOK, NEW z \in DOMAIN zones
    PROVE  Stored(z) \in Zone /\ Stored(z) # None /\ Stored(z).id = z
<1>1. z \in 0..next - 1 /\ zones[z] \in Name
  BY ZoneMap DEF TypeOK, ZoneMaps
<1>2. QED
  BY <1>1, ZonesAssumption DEF Stored, Zone, TypeOK

\* A posted set holds zones with IDs that have been given out.
LEMMA PayloadTyped ==
    ASSUME ZoneInv, NEW r \in Resource, pc[r] = "post", ZonesPosted(Payload(r))
    PROVE  /\ zones' = Payload(r)
           /\ next' \in Nat /\ next <= next'
           /\ zones' \in ZoneMaps'
           /\ rules' \subseteq (DOMAIN zones') \X (DOMAIN zones')
           /\ ~Deleting(r) => id[r] \in 0..next' - 1
<1> DEFINE Below(n) == UNION {[S -> Name] : S \in SUBSET (0..n - 1)}
<1>1. /\ next \in Nat /\ next + 1 \in Nat
      /\ rules \subseteq (DOMAIN zones) \X (DOMAIN zones)
      /\ list[r] \in Below(next)
      /\ id[r] \in 0..next
  BY DEF ZoneInv, TypeOK, WritersHoldLock, ZoneMaps
<1>2. ~Deleting(r) => config[r] \in Name
  BY DEF ZoneInv, OperationIsKnown, Creating, Renaming, Kept, TypeOK, TerraformTypeOK
<1>3. list[r] \in Below(next + 1)
  BY <1>1, ZonesGrow
<1>4. Payload(r) \in Below(next + 1)
  <2>1. CASE Deleting(r)
    BY <1>1, <1>3, <2>1, UnbindZone DEF Payload
  <2>2. CASE ~Deleting(r)
    BY <1>1, <1>2, <1>3, <2>2, BindZone DEF Payload
  <2>3. QED
    BY <2>1, <2>2
<1>5. /\ Payload(r) = [z \in DOMAIN Payload(r) |-> Payload(r)[z]]
      /\ DOMAIN Payload(r) \subseteq 0..next
      /\ \A z \in DOMAIN Payload(r) : Payload(r)[z] \in Name
  BY <1>1, <1>4, ZoneMap
<1>6. next' \in Nat /\ next <= next' /\ DOMAIN Payload(r) \subseteq 0..next' - 1
  BY <1>1, <1>5, NextAfterPost
<1>7. zones' = Payload(r) /\ rules' = Reaching(DOMAIN Payload(r))
  BY DEF ZonesPosted
<1>8. Payload(r) \in Below(next')
  BY <1>5, <1>6, ZoneMap
<1>9. rules' \subseteq (DOMAIN zones') \X (DOMAIN zones')
  BY <1>1, <1>7 DEF Reaching
<1>10. ~Deleting(r) => id[r] \in DOMAIN Payload(r)
  BY DEF Payload, Bind
<1>11. QED
  BY <1>6, <1>7, <1>8, <1>9, <1>10 DEF ZoneMaps

\* IDs are given out and not taken back.
LEMMA NextGrows ==
    ASSUME ZoneInv, [Next]_vars
    PROVE  next' \in Nat /\ next <= next'
<1> USE DEF ZoneInv, TypeOK
<1>1. CASE StartRun \/ EndPlanning \/ Rest \/ UNCHANGED vars
  BY <1>1 DEF StartRun, EndPlanning, Rest, vars, zoneVars
<1>2. ASSUME NEW r \in Resource, Handler(r) \/ PostLost(r) \/ RequestFails(r) \/ ImportState(r)
      PROVE  next' \in Nat /\ next <= next'
  <2>1. CASE NextZoneID(r)
    BY <2>1, ZonesAssumption DEF NextZoneID
  <2>2. CASE Post(r) \/ PostLost(r)
    BY <2>2, PayloadTyped DEF Post, PostLost
  <2>3. QED
    BY <1>2, <2>1, <2>2
    DEF Handler, Read, ListZones, Vanished, PostRejected, ReadBack, RequestFails, ImportState, zoneVars
<1>3. CASE UIEdit
  <2>1. ASSUME NEW z \in DOMAIN zones, ZonesPosted(Unbind(zones, z))
        PROVE  next' \in Nat /\ next <= next'
    <3>1. DOMAIN Unbind(zones, z) \subseteq 0..next
      BY ZoneMap DEF ZoneMaps, Unbind, Restrict
    <3>2. QED
      BY <2>1, <3>1, NextAfterPost
  <2>2. QED
    BY <1>3, <2>1 DEF UIEdit
<1>4. QED
  BY <1>1, <1>2, <1>3 DEF Next

\* What has been listed, recorded or requested stays well typed.
LEMMA TypesGrow ==
    ASSUME ZoneInv, next' \in Nat, next <= next'
    PROVE  /\ Zone \subseteq Zone' /\ ZoneMaps \subseteq ZoneMaps'
           /\ 0..next \subseteq 0..next'
<1>1. next \in Nat
  BY DEF ZoneInv, TypeOK
<1>2. 0..next - 1 \subseteq 0..next' - 1 /\ 0..next \subseteq 0..next'
  BY <1>1, IntervalsGrow
<1>3. Zone \subseteq Zone'
  BY <1>2 DEF Zone
<1>4. ZoneMaps \subseteq ZoneMaps'
  BY <1>1, ZonesGrow DEF ZoneMaps
<1>5. QED
  BY <1>2, <1>3, <1>4

LEMMA ZoneTypeStep == ZoneInv /\ [Next]_vars => TypeOK'
<1> SUFFICES ASSUME ZoneInv, [Next]_vars PROVE TypeOK'
  OBVIOUS
<1>1. /\ next' \in Nat
      /\ Zone \subseteq Zone' /\ ZoneMaps \subseteq ZoneMaps'
      /\ 0..next \subseteq 0..next'
  BY NextGrows, TypesGrow
<1>2. /\ tf \in [Resource -> Zone' \cup {None}]
      /\ list \in [Resource -> ZoneMaps' \cup {None}]
      /\ id \in [Resource -> 0..next']
  BY <1>1 DEF ZoneInv, TypeOK, TerraformTypeOK
<1> DEFINE Basics == TerraformTypeOK(Applying, Name, Zone)'
           Tables == /\ zones' \in ZoneMaps'
                     /\ rules' \subseteq (DOMAIN zones') \X (DOMAIN zones')
                     /\ list' \in [Resource -> ZoneMaps' \cup {None}]
                     /\ id' \in [Resource -> 0..next']
<1>3. zoneVars' = zoneVars /\ list' = list /\ id' = id => Tables
  BY <1>2 DEF ZoneInv, TypeOK, ZoneMaps, zoneVars
<1>4. ASSUME tf' = tf, config' = config, pc' \in [Resource -> Ended \cup Planning \cup Applying],
             lock' \in Resource \cup {Free}, stale' \subseteq Resource,
             {runs', faults', lost', edits'} \subseteq Nat, happened' \subseteq {"fault", "lost", "edit"}
      PROVE  Basics
  BY <1>2, <1>4 DEF ZoneInv, TypeOK, TerraformTypeOK, Applying, Zone
<1>5. CASE StartRun
  <2>1. config' \in [Resource -> Name \cup {None}]
    BY <1>5, ZonesAssumption DEF StartRun, StartTerraform
  <2>2. Basics
    BY <1>2, <1>5, <2>1 DEF StartRun, StartTerraform, ZoneInv, TypeOK, TerraformTypeOK, Planning
  <2>3. QED
    BY <1>1, <1>3, <1>5, <2>2 DEF StartRun, TypeOK
<1> USE DEF TypeOK, budgets
<1>6. CASE EndPlanning
  <2>1. Basics
    BY <1>4, <1>6 DEF EndPlanning, ApplyPlan, Planning, Ended, Applying, ZoneInv, TerraformTypeOK
  <2>2. QED
    BY <1>1, <1>3, <1>6, <2>1 DEF EndPlanning
<1>7. ASSUME NEW r \in Resource, Read(r) PROVE TypeOK'
  <2>1. tf' \in [Resource -> Zone' \cup {None}]
    <3>1. CASE tf[r] # None /\ tf[r].id \in DOMAIN zones /\ Record(r, Stored(tf[r].id))
      BY <1>1, <1>2, <3>1, StoredZone DEF Record, ZoneInv
    <3>2. CASE UNCHANGED tf \/ Record(r, None)
      BY <1>2, <3>2 DEF Record
    <3>3. QED
      BY <1>7, <3>1, <3>2 DEF Read
  <2>2. Basics
    BY <1>7, <2>1 DEF Read, Refreshed, Goto, Planning, ZoneInv, TerraformTypeOK
  <2>3. QED
    BY <1>1, <1>3, <1>7, <2>2 DEF Read
<1>8. ASSUME NEW r \in Resource, NextZoneID(r) PROVE TypeOK'
  <2>1. Basics
    BY <1>4, <1>8 DEF NextZoneID, Goto, Applying, ZoneInv, TerraformTypeOK
  <2>2. Tables
    BY <1>1, <1>2, <1>8 DEF NextZoneID, ZoneInv
  <2>3. QED
    BY <1>1, <2>1, <2>2
<1>9. ASSUME NEW r \in Resource, ListZones(r) PROVE TypeOK'
  <2>1. Basics
    BY <1>4, <1>9 DEF ListZones, Goto, Applying, ZoneInv, TerraformTypeOK
  <2>2. ~Creating(r) => tf[r].id \in 0..next
    BY <1>9 DEF ListZones, ZoneInv, OperationIsKnown, Renaming, Kept, Deleting, TerraformTypeOK, Zone
  <2>3. Tables
    BY <1>1, <1>2, <1>9, <2>2 DEF ListZones, ZoneInv, zoneVars
  <2>4. QED
    BY <1>1, <2>1, <2>3
<1>10. ASSUME NEW r \in Resource, Vanished(r) PROVE TypeOK'
  <2>1. tf' \in [Resource -> Zone' \cup {None}]
    BY <1>2, <1>10 DEF Vanished, Record
  <2>2. Basics
    BY <1>10, <2>1 DEF Vanished, Goto, Ended, ZoneInv, TerraformTypeOK
  <2>3. QED
    BY <1>1, <1>3, <1>10, <2>2 DEF Vanished
<1>11. ASSUME NEW r \in Resource, Post(r) PROVE TypeOK'
  <2>1. Tables
    BY <1>2, <1>11, PayloadTyped DEF Post
  <2>2. tf' \in [Resource -> Zone' \cup {None}]
    BY <1>2, <1>11 DEF Post, Record
  <2>3. Basics
    BY <1>11, <2>2 DEF Post, Goto, Released, Ended, Applying, ZoneInv, TerraformTypeOK
  <2>4. QED
    BY <1>1, <2>1, <2>3
<1>12. ASSUME NEW r \in Resource, PostLost(r) PROVE TypeOK'
  <2>1. Tables
    BY <1>2, <1>12, PayloadTyped DEF PostLost
  <2>2. Basics
    BY <1>4, <1>12 DEF PostLost, LoseAnswer, Goto, Released, Ended, ZoneInv, TerraformTypeOK
  <2>3. QED
    BY <1>1, <2>1, <2>2
<1>13. ASSUME NEW r \in Resource, PostRejected(r) \/ RequestFails(r) PROVE TypeOK'
  <2>1. Basics
    BY <1>4, <1>13
    DEF PostRejected, RequestFails, FailRequest, Fault, Goto, Released, Ended, Planning, ZoneInv,
        TerraformTypeOK
  <2>2. QED
    BY <1>1, <1>3, <1>13, <2>1 DEF PostRejected, RequestFails
<1>14. ASSUME NEW r \in Resource, ReadBack(r) PROVE TypeOK'
  <2>1. /\ config[r] \in Name /\ id[r] \in 0..next - 1
    <3>1. config[r] # None
      BY <1>14 DEF ReadBack, ZoneInv, OperationIsKnown, Creating, Renaming, Kept
    <3>2. id[r] \in 0..next - 1
      BY <1>14 DEF ReadBack, ZoneInv, GivenOut
    <3>3. QED
      BY <3>1, <3>2 DEF ZoneInv, TerraformTypeOK
  <2>2. id[r] \in DOMAIN zones => zones[id[r]] \in Name
    BY ZoneMap DEF ZoneInv, ZoneMaps
  <2>3. tf' \in [Resource -> Zone' \cup {None}]
    BY <1>1, <1>2, <1>14, <2>1, <2>2 DEF ReadBack, Record, Zone
  <2>4. Basics
    BY <1>14, <2>3 DEF ReadBack, Goto, Released, Ended, ZoneInv, TerraformTypeOK
  <2>5. QED
    BY <1>1, <1>3, <1>14, <2>4 DEF ReadBack
<1>15. ASSUME NEW r \in Resource, ImportState(r) PROVE TypeOK'
  <2>1. PICK z \in DOMAIN zones : Import(r, Stored(z))
    BY <1>15 DEF ImportState
  <2>2. tf' \in [Resource -> Zone' \cup {None}]
    BY <1>1, <1>2, <2>1, StoredZone DEF Import, Record, ZoneInv
  <2>3. Basics
    BY <2>1, <2>2 DEF Import, ZoneInv, TerraformTypeOK
  <2>4. QED
    BY <1>1, <1>3, <1>15, <2>3 DEF ImportState
<1>16. CASE UIEdit
  <2>1. Basics
    BY <1>4, <1>16 DEF UIEdit, EditedInUI, ZoneInv, TerraformTypeOK
  <2>2. list' \in [Resource -> ZoneMaps' \cup {None}] /\ id' \in [Resource -> 0..next']
    BY <1>2, <1>16 DEF UIEdit
  <2>3. zones' \in ZoneMaps' /\ rules' \subseteq (DOMAIN zones') \X (DOMAIN zones')
    <3>1. /\ next \in Nat /\ zones \in ZoneMaps /\ rules \subseteq (DOMAIN zones) \X (DOMAIN zones)
      BY DEF ZoneInv
    <3>2. ASSUME NEW n \in Name, zones' = Bind(zones, next, n), next' = next + 1, rules' = rules
          PROVE  zones' \in ZoneMaps' /\ rules' \subseteq (DOMAIN zones') \X (DOMAIN zones')
      <4>1. zones \in ZoneMaps'
        BY <1>1, <3>1
      <4>2. zones' \in ZoneMaps'
        BY <1>1, <3>1, <3>2, <4>1, BindZone DEF ZoneMaps
      <4>3. DOMAIN zones \subseteq DOMAIN zones'
        BY <3>2 DEF Bind
      <4>4. QED
        BY <3>1, <3>2, <4>2, <4>3
    <3>3. ASSUME NEW z \in DOMAIN zones, NEW n \in Name, zones' = [zones EXCEPT ![z] = n],
                 next' = next, rules' = rules
          PROVE  zones' \in ZoneMaps' /\ rules' \subseteq (DOMAIN zones') \X (DOMAIN zones')
      <4>1. zones' \in ZoneMaps
        BY <3>1, <3>3 DEF ZoneMaps
      <4>2. QED
        BY <1>1, <3>1, <3>3, <4>1
    <3>4. ASSUME NEW z \in DOMAIN zones, ZonesPosted(Unbind(zones, z))
          PROVE  zones' \in ZoneMaps' /\ rules' \subseteq (DOMAIN zones') \X (DOMAIN zones')
      <4>1. Unbind(zones, z) \in ZoneMaps
        BY <3>1, UnbindZone DEF ZoneMaps
      <4>2. QED
        BY <1>1, <3>1, <3>4, <4>1 DEF ZonesPosted, Reaching
    <3>5. QED
      BY <1>1, <1>16, <3>1, <3>2, <3>3, <3>4 DEF UIEdit
  <2>4. QED
    BY <1>1, <2>1, <2>2, <2>3
<1>17. CASE Rest \/ UNCHANGED vars
  <2>1. Basics /\ Tables
    BY <1>3, <1>4, <1>17 DEF Rest, vars, tfVars, ZoneInv, TerraformTypeOK
  <2>2. QED
    BY <1>1, <2>1
<1>18. QED
  BY <1>5, <1>6, <1>7, <1>8, <1>9, <1>10, <1>11, <1>12, <1>13, <1>14, <1>15, <1>16, <1>17
  DEF Next, Handler

\* The mutex: whoever comes to a POST took it when it was free, and only the
\* end of that handler releases it.
LEMMA ZoneLockStep == ZoneInv /\ [Next]_vars => WritersHoldLock' /\ OperationIsKnown'
<1> DEFINE Known(q) ==
             /\ pc'[q] = "list" /\ Creating(q)' => lock' = q
             /\ pc'[q] \in {"post", "readback"} => lock' = q
             /\ pc'[q] = "post" => list'[q] \in ZoneMaps'
             /\ pc'[q] = "nextid" => Creating(q)'
             /\ pc'[q] \in {"list", "post"} => Creating(q)' \/ Renaming(q)' \/ Deleting(q)'
             /\ pc'[q] = "readback" => Creating(q)' \/ Renaming(q)'
<1> SUFFICES ASSUME ZoneInv, [Next]_vars, NEW q \in Resource PROVE Known(q)
  BY DEF WritersHoldLock, OperationIsKnown, Creating, Renaming, Deleting, Kept
<1>1. ZoneMaps \subseteq ZoneMaps'
  BY NextGrows, TypesGrow
<1> USE DEF ZoneInv, TypeOK, TerraformTypeOK, WritersHoldLock, OperationIsKnown,
            Creating, Renaming, Deleting, Kept
<1>2. CASE StartRun
  BY <1>2 DEF StartRun, StartTerraform
<1>3. CASE EndPlanning
  BY <1>3 DEF EndPlanning, ApplyPlan
<1>4. ASSUME NEW r \in Resource, Read(r) PROVE Known(q)
  BY <1>1, <1>4 DEF Read, Refreshed, Record, Goto
<1>5. ASSUME NEW r \in Resource, NextZoneID(r) PROVE Known(q)
  BY <1>1, <1>5, TerraformAssumption DEF NextZoneID, Goto
<1>6. ASSUME NEW r \in Resource, ListZones(r) PROVE Known(q)
  BY <1>1, <1>6, TerraformAssumption DEF ListZones, Goto
<1>7. ASSUME NEW r \in Resource, Vanished(r) PROVE Known(q)
  BY <1>1, <1>7 DEF Vanished, Record, Goto
<1>8. ASSUME NEW r \in Resource, Post(r) PROVE Known(q)
  BY <1>1, <1>8 DEF Post, Record, Goto, Released
<1>9. ASSUME NEW r \in Resource, PostRejected(r) \/ PostLost(r) \/ RequestFails(r) PROVE Known(q)
  BY <1>1, <1>9 DEF PostRejected, PostLost, LoseAnswer, RequestFails, FailRequest, Fault, Goto, Released
<1>10. ASSUME NEW r \in Resource, ReadBack(r) PROVE Known(q)
  BY <1>1, <1>10 DEF ReadBack, Record, Goto, Released
<1>11. ASSUME NEW r \in Resource, ImportState(r) PROVE Known(q)
  BY <1>1, <1>11 DEF ImportState, Import, Record, AllEnded, Ended
<1>12. CASE UIEdit \/ Rest \/ UNCHANGED vars
  BY <1>1, <1>12 DEF UIEdit, EditedInUI, Rest, vars, tfVars
<1>13. QED
  BY <1>2, <1>3, <1>4, <1>5, <1>6, <1>7, <1>8, <1>9, <1>10, <1>11, <1>12 DEF Next, Handler

\* The ID a handler writes is fixed when it lists the zones at the latest.
LEMMA ZoneIDStep ==
    ZoneInv /\ [Next]_vars => WritesItsOwn' /\ GivenOut' /\ CreateIsUnowned' /\ NoSharedZone'
<1> DEFINE Settled(q) ==
             /\ pc'[q] \in {"post", "readback"} /\ ~Creating(q)' => id'[q] = tf'[q].id
             /\ pc'[q] = "readback" => id'[q] < next'
           Unowned(p, q) ==
             pc'[q] \in {"list", "post", "readback"} /\ Creating(q)' /\ tf'[p] # None =>
                tf'[p].id # id'[q]
           Distinct(p, q) == tf'[p] # None /\ tf'[q] # None /\ tf'[p].id = tf'[q].id => p = q
<1> SUFFICES ASSUME ZoneInv, [Next]_vars, NEW p \in Resource, NEW q \in Resource
             PROVE  Settled(q) /\ Unowned(p, q) /\ Distinct(p, q)
  BY DEF WritesItsOwn, GivenOut, CreateIsUnowned, NoSharedZone, Creating
<1> DEFINE Good == Settled(q) /\ Unowned(p, q) /\ Distinct(p, q)
<1>1. /\ next \in Nat /\ next' \in Nat /\ next <= next'
      /\ \A r \in Resource : id[r] \in 0..next /\ (tf[r] # None => tf[r].id \in 0..next - 1)
  BY NextGrows DEF ZoneInv, TypeOK, TerraformTypeOK, Zone
<1> USE DEF ZoneInv, TypeOK, TerraformTypeOK, WritesItsOwn, GivenOut, CreateIsUnowned, NoSharedZone, Creating
<1>2. CASE StartRun \/ EndPlanning
  BY <1>1, <1>2 DEF StartRun, StartTerraform, EndPlanning, ApplyPlan
<1>3. ASSUME NEW r \in Resource, Read(r) PROVE Good
  <2>1. /\ \A s \in Resource : s # r => tf'[s] = tf[s] /\ pc'[s] = pc[s]
        /\ tf'[r] = None \/ (tf[r] # None /\ tf'[r].id = tf[r].id)
        /\ pc'[r] = "ready"
    BY <1>3 DEF Read, Record, Refreshed, Goto, Stored
  <2>2. UNCHANGED <<config, next, id>>
    BY <1>3 DEF Read, Refreshed, zoneVars
  <2>3. QED
    BY <1>1, <2>1, <2>2
<1>4. ASSUME NEW r \in Resource, NextZoneID(r) PROVE Good
  <2>1. /\ \A s \in Resource : s # r => id'[s] = id[s] /\ pc'[s] = pc[s]
        /\ id'[r] = next /\ pc'[r] = "list" /\ UNCHANGED <<tf, config>>
    BY <1>4 DEF NextZoneID, Goto
  <2>2. QED
    BY <1>1, <2>1
<1>5. ASSUME NEW r \in Resource, ListZones(r) PROVE Good
  <2>1. /\ \A s \in Resource : s # r => id'[s] = id[s] /\ pc'[s] = pc[s]
        /\ id'[r] = (IF Creating(r) THEN id[r] ELSE tf[r].id)
        /\ pc[r] = "list" /\ pc'[r] = "post" /\ UNCHANGED <<tf, config>>
    BY <1>5 DEF ListZones, Goto
  <2>2. QED
    BY <1>1, <2>1
<1>6. ASSUME NEW r \in Resource, Vanished(r) PROVE Good
  <2>1. /\ \A s \in Resource : s # r => tf'[s] = tf[s] /\ pc'[s] = pc[s]
        /\ tf'[r] = None /\ pc'[r] = "ok" /\ UNCHANGED <<config, id, next>>
    BY <1>6 DEF Vanished, Record, Goto, zoneVars
  <2>2. QED
    BY <1>1, <2>1
<1>7. ASSUME NEW r \in Resource, Post(r) PROVE Good
  <2>1. /\ \A s \in Resource : s # r => tf'[s] = tf[s] /\ pc'[s] = pc[s]
        /\ UNCHANGED <<config, id>> /\ pc[r] = "post"
        /\ \/ tf'[r] = None /\ pc'[r] = "ok"
           \/ ~Deleting(r) /\ tf'[r] = tf[r] /\ pc'[r] = "readback"
    BY <1>7 DEF Post, Record, Goto
  <2>2. ~Deleting(r) => id[r] < next'
    BY <1>1, <1>7, PayloadTyped DEF Post
  <2>3. QED
    BY <1>1, <2>1, <2>2
<1>8. ASSUME NEW r \in Resource, PostRejected(r) \/ PostLost(r) \/ RequestFails(r) PROVE Good
  <2>1. /\ \A s \in Resource : s # r => pc'[s] = pc[s]
        /\ UNCHANGED <<tf, config, id>> /\ pc'[r] \notin {"list", "post", "readback"}
    BY <1>8 DEF PostRejected, PostLost, LoseAnswer, RequestFails, FailRequest, Fault, Goto
  <2>2. QED
    BY <1>1, <2>1
<1>9. ASSUME NEW r \in Resource, ReadBack(r) PROVE Good
  <2>1. /\ \A s \in Resource : s # r => tf'[s] = tf[s] /\ pc'[s] = pc[s]
        /\ tf'[r].id = id[r] /\ pc[r] = "readback" /\ pc'[r] \in Ended
        /\ UNCHANGED <<config, id, next>>
    BY <1>9 DEF ReadBack, Record, Goto, Ended, zoneVars
  <2>2. \A s \in Resource : s # r /\ Creating(s) => pc'[s] \notin {"list", "post", "readback"}
    BY <2>1 DEF WritersHoldLock
  <2>3. \A s \in Resource : s # r /\ tf[s] # None => tf[s].id # id[r]
    BY <2>1 DEF OperationIsKnown, Renaming, Kept
  <2>4. QED
    BY <1>1, <2>1, <2>2, <2>3 DEF Ended
<1>10. ASSUME NEW r \in Resource, ImportState(r) PROVE Good
  <2>1. PICK z \in DOMAIN zones :
           /\ \A s \in Resource : tf[s] # None => tf[s].id # z
           /\ Import(r, Stored(z))
    BY <1>10 DEF ImportState
  <2>2. /\ \A s \in Resource : s # r => tf'[s] = tf[s]
        /\ tf'[r].id = z
        /\ \A s \in Resource : pc'[s] \in Ended
    BY <2>1 DEF Import, Record, Stored, AllEnded
  <2>3. QED
    BY <2>1, <2>2 DEF Ended
<1>11. CASE UIEdit
  BY <1>1, <1>11 DEF UIEdit, EditedInUI
<1>12. CASE Rest \/ UNCHANGED vars
  BY <1>1, <1>12 DEF Rest, vars, tfVars, zoneVars
<1>13. QED
  BY <1>2, <1>3, <1>4, <1>5, <1>6, <1>7, <1>8, <1>9, <1>10, <1>11, <1>12 DEF Next, Handler

\* A listing goes out of date by an edit in the UI, or by a POST, which ends
\* the use of the listing and leaves no other handler with one.
LEMMA ZoneListStep ==
    ZoneInv /\ [Next]_vars => CreateIsNew' /\ CreatedIsThere' /\ ListIsCurrent' /\ OnlyEditsOutdate'
<1> DEFINE New(q) ==
             pc'[q] \in {"list", "post"} /\ Creating(q)' =>
                /\ 0 \notin Reserved => id'[q] < next'
                /\ 0 \notin Reserved \/ "edit" \notin happened' => id'[q] \notin DOMAIN zones'
           There(q) ==
             pc'[q] = "readback" /\ Creating(q)' /\ "edit" \notin happened' =>
                id'[q] \in DOMAIN zones'
           Current(q) == pc'[q] = "post" /\ q \notin stale' => list'[q] = zones'
           Dated == "edit" \notin happened' => stale' = {}
<1> SUFFICES ASSUME ZoneInv, [Next]_vars, NEW q \in Resource
             PROVE  New(q) /\ There(q) /\ Current(q) /\ Dated
  <2>1. CASE \E r \in Resource : TRUE
    BY <2>1 DEF CreateIsNew, CreatedIsThere, ListIsCurrent, OnlyEditsOutdate, Creating
  <2>2. CASE Resource = {}
    BY <2>2 DEF CreateIsNew, CreatedIsThere, ListIsCurrent, OnlyEditsOutdate, ZoneInv, TypeOK,
                TerraformTypeOK, Next, StartRun, StartTerraform, EndPlanning, ApplyPlan, UIEdit,
                EditedInUI, Rest, vars, tfVars, budgets
  <2>3. QED
    BY <2>1, <2>2
<1> DEFINE Good == New(q) /\ There(q) /\ Current(q) /\ Dated
<1>1. /\ next \in Nat /\ next' \in Nat /\ next <= next'
      /\ id \in [Resource -> 0..next]
      /\ DOMAIN zones \subseteq 0..next - 1
  BY NextGrows, ZoneMap DEF ZoneInv, TypeOK, ZoneMaps
<1> USE DEF ZoneInv, TypeOK, TerraformTypeOK, CreateIsNew, CreatedIsThere, ListIsCurrent,
            OnlyEditsOutdate, Creating, budgets
<1>2. CASE StartRun \/ EndPlanning
  BY <1>1, <1>2 DEF StartRun, StartTerraform, EndPlanning, ApplyPlan, zoneVars
<1>3. ASSUME NEW r \in Resource, Read(r) PROVE Good
  BY <1>1, <1>3 DEF Read, Record, Refreshed, Goto, zoneVars
<1>4. ASSUME NEW r \in Resource, NextZoneID(r) PROVE Good
  <2>1. /\ \A s \in Resource : s # r => id'[s] = id[s] /\ pc'[s] = pc[s]
        /\ id'[r] = next /\ pc'[r] = "list"
        /\ UNCHANGED <<tf, config, zones, list, stale, happened>>
    BY <1>4 DEF NextZoneID, Goto
  <2>2. 0 \notin Reserved => next < next'
    BY <1>1, <1>4, ZonesAssumption DEF NextZoneID
  <2>3. next \notin DOMAIN zones
    BY <1>1
  <2>4. QED
    BY <1>1, <2>1, <2>2, <2>3
<1>5. ASSUME NEW r \in Resource, ListZones(r) PROVE Good
  BY <1>1, <1>5 DEF ListZones, Goto, zoneVars
<1>6. ASSUME NEW r \in Resource, Vanished(r) PROVE Good
  BY <1>1, <1>6 DEF Vanished, Record, Goto, zoneVars
<1>7. ASSUME NEW r \in Resource, Post(r) PROVE Good
  <2>1. /\ pc[r] = "post" /\ pc'[r] \notin {"list", "post"}
        /\ \A s \in Resource : s # r => pc'[s] = pc[s] /\ tf'[s] = tf[s]
        /\ UNCHANGED <<config, id, list, stale, happened>>
    BY <1>7 DEF Post, Goto, Record
  <2>2. \A s \in Resource : pc'[s] = "post" \/ (pc'[s] = "list" /\ Creating(s)) => FALSE
    BY <2>1 DEF WritersHoldLock
  <2>3. \A s \in Resource : s # r => pc'[s] # "readback"
    BY <2>1 DEF WritersHoldLock
  <2>4. pc'[r] = "readback" => ~Deleting(r) /\ zones' = Payload(r)
    BY <1>7 DEF Post, Goto, ZonesPosted
  <2>5. pc'[r] = "readback" => id[r] \in DOMAIN zones'
    BY <2>4 DEF Payload, Bind
  <2>6. \A s \in Resource : pc'[s] = "list" => Creating(s)' = Creating(s)
    BY <2>1
  <2>7. New(q) /\ Current(q)
    BY <2>1, <2>2, <2>6
  <2>8. There(q) /\ Dated
    BY <2>1, <2>3, <2>5
  <2>9. QED
    BY <2>7, <2>8
<1>8. ASSUME NEW r \in Resource, PostLost(r) PROVE Good
  <2>1. /\ pc[r] = "post" /\ pc'[r] = "failed"
        /\ \A s \in Resource : s # r => pc'[s] = pc[s]
        /\ UNCHANGED <<tf, config, id, list, stale>>
        /\ happened' = happened \cup {"lost"}
    BY <1>8 DEF PostLost, LoseAnswer, Goto
  <2>2. \A s \in Resource : /\ pc'[s] \notin {"post", "readback"}
                            /\ ~(pc'[s] = "list" /\ Creating(s))
    BY <2>1 DEF WritersHoldLock
  <2>3. QED
    BY <2>1, <2>2
<1>9. ASSUME NEW r \in Resource, PostRejected(r) \/ RequestFails(r) PROVE Good
  BY <1>1, <1>9 DEF PostRejected, RequestFails, FailRequest, Fault, Goto, zoneVars
<1>10. ASSUME NEW r \in Resource, ReadBack(r) PROVE Good
  BY <1>1, <1>10 DEF ReadBack, Record, Goto, zoneVars
<1>11. ASSUME NEW r \in Resource, ImportState(r) PROVE Good
  BY <1>1, <1>11 DEF ImportState, Import, Record, AllEnded, Ended, zoneVars
<1>12. CASE UIEdit
  <2>1. /\ stale' = Resource /\ "edit" \in happened'
        /\ UNCHANGED <<pc, tf, config, id>>
    BY <1>12 DEF UIEdit, EditedInUI
  <2>2. 0 \notin Reserved /\ pc[q] \in {"list", "post"} /\ Creating(q) => id[q] \notin DOMAIN zones'
    <3>1. \A z \in DOMAIN zones' : z \in DOMAIN zones \/ z = next
      BY <1>12 DEF UIEdit, ZonesPosted, Bind, Unbind, Restrict
    <3>2. QED
      BY <1>1, <3>1
  <2>3. QED
    BY <1>1, <2>1, <2>2
<1>13. CASE Rest \/ UNCHANGED vars
  BY <1>13 DEF Rest, vars, tfVars, zoneVars
<1>14. QED
  BY <1>2, <1>3, <1>4, <1>5, <1>6, <1>7, <1>8, <1>9, <1>10, <1>11, <1>12, <1>13 DEF Next, Handler

LEMMA ZoneInvariant == Spec => []ZoneInv
<1>1. ZoneInv /\ [Next]_vars => ZoneInv'
  BY ZoneTypeStep, ZoneLockStep, ZoneIDStep, ZoneListStep DEF ZoneInv
<1>2. QED
  BY ZoneInit, <1>1, PTL DEF Spec

-----------------------------------------------------------------------------
(* What a POST does. *)

\* A POST made of a current listing concerns the handler's own zone.
LEMMA PostedZones ==
    ASSUME ZoneInv, NEW r \in Resource, pc[r] = "post", r \notin stale, ZonesPosted(Payload(r))
    PROVE  \/ /\ Creating(r) /\ zones' = Bind(zones, id[r], config[r])
           \/ /\ Renaming(r) /\ id[r] = tf[r].id /\ zones' = Bind(zones, id[r], config[r])
           \/ /\ Deleting(r) /\ id[r] = tf[r].id /\ zones' = Unbind(zones, id[r])
<1>1. list[r] = zones /\ zones' = Payload(r)
  BY DEF ZoneInv, ListIsCurrent, ZonesPosted
<1>2. Creating(r) \/ Renaming(r) \/ Deleting(r)
  BY DEF ZoneInv, OperationIsKnown
<1>3. ~Creating(r) => id[r] = tf[r].id
  BY DEF ZoneInv, WritesItsOwn
<1>4. QED
  BY <1>1, <1>2, <1>3 DEF Payload, Creating, Renaming, Kept, Deleting

\* A step that changes zones or policies is a POST or an edit in the UI.
LEMMA WhoWritesZones ==
    ASSUME [Next]_vars, zones' # zones \/ rules' # rules
    PROVE  \/ UIEdit
           \/ \E r \in Resource :
                 /\ Post(r) \/ PostLost(r)
                 /\ pc[r] = "post" /\ ZonesPosted(Payload(r))
                 /\ Accepted(Payload(r), Cascading(r))
BY DEF Next, Handler, StartRun, EndPlanning, Read, NextZoneID, ListZones, Vanished, Post,
       PostRejected, PostLost, ReadBack, RequestFails, ImportState, Rest, vars, zoneVars

\* An edit in the UI takes one from the edits that are left.
LEMMA EditsCount == ZoneInv /\ UIEdit => edits' # edits
BY DEF ZoneInv, TypeOK, TerraformTypeOK, UIEdit, EditedInUI

-----------------------------------------------------------------------------

\* Every variable keeps its type; zones and the state only hold IDs that the
\* Orchestrator has given out, and policies refer to zones that exist.
THEOREM ZonesTypeCorrect == Spec => []TypeOK
<1>1. ZoneInv => TypeOK
  BY DEF ZoneInv
<1>2. QED
  BY <1>1, ZoneInvariant, PTL

\* No zone is in the state of two resources, with any number of resources,
\* failed requests, lost answers and edits in the UI, and whether or not a
\* nextId request reserves the ID it answers.
THEOREM NoZoneIsShared == Spec => []NoSharedZone
<1>1. ZoneInv => NoSharedZone
  BY DEF ZoneInv
<1>2. QED
  BY <1>1, ZoneInvariant, PTL

\* A POST replaces all zones and changes none but that of its resource.
THEOREM OtherZonesStayUntouched == Spec => OtherZonesUntouched
<1> DEFINE Touched(z) == z \notin DOMAIN zones' \/ zones'[z] # zones[z]
           Mine(z) == \E r \in Resource :
                         /\ pc[r] = "post"
                         /\ r \in stale \/ Overtaken(r, z) \/ (tf[r] # None /\ tf[r].id = z)
<1>1. ASSUME ZoneInv, [Next]_vars, edits' = edits, NEW z \in DOMAIN zones, Touched(z)
      PROVE  Mine(z)
  <2>1. ~UIEdit
    BY <1>1, EditsCount
  <2>2. PICK r \in Resource : pc[r] = "post" /\ ZonesPosted(Payload(r))
    BY <1>1, <2>1, WhoWritesZones
  <2>3. CASE r \notin stale
    <3>1. z = id[r]
      BY <1>1, <2>2, <2>3, PostedZones DEF Bind, Unbind, Restrict
    <3>2. CASE Creating(r)
      <4>1. 0 \in Reserved /\ "edit" \in happened
        BY <1>1, <2>2, <3>1, <3>2 DEF ZoneInv, CreateIsNew
      <4>2. QED
        BY <2>2, <3>1, <3>2, <4>1 DEF Overtaken
    <3>3. CASE ~Creating(r)
      BY <1>1, <2>2, <3>1, <3>3
      DEF ZoneInv, WritesItsOwn, OperationIsKnown, Renaming, Kept, Deleting
    <3>4. QED
      BY <3>2, <3>3
  <2>4. QED
    BY <2>2, <2>3
<1>2. ZoneInv /\ [Next]_vars =>
        [edits' = edits =>
           \A z \in DOMAIN zones :
              z \notin DOMAIN zones' \/ zones'[z] # zones[z] =>
                 \E r \in Resource :
                    /\ pc[r] = "post"
                    /\ r \in stale \/ Overtaken(r, z) \/ (tf[r] # None /\ tf[r].id = z)]_vars
  BY <1>1
<1>3. QED
  BY <1>2, ZoneInvariant, PTL DEF Spec, OtherZonesUntouched

\* Policies disappear with a zone that a resource deletes, and never by a
\* create or an update, whatever the UI has done to the zones since the
\* handler listed them.
THEOREM OnlyDeletesTakeRules == Spec => OnlyDeletesDropRules
<1> DEFINE Drops == edits' = edits /\ ~(rules \subseteq rules')
           ByDelete == \E r \in Resource : pc[r] = "post" /\ Deleting(r)
<1>1. ASSUME ZoneInv, [Next]_vars, Drops PROVE ByDelete
  <2>1. PICK r \in Resource : /\ pc[r] = "post" /\ ZonesPosted(Payload(r))
                             /\ Accepted(Payload(r), Cascading(r))
    BY <1>1, WhoWritesZones, EditsCount
  <2>2. Deleting(r)
    BY <1>1, <2>1 DEF Accepted, Cascading, ZonesPosted
  <2>3. QED
    BY <2>1, <2>2
<1>2. ZoneInv /\ [Next]_vars =>
        [edits' = edits /\ ~(rules \subseteq rules') =>
           \E r \in Resource : pc[r] = "post" /\ Deleting(r)]_vars
  BY <1>1
<1>3. QED
  BY <1>2, ZoneInvariant, PTL DEF Spec, OnlyDeletesDropRules

\* Replacing all zones implements a store in which an operation touches the
\* object of its resource only, until somebody edits zones in the UI.
THEOREM ZonesImplementKeyedStore == Spec => ImplementsKeyedStore
<1> DEFINE OwnerOf(state) == [r \in Resource |-> IF state[r] = None THEN None ELSE state[r].id]
<1>1. Init => Store!StoreInit
  BY DEF Init, TerraformInit, Store!StoreInit
<1>2. ASSUME ZoneInv, ZoneInv', [Next]_vars
      PROVE  [Store!StoreNext]_(Store!storeVars)
  <2>1. CASE "edit" \in happened'
    BY <2>1 DEF Store!StoreNext
  <2>2. CASE "edit" \notin happened'
    <3>1. "edit" \notin happened
      BY <1>2, <2>2
      DEF Next, Handler, StartRun, StartTerraform, EndPlanning, ApplyPlan, Read, Refreshed,
          NextZoneID, ListZones, Vanished, Post, PostRejected, PostLost, LoseAnswer, ReadBack,
          RequestFails, FailRequest, Fault, ImportState, Import, UIEdit, EditedInUI, Rest, vars,
          tfVars, budgets
    <3>2. /\ stale = {}
          /\ tf \in [Resource -> Zone \cup {None}]
          /\ \A z \in Zone : z # None /\ z.id # None
      BY <1>2, <3>1, ZonesAssumption DEF ZoneInv, OnlyEditsOutdate, TypeOK, TerraformTypeOK, Zone
    <3>3. CASE OwnerOf(tf') = OwnerOf(tf) /\ zones' = zones
      BY <2>2, <3>1, <3>3 DEF Store!storeVars
    <3>4. ASSUME NEW r \in Resource, tf'[r] = None, zones' = zones,
                 tf[r] # None, tf[r].id \notin DOMAIN zones,
                 \A q \in Resource : q # r => tf'[q] = tf[q]
          PROVE  Store!StoreNext
      <4>1. OwnerOf(tf') = [OwnerOf(tf) EXCEPT ![r] = None] /\ OwnerOf(tf)[r] = tf[r].id
        BY <3>4
      <4>2. OwnerOf(tf)[r] # None
        BY <3>2, <3>4, <4>1
      <4>3. Store!Forget(r)
        BY <3>4, <4>1, <4>2 DEF Store!Forget
      <4>4. QED
        BY <4>3 DEF Store!StoreNext
    <3>5. ASSUME NEW r \in Resource, NEW z \in DOMAIN zones, tf[r] = None, zones' = zones,
                 tf'[r] # None, tf'[r].id = z,
                 \A q \in Resource : tf[q] # None => tf[q].id # z,
                 \A q \in Resource : q # r => tf'[q] = tf[q]
          PROVE  Store!StoreNext
      <4>1. z # None
        BY <1>2, ZoneMap, ZonesAssumption DEF ZoneInv, TypeOK, ZoneMaps
      <4>2. OwnerOf(tf') = [OwnerOf(tf) EXCEPT ![r] = z] /\ OwnerOf(tf)[r] = None
        BY <3>5
      <4>3. \A q \in Resource : OwnerOf(tf)[q] # z
        BY <3>5, <4>1
      <4>4. QED
        BY <3>5, <4>2, <4>3 DEF Store!StoreNext, Store!Adopt, Store!Owned
    <3>6. CASE \E r \in Resource : Read(r)
      <4>1. PICK r \in Resource : Read(r)
        BY <3>6
      <4>2. zones' = zones /\ \A q \in Resource : q # r => tf'[q] = tf[q]
        BY <3>2, <4>1 DEF Read, Record, zoneVars
      <4>3. CASE UNCHANGED tf
        BY <3>3, <4>2, <4>3
      <4>4. CASE tf[r] # None /\ tf[r].id \notin DOMAIN zones /\ Record(r, None)
        BY <3>2, <3>4, <4>2, <4>4 DEF Record
      <4>5. CASE tf[r] # None /\ tf[r].id \in DOMAIN zones /\ Record(r, Stored(tf[r].id))
        <5>1. tf'[r] # None /\ tf'[r].id = tf[r].id
          BY <1>2, <3>2, <4>5, StoredZone DEF Record, ZoneInv
        <5>2. OwnerOf(tf') = OwnerOf(tf)
          BY <4>2, <4>5, <5>1
        <5>3. QED
          BY <3>3, <4>2, <5>2
      <4>6. QED
        BY <4>1, <4>3, <4>4, <4>5 DEF Read
    <3>7. CASE \E r \in Resource : Post(r) \/ PostLost(r)
      <4>1. PICK r \in Resource : Post(r) \/ PostLost(r)
        BY <3>7
      <4>2. /\ pc[r] = "post" /\ ZonesPosted(Payload(r))
            /\ \A q \in Resource : q # r => tf'[q] = tf[q]
            /\ tf' = tf \/ (Deleting(r) /\ tf'[r] = None)
        BY <3>2, <4>1 DEF Post, PostLost, LoseAnswer, Record
      <4>3. \/ (Creating(r) \/ Renaming(r)) /\ zones' = Bind(zones, id[r], config[r])
            \/ Deleting(r) /\ id[r] = tf[r].id /\ zones' = Unbind(zones, id[r])
        BY <1>2, <3>2, <4>2, PostedZones
      <4>4. CASE (Creating(r) \/ Renaming(r)) /\ zones' = Bind(zones, id[r], config[r])
        <5>1. tf' = tf
          BY <4>2, <4>4 DEF Creating, Renaming, Kept, Deleting
        <5>2. CASE id[r] \notin DOMAIN zones
          <6>1. id[r] \in DOMAIN zones' /\ zones' = Bind(zones, id[r], zones'[id[r]])
            BY <4>4 DEF Bind
          <6>2. QED
            BY <5>1, <5>2, <6>1 DEF Store!StoreNext, Store!Add, Store!Stores, Store!Bind, Bind
        <5>3. CASE id[r] \in DOMAIN zones
          <6>1. Renaming(r) /\ id[r] = tf[r].id
            BY <1>2, <3>1, <4>2, <4>4, <5>3
            DEF ZoneInv, CreateIsNew, WritesItsOwn, Creating, Renaming, Kept
          <6>2. OwnerOf(tf)[r] = id[r]
            BY <6>1 DEF Renaming, Kept
          <6>3. zones' = [zones EXCEPT ![id[r]] = zones'[id[r]]] /\ id[r] \in DOMAIN zones'
            BY <1>2, <4>4, <5>3 DEF Bind, ZoneInv, TypeOK, ZoneMaps
          <6>4. QED
            BY <5>1, <5>3, <6>2, <6>3 DEF Store!StoreNext, Store!Change
        <5>4. QED
          BY <5>2, <5>3
      <4>5. CASE Deleting(r) /\ id[r] = tf[r].id /\ zones' = Unbind(zones, id[r])
        <5>1. OwnerOf(tf)[r] = id[r]
          BY <4>5 DEF Deleting
        <5>2. OwnerOf(tf') = OwnerOf(tf) \/ OwnerOf(tf') = [OwnerOf(tf) EXCEPT ![r] = None]
          BY <4>2
        <5>3. CASE id[r] \in DOMAIN zones
          <6>1. Store!Drop(r)
            BY <4>5, <5>1, <5>2, <5>3
            DEF Store!Drop, Store!Unbind, Store!Restrict, Unbind, Restrict
          <6>2. QED
            BY <6>1 DEF Store!StoreNext
        <5>4. CASE id[r] \notin DOMAIN zones
          <6>1. zones' = zones
            BY <1>2, <4>5, <5>4 DEF Unbind, Restrict, ZoneInv, TypeOK, ZoneMaps
          <6>2. QED
            BY <3>3, <3>4, <4>2, <4>5, <5>4, <6>1 DEF Deleting
        <5>5. QED
          BY <5>3, <5>4
      <4>6. QED
        BY <4>3, <4>4, <4>5
    <3>8. CASE \E r \in Resource : ReadBack(r)
      <4>1. PICK r \in Resource : ReadBack(r)
        BY <3>8
      <4>2. /\ pc[r] = "readback" /\ zones' = zones
            /\ \A q \in Resource : q # r => tf'[q] = tf[q]
            /\ tf'[r].id = id[r]
        BY <3>2, <4>1 DEF ReadBack, Record, zoneVars
      <4>3. tf'[r] # None
        <5>1. tf'[r] \in [id : Nat, name : Name]
          <6>1. id[r] \in Nat /\ config[r] \in Name
            BY <1>2, <4>2
            DEF ZoneInv, OperationIsKnown, Creating, Renaming, Kept, TypeOK, TerraformTypeOK
          <6>2. id[r] \in DOMAIN zones => zones[id[r]] \in Name
            BY <1>2, ZoneMap DEF ZoneInv, TypeOK, ZoneMaps
          <6>3. QED
            BY <3>2, <4>1, <6>1, <6>2 DEF ReadBack, Record
        <5>2. QED
          BY <5>1, ZonesAssumption
      <4>4. CASE Creating(r)
        <5>1. id[r] \in DOMAIN zones /\ \A q \in Resource : tf[q] # None => tf[q].id # id[r]
          BY <1>2, <3>1, <4>2, <4>4 DEF ZoneInv, CreatedIsThere, CreateIsUnowned
        <5>2. QED
          BY <3>5, <4>2, <4>3, <4>4, <5>1 DEF Creating
      <4>5. CASE ~Creating(r)
        <5>1. tf[r] # None /\ id[r] = tf[r].id
          BY <1>2, <4>2, <4>5 DEF ZoneInv, OperationIsKnown, WritesItsOwn, Renaming, Kept
        <5>2. OwnerOf(tf') = OwnerOf(tf)
          BY <4>2, <4>3, <5>1
        <5>3. QED
          BY <3>3, <4>2, <5>2
      <4>6. QED
        BY <4>4, <4>5
    <3>9. CASE \E r \in Resource : Vanished(r)
      BY <3>2, <3>4, <3>9 DEF Vanished, Record, Deleting, zoneVars
    <3>10. CASE \E r \in Resource : ImportState(r)
      <4>1. PICK r \in Resource, z \in DOMAIN zones :
               /\ \A q \in Resource : tf[q] # None => tf[q].id # z
               /\ Import(r, Stored(z)) /\ zones' = zones
        BY <3>10 DEF ImportState, zoneVars
      <4>2. tf'[r] = Stored(z) /\ \A q \in Resource : q # r => tf'[q] = tf[q]
        BY <3>2, <4>1 DEF Import, Record
      <4>3. tf'[r] # None /\ tf'[r].id = z
        BY <1>2, <4>2, StoredZone DEF ZoneInv
      <4>4. QED
        BY <3>5, <4>1, <4>2, <4>3 DEF Import
    <3>11. \/ tf' = tf /\ zones' = zones
           \/ \E r \in Resource : Read(r)
           \/ \E r \in Resource : Post(r) \/ PostLost(r)
           \/ \E r \in Resource : ReadBack(r)
           \/ \E r \in Resource : Vanished(r)
           \/ \E r \in Resource : ImportState(r)
      <4>1. ~UIEdit
        BY <2>2 DEF UIEdit, EditedInUI
      <4>2. QED
        BY <1>2, <4>1
        DEF Next, Handler, StartRun, StartTerraform, EndPlanning, ApplyPlan, NextZoneID, ListZones,
            PostRejected, RequestFails, FailRequest, Rest, vars, tfVars, zoneVars
    <3>12. QED
      BY <3>3, <3>6, <3>7, <3>8, <3>9, <3>10, <3>11
  <2>3. QED
    BY <2>1, <2>2
<1>3. QED
  BY <1>1, <1>2, ZoneInvariant, PTL DEF Spec, ImplementsKeyedStore, Store!StoreSpec
=============================================================================
