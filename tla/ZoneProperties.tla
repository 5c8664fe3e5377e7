---------------------------- MODULE ZoneProperties ----------------------------
(***************************************************************************)
(* What the handlers of security_zone must keep true.                      *)
(***************************************************************************)
EXTENDS SecurityZones

\* The UI has created a zone under the ID a create of r was given, which
\* can only be where a nextId request reserves nothing (client.go:328-336).
Overtaken(r, z) == Creating(r) /\ id[r] = z /\ 0 \in Reserved /\ "edit" \in happened

\* A POST replaces all zones, yet a step of the provider removes or renames
\* no zone but that of the resource whose handler posts, provided nobody
\* edited the zones since that handler listed them (CreateZone, UpdateZone
\* and DeleteZone list and post under one zoneMu) and nobody took the ID
\* the handler was given before that.
OtherZonesUntouched ==
    [][edits' = edits =>
         \A z \in DOMAIN zones :
            z \notin DOMAIN zones' \/ zones'[z] # zones[z] =>
               \E r \in Resource :
                  /\ pc[r] = "post"
                  /\ r \in stale \/ Overtaken(r, z) \/ (tf[r] # None /\ tf[r].id = z)]_vars

\* Only a delete takes policies away: a create or an update that posts a set
\* of zones the UI has changed meanwhile is rejected when it would drop a
\* zone that policies refer to (client.go:289-293).
OnlyDeletesDropRules ==
    [][edits' = edits /\ ~(rules \subseteq rules') =>
         \E r \in Resource : pc[r] = "post" /\ Deleting(r)]_vars

\* No two resources are bound to one zone, whatever requests fail, answers are
\* lost or zones are edited in the UI: a delete of either would take the
\* other's zone and its policies away.
NoSharedZone ==
    \A q, r \in Resource :
        tf[q] # None /\ tf[r] # None /\ tf[q].id = tf[r].id => q = r

\* The promise of the resource, as KeyedStore states it.
Store == INSTANCE KeyedStore WITH
    store         <- zones,
    disturbed     <- "edit" \in happened,
    owner         <- [r \in Resource |-> IF tf[r] = None THEN None ELSE tf[r].id],
    InitialStores <- {start.zones : start \in InitialZones}

\* Until somebody edits zones in the UI the handlers keep that promise, also
\* when answers of the Orchestrator are lost.
ImplementsKeyedStore == Store!StoreSpec
=============================================================================
