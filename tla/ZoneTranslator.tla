---------------------------- MODULE ZoneTranslator ----------------------------
(***************************************************************************)
(* Zone IDs across VRF segments.  A zone has one name and, per VRF, an ID  *)
(* of its own.  Terraform speaks of zones by their IDs in the default VRF; *)
(* the API wants the IDs of the segment a policy belongs to.               *)
(***************************************************************************)
EXTENDS Integers, FiniteSets

CONSTANTS
    Mappings,    \* the zone-to-VRF assignments the Orchestrator reports
    UnknownZone  \* the result of a translation that fails

DefaultVRF == 0

ASSUME MappingsAssumption ==
    /\ IsFiniteSet(Mappings)
    /\ \A m \in Mappings : m.zone \in Nat /\ m.vrf \in Nat
    /\ UnknownZone \notin Nat

\* The index by zone ID: of several assignments the last, in the highest VRF.
Entries(z) == {m \in Mappings : m.zone = z}
ByID(z) == CHOOSE m \in Entries(z) : \A n \in Entries(z) : n.vrf <= m.vrf

\* The index by name and VRF: of several assignments the highest zone ID.
EntriesNamed(n, v) == {m \in Mappings : m.name = n /\ m.vrf = v}
ByNameVRF(n, v) ==
    CHOOSE m \in EntriesNamed(n, v) : \A k \in EntriesNamed(n, v) : k.zone <= m.zone

\* The ID of zone z in VRF v, or UnknownZone.
ToVRF(z, v) ==
    IF Entries(z) = {} THEN UnknownZone
    ELSE IF EntriesNamed(ByID(z).name, v) = {} THEN UnknownZone
    ELSE ByNameVRF(ByID(z).name, v).zone

\* The ID of zone z in the default VRF; z itself when there is none.
ToDefaultVRF(z) ==
    IF Entries(z) = {} THEN z
    ELSE IF EntriesNamed(ByID(z).name, DefaultVRF) = {} THEN z
    ELSE ByNameVRF(ByID(z).name, DefaultVRF).zone

\* What a consistent Orchestrator reports: an ID has one name, and a name has
\* one ID in each VRF.
WellFormed ==
    \A m, n \in Mappings :
        /\ m.zone = n.zone => m.name = n.name
        /\ m.name = n.name /\ m.vrf = n.vrf => m.zone = n.zone

\* A zone of VRF v.
ZoneOf(z, v) == \E m \in Mappings : m.zone = z /\ m.vrf = v
=============================================================================
