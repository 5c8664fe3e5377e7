----------------------------- MODULE PolicyProofs -----------------------------
(***************************************************************************)
(* Theorems about ZoneTranslator, for any list of assignments of zones to  *)
(* VRFs, and about SecurityPolicies, for every value of its constants.     *)
(***************************************************************************)
EXTENDS PolicyProperties, FiniteSetTheorems, TLAPS

-----------------------------------------------------------------------------
(* The translation of zone IDs to the default VRF and back.                *)

\* A finite set has an element at which a function to the naturals is largest:
\* the index a loop over the sorted listing leaves behind always exists.
LEMMA FiniteMaximum ==
    ASSUME NEW S, IsFiniteSet(S), S # {}, NEW f \in [S -> Nat]
    PROVE  \E x \in S : \A y \in S : f[y] <= f[x]
<1> DEFINE HasMax(T) == \E x \in T : \A y \in T : f[y] <= f[x]
           Bad == {T \in SUBSET S : T # {} /\ ~HasMax(T)}
<1>1. SUFFICES ASSUME Bad # {} PROVE FALSE
  <2>1. S \notin Bad
    BY <1>1
  <2>2. QED
    BY <2>1
<1>2. Bad \subseteq FiniteSubsetsOf(S)
  BY FS_FiniteSubsetsOfFinite
<1>3. IsWellFoundedOn(StrictSubsetOrdering(S), FiniteSubsetsOf(S))
  BY FS_StrictSubsetOrderingWellFounded
<1> HIDE DEF Bad
<1>4. PICK T \in Bad : \A U \in Bad : <<U, T>> \notin StrictSubsetOrdering(S)
  BY <1>1, <1>2, <1>3, WFMin
<1> USE DEF Bad
<1>5. T \subseteq S /\ T # {} /\ ~HasMax(T)
  OBVIOUS
<1>6. PICK a \in T : TRUE
  BY <1>5
<1>7. T \ {a} \notin Bad
  BY <1>4, <1>5, <1>6 DEF StrictSubsetOrdering
<1>8. CASE T \ {a} = {}
  <2>1. \A y \in T : f[y] <= f[a]
    BY <1>5, <1>6, <1>8
  <2>2. QED
    BY <1>5, <1>6, <2>1
<1>9. CASE T \ {a} # {}
  <2>1. PICK b \in T \ {a} : \A y \in T \ {a} : f[y] <= f[b]
    BY <1>5, <1>7, <1>9
  <2>2. \A y \in T : f[y] \in Nat
    BY <1>5
  <2>3. (\A y \in T : f[y] <= f[a]) \/ (\A y \in T : f[y] <= f[b])
    BY <1>6, <2>1, <2>2
  <2>4. QED
    BY <1>5, <1>6, <2>1, <2>3
<1>10. QED
  BY <1>8, <1>9

\* The index by zone ID holds an assignment of that zone.
LEMMA ByIDIsEntry ==
    ASSUME NEW z, Entries(z) # {}
    PROVE  ByID(z) \in Entries(z)
<1> DEFINE f == [m \in Entries(z) |-> m.vrf]
<1>1. IsFiniteSet(Entries(z))
  BY MappingsAssumption, FS_Subset DEF Entries
<1>2. f \in [Entries(z) -> Nat]
  BY MappingsAssumption DEF Entries
<1>3. \E m \in Entries(z) : \A n \in Entries(z) : f[n] <= f[m]
  <2> HIDE DEF f
  <2> QED
    BY <1>1, <1>2, FiniteMaximum
<1>4. \E m \in Entries(z) : \A n \in Entries(z) : n.vrf <= m.vrf
  BY <1>3
<1>5. QED
  BY <1>4 DEF ByID

\* The index by name and VRF holds an assignment of that name in that VRF.
LEMMA ByNameVRFIsEntry ==
    ASSUME NEW n, NEW v, EntriesNamed(n, v) # {}
    PROVE  ByNameVRF(n, v) \in EntriesNamed(n, v)
<1> DEFINE f == [m \in EntriesNamed(n, v) |-> m.zone]
<1>1. IsFiniteSet(EntriesNamed(n, v))
  BY MappingsAssumption, FS_Subset DEF EntriesNamed
<1>2. f \in [EntriesNamed(n, v) -> Nat]
  BY MappingsAssumption DEF EntriesNamed
<1>3. \E m \in EntriesNamed(n, v) : \A k \in EntriesNamed(n, v) : f[k] <= f[m]
  <2> HIDE DEF f
  <2> QED
    BY <1>1, <1>2, FiniteMaximum
<1>4. \E m \in EntriesNamed(n, v) : \A k \in EntriesNamed(n, v) : k.zone <= m.zone
  BY <1>3
<1>5. QED
  BY <1>4 DEF ByNameVRF

\* In a consistent listing the ID of a zone, translated to VRF v, is the ID
\* under which v knows a zone of that name.
LEMMA ToVRFOfNamed ==
    ASSUME WellFormed, NEW m \in Mappings, NEW k \in Mappings, m.name = k.name
    PROVE  ToVRF(m.zone, k.vrf) = k.zone
<1>1. ByID(m.zone) \in Mappings /\ ByID(m.zone).name = m.name
  <2>1. ByID(m.zone) \in Entries(m.zone)
    BY ByIDIsEntry DEF Entries
  <2>2. QED
    BY <2>1 DEF Entries, WellFormed
<1>2. k \in EntriesNamed(m.name, k.vrf)
  BY DEF EntriesNamed
<1>3. ByNameVRF(m.name, k.vrf).zone = k.zone
  <2>1. ByNameVRF(m.name, k.vrf) \in EntriesNamed(m.name, k.vrf)
    BY <1>2, ByNameVRFIsEntry
  <2>2. QED
    BY <2>1 DEF EntriesNamed, WellFormed
<1>4. QED
  BY <1>1, <1>2, <1>3 DEF ToVRF, Entries

\* The translation to the default VRF: the ID of the zone of that name there,
\* or the ID itself.
LEMMA ToDefaultVRFKeepsName ==
    ASSUME WellFormed, NEW m \in Mappings
    PROVE  \/ ToDefaultVRF(m.zone) = m.zone /\ EntriesNamed(m.name, DefaultVRF) = {}
           \/ \E k \in Mappings : /\ k.name = m.name /\ k.vrf = DefaultVRF
                                  /\ ToDefaultVRF(m.zone) = k.zone
<1>1. ByID(m.zone) \in Mappings /\ ByID(m.zone).name = m.name
  <2>1. ByID(m.zone) \in Entries(m.zone)
    BY ByIDIsEntry DEF Entries
  <2>2. QED
    BY <2>1 DEF Entries, WellFormed
<1>2. m \in Entries(m.zone)
  BY DEF Entries
<1>3. CASE EntriesNamed(m.name, DefaultVRF) = {}
  BY <1>1, <1>2, <1>3 DEF ToDefaultVRF
<1>4. CASE EntriesNamed(m.name, DefaultVRF) # {}
  <2>1. ByNameVRF(m.name, DefaultVRF) \in EntriesNamed(m.name, DefaultVRF)
    BY <1>4, ByNameVRFIsEntry
  <2>2. ToDefaultVRF(m.zone) = ByNameVRF(m.name, DefaultVRF).zone
    BY <1>1, <1>2, <1>4 DEF ToDefaultVRF
  <2>3. QED
    BY <2>1, <2>2 DEF EntriesNamed
<1>5. QED
  BY <1>3, <1>4

\* What GetSecurityPolicies does to a zone ID of VRF v, setSecurityPolicies
\* undoes: a rule nobody meant to change is posted back under the ID it had.
\* The same holds of an ID that was left untranslated.
THEOREM RoundTrip ==
    ASSUME WellFormed, NEW z, NEW v, ZoneOf(z, v)
    PROVE  /\ v = DefaultVRF => ToDefaultVRF(z) = z
           /\ ToVRF(ToDefaultVRF(z), v) = z
           /\ ToVRF(z, v) = z
<1>1. PICK m \in Mappings : m.zone = z /\ m.vrf = v
  BY DEF ZoneOf
<1>2. ToVRF(z, v) = z
  BY <1>1, ToVRFOfNamed
<1>3. CASE ToDefaultVRF(z) = z /\ EntriesNamed(m.name, DefaultVRF) = {}
  <2>1. v # DefaultVRF
    BY <1>1, <1>3 DEF EntriesNamed
  <2>2. QED
    BY <1>2, <1>3, <2>1
<1>4. CASE \E k \in Mappings : /\ k.name = m.name /\ k.vrf = DefaultVRF
                               /\ ToDefaultVRF(z) = k.zone
  <2>1. PICK k \in Mappings : /\ k.name = m.name /\ k.vrf = DefaultVRF
                              /\ ToDefaultVRF(z) = k.zone
    BY <1>4
  <2>2. ToVRF(k.zone, m.vrf) = m.zone
    BY <2>1, ToVRFOfNamed
  <2>3. v = DefaultVRF => k.zone = m.zone
    BY <1>1, <2>1 DEF WellFormed
  <2>4. QED
    BY <1>1, <1>2, <2>1, <2>2, <2>3
<1>5. QED
  BY <1>1, <1>3, <1>4, ToDefaultVRFKeepsName

-----------------------------------------------------------------------------
(* What an invariant of SecurityPolicies says.                             *)

\* A handler between its fetch and its end holds the lock.
HoldersHoldLock == \A r \in Resource : pc[r] \in {"post", "readback"} => lock = r

\* A handler that applies something has a rule to apply it to.
SubjectIsKnown ==
    \A r \in Resource :
        /\ pc[r] \in {"fetch", "post"} => Creating(r) \/ Updating(r) \/ Deleting(r)
        /\ pc[r] = "readback" => config[r] # None

\* Terraform speaks of zones of the default VRF.
InDefaultZones(w) ==
    w # None => ZoneOf(w.slot.src, DefaultVRF) /\ ZoneOf(w.slot.dst, DefaultVRF)
ZonesAreDefault ==
    \A r \in Resource : InDefaultZones(config[r]) /\ InDefaultZones(tf[r])

\* A pair holds rules between zones of its VRFs only.
ServerIsValid ==
    \A p \in Pair, s \in Slot : server[p][s] # None => Belongs(s, p)

\* What a handler is about to post comes from slots of the pair, translated or not.
SnapIsOfPair ==
    \A r \in Resource : pc[r] = "post" =>
        \A q \in snap[r] : \E s \in Slot :
            Belongs(s, Subject(r).pair) /\ q.slot \in {s, InDefault(s)}

\* It is all of the set and nothing else, unless the UI has edited the set.
SnapIsCurrent ==
    \A r \in Resource : pc[r] = "post" /\ ~stale =>
        \E a \in BOOLEAN : snap[r] = Listed(Subject(r).pair, a)

PolicyInv ==
    /\ TypeOK /\ HoldersHoldLock /\ SubjectIsKnown /\ ZonesAreDefault
    /\ ServerIsValid /\ SnapIsOfPair /\ SnapIsCurrent

-----------------------------------------------------------------------------
(* Slots and their translation. *)

\* A translation to the default VRF stays within the known zones.
LEMMA ToDefaultVRFInZoneId ==
    ASSUME NEW z \in ZoneId
    PROVE  ToDefaultVRF(z) \in ZoneId
<1>1. CASE Entries(z) = {} \/ EntriesNamed(ByID(z).name, DefaultVRF) = {}
  BY <1>1 DEF ToDefaultVRF
<1>2. CASE Entries(z) # {} /\ EntriesNamed(ByID(z).name, DefaultVRF) # {}
  <2>1. ByNameVRF(ByID(z).name, DefaultVRF) \in Mappings
    BY <1>2, ByNameVRFIsEntry DEF EntriesNamed
  <2>2. QED
    BY <1>2, <2>1, PoliciesAssumption DEF ToDefaultVRF
<1>3. QED
  BY <1>1, <1>2

\* A translation to a VRF that succeeds ends in a zone of that VRF.
LEMMA ToVRFInVRF ==
    ASSUME NEW z, NEW v, ToVRF(z, v) \in ZoneId
    PROVE  ZoneOf(ToVRF(z, v), v)
<1>1. ToVRF(z, v) # UnknownZone
  BY PoliciesAssumption, MappingsAssumption
<1>2. EntriesNamed(ByID(z).name, v) # {}
  BY <1>1 DEF ToVRF
<1>3. ByNameVRF(ByID(z).name, v) \in EntriesNamed(ByID(z).name, v)
  BY <1>2, ByNameVRFIsEntry
<1>4. QED
  BY <1>1, <1>3 DEF ToVRF, ZoneOf, EntriesNamed

\* A slot stays one in IDs of the default VRF.
LEMMA InDefaultIsSlot ==
    ASSUME NEW s \in Slot
    PROVE  InDefault(s) \in Slot
<1>1. s.src \in ZoneId /\ s.dst \in ZoneId /\ s.prio \in Priority
  BY DEF Slot
<1>2. ToDefaultVRF(s.src) \in ZoneId /\ ToDefaultVRF(s.dst) \in ZoneId
  BY <1>1, ToDefaultVRFInZoneId
<1>3. QED
  BY <1>1, <1>2 DEF Slot, InDefault

\* A slot of a pair comes back from the default VRF as it was, and so does one
\* that was never translated.
LEMMA SlotRoundTrip ==
    ASSUME NEW s \in Slot, NEW p \in Pair, Belongs(s, p), NEW t \in {s, InDefault(s)}
    PROVE  InPair(t, p) = s
<1>1. ZoneOf(s.src, p.src) /\ ZoneOf(s.dst, p.dst) /\ WellFormed
  BY PoliciesAssumption DEF Belongs
<1>2. s = [src |-> s.src, dst |-> s.dst, prio |-> s.prio]
  BY DEF Slot
<1>3. CASE t = s
  <2>1. /\ (IF p.src = DefaultVRF THEN s.src ELSE ToVRF(s.src, p.src)) = s.src
        /\ (IF p.dst = DefaultVRF THEN s.dst ELSE ToVRF(s.dst, p.dst)) = s.dst
    BY <1>1, RoundTrip
  <2>2. QED
    BY <1>2, <1>3, <2>1 DEF InPair
<1>4. CASE t = InDefault(s)
  <2> DEFINE a == ToDefaultVRF(s.src)
             b == ToDefaultVRF(s.dst)
  <2>1. /\ (IF p.src = DefaultVRF THEN a ELSE ToVRF(a, p.src)) = s.src
        /\ (IF p.dst = DefaultVRF THEN b ELSE ToVRF(b, p.dst)) = s.dst
    BY <1>1, RoundTrip
  <2>2. t = [src |-> a, dst |-> b, prio |-> s.prio]
    BY <1>4 DEF InDefault
  <2> HIDE DEF a, b
  <2>3. QED
    BY <1>2, <2>1, <2>2 DEF InPair
<1>5. QED
  BY <1>3, <1>4

\* A slot in IDs of the default VRF, translated to a pair, is one of the pair.
LEMMA InPairBelongs ==
    ASSUME NEW s \in Slot, NEW p \in Pair, InPair(s, p) \in Slot,
           ZoneOf(s.src, DefaultVRF), ZoneOf(s.dst, DefaultVRF)
    PROVE  Belongs(InPair(s, p), p)
<1>2. /\ InPair(s, p).src = IF p.src = DefaultVRF THEN s.src ELSE ToVRF(s.src, p.src)
      /\ InPair(s, p).dst = IF p.dst = DefaultVRF THEN s.dst ELSE ToVRF(s.dst, p.dst)
  BY DEF InPair
<1>3. InPair(s, p).src \in ZoneId /\ InPair(s, p).dst \in ZoneId
  BY DEF Slot
<1>4. ZoneOf(InPair(s, p).src, p.src)
  BY <1>2, <1>3, ToVRFInVRF
<1>5. ZoneOf(InPair(s, p).dst, p.dst)
  BY <1>2, <1>3, ToVRFInVRF
<1>6. QED
  BY <1>4, <1>5 DEF Belongs

-----------------------------------------------------------------------------
(* What a handler posts. *)

\* The rule a create or update adds to the set.
New(r) == [slot |-> config[r].slot, body |-> config[r].body]

\* A listing holds policies.
LEMMA ListedIsPolicies ==
    ASSUME TypeOK, NEW p \in Pair, NEW a \in BOOLEAN
    PROVE  Listed(p, a) \subseteq Policy
<1> SUFFICES ASSUME NEW s \in Slot, server[p][s] # None
             PROVE  [slot |-> IF a THEN InDefault(s) ELSE s, body |-> server[p][s]] \in Policy
  BY DEF Listed
<1>1. server[p][s] \in Body
  BY DEF TypeOK, Rules
<1>2. (IF a THEN InDefault(s) ELSE s) \in Slot
  BY InDefaultIsSlot
<1>3. QED
  BY <1>1, <1>2 DEF Policy

\* What a handler posts it has fetched, or it is the rule it is about.
LEMMA PostingIsFetchedOrNew ==
    ASSUME NEW r \in Resource, NEW q \in Posting(r)
    PROVE  \/ q \in snap[r]
           \/ ~Deleting(r) /\ q = New(r)
BY DEF Posting, New

\* The operation of a handler has a policy it is about.
LEMMA SubjectIsWanted ==
    ASSUME TypeOK, NEW r \in Resource, Creating(r) \/ Updating(r) \/ Deleting(r)
    PROVE  /\ Subject(r) \in Wanted
           /\ Subject(r) = IF Deleting(r) THEN tf[r] ELSE config[r]
           /\ ~Deleting(r) => New(r) \in Policy
<1>1. Deleting(r) => tf[r] \in Wanted
  BY DEF TypeOK, Deleting
<1>2. ~Deleting(r) => config[r] \in Wanted
  BY DEF TypeOK, Creating, Updating
<1>3. QED
  BY <1>1, <1>2 DEF Subject, New, Wanted, Policy

\* The posted set is a set of rules of the pair, whoever fetched it and however
\* long ago.
LEMMA PayloadIsRules ==
    ASSUME TypeOK, SubjectIsKnown, NEW r \in Resource, pc[r] = "post"
    PROVE  Payload(Posting(r), Subject(r).pair) \in Rules
<1> DEFINE p == Subject(r).pair
<1>1. Creating(r) \/ Updating(r) \/ Deleting(r)
  BY DEF SubjectIsKnown
<1>2. Posting(r) \subseteq Policy
  BY <1>1, PostingIsFetchedOrNew, SubjectIsWanted DEF TypeOK
<1> HIDE DEF p
<1>3. ASSUME NEW s \in Slot, \E q \in Posting(r) : InPair(q.slot, p) = s
      PROVE  (CHOOSE q \in Posting(r) : InPair(q.slot, p) = s).body \in Body
  BY <1>2, <1>3 DEF Policy
<1>4. Payload(Posting(r), p) \in Rules
  BY <1>3 DEF Payload, Rules
<1>5. QED
  BY <1>4 DEF p

\* A rule that is posted is one between zones of the VRFs of its pair.
LEMMA PayloadBelongs ==
    ASSUME PolicyInv, NEW r \in Resource, pc[r] = "post", NEW s \in Slot,
           Payload(Posting(r), Subject(r).pair)[s] # None
    PROVE  Belongs(s, Subject(r).pair)
<1> DEFINE p == Subject(r).pair
<1>1. Creating(r) \/ Updating(r) \/ Deleting(r)
  BY DEF PolicyInv, SubjectIsKnown
<1>2. p \in Pair
  BY <1>1, SubjectIsWanted DEF PolicyInv, Wanted
<1>3. PICK q \in Posting(r) : InPair(q.slot, p) = s
  BY DEF Payload
<1>4. CASE q \in snap[r]
  <2>1. PICK t \in Slot : Belongs(t, p) /\ q.slot \in {t, InDefault(t)}
    BY <1>4 DEF PolicyInv, SnapIsOfPair
  <2>2. InPair(q.slot, p) = t
    BY <1>2, <2>1, SlotRoundTrip
  <2>3. QED
    BY <1>3, <2>1, <2>2
<1>5. CASE ~Deleting(r) /\ q = New(r)
  <2>1. config[r] \in Wanted
    BY <1>1, <1>5, SubjectIsWanted DEF PolicyInv
  <2>2. q.slot = config[r].slot /\ q.slot \in Slot
    BY <1>5, <2>1 DEF New, Wanted
  <2>3. ZoneOf(q.slot.src, DefaultVRF) /\ ZoneOf(q.slot.dst, DefaultVRF)
    <3>1. config[r] # None
      BY <2>1, PoliciesAssumption
    <3>2. QED
      BY <2>2, <3>1 DEF PolicyInv, ZonesAreDefault, InDefaultZones
  <2>4. QED
    BY <1>2, <1>3, <2>2, <2>3, InPairBelongs
<1>6. QED
  BY <1>3, <1>4, <1>5, PostingIsFetchedOrNew

\* Unless the UI came between, every rule but the one the handler is about goes
\* back as it is in the Orchestrator.
LEMMA OthersGoBack ==
    ASSUME PolicyInv, NEW r \in Resource, pc[r] = "post", ~stale,
           NEW s \in Slot, s # InPair(Subject(r).slot, Subject(r).pair)
    PROVE  Payload(Posting(r), Subject(r).pair)[s] = server[Subject(r).pair][s]
<1> DEFINE p == Subject(r).pair
           rule(t, a) == [slot |-> IF a THEN InDefault(t) ELSE t, body |-> server[p][t]]
<1>1. Creating(r) \/ Updating(r) \/ Deleting(r)
  BY DEF PolicyInv, SubjectIsKnown
<1>2. p \in Pair
  BY <1>1, SubjectIsWanted DEF PolicyInv, Wanted
<1>3. PICK a \in BOOLEAN : snap[r] = Listed(p, a)
  BY DEF PolicyInv, SnapIsCurrent
<1>4. ASSUME NEW t \in Slot, server[p][t] # None
      PROVE  InPair(rule(t, a).slot, p) = t
  <2>1. Belongs(t, p)
    BY <1>2, <1>4 DEF PolicyInv, ServerIsValid
  <2>2. (IF a THEN InDefault(t) ELSE t) \in {t, InDefault(t)}
    OBVIOUS
  <2>3. QED
    BY <1>2, <2>1, <2>2, SlotRoundTrip
<1>5. ASSUME NEW q \in Posting(r), InPair(q.slot, p) = s
      PROVE  server[p][s] # None /\ q.body = server[p][s]
  <2>1. q \in snap[r]
    <3>1. ~Deleting(r) => InPair(New(r).slot, p) # s
      BY DEF New, Subject
    <3>2. QED
      BY <1>5, <3>1, PostingIsFetchedOrNew
  <2>2. PICK t \in Slot : server[p][t] # None /\ q = rule(t, a)
    BY <1>3, <2>1 DEF Listed
  <2>3. t = s
    BY <1>4, <1>5, <2>2
  <2>4. QED
    BY <2>2, <2>3
<1>6. CASE server[p][s] # None
  <2>1. rule(s, a) \in snap[r]
    BY <1>3, <1>6 DEF Listed
  <2>2. InPair(rule(s, a).slot, p) = s
    BY <1>4, <1>6
  <2>3. rule(s, a) \in Posting(r)
    <3> HIDE DEF rule, p
    <3>1. CASE Deleting(r)
      <4>1. rule(s, a).slot # tf[r].slot
        BY <2>2, <3>1 DEF Subject, p
      <4>2. QED
        BY <2>1, <3>1, <4>1 DEF Posting
    <3>2. CASE ~Deleting(r)
      <4>1. InPair(rule(s, a).slot, config[r].pair) # InPair(config[r].slot, config[r].pair)
        BY <2>2, <3>2 DEF Subject, p
      <4>2. QED
        BY <2>1, <3>2, <4>1 DEF Posting
    <3>3. QED
      BY <3>1, <3>2
  <2> HIDE DEF rule, p
  <2>4. (CHOOSE q \in Posting(r) : InPair(q.slot, p) = s).body = server[p][s]
    BY <1>5, <2>2, <2>3
  <2>5. Payload(Posting(r), p)[s] = server[p][s]
    BY <2>2, <2>3, <2>4 DEF Payload
  <2>6. QED
    BY <2>5 DEF p
<1>7. CASE server[p][s] = None
  <2>1. ~ \E q \in Posting(r) : InPair(q.slot, p) = s
    BY <1>5, <1>7
  <2>2. QED
    BY <1>7, <2>1 DEF Payload
<1>8. QED
  BY <1>6, <1>7

-----------------------------------------------------------------------------
(* The invariant. *)

\* The invariant holds of every state a provider may start from.
LEMMA PolicyInit == Init => PolicyInv
<1> SUFFICES ASSUME Init PROVE PolicyInv
  OBVIOUS
<1>1. TypeOK
  BY PoliciesAssumption DEF Init, TypeOK, Ended
<1>2. ServerIsValid
  BY PoliciesAssumption DEF Init, ServerIsValid
<1>3. /\ HoldersHoldLock /\ SubjectIsKnown /\ ZonesAreDefault
      /\ SnapIsOfPair /\ SnapIsCurrent
  BY DEF Init, HoldersHoldLock, SubjectIsKnown, ZonesAreDefault, InDefaultZones,
         SnapIsOfPair, SnapIsCurrent
<1>4. QED
  BY <1>1, <1>2, <1>3 DEF PolicyInv

\* A post writes a set of rules of the pair, and no other pair.
LEMMA PostAppliedType ==
    ASSUME TypeOK, SubjectIsKnown, NEW r \in Resource, pc[r] = "post", PostApplied(r)
    PROVE  server' \in [Pair -> Rules]
<1>1. Payload(Posting(r), Subject(r).pair) \in Rules
  BY PayloadIsRules
<1>2. QED
  BY <1>1 DEF PostApplied, TypeOK

\* What a lookup finds goes into the state with its body only.
LEMMA FoundIsPolicy ==
    ASSUME TypeOK, NEW p \in Pair, NEW s, NEW a \in BOOLEAN, NEW q \in Find(Listed(p, a), s)
    PROVE  q.body \in Body
BY ListedIsPolicies DEF Find, Policy

\* A mapping request keeps the count of failures, and the ghost, typed.
LEMMA MapRequestType ==
    ASSUME TypeOK, NEW a \in BOOLEAN, MapRequest(a)
    PROVE  mapFaults' \in Nat /\ happened' \subseteq {"untranslated", "lost", "edit"}
<1>1. CASE a
  BY <1>1 DEF MapRequest, TypeOK
<1>2. CASE ~a
  <2>1. /\ mapFaults > 0 /\ mapFaults' = mapFaults - 1
        /\ happened' = happened \cup {"untranslated"}
    BY <1>2 DEF MapRequest
  <2>2. QED
    BY <2>1 DEF TypeOK
<1>3. QED
  BY <1>1, <1>2

\* No step takes a variable out of its type.
LEMMA TypeStep == PolicyInv /\ [Next]_vars => TypeOK'
<1> SUFFICES ASSUME PolicyInv, [Next]_vars PROVE TypeOK'
  OBVIOUS
<1> USE DEF PolicyInv
<1>1. CASE StartRun
  BY <1>1, PoliciesAssumption DEF StartRun, TypeOK, Planning
<1>2. CASE EndPlanning
  BY <1>2 DEF EndPlanning, TypeOK, Ended, Applying, budgets
<1>3. ASSUME NEW r \in Resource, Handler(r) PROVE TypeOK'
  <2>1. CASE Read(r)
    <3>1. tf' \in [Resource -> Wanted \cup {None}]
      <4>1. CASE tf[r] = None
        BY <2>1, <4>1 DEF Read, TypeOK
      <4>2. CASE tf[r] # None
        <5>1. PICK a \in BOOLEAN :
                LET found == Find(Listed(tf[r].pair, a), tf[r].slot)
                IN  IF found = {} THEN tf' = [tf EXCEPT ![r] = None]
                    ELSE \E q \in found : tf' = [tf EXCEPT ![r].body = q.body]
          BY <2>1, <4>2 DEF Read
        <5>2. tf[r] \in Wanted /\ tf[r].pair \in Pair
          BY <4>2 DEF TypeOK, Wanted
        <5>3. CASE \E q \in Find(Listed(tf[r].pair, a), tf[r].slot) :
                     tf' = [tf EXCEPT ![r].body = q.body]
          <6>1. PICK b \in Body : tf' = [tf EXCEPT ![r].body = b]
            BY <5>2, <5>3, FoundIsPolicy
          <6>2. [tf[r] EXCEPT !.body = b] \in Wanted
            BY <5>2 DEF Wanted
          <6>3. QED
            BY <6>1, <6>2 DEF TypeOK
        <5>4. QED
          BY <5>1, <5>3 DEF TypeOK
      <4>3. QED
        BY <4>1, <4>2
    <3>2. mapFaults' \in Nat /\ happened' \subseteq {"untranslated", "lost", "edit"}
      BY <2>1 DEF Read, MapRequest, TypeOK
    <3>3. QED
      BY <2>1, <3>1, <3>2 DEF Read, TypeOK, Planning
  <2>2. CASE Duplicate(r)
    BY <2>2 DEF Duplicate, TypeOK, Ended, budgets
  <2>3. CASE Fetch(r)
    <3>1. PICK a \in BOOLEAN :
            /\ MapRequest(a)
            /\ LET list     == Listed(Subject(r).pair, a)
                   conflict == Creating(r) /\ Find(list, config[r].slot) # {}
               IN  /\ snap' = [snap EXCEPT ![r] = IF conflict THEN {} ELSE list]
                   /\ lock' = IF conflict THEN Free ELSE r
                   /\ pc' = [pc EXCEPT ![r] = IF conflict THEN "failed" ELSE "post"]
      BY <2>3 DEF Fetch
    <3>2. Subject(r).pair \in Pair
      BY <2>3, SubjectIsWanted DEF Fetch, SubjectIsKnown, Wanted
    <3>3. Listed(Subject(r).pair, a) \in SUBSET Policy
      BY <3>2, ListedIsPolicies
    <3>4. snap' \in [Resource -> SUBSET Policy]
      BY <3>1, <3>3 DEF TypeOK
    <3>5. /\ lock' \in Resource \cup {Free} /\ mapFaults' \in Nat
          /\ happened' \subseteq {"untranslated", "lost", "edit"}
      <4>1. mapFaults' \in Nat /\ happened' \subseteq {"untranslated", "lost", "edit"}
        BY <3>1, MapRequestType
      <4>2. QED
        BY <3>1, <4>1 DEF TypeOK
    <3>6. pc' \in [Resource -> Ended \cup Planning \cup Applying]
      BY <3>1 DEF TypeOK, Ended, Applying
    <3>7. QED
      BY <2>3, <3>4, <3>5, <3>6 DEF Fetch, TypeOK
  <2>4. CASE Post(r)
    <3>1. server' \in [Pair -> Rules]
      BY <2>4, PostAppliedType DEF Post
    <3>2. Creating(r) => Key(config[r]) \in Pair \X Slot
      BY DEF Creating, TypeOK, Key, Wanted
    <3>3. QED
      BY <2>4, <3>1, <3>2 DEF Post, TypeOK, Ended, Applying, budgets
  <2>5. CASE Untranslated(r)
    <3>1. mapFaults' \in Nat /\ happened' \subseteq {"untranslated", "lost", "edit"}
      BY <2>5, MapRequestType DEF Untranslated
    <3>2. QED
      BY <2>5, <3>1 DEF Untranslated, TypeOK, Ended
  <2>6. CASE ReadBack(r)
    <3>1. config[r] \in Wanted
      BY <2>6 DEF ReadBack, SubjectIsKnown, TypeOK
    <3>2. config[r].pair \in Pair /\ config[r].body \in Body
      BY <3>1 DEF Wanted
    <3>3. PICK b \in Body :
            /\ tf' = [tf EXCEPT ![r] = [config[r] EXCEPT !.body = b]]
            /\ pc' = [pc EXCEPT ![r] = IF b = config[r].body THEN "ok" ELSE "failed"]
      <4> DEFINE found(a) == Find(Listed(config[r].pair, a), config[r].slot)
                 kept(b)  ==
                    /\ tf' = [tf EXCEPT ![r] = [config[r] EXCEPT !.body = b]]
                    /\ pc' = [pc EXCEPT ![r] = IF b = config[r].body THEN "ok" ELSE "failed"]
      <4>1. PICK a \in BOOLEAN :
               \E b \in IF found(a) = {} THEN {config[r].body} ELSE {q.body : q \in found(a)} :
                  kept(b)
        BY <2>6 DEF ReadBack
      <4>2. {q.body : q \in found(a)} \subseteq Body
        BY <3>2, FoundIsPolicy
      <4> HIDE DEF found, kept
      <4>3. \E b \in Body : kept(b)
        BY <3>2, <4>1, <4>2
      <4>4. QED
        BY <4>3 DEF kept
    <3>4. [config[r] EXCEPT !.body = b] \in Wanted
      BY <3>1 DEF Wanted
    <3>5. tf' \in [Resource -> Wanted \cup {None}]
      BY <3>3, <3>4 DEF TypeOK
    <3>6. pc' \in [Resource -> Ended \cup Planning \cup Applying]
      BY <3>3 DEF TypeOK, Ended
    <3>7. mapFaults' \in Nat /\ happened' \subseteq {"untranslated", "lost", "edit"}
      BY <2>6 DEF ReadBack, MapRequest, TypeOK
    <3>8. QED
      BY <2>6, <3>5, <3>6, <3>7 DEF ReadBack, TypeOK
  <2>7. QED
    BY <1>3, <2>1, <2>2, <2>3, <2>4, <2>5, <2>6 DEF Handler
<1>4. ASSUME NEW r \in Resource, PostLost(r) PROVE TypeOK'
  <2>1. server' \in [Pair -> Rules]
    BY <1>4, PostAppliedType DEF PostLost
  <2>2. QED
    BY <1>4, <2>1 DEF PostLost, TypeOK, Ended
<1>5. ASSUME NEW r \in Resource, RequestFails(r) PROVE TypeOK'
  BY <1>5 DEF RequestFails, TypeOK, Ended, Planning
<1>6. ASSUME NEW r \in Resource, NEW p \in Pair, NEW s \in Slot, ImportState(r, p, s)
      PROVE TypeOK'
  <2>1. PICK b \in Body : tf' = [tf EXCEPT ![r] = [pair |-> p, slot |-> s, body |-> b]]
    BY <1>6, FoundIsPolicy DEF ImportState
  <2>2. [pair |-> p, slot |-> s, body |-> b] \in Wanted
    BY DEF Wanted
  <2>3. /\ tf' \in [Resource -> Wanted \cup {None}] /\ mapFaults' \in Nat
        /\ happened' \subseteq {"untranslated", "lost", "edit"}
    BY <1>6, <2>1, <2>2 DEF ImportState, MapRequest, TypeOK
  <2>4. QED
    BY <1>6, <2>3 DEF ImportState, TypeOK
<1>7. CASE UIEdit
  <2>1. PICK p \in Pair, s \in Slot, b \in Body \cup {None} :
          server' = [server EXCEPT ![p][s] = b]
    BY <1>7 DEF UIEdit
  <2>2. server' \in [Pair -> Rules]
    BY <2>1 DEF TypeOK, Rules
  <2>3. QED
    BY <1>7, <2>2 DEF UIEdit, TypeOK
<1>8. CASE Rest \/ UNCHANGED vars
  BY <1>8 DEF Rest, vars, budgets, TypeOK
<1>9. QED
  BY <1>1, <1>2, <1>3, <1>4, <1>5, <1>6, <1>7, <1>8 DEF Next

\* A handler posts and reads back under a lock of its own, and about a policy.
LEMMA LockStep == PolicyInv /\ [Next]_vars => HoldersHoldLock' /\ SubjectIsKnown'
<1> SUFFICES ASSUME PolicyInv, [Next]_vars PROVE HoldersHoldLock' /\ SubjectIsKnown'
  OBVIOUS
<1> USE DEF PolicyInv, HoldersHoldLock
<1>0. Free \notin Resource
  BY PoliciesAssumption
<1>1. CASE StartRun
  BY <1>1 DEF StartRun, SubjectIsKnown
<1>2. CASE EndPlanning
  BY <1>2 DEF EndPlanning, SubjectIsKnown, Creating, Updating, Deleting
<1>3. ASSUME NEW r \in Resource, Handler(r) PROVE HoldersHoldLock' /\ SubjectIsKnown'
  <2>1. CASE Read(r)
    <3>1. /\ pc' = [pc EXCEPT ![r] = "ready"] /\ UNCHANGED <<lock, config>>
          /\ \A q \in Resource : q # r => tf'[q] = tf[q]
      BY <2>1 DEF Read, TypeOK
    <3>2. QED
      BY <3>1 DEF SubjectIsKnown, Creating, Updating, Deleting, TypeOK
  <2>2. CASE Duplicate(r)
    BY <2>2 DEF Duplicate, SubjectIsKnown, Creating, Updating, Deleting, TypeOK
  <2>3. CASE Fetch(r)
    <3>1. \/ pc' = [pc EXCEPT ![r] = "failed"] /\ lock' = Free
          \/ pc' = [pc EXCEPT ![r] = "post"] /\ lock' = r
      BY <2>3 DEF Fetch
    <3>2. pc[r] = "fetch" /\ lock = Free /\ UNCHANGED <<config, tf>>
      BY <2>3 DEF Fetch
    <3>3. QED
      BY <1>0, <3>1, <3>2 DEF SubjectIsKnown, Creating, Updating, Deleting, TypeOK
  <2>4. CASE Post(r)
    <3>1. pc[r] = "post" /\ lock = r
      BY <2>4 DEF Post
    <3>2. CASE Deleting(r)
      <4>1. /\ lock' = Free /\ config' = config /\ tf' = [tf EXCEPT ![r] = None]
            /\ pc' = [pc EXCEPT ![r] = IF config[r] = None THEN "ok" ELSE "fetch"]
        BY <2>4, <3>2 DEF Post
      <4>2. QED
        BY <1>0, <3>1, <4>1 DEF SubjectIsKnown, Creating, Updating, Deleting, TypeOK
    <3>3. CASE ~Deleting(r)
      <4>1. pc' = [pc EXCEPT ![r] = "readback"] /\ UNCHANGED <<lock, tf, config>>
        BY <2>4, <3>3 DEF Post
      <4>2. config[r] # None
        BY <3>1, <3>3 DEF SubjectIsKnown, Creating, Updating
      <4>3. QED
        BY <3>1, <4>1, <4>2 DEF SubjectIsKnown, Creating, Updating, Deleting, TypeOK
    <3>4. QED
      BY <3>2, <3>3
  <2>5. CASE Untranslated(r)
    <3>1. pc[r] = "post" /\ lock' = Free /\ pc' = [pc EXCEPT ![r] = "failed"]
          /\ UNCHANGED <<config, tf>>
      BY <2>5 DEF Untranslated
    <3>2. QED
      BY <1>0, <3>1 DEF SubjectIsKnown, Creating, Updating, Deleting, TypeOK
  <2>6. CASE ReadBack(r)
    <3>1. /\ pc[r] = "readback" /\ lock' = Free /\ UNCHANGED config
          /\ \A q \in Resource : q # r => tf'[q] = tf[q] /\ pc'[q] = pc[q]
          /\ pc'[r] \in {"ok", "failed"}
      BY <2>6 DEF ReadBack, TypeOK
    <3>2. QED
      BY <1>0, <3>1 DEF SubjectIsKnown, Creating, Updating, Deleting, TypeOK
  <2>7. QED
    BY <1>3, <2>1, <2>2, <2>3, <2>4, <2>5, <2>6 DEF Handler
<1>4. ASSUME NEW r \in Resource, PostLost(r) PROVE HoldersHoldLock' /\ SubjectIsKnown'
  <2>1. pc[r] = "post" /\ lock' = Free /\ pc' = [pc EXCEPT ![r] = "failed"]
        /\ UNCHANGED <<config, tf>>
    BY <1>4 DEF PostLost
  <2>2. QED
    BY <1>0, <2>1 DEF SubjectIsKnown, Creating, Updating, Deleting, TypeOK
<1>5. ASSUME NEW r \in Resource, RequestFails(r) PROVE HoldersHoldLock' /\ SubjectIsKnown'
  <2>1. /\ pc' = [pc EXCEPT ![r] = IF @ = "refresh" THEN "refused" ELSE "failed"]
        /\ lock' = IF lock = r THEN Free ELSE lock
        /\ UNCHANGED <<config, tf>>
    BY <1>5 DEF RequestFails
  <2>2. QED
    BY <1>0, <2>1 DEF SubjectIsKnown, Creating, Updating, Deleting, TypeOK
<1>6. ASSUME NEW r \in Resource, NEW p \in Pair, NEW s \in Slot, ImportState(r, p, s)
      PROVE HoldersHoldLock' /\ SubjectIsKnown'
  <2>1. \A q \in Resource : pc'[q] \in Ended
    BY <1>6 DEF ImportState, AllEnded
  <2>2. QED
    BY <2>1 DEF SubjectIsKnown, Ended
<1>7. CASE UIEdit
  BY <1>7 DEF UIEdit, SubjectIsKnown, Creating, Updating, Deleting
<1>8. CASE Rest \/ UNCHANGED vars
  BY <1>8 DEF Rest, vars, SubjectIsKnown, Creating, Updating, Deleting
<1>9. QED
  BY <1>1, <1>2, <1>3, <1>4, <1>5, <1>6, <1>7, <1>8 DEF Next

\* Configuration and state name zones of the default VRF.
LEMMA ZonesStep == PolicyInv /\ [Next]_vars => ZonesAreDefault'
<1> SUFFICES ASSUME PolicyInv, [Next]_vars, NEW q \in Resource
             PROVE  InDefaultZones(config[q])' /\ InDefaultZones(tf[q])'
  BY DEF ZonesAreDefault
<1> USE DEF PolicyInv, InDefaultZones
<1>0. InDefaultZones(config[q]) /\ InDefaultZones(tf[q])
  BY DEF ZonesAreDefault
<1>1. CASE StartRun
  <2>1. config' \in Configs /\ tf' = tf
    BY <1>1 DEF StartRun
  <2>2. config'[q] # None =>
           ZoneOf(config'[q].slot.src, DefaultVRF) /\ ZoneOf(config'[q].slot.dst, DefaultVRF)
    BY <2>1, PoliciesAssumption
  <2>3. QED
    BY <1>0, <2>1, <2>2
<1>2. CASE UNCHANGED <<config, tf>>
  BY <1>0, <1>2
<1>3. ASSUME NEW r \in Resource, Read(r)
      PROVE  InDefaultZones(config[q])' /\ InDefaultZones(tf[q])'
  <2>1. /\ config' = config
        /\ \/ tf' = tf
           \/ tf' = [tf EXCEPT ![r] = None]
           \/ tf[r] # None /\ \E b : tf' = [tf EXCEPT ![r].body = b]
    BY <1>3 DEF Read
  <2>2. CASE tf' = tf \/ tf' = [tf EXCEPT ![r] = None]
    BY <1>0, <2>1, <2>2 DEF TypeOK
  <2>3. CASE tf[r] # None /\ \E b : tf' = [tf EXCEPT ![r].body = b]
    <3>1. PICK b : tf' = [tf EXCEPT ![r].body = b]
      BY <2>3
    <3>2. tf[r] \in Wanted
      BY <2>3 DEF TypeOK
    <3>3. tf'[r].slot = tf[r].slot
      BY <3>1, <3>2 DEF Wanted, TypeOK
    <3>4. q # r => tf'[q] = tf[q]
      BY <3>1 DEF TypeOK
    <3>5. QED
      BY <1>0, <2>1, <2>3, <3>3, <3>4
  <2>4. QED
    BY <2>1, <2>2, <2>3
<1>4. ASSUME NEW r \in Resource, Post(r)
      PROVE  InDefaultZones(config[q])' /\ InDefaultZones(tf[q])'
  BY <1>0, <1>4 DEF Post, TypeOK
<1>5. ASSUME NEW r \in Resource, ReadBack(r)
      PROVE  InDefaultZones(config[q])' /\ InDefaultZones(tf[q])'
  <2>1. PICK b : tf' = [tf EXCEPT ![r] = [config[r] EXCEPT !.body = b]]
    BY <1>5 DEF ReadBack
  <2>2. config[r] # None /\ config[r] \in Wanted /\ config' = config
    BY <1>5 DEF ReadBack, SubjectIsKnown, TypeOK
  <2>3. tf'[r].slot = config[r].slot /\ (q # r => tf'[q] = tf[q])
    BY <2>1, <2>2 DEF Wanted, TypeOK
  <2>4. InDefaultZones(config[r])
    BY DEF ZonesAreDefault
  <2>5. QED
    BY <1>0, <2>2, <2>3, <2>4
<1>6. ASSUME NEW r \in Resource, NEW p \in Pair, NEW s \in Slot, ImportState(r, p, s)
      PROVE  InDefaultZones(config[q])' /\ InDefaultZones(tf[q])'
  <2>1. PICK b : tf' = [tf EXCEPT ![r] = [pair |-> p, slot |-> s, body |-> b]]
    BY <1>6 DEF ImportState
  <2>2. tf'[r].slot = s /\ (q # r => tf'[q] = tf[q])
    BY <2>1 DEF TypeOK
  <2>3. ZoneOf(s.src, DefaultVRF) /\ ZoneOf(s.dst, DefaultVRF) /\ config' = config
    BY <1>6 DEF ImportState
  <2>4. QED
    BY <1>0, <2>2, <2>3
<1>7. QED
  <2>1. \A r \in Resource : Duplicate(r) \/ Fetch(r) \/ Untranslated(r) => UNCHANGED <<config, tf>>
    BY DEF Duplicate, Fetch, Untranslated
  <2>2. \A r \in Resource : PostLost(r) \/ RequestFails(r) => UNCHANGED <<config, tf>>
    BY DEF PostLost, RequestFails
  <2>3. EndPlanning \/ UIEdit \/ Rest \/ UNCHANGED vars => UNCHANGED <<config, tf>>
    BY DEF EndPlanning, UIEdit, Rest, vars
  <2>4. QED
    BY <1>1, <1>2, <1>3, <1>4, <1>5, <1>6, <2>1, <2>2, <2>3 DEF Next, Handler

\* Nobody but the holder of the lock, and the UI, writes to a pair.
LEMMA WhoWrites ==
    ASSUME PolicyInv, [Next]_vars, server' # server
    PROVE  UIEdit \/ \E r \in Resource : pc[r] = "post" /\ PostApplied(r)
<1>1. \A r \in Resource : Post(r) \/ PostLost(r) => pc[r] = "post" /\ PostApplied(r)
  BY DEF Post, PostLost
<1>2. \A r \in Resource :
         Read(r) \/ Duplicate(r) \/ Fetch(r) \/ Untranslated(r) \/ ReadBack(r) \/ RequestFails(r)
            => server' = server
  BY DEF Read, Duplicate, Fetch, Untranslated, ReadBack, RequestFails
<1>3. \A r \in Resource, p \in Pair, s \in Slot : ImportState(r, p, s) => server' = server
  BY DEF ImportState
<1>4. StartRun \/ EndPlanning \/ Rest \/ UNCHANGED vars => server' = server
  BY DEF StartRun, EndPlanning, Rest, vars
<1>5. QED
  BY <1>1, <1>2, <1>3, <1>4 DEF Next, Handler

\* Neither a post nor the UI puts a rule where it does not belong.
LEMMA ServerStep == PolicyInv /\ [Next]_vars => ServerIsValid'
<1> SUFFICES ASSUME PolicyInv, [Next]_vars,
                    NEW p \in Pair, NEW s \in Slot, server'[p][s] # None
             PROVE  Belongs(s, p)
  BY DEF ServerIsValid
<1>0. server[p][s] # None => Belongs(s, p)
  BY DEF PolicyInv, ServerIsValid
<1>1. CASE UIEdit
  <2>1. PICK o \in Pair, t \in Slot, b \in Body \cup {None} :
          Belongs(t, o) /\ server' = [server EXCEPT ![o][t] = b]
    BY <1>1 DEF UIEdit
  <2>2. (o = p /\ t = s) \/ server'[p][s] = server[p][s]
    BY <2>1 DEF PolicyInv, TypeOK, Rules
  <2>3. QED
    BY <1>0, <2>1, <2>2
<1>2. ASSUME NEW r \in Resource, pc[r] = "post", PostApplied(r) PROVE Belongs(s, p)
  <2>1. server' = [server EXCEPT ![Subject(r).pair] = Payload(Posting(r), Subject(r).pair)]
    BY <1>2 DEF PostApplied
  <2>2. CASE p = Subject(r).pair
    BY <1>2, <2>1, <2>2, PayloadBelongs DEF PolicyInv, TypeOK
  <2>3. CASE p # Subject(r).pair
    BY <1>0, <2>1, <2>3 DEF PolicyInv, TypeOK
  <2>4. QED
    BY <2>2, <2>3
<1>3. QED
  BY <1>0, <1>1, <1>2, WhoWrites

\* Between its fetch and its post a handler is left alone: only the UI may
\* change what it has fetched, and then the set is stale.
LEMMA PosterIsAlone ==
    ASSUME PolicyInv, [Next]_vars, NEW q \in Resource, pc'[q] = "post", ~Fetch(q)
    PROVE  /\ pc[q] = "post" /\ snap'[q] = snap[q]
           /\ config'[q] = config[q] /\ tf'[q] = tf[q]
           /\ stale' = TRUE \/ (stale' = stale /\ server' = server)
<1> USE DEF PolicyInv
<1>1. CASE StartRun \/ EndPlanning
  BY <1>1 DEF StartRun, EndPlanning
<1>2. ASSUME NEW r \in Resource, Handler(r) \/ PostLost(r) \/ RequestFails(r)
      PROVE  /\ pc[q] = "post" /\ snap'[q] = snap[q]
             /\ config'[q] = config[q] /\ tf'[q] = tf[q]
             /\ stale' = TRUE \/ (stale' = stale /\ server' = server)
  <2>1. r # q /\ pc'[q] = pc[q]
    <3>1. CASE Fetch(r)
      BY <3>1 DEF Fetch, TypeOK
    <3>2. CASE Read(r) \/ Duplicate(r) \/ Untranslated(r) \/ ReadBack(r)
      BY <3>2 DEF Read, Duplicate, Untranslated, ReadBack, TypeOK
    <3>3. CASE Post(r) \/ PostLost(r) \/ RequestFails(r)
      BY <3>3 DEF Post, PostLost, RequestFails, TypeOK
    <3>4. QED
      BY <1>2, <3>1, <3>2, <3>3 DEF Handler
  <2>2. pc[q] = "post" /\ lock = q /\ lock # Free
    BY <2>1, PoliciesAssumption DEF HoldersHoldLock
  <2>3. pc[r] \notin {"post", "readback"}
    BY <2>1, <2>2 DEF HoldersHoldLock
  <2>4. Read(r) \/ RequestFails(r)
    BY <1>2, <2>2, <2>3 DEF Handler, Duplicate, Fetch, Post, Untranslated, ReadBack, PostLost
  <2>5. snap'[q] = snap[q] /\ config' = config /\ stale' = stale /\ server' = server
    BY <2>1, <2>4 DEF Read, RequestFails, TypeOK
  <2>6. tf'[q] = tf[q]
    BY <2>1, <2>4 DEF Read, RequestFails, TypeOK
  <2>7. QED
    BY <2>2, <2>5, <2>6
<1>3. ASSUME NEW r \in Resource, NEW p \in Pair, NEW s \in Slot, ImportState(r, p, s)
      PROVE  FALSE
  BY <1>3 DEF ImportState, AllEnded, Ended
<1>4. CASE UIEdit
  BY <1>4 DEF UIEdit
<1>5. CASE Rest \/ UNCHANGED vars
  BY <1>5 DEF Rest, vars
<1>6. QED
  BY <1>1, <1>2, <1>3, <1>4, <1>5 DEF Next

\* What a handler is about to post is what it fetched, and under the lock that
\* is the set of the pair.
LEMMA SnapStep == PolicyInv /\ [Next]_vars => SnapIsOfPair' /\ SnapIsCurrent'
<1> SUFFICES ASSUME PolicyInv, [Next]_vars, NEW q \in Resource, pc'[q] = "post"
             PROVE  /\ \A l \in snap'[q] : \E s \in Slot :
                          Belongs(s, Subject(q)'.pair) /\ l.slot \in {s, InDefault(s)}
                    /\ ~stale' => \E a \in BOOLEAN : snap'[q] = Listed(Subject(q).pair, a)'
  BY DEF SnapIsOfPair, SnapIsCurrent
<1>1. CASE Fetch(q)
  <2>1. PICK a \in BOOLEAN :
          LET list     == Listed(Subject(q).pair, a)
              conflict == Creating(q) /\ Find(list, config[q].slot) # {}
          IN  /\ snap' = [snap EXCEPT ![q] = IF conflict THEN {} ELSE list]
              /\ pc' = [pc EXCEPT ![q] = IF conflict THEN "failed" ELSE "post"]
    BY <1>1 DEF Fetch
  <2>2. snap'[q] = Listed(Subject(q).pair, a)
    BY <2>1 DEF PolicyInv, TypeOK
  <2>3. server' = server /\ config' = config /\ tf' = tf
    BY <1>1 DEF Fetch
  <2>4. Subject(q)' = Subject(q)
    BY <2>3 DEF Subject, Deleting
  <2>5. Listed(Subject(q).pair, a)' = Listed(Subject(q).pair, a)
    BY <2>3, <2>4 DEF Listed
  <2>6. Subject(q).pair \in Pair
    <3>1. Creating(q) \/ Updating(q) \/ Deleting(q)
      BY <1>1 DEF Fetch, PolicyInv, SubjectIsKnown
    <3>2. QED
      BY <3>1, SubjectIsWanted DEF PolicyInv, Wanted
  <2>7. ASSUME NEW l \in snap'[q]
        PROVE  \E s \in Slot : Belongs(s, Subject(q).pair) /\ l.slot \in {s, InDefault(s)}
    <3>1. PICK s \in Slot : /\ server[Subject(q).pair][s] # None
                            /\ l.slot = IF a THEN InDefault(s) ELSE s
      BY <2>2, <2>7 DEF Listed
    <3>2. Belongs(s, Subject(q).pair)
      BY <2>6, <3>1 DEF PolicyInv, ServerIsValid
    <3>3. QED
      BY <3>1, <3>2
  <2>8. QED
    BY <2>2, <2>4, <2>5, <2>7
<1>2. CASE ~Fetch(q)
  <2>1. /\ pc[q] = "post" /\ snap'[q] = snap[q]
        /\ config'[q] = config[q] /\ tf'[q] = tf[q]
        /\ stale' = TRUE \/ (stale' = stale /\ server' = server)
    BY <1>2, PosterIsAlone
  <2>2. Subject(q)' = Subject(q)
    BY <2>1 DEF Subject, Deleting
  <2>3. \A l \in snap'[q] : \E s \in Slot :
           Belongs(s, Subject(q)'.pair) /\ l.slot \in {s, InDefault(s)}
    BY <2>1, <2>2 DEF PolicyInv, SnapIsOfPair
  <2>4. ASSUME ~stale'
        PROVE  \E a \in BOOLEAN : snap'[q] = Listed(Subject(q).pair, a)'
    <3>1. ~stale /\ server' = server
      BY <2>1, <2>4
    <3>2. PICK a \in BOOLEAN : snap[q] = Listed(Subject(q).pair, a)
      BY <2>1, <3>1 DEF PolicyInv, SnapIsCurrent
    <3>3. Listed(Subject(q).pair, a)' = Listed(Subject(q).pair, a)
      BY <2>2, <3>1 DEF Listed
    <3>4. QED
      BY <2>1, <3>2, <3>3
  <2>5. QED
    BY <2>3, <2>4
<1>3. QED
  BY <1>1, <1>2

\* The invariant is inductive.
LEMMA PolicyStep == PolicyInv /\ [Next]_vars => PolicyInv'
BY TypeStep, LockStep, ZonesStep, ServerStep, SnapStep DEF PolicyInv

\* Every reachable state satisfies it.
LEMMA PolicyInvariant == Spec => []PolicyInv
BY PolicyInit, PolicyStep, PTL DEF Spec

-----------------------------------------------------------------------------

\* Types: in particular what is posted is a set of policies between known zones
\* and the state holds policies only.
THEOREM PoliciesTypeCorrect == Spec => []TypeOK
<1>1. PolicyInv => TypeOK
  BY DEF PolicyInv
<1>2. QED
  BY <1>1, PolicyInvariant, PTL

\* A handler under policyMu holds it alone until its last request is answered.
THEOREM PolicyMuIsExclusive == Spec => []HoldersHoldLock
<1>1. PolicyInv => HoldersHoldLock
  BY DEF PolicyInv
<1>2. QED
  BY <1>1, PolicyInvariant, PTL

\* CreateSecurityPolicy, UpdateSecurityPolicy and DeleteSecurityPolicy replace
\* whole sets, and yet change the one rule they are about, whatever requests
\* fail, whether or not the set was translated when it was fetched.
THEOREM OtherRulesStayUntouched == Spec => OtherRulesUntouched
<1> DEFINE Only(p, s) ==
      \E r \in Resource : pc[r] = "post" /\ Target(Subject(r)) = <<p, s>>
<1>1. ASSUME PolicyInv, [Next]_vars, edits' = edits, ~stale,
             NEW p \in Pair, NEW s \in Slot, server'[p][s] # server[p][s]
      PROVE  Only(p, s)
  <2>1. ~UIEdit
    BY <1>1 DEF UIEdit, PolicyInv, TypeOK
  <2>2. PICK r \in Resource : pc[r] = "post" /\ PostApplied(r)
    BY <1>1, <2>1, WhoWrites
  <2>3. server' = [server EXCEPT ![Subject(r).pair] = Payload(Posting(r), Subject(r).pair)]
    BY <2>2 DEF PostApplied
  <2>4. p = Subject(r).pair
    BY <1>1, <2>3 DEF PolicyInv, TypeOK
  <2>5. server'[p] = Payload(Posting(r), p)
    <3>1. server' = [server EXCEPT ![p] = Payload(Posting(r), p)]
      BY <2>3, <2>4
    <3>2. p \in DOMAIN server
      BY <1>1 DEF PolicyInv, TypeOK
    <3>3. QED
      BY <3>1, <3>2
  <2>6. s = InPair(Subject(r).slot, Subject(r).pair)
    BY <1>1, <2>2, <2>4, <2>5, OthersGoBack
  <2>7. QED
    BY <2>2, <2>4, <2>6 DEF Target
<1>2. PolicyInv /\ [Next]_vars =>
        [edits' = edits /\ ~stale =>
           \A p \in Pair, s \in Slot : server'[p][s] # server[p][s] => Only(p, s)]_vars
  BY <1>1
<1>3. QED
  BY <1>2, PolicyInvariant, PTL DEF Spec, OtherRulesUntouched

-----------------------------------------------------------------------------
(* What translation makes of the slots of configuration and state. *)

\* A zone of the default VRF with an ID in VRF v comes back from there.
THEOREM DefaultRoundTrip ==
    ASSUME WellFormed, NEW z, NEW v, ZoneOf(z, DefaultVRF), ToVRF(z, v) # UnknownZone
    PROVE  ToDefaultVRF(ToVRF(z, v)) = z
<1>1. PICK m \in Mappings : m.zone = z /\ m.vrf = DefaultVRF
  BY DEF ZoneOf
<1>2. ByID(z) \in Mappings /\ ByID(z).name = m.name
  <2>1. ByID(z) \in Entries(z)
    BY <1>1, ByIDIsEntry DEF Entries
  <2>2. QED
    BY <1>1, <2>1 DEF Entries, WellFormed
<1>3. EntriesNamed(m.name, v) # {}
  BY <1>2 DEF ToVRF
<1>4. PICK k \in Mappings : k.name = m.name /\ k.vrf = v /\ ToVRF(z, v) = k.zone
  <2>1. ByNameVRF(m.name, v) \in EntriesNamed(m.name, v)
    BY <1>3, ByNameVRFIsEntry
  <2>2. ToVRF(z, v) = ByNameVRF(m.name, v).zone
    BY <1>1, <1>2, <1>3 DEF ToVRF, Entries
  <2>3. QED
    BY <2>1, <2>2 DEF EntriesNamed
<1>5. m \in EntriesNamed(k.name, DefaultVRF)
  BY <1>1, <1>4 DEF EntriesNamed
<1>6. PICK l \in Mappings : /\ l.name = k.name /\ l.vrf = DefaultVRF
                            /\ ToDefaultVRF(k.zone) = l.zone
  BY <1>5, ToDefaultVRFKeepsName
<1>7. l.zone = m.zone
  BY <1>1, <1>4, <1>6 DEF WellFormed
<1>8. QED
  BY <1>1, <1>4, <1>6, <1>7

\* The cell of the server a policy occupies, and what it holds.
Cell(w) == server[w.pair][InPair(w.slot, w.pair)]

\* The slot of a policy has an ID in each VRF of its pair.
HasCell(w) == InPair(w.slot, w.pair) \in Slot

\* What is in the state, or about to be, was in the Orchestrator once, so its
\* zones have IDs in the VRFs of its pair.
StateIsTranslatable ==
    \A r \in Resource :
        /\ tf[r] # None => HasCell(tf[r])
        /\ pc[r] = "readback" => HasCell(config[r])

\* As long as no mapping request has failed, what a handler has fetched is
\* translated.
SnapIsTranslated ==
    "untranslated" \notin happened =>
        \A r \in Resource : pc[r] = "post" =>
            /\ \A q \in snap[r] : \E s \in Slot :
                  Belongs(s, Subject(r).pair) /\ q.slot = InDefault(s)
            /\ ~stale => snap[r] = Listed(Subject(r).pair, TRUE)

\* A create goes on only when the set it has fetched has no rule in its slot.
CreateHasNoConflict ==
    \A r \in Resource :
        pc[r] = "post" /\ Creating(r) => Find(snap[r], config[r].slot) = {}

\* Terraform plans all blocks before it applies any.
PlanningTogether ==
    (\E r \in Resource : pc[r] \in Planning) => \A r \in Resource : pc[r] \in Planning

TranslationInv ==
    /\ PolicyInv
    /\ StateIsTranslatable /\ SnapIsTranslated /\ CreateHasNoConflict /\ PlanningTogether

-----------------------------------------------------------------------------

\* A policy whose zones have IDs in its pair occupies a cell of the pair, and
\* is reported back under the slot it is declared with.
LEMMA CellRoundTrip ==
    ASSUME NEW w \in Wanted, InDefaultZones(w), HasCell(w)
    PROVE  /\ Belongs(InPair(w.slot, w.pair), w.pair)
           /\ InDefault(InPair(w.slot, w.pair)) = w.slot
<1> DEFINE s == w.slot
           p == w.pair
           a == IF p.src = DefaultVRF THEN s.src ELSE ToVRF(s.src, p.src)
           b == IF p.dst = DefaultVRF THEN s.dst ELSE ToVRF(s.dst, p.dst)
<1>1. w # None /\ s \in Slot /\ p \in Pair
  BY PoliciesAssumption DEF Wanted
<1>2. ZoneOf(s.src, DefaultVRF) /\ ZoneOf(s.dst, DefaultVRF)
  BY <1>1 DEF InDefaultZones
<1>3. InPair(s, p) = [src |-> a, dst |-> b, prio |-> s.prio]
  BY DEF InPair
<1>4. a \in ZoneId /\ b \in ZoneId
  BY <1>3 DEF HasCell, Slot
<1>5. UnknownZone \notin ZoneId /\ WellFormed
  BY PoliciesAssumption, MappingsAssumption
<1>6. ToDefaultVRF(a) = s.src
  BY <1>2, <1>4, <1>5, RoundTrip, DefaultRoundTrip
<1>7. ToDefaultVRF(b) = s.dst
  BY <1>2, <1>4, <1>5, RoundTrip, DefaultRoundTrip
<1> HIDE DEF a, b
<1>8. InDefault(InPair(s, p)) = [src |-> s.src, dst |-> s.dst, prio |-> s.prio]
  BY <1>3, <1>6, <1>7 DEF InDefault
<1>9. s = [src |-> s.src, dst |-> s.dst, prio |-> s.prio]
  BY <1>1 DEF Slot
<1>10. Belongs(InPair(s, p), p)
  BY <1>1, <1>2, InPairBelongs DEF HasCell
<1>11. QED
  BY <1>8, <1>9, <1>10

\* So two policies of one pair that occupy one cell have one slot.
LEMMA OneSlotPerCell ==
    ASSUME NEW v \in Wanted, NEW w \in Wanted, v.pair = w.pair,
           InDefaultZones(v), InDefaultZones(w), HasCell(v), HasCell(w),
           InPair(v.slot, v.pair) = InPair(w.slot, w.pair)
    PROVE  SameSlot(v, w)
BY CellRoundTrip DEF SameSlot

\* A translated listing has the policy of a cell, and no other, under the slot
\* it is declared with.
LEMMA LookupFindsCell ==
    ASSUME TypeOK, ServerIsValid, NEW w \in Wanted, InDefaultZones(w), HasCell(w)
    PROVE  /\ Cell(w) # None => Find(Listed(w.pair, TRUE), w.slot) # {}
           /\ \A q \in Find(Listed(w.pair, TRUE), w.slot) : q.body = Cell(w) /\ Cell(w) # None
<1> DEFINE p == w.pair
           c == InPair(w.slot, w.pair)
<1>1. p \in Pair /\ c \in Slot
  BY DEF HasCell, Wanted
<1>2. InDefault(c) = w.slot
  BY CellRoundTrip
<1>3. ASSUME server[p][c] # None
      PROVE  Find(Listed(p, TRUE), w.slot) # {}
  <2> DEFINE rule == [slot |-> InDefault(c), body |-> server[p][c]]
  <2>1. rule \in Listed(p, TRUE)
    BY <1>1, <1>3 DEF Listed
  <2>2. rule.slot = w.slot
    BY <1>2
  <2> HIDE DEF rule, p
  <2>3. rule \in Find(Listed(p, TRUE), w.slot)
    BY <2>1, <2>2 DEF Find
  <2>4. QED
    BY <2>3
<1>4. ASSUME NEW q \in Find(Listed(p, TRUE), w.slot)
      PROVE  q.body = server[p][c] /\ server[p][c] # None
  <2>1. PICK s \in Slot : /\ server[p][s] # None
                          /\ q.slot = InDefault(s) /\ q.body = server[p][s]
    BY <1>4 DEF Find, Listed
  <2>2. q.slot = w.slot
    BY <1>4 DEF Find
  <2>3. Belongs(s, p)
    BY <1>1, <2>1 DEF ServerIsValid
  <2>4. InPair(w.slot, p) = s
    BY <1>1, <2>1, <2>2, <2>3, SlotRoundTrip
  <2>5. QED
    BY <2>1, <2>4
<1>5. QED
  BY <1>3, <1>4 DEF Cell

-----------------------------------------------------------------------------
(* The invariant of the translation. *)

\* An imported policy was in the listing, translated or not.
LEMMA ImportedHasCell ==
    ASSUME ServerIsValid, NEW p \in Pair, NEW s \in Slot, NEW a \in BOOLEAN,
           NEW q \in Find(Listed(p, a), s)
    PROVE  \E t \in Slot : InPair(s, p) = t /\ server[p][t] = q.body /\ q.body # None
<1>1. PICK t \in Slot : /\ server[p][t] # None /\ q.body = server[p][t]
                        /\ q.slot = IF a THEN InDefault(t) ELSE t
  BY DEF Find, Listed
<1>2. q.slot = s
  BY DEF Find
<1>3. Belongs(t, p)
  BY <1>1 DEF ServerIsValid
<1>4. InPair(s, p) = t
  BY <1>1, <1>2, <1>3, SlotRoundTrip
<1>5. QED
  BY <1>1, <1>4

\* A rule that has been posted is one of a cell.
LEMMA PostedHasCell ==
    ASSUME NEW r \in Resource, pc[r] = "post", ~Deleting(r), PostApplied(r)
    PROVE  HasCell(config[r])
<1>1. New(r) \in Posting(r)
  BY DEF Posting, New
<1>2. QED
  BY <1>1 DEF PostApplied, Translatable, HasCell, New, Subject

\* The slot of a policy in the state, or under a create, stays translatable.
LEMMA TranslatableStep ==
    PolicyInv /\ StateIsTranslatable /\ [Next]_vars => StateIsTranslatable'
<1> SUFFICES ASSUME PolicyInv, StateIsTranslatable, [Next]_vars, NEW q \in Resource
             PROVE  /\ tf'[q] # None => HasCell(tf'[q])
                    /\ pc'[q] = "readback" => HasCell(config'[q])
  BY DEF StateIsTranslatable, HasCell, InPair
<1> USE DEF PolicyInv
<1>0. /\ tf[q] # None => HasCell(tf[q])
      /\ pc[q] = "readback" => HasCell(config[q])
  BY DEF StateIsTranslatable
<1>1. CASE StartRun
  BY <1>0, <1>1 DEF StartRun
<1>2. CASE EndPlanning
  BY <1>0, <1>2 DEF EndPlanning
<1>3. ASSUME NEW r \in Resource, Handler(r) \/ PostLost(r) \/ RequestFails(r)
      PROVE  /\ tf'[q] # None => HasCell(tf'[q])
             /\ pc'[q] = "readback" => HasCell(config'[q])
  <2>1. CASE Read(r)
    <3>1. \/ tf' = tf
          \/ tf' = [tf EXCEPT ![r] = None]
          \/ tf[r] # None /\ \E b : tf' = [tf EXCEPT ![r].body = b]
      BY <2>1 DEF Read
    <3>2. tf'[q] # None => tf[q] # None /\ SameSlot(tf'[q], tf[q])
      BY <3>1 DEF TypeOK, SameSlot, Wanted
    <3>3. pc' = [pc EXCEPT ![r] = "ready"] /\ config' = config
      BY <2>1 DEF Read
    <3>4. QED
      BY <1>0, <3>2, <3>3 DEF HasCell, SameSlot, TypeOK
  <2>2. CASE Duplicate(r) \/ Untranslated(r)
    BY <1>0, <2>2 DEF Duplicate, Untranslated, TypeOK
  <2>3. CASE Fetch(r)
    <3>1. UNCHANGED <<tf, config>> /\ (pc'[q] = "readback" => pc[q] = "readback")
      BY <2>3 DEF Fetch, TypeOK
    <3>2. QED
      BY <1>0, <3>1
  <2>4. CASE Post(r)
    <3>1. /\ config' = config
          /\ tf'[q] = tf[q] \/ tf'[q] = None
          /\ pc'[q] = "readback" => pc[q] = "readback" \/ (q = r /\ ~Deleting(r))
      BY <2>4 DEF Post, TypeOK
    <3>2. ~Deleting(r) => HasCell(config[r])
      BY <2>4, PostedHasCell DEF Post
    <3>3. QED
      BY <1>0, <3>1, <3>2
  <2>5. CASE ReadBack(r)
    <3>1. PICK b : tf' = [tf EXCEPT ![r] = [config[r] EXCEPT !.body = b]]
      BY <2>5 DEF ReadBack
    <3>2. config[r] \in Wanted
      BY <2>5 DEF ReadBack, SubjectIsKnown, TypeOK
    <3>3. /\ SameSlot(tf'[r], config[r])
          /\ q # r => tf'[q] = tf[q]
      BY <3>1, <3>2 DEF TypeOK, SameSlot, Wanted
    <3>4. pc[r] = "readback" /\ config' = config /\ (pc'[q] = "readback" => pc[q] = "readback")
      BY <2>5 DEF ReadBack, TypeOK
    <3>5. HasCell(config[r])
      BY <3>4 DEF StateIsTranslatable
    <3>6. QED
      BY <1>0, <3>3, <3>4, <3>5 DEF HasCell, SameSlot
  <2>6. CASE PostLost(r) \/ RequestFails(r)
    BY <1>0, <2>6 DEF PostLost, RequestFails, TypeOK
  <2>7. QED
    BY <1>3, <2>1, <2>2, <2>3, <2>4, <2>5, <2>6 DEF Handler
<1>4. ASSUME NEW r \in Resource, NEW p \in Pair, NEW s \in Slot, ImportState(r, p, s)
      PROVE  /\ tf'[q] # None => HasCell(tf'[q])
             /\ pc'[q] = "readback" => HasCell(config'[q])
  <2>1. PICK a \in BOOLEAN : \E l \in Find(Listed(p, a), s) :
          tf' = [tf EXCEPT ![r] = [pair |-> p, slot |-> s, body |-> l.body]]
    BY <1>4 DEF ImportState
  <2>2. InPair(s, p) \in Slot
    BY <2>1, ImportedHasCell
  <2>3. /\ tf'[r].slot = s /\ tf'[r].pair = p
        /\ q # r => tf'[q] = tf[q]
    BY <2>1 DEF TypeOK
  <2>4. UNCHANGED <<pc, config>>
    BY <1>4 DEF ImportState
  <2>5. QED
    BY <1>0, <2>2, <2>3, <2>4 DEF HasCell
<1>5. CASE UIEdit \/ Rest \/ UNCHANGED vars
  BY <1>0, <1>5 DEF UIEdit, Rest, vars
<1>6. QED
  BY <1>1, <1>2, <1>3, <1>4, <1>5 DEF Next

\* The fetch of a set under the lock, as far as the set is concerned.
LEMMA FetchedSet ==
    ASSUME TypeOK, NEW r \in Resource, Fetch(r), pc'[r] = "post"
    PROVE  \E a \in BOOLEAN :
              /\ MapRequest(a)
              /\ snap'[r] = Listed(Subject(r).pair, a)
              /\ Creating(r) => Find(snap'[r], config[r].slot) = {}
<1>1. PICK a \in BOOLEAN :
        LET list     == Listed(Subject(r).pair, a)
            conflict == Creating(r) /\ Find(list, config[r].slot) # {}
        IN  /\ MapRequest(a)
            /\ snap' = [snap EXCEPT ![r] = IF conflict THEN {} ELSE list]
            /\ pc' = [pc EXCEPT ![r] = IF conflict THEN "failed" ELSE "post"]
  BY DEF Fetch
<1>2. ~(Creating(r) /\ Find(Listed(Subject(r).pair, a), config[r].slot) # {})
  BY <1>1 DEF TypeOK
<1>3. QED
  BY <1>1, <1>2 DEF TypeOK

\* The ghost remembers what has happened.
LEMMA HappenedGrows == [Next]_vars => happened \subseteq happened'
<1> SUFFICES ASSUME [Next]_vars PROVE happened \subseteq happened'
  OBVIOUS
<1>1. ASSUME NEW a \in BOOLEAN, MapRequest(a) PROVE happened \subseteq happened'
  BY <1>1 DEF MapRequest
<1>2. ASSUME NEW r \in Resource, Handler(r) \/ PostLost(r) \/ RequestFails(r)
      PROVE  happened \subseteq happened'
  <2>1. CASE Read(r) \/ Fetch(r) \/ Untranslated(r) \/ ReadBack(r)
    BY <1>1, <2>1 DEF Read, Fetch, Untranslated, ReadBack
  <2>2. CASE Duplicate(r) \/ Post(r) \/ PostLost(r) \/ RequestFails(r)
    BY <2>2 DEF Duplicate, Post, PostLost, RequestFails, budgets
  <2>3. QED
    BY <1>2, <2>1, <2>2 DEF Handler
<1>3. ASSUME NEW r \in Resource, NEW p \in Pair, NEW s \in Slot, ImportState(r, p, s)
      PROVE  happened \subseteq happened'
  BY <1>1, <1>3 DEF ImportState
<1>4. CASE StartRun \/ EndPlanning \/ UIEdit \/ Rest \/ UNCHANGED vars
  BY <1>4 DEF StartRun, EndPlanning, UIEdit, Rest, vars, budgets
<1>5. QED
  BY <1>2, <1>3, <1>4 DEF Next

\* What is fetched while every mapping request is answered is translated, and a
\* create that finds its slot in use goes no further.
LEMMA TranslatedStep ==
    PolicyInv /\ SnapIsTranslated /\ CreateHasNoConflict /\ [Next]_vars
       => SnapIsTranslated' /\ CreateHasNoConflict'
<1> SUFFICES ASSUME PolicyInv, SnapIsTranslated, CreateHasNoConflict, [Next]_vars,
                    NEW q \in Resource, pc'[q] = "post"
             PROVE  /\ "untranslated" \notin happened' =>
                          /\ \A l \in snap'[q] : \E s \in Slot :
                                Belongs(s, Subject(q)'.pair) /\ l.slot = InDefault(s)
                          /\ ~stale' => snap'[q] = Listed(Subject(q).pair, TRUE)'
                    /\ Creating(q)' => Find(snap'[q], config'[q].slot) = {}
  BY DEF SnapIsTranslated, CreateHasNoConflict, Find
<1>0. "untranslated" \notin happened' => "untranslated" \notin happened
  BY HappenedGrows
<1>1. CASE Fetch(q)
  <2>1. PICK a \in BOOLEAN :
          /\ MapRequest(a)
          /\ snap'[q] = Listed(Subject(q).pair, a)
          /\ Creating(q) => Find(snap'[q], config[q].slot) = {}
    BY <1>1, FetchedSet DEF PolicyInv
  <2>2. UNCHANGED <<server, config, tf>>
    BY <1>1 DEF Fetch
  <2>3. Subject(q)' = Subject(q) /\ Creating(q)' = Creating(q)
    BY <2>2 DEF Subject, Deleting, Creating
  <2>4. Listed(Subject(q).pair, TRUE)' = Listed(Subject(q).pair, TRUE)
    BY <2>2, <2>3 DEF Listed
  <2>5. Subject(q).pair \in Pair
    <3>1. Creating(q) \/ Updating(q) \/ Deleting(q)
      BY <1>1 DEF Fetch, PolicyInv, SubjectIsKnown
    <3>2. QED
      BY <3>1, SubjectIsWanted DEF PolicyInv, Wanted
  <2>6. ASSUME "untranslated" \notin happened'
        PROVE  /\ snap'[q] = Listed(Subject(q).pair, TRUE)
               /\ \A l \in snap'[q] : \E s \in Slot :
                     Belongs(s, Subject(q).pair) /\ l.slot = InDefault(s)
    <3>1. a = TRUE
      BY <2>1, <2>6 DEF MapRequest
    <3>2. snap'[q] = Listed(Subject(q).pair, TRUE)
      BY <2>1, <3>1
    <3>3. ASSUME NEW l \in snap'[q]
          PROVE  \E s \in Slot : Belongs(s, Subject(q).pair) /\ l.slot = InDefault(s)
      <4>1. PICK s \in Slot : server[Subject(q).pair][s] # None /\ l.slot = InDefault(s)
        BY <3>2, <3>3 DEF Listed
      <4>2. QED
        BY <2>5, <4>1 DEF PolicyInv, ServerIsValid
    <3>4. QED
      BY <3>2, <3>3
  <2>7. QED
    BY <2>1, <2>2, <2>3, <2>4, <2>6
<1>2. CASE ~Fetch(q)
  <2>1. /\ pc[q] = "post" /\ snap'[q] = snap[q]
        /\ config'[q] = config[q] /\ tf'[q] = tf[q]
        /\ stale' = TRUE \/ (stale' = stale /\ server' = server)
    BY <1>2, PosterIsAlone
  <2>2. Subject(q)' = Subject(q) /\ Creating(q)' = Creating(q)
    BY <2>1 DEF Subject, Deleting, Creating
  <2>3. ASSUME ~stale'
        PROVE  ~stale /\ Listed(Subject(q).pair, TRUE)' = Listed(Subject(q).pair, TRUE)
    BY <2>1, <2>2, <2>3 DEF Listed
  <2>4. QED
    BY <1>0, <2>1, <2>2, <2>3 DEF SnapIsTranslated, CreateHasNoConflict
<1>3. QED
  BY <1>1, <1>2

\* Terraform leaves planning for all blocks at once.
LEMMA PlanningStep == PolicyInv /\ PlanningTogether /\ [Next]_vars => PlanningTogether'
<1> SUFFICES ASSUME PolicyInv, PlanningTogether, [Next]_vars PROVE PlanningTogether'
  OBVIOUS
<1> USE DEF PolicyInv, PlanningTogether
<1>1. CASE StartRun \/ EndPlanning
  BY <1>1 DEF StartRun, EndPlanning, Planning
<1>2. ASSUME NEW r \in Resource, Handler(r) \/ PostLost(r) \/ RequestFails(r)
      PROVE  \A q \in Resource : pc'[q] \in Planning <=> pc[q] \in Planning
  <2>1. CASE Read(r) \/ Duplicate(r) \/ Untranslated(r)
    BY <2>1 DEF Read, Duplicate, Untranslated, Planning, TypeOK
  <2>2. CASE Fetch(r)
    BY <2>2 DEF Fetch, Planning, TypeOK
  <2>3. CASE Post(r) \/ PostLost(r)
    BY <2>3 DEF Post, PostLost, Planning, TypeOK
  <2>4. CASE ReadBack(r)
    BY <2>4 DEF ReadBack, Planning, TypeOK
  <2>5. CASE RequestFails(r)
    BY <2>5 DEF RequestFails, Requesting, Planning, TypeOK
  <2>6. QED
    BY <1>2, <2>1, <2>2, <2>3, <2>4, <2>5 DEF Handler
<1>3. ASSUME NEW r \in Resource, Handler(r) \/ PostLost(r) \/ RequestFails(r)
      PROVE  PlanningTogether'
  <2>1. \A q \in Resource : pc'[q] \in Planning <=> pc[q] \in Planning
    BY <1>2, <1>3
  <2>2. QED
    BY <2>1
<1>4. CASE UNCHANGED pc
  BY <1>4
<1>5. QED
  BY <1>1, <1>3, <1>4 DEF Next, ImportState, UIEdit, Rest, vars

LEMMA TranslationInvariant == Spec => []TranslationInv
<1>1. Init => TranslationInv
  BY PolicyInit DEF Init, TranslationInv, StateIsTranslatable, SnapIsTranslated,
        CreateHasNoConflict, PlanningTogether, Planning
<1>2. TranslationInv /\ [Next]_vars => TranslationInv'
  BY PolicyStep, TranslatableStep, TranslatedStep, PlanningStep DEF TranslationInv
<1>3. QED
  BY <1>1, <1>2, PTL DEF Spec

-----------------------------------------------------------------------------
(* Creates and deletes of translated sets. *)

\* The policy of a handler that posts occupies a cell, and is one between zones
\* of the default VRF.
LEMMA SubjectHasCell ==
    ASSUME TranslationInv, NEW r \in Resource, pc[r] = "post", PostApplied(r)
    PROVE  Subject(r) \in Wanted /\ InDefaultZones(Subject(r)) /\ HasCell(Subject(r))
<1>1. Creating(r) \/ Updating(r) \/ Deleting(r)
  BY DEF TranslationInv, PolicyInv, SubjectIsKnown
<1>2. Subject(r) \in Wanted
  BY <1>1, SubjectIsWanted DEF TranslationInv, PolicyInv
<1>3. InDefaultZones(Subject(r))
  BY DEF TranslationInv, PolicyInv, ZonesAreDefault, Subject
<1>4. HasCell(Subject(r))
  <2>1. CASE Deleting(r)
    BY <2>1 DEF TranslationInv, StateIsTranslatable, Deleting, Subject
  <2>2. CASE ~Deleting(r)
    BY <2>2, PostedHasCell DEF Subject
  <2>3. QED
    BY <2>1, <2>2
<1>5. QED
  BY <1>2, <1>3, <1>4

\* What a post leaves in the cell its handler is about.
LEMMA PostedCell ==
    ASSUME TranslationInv, NEW r \in Resource, pc[r] = "post", PostApplied(r)
    PROVE  LET c == InPair(Subject(r).slot, Subject(r).pair)
           IN  /\ ~Deleting(r) =>
                     Payload(Posting(r), Subject(r).pair)[c] = config[r].body
               /\ Deleting(r) /\ "untranslated" \notin happened =>
                     Payload(Posting(r), Subject(r).pair)[c] = None
<1> DEFINE p == Subject(r).pair
           c == InPair(Subject(r).slot, p)
<1>1. Subject(r) \in Wanted /\ InDefaultZones(Subject(r)) /\ HasCell(Subject(r))
  BY SubjectHasCell
<1>2. c \in Slot /\ p \in Pair /\ InDefault(c) = Subject(r).slot
  BY <1>1, CellRoundTrip DEF HasCell, Wanted
<1>3. ASSUME ~Deleting(r)
      PROVE  Payload(Posting(r), p)[c] = config[r].body
  <2>1. p = config[r].pair /\ c = InPair(config[r].slot, config[r].pair)
    BY <1>3 DEF Subject
  <2>2. Posting(r) = {q \in snap[r] : InPair(q.slot, p) # c} \cup {New(r)}
    BY <1>3, <2>1 DEF Posting, New
  <2>3. InPair(New(r).slot, p) = c /\ New(r).body = config[r].body
    BY <2>1 DEF New
  <2> HIDE DEF p, c
  <2>4. \A q \in Posting(r) : InPair(q.slot, p) = c => q = New(r)
    BY <2>2
  <2>5. (CHOOSE q \in Posting(r) : InPair(q.slot, p) = c) = New(r)
    BY <2>2, <2>3, <2>4
  <2>6. \E q \in Posting(r) : InPair(q.slot, p) = c
    BY <2>2, <2>3
  <2>7. QED
    BY <1>2, <2>3, <2>5, <2>6 DEF Payload
<1>4. ASSUME Deleting(r), "untranslated" \notin happened
      PROVE  Payload(Posting(r), p)[c] = None
  <2>1. ASSUME NEW q \in Posting(r), InPair(q.slot, p) = c PROVE FALSE
    <3>1. q \in snap[r] /\ q.slot # tf[r].slot
      BY <1>4, <2>1 DEF Posting
    <3>2. PICK s \in Slot : Belongs(s, p) /\ q.slot = InDefault(s)
      BY <1>4, <3>1 DEF TranslationInv, SnapIsTranslated
    <3>3. InPair(q.slot, p) = s
      BY <1>2, <3>2, SlotRoundTrip
    <3>4. q.slot = tf[r].slot
      BY <1>2, <1>4, <2>1, <3>2, <3>3 DEF Subject
    <3>5. QED
      BY <3>1, <3>4
  <2>2. ~ \E q \in Posting(r) : InPair(q.slot, p) = c
    BY <2>1
  <2> HIDE DEF p, c
  <2>3. QED
    BY <1>2, <2>2 DEF Payload
<1>5. QED
  BY <1>3, <1>4

\* The slot of a create that has passed the check is empty, unless the set was
\* fetched untranslated or is stale.
LEMMA CreateFindsEmptyCell ==
    ASSUME TranslationInv, NEW r \in Resource, pc[r] = "post", PostApplied(r), Creating(r),
           ~stale, "untranslated" \notin happened
    PROVE  Cell(config[r]) = None
<1>1. ~Deleting(r) /\ Subject(r) = config[r]
  BY DEF Creating, Deleting, Subject
<1>2. config[r] \in Wanted /\ InDefaultZones(config[r]) /\ HasCell(config[r])
  BY <1>1, SubjectHasCell
<1>3. snap[r] = Listed(config[r].pair, TRUE)
  BY <1>1 DEF TranslationInv, SnapIsTranslated
<1>4. Find(snap[r], config[r].slot) = {}
  BY DEF TranslationInv, CreateHasNoConflict
<1>5. QED
  BY <1>2, <1>3, <1>4, LookupFindsCell DEF TranslationInv, PolicyInv

\* Of all steps that change a pair, only a post by the handler that holds the
\* lock takes that handler out of "post", and the policy out of its state.
LEMMA WhoPosts ==
    ASSUME PolicyInv, [Next]_vars, NEW r \in Resource, pc[r] = "post",
           \/ tf[r] # None /\ tf'[r] = None
           \/ server' # server /\ edits' = edits
    PROVE  Post(r) \/ PostLost(r)
<1> USE DEF PolicyInv
<1>1. lock = r /\ r # Free /\ \A q \in Resource : pc[q] \in {"post", "readback"} => q = r
  BY PoliciesAssumption DEF HoldersHoldLock
<1>2. ~StartRun /\ ~EndPlanning
  BY DEF StartRun, EndPlanning, AllEnded, Ended
<1>3. ~UIEdit \/ (edits' # edits /\ tf' = tf)
  BY DEF UIEdit, TypeOK
<1>4. ~Rest /\ ~UNCHANGED vars
  BY DEF Rest, vars, budgets
<1>5. \A q \in Resource, p \in Pair, s \in Slot : ~ImportState(q, p, s)
  BY DEF ImportState, AllEnded, Ended
<1>6. ASSUME NEW q \in Resource, Handler(q) \/ PostLost(q) \/ RequestFails(q)
      PROVE  Post(r) \/ PostLost(r)
  <2>1. ~Read(q) /\ ~Duplicate(q) /\ ~Fetch(q) /\ ~RequestFails(q)
    BY <1>1 DEF Read, Duplicate, Fetch, RequestFails, TypeOK
  <2>2. ~Untranslated(q)
    BY DEF Untranslated
  <2>3. ~ReadBack(q)
    BY <1>1 DEF ReadBack
  <2>4. QED
    BY <1>1, <1>6, <2>1, <2>2, <2>3 DEF Handler, Post, PostLost
<1>7. QED
  BY <1>2, <1>3, <1>4, <1>5, <1>6 DEF Next

\* A delete that is reported done has taken its rule away, in whatever VRFs its
\* zones are, as long as the set was translated when it was fetched; others may
\* have written to the pair, and answers may have been lost.
THEOREM TranslatedDeletesAreDone == Spec => TranslatedDeleteIsDone
<1> DEFINE A(r) == "untranslated" \notin happened /\ tf[r] # None
                     /\ pc[r] = "post" /\ tf'[r] = None =>
                   server'[tf[r].pair][InPair(tf[r].slot, tf[r].pair)] = None
<1>1. ASSUME TranslationInv, [Next]_vars, NEW r \in Resource,
             "untranslated" \notin happened, tf[r] # None, pc[r] = "post", tf'[r] = None
      PROVE  server'[tf[r].pair][InPair(tf[r].slot, tf[r].pair)] = None
  <2>1. Post(r)
    <3>1. Post(r) \/ PostLost(r)
      BY <1>1, WhoPosts DEF TranslationInv
    <3>2. QED
      BY <1>1, <3>1 DEF PostLost
  <2>2. Deleting(r) /\ PostApplied(r) /\ Subject(r) = tf[r]
    BY <1>1, <2>1 DEF Post, Subject
  <2>3. tf[r].pair \in Pair
    BY <1>1 DEF TranslationInv, PolicyInv, TypeOK, Wanted
  <2>4. server'[tf[r].pair] = Payload(Posting(r), tf[r].pair)
    BY <1>1, <2>2, <2>3 DEF PostApplied, TranslationInv, PolicyInv, TypeOK
  <2>5. QED
    BY <1>1, <2>2, <2>4, PostedCell
<1>2. TranslationInv /\ [Next]_vars => [\A r \in Resource : A(r)]_vars
  BY <1>1
<1>3. QED
  BY <1>2, TranslationInvariant, PTL DEF Spec, TranslatedDeleteIsDone

\* A create never takes the place of a rule it does not know: the check under
\* the lock sees every rule of the pair, in whichever VRF its zones are, until
\* a mapping request fails.
THEOREM CreatesOverwriteNothing == Spec => CreateOverwritesNothing
<1> DEFINE A(r) ==
      "untranslated" \notin happened' /\ pc[r] = "post" /\ Creating(r) /\ ~stale
      /\ edits' = edits /\ server' # server /\ pc'[r] # "post" =>
         server[config[r].pair][InPair(config[r].slot, config[r].pair)] = None
<1>1. ASSUME TranslationInv, [Next]_vars, NEW r \in Resource,
             "untranslated" \notin happened', pc[r] = "post", Creating(r), ~stale,
             edits' = edits, server' # server
      PROVE  Cell(config[r]) = None
  <2>1. Post(r) \/ PostLost(r)
    BY <1>1, WhoPosts DEF TranslationInv
  <2>2. PostApplied(r)
    BY <2>1 DEF Post, PostLost
  <2>3. "untranslated" \notin happened
    BY <1>1, HappenedGrows
  <2>4. QED
    BY <1>1, <2>2, <2>3, CreateFindsEmptyCell
<1>2. TranslationInv /\ [Next]_vars => [\A r \in Resource : A(r)]_vars
  BY <1>1 DEF Cell
<1>3. QED
  BY <1>2, TranslationInvariant, PTL DEF Spec, CreateOverwritesNothing

-----------------------------------------------------------------------------
(* Who owns which slot. *)

\* What is in the state is in the Orchestrator, and in the plan as it is there.
StateIsStored ==
    \A r \in Resource : tf[r] # None =>
        /\ Cell(tf[r]) # None
        /\ pc[r] = "ready" => Cell(tf[r]) = tf[r].body

\* No two resources hold one slot in their states.
SlotsApart ==
    \A q, r \in Resource :
        tf[q] # None /\ tf[r] # None /\ SameSlot(tf[q], tf[r]) => q = r

\* Between its post and its read a create or an update is alone in its slot,
\* and what it has posted is there.
PostedIsStored ==
    \A r \in Resource : pc[r] = "readback" =>
        /\ Cell(config[r]) = config[r].body
        /\ tf[r] # None => SameSlot(tf[r], config[r])
        /\ \A q \in Resource : tf[q] # None /\ SameSlot(tf[q], config[r]) => q = r

\* A handler that has ended well has recorded what is declared and stored.
EndedAsDeclared ==
    \A r \in Resource : pc[r] = "ok" /\ config[r] # None =>
        tf[r] = config[r] /\ Cell(config[r]) = config[r].body

Owning == ~stale /\ StateIsStored /\ SlotsApart /\ PostedIsStored /\ EndedAsDeclared

OwnInv == TranslationInv /\ (Undisturbed => Owning)

\* What the invariants say of the policies in configuration and state.
LEMMA KnownPolicies ==
    ASSUME TranslationInv, NEW r \in Resource
    PROVE  /\ tf[r] # None => tf[r] \in Wanted /\ InDefaultZones(tf[r]) /\ HasCell(tf[r])
           /\ config[r] # None => config[r] \in Wanted /\ InDefaultZones(config[r])
           /\ pc[r] = "readback" => config[r] # None /\ HasCell(config[r])
BY DEF TranslationInv, PolicyInv, TypeOK, ZonesAreDefault, StateIsTranslatable, SubjectIsKnown

\* A post leaves every cell as it is but that of the policy it is about.
LEMMA CellAfterWrite ==
    ASSUME TranslationInv, ~stale, NEW r \in Resource, pc[r] = "post", PostApplied(r),
           NEW w \in Wanted, InDefaultZones(w), HasCell(w)
    PROVE  LET after == server'[w.pair][InPair(w.slot, w.pair)]
           IN  /\ ~SameSlot(w, Subject(r)) => after = Cell(w)
               /\ SameSlot(w, Subject(r)) /\ ~Deleting(r) => after = config[r].body
<1> DEFINE v == Subject(r)
           p == w.pair
           c == InPair(w.slot, w.pair)
<1>1. v \in Wanted /\ InDefaultZones(v) /\ HasCell(v)
  BY SubjectHasCell
<1>2. p \in Pair /\ v.pair \in Pair /\ c \in Slot
  BY <1>1 DEF Wanted, HasCell
<1>3. server' = [server EXCEPT ![v.pair] = Payload(Posting(r), v.pair)]
  BY DEF PostApplied
<1>4. CASE p # v.pair
  BY <1>2, <1>3, <1>4 DEF TranslationInv, PolicyInv, TypeOK, Cell, SameSlot
<1>5. CASE p = v.pair /\ w.slot # v.slot
  <2>1. c # InPair(v.slot, v.pair)
    BY <1>1, <1>5, OneSlotPerCell DEF SameSlot
  <2>2. Payload(Posting(r), v.pair)[c] = server[v.pair][c]
    BY <1>2, <2>1, OthersGoBack DEF TranslationInv
  <2>3. server'[p] = Payload(Posting(r), v.pair)
    BY <1>2, <1>3, <1>5 DEF TranslationInv, PolicyInv, TypeOK
  <2>4. QED
    BY <1>5, <2>2, <2>3 DEF Cell, SameSlot
<1>6. CASE p = v.pair /\ w.slot = v.slot
  <2>1. server'[p] = Payload(Posting(r), v.pair)
    BY <1>2, <1>3, <1>6 DEF TranslationInv, PolicyInv, TypeOK
  <2>2. c = InPair(v.slot, v.pair)
    BY <1>6
  <2>3. ~Deleting(r) => Payload(Posting(r), v.pair)[c] = config[r].body
    BY <2>2, PostedCell
  <2>4. QED
    BY <1>6, <2>1, <2>3 DEF SameSlot
<1>7. QED
  BY <1>4, <1>5, <1>6

\* A step that touches neither the Orchestrator nor the state.
QuietStep ==
    /\ UNCHANGED <<server, tf>> /\ ~stale'
    /\ \A q \in Resource :
          /\ pc'[q] = "ready" => pc[q] = "ready" \/ tf[q] = None
          /\ pc'[q] = "readback" => pc[q] = "readback" /\ config'[q] = config[q]
          /\ pc'[q] = "ok" /\ config'[q] # None =>
                \/ pc[q] = "ok" /\ config'[q] = config[q]
                \/ tf[q] = config'[q] /\ Cell(config'[q]) = config'[q].body

LEMMA QuietKeepsOwning == Owning /\ QuietStep => Owning'
<1> SUFFICES ASSUME Owning, QuietStep PROVE Owning'
  OBVIOUS
<1> USE DEF Owning, QuietStep
<1>1. StateIsStored' /\ SlotsApart'
  <2>1. StateIsStored'
    BY DEF StateIsStored, Cell, InPair
  <2>2. SlotsApart'
    BY DEF SlotsApart, SameSlot
  <2>3. QED
    BY <2>1, <2>2
<1>2. PostedIsStored'
  <2> SUFFICES ASSUME NEW q \in Resource, pc'[q] = "readback"
               PROVE  /\ (Cell(config[q]) = config[q].body)'
                      /\ (tf[q] # None => SameSlot(tf[q], config[q]))'
                      /\ (\A p \in Resource :
                             tf[p] # None /\ SameSlot(tf[p], config[q]) => p = q)'
    BY DEF PostedIsStored
  <2>1. pc[q] = "readback" /\ config'[q] = config[q]
    OBVIOUS
  <2>2. (Cell(config[q]) = config[q].body)'
    BY <2>1 DEF PostedIsStored, Cell, InPair
  <2>3. (tf[q] # None => SameSlot(tf[q], config[q]))'
    BY <2>1 DEF PostedIsStored, SameSlot
  <2>4. (\A p \in Resource : tf[p] # None /\ SameSlot(tf[p], config[q]) => p = q)'
    BY <2>1 DEF PostedIsStored, SameSlot
  <2>5. QED
    BY <2>2, <2>3, <2>4
<1>3. EndedAsDeclared'
  <2> SUFFICES ASSUME NEW q \in Resource, pc'[q] = "ok", config'[q] # None
               PROVE  (tf[q] = config[q])' /\ (Cell(config[q]) = config[q].body)'
    BY DEF EndedAsDeclared
  <2>1. tf[q] = config'[q] /\ Cell(config'[q]) = config'[q].body
    BY DEF EndedAsDeclared
  <2>2. QED
    BY <2>1 DEF Cell, InPair
<1>4. QED
  BY <1>1, <1>2, <1>3

LEMMA HandlerIsQuiet ==
    ASSUME TranslationInv, ~stale, NEW r \in Resource,
           Duplicate(r) \/ Fetch(r) \/ Untranslated(r) \/ RequestFails(r)
    PROVE  QuietStep
<1> USE DEF TranslationInv, PolicyInv, TypeOK, QuietStep
<1>1. CASE Duplicate(r)
  BY <1>1 DEF Duplicate
<1>2. CASE Fetch(r)
  BY <1>2 DEF Fetch
<1>3. CASE Untranslated(r)
  BY <1>3 DEF Untranslated
<1>4. CASE RequestFails(r)
  BY <1>4 DEF RequestFails
<1>5. QED
  BY <1>1, <1>2, <1>3, <1>4

LEMMA TerraformIsQuiet ==
    ASSUME TranslationInv, Owning, StartRun \/ EndPlanning
    PROVE  QuietStep
<1>1. CASE StartRun
  BY <1>1 DEF StartRun, QuietStep, Owning
<1>2. CASE EndPlanning
  <2>1. UNCHANGED <<server, tf, config, stale>>
    BY <1>2 DEF EndPlanning
  <2>2. \A q \in Resource : pc'[q] \notin {"ready", "readback"}
    BY <1>2 DEF EndPlanning
  <2>3. ASSUME NEW q \in Resource, pc'[q] = "ok", config[q] # None
        PROVE  tf[q] = config[q] /\ Cell(config[q]) = config[q].body
    <3>1. ~Creating(q) /\ ~Updating(q) /\ ~Deleting(q) /\ pc[q] = "ready"
      BY <1>2, <2>3 DEF EndPlanning
    <3>2. tf[q] # None /\ SameSlot(tf[q], config[q]) /\ tf[q].body = config[q].body
      BY <2>3, <3>1 DEF Creating, Updating, Deleting
    <3>3. tf[q] \in Wanted /\ config[q] \in Wanted
      BY <2>3, <3>2 DEF TranslationInv, PolicyInv, TypeOK
    <3>4. tf[q] = config[q]
      BY <3>2, <3>3 DEF SameSlot, Wanted
    <3>5. Cell(tf[q]) = tf[q].body
      BY <3>1, <3>2 DEF Owning, StateIsStored
    <3>6. QED
      BY <3>4, <3>5
  <2>4. QED
    BY <2>1, <2>2, <2>3 DEF QuietStep, Owning
<1>3. QED
  BY <1>1, <1>2

\* A step that puts one policy into the state, whose cell is filled and which no
\* other resource holds.
LEMMA RecordKeepsOwning ==
    ASSUME TranslationInv, Owning, NEW r \in Resource, NEW w \in Wanted,
           UNCHANGED <<server, config>>, ~stale',
           tf' = [tf EXCEPT ![r] = w], Cell(w) # None,
           \A q \in Resource : tf[q] # None /\ SameSlot(tf[q], w) => q = r,
           \A q \in Resource : pc[q] = "readback" /\ q # r => ~SameSlot(w, config[q]),
           \A q \in Resource : q # r => pc'[q] = pc[q],
           \/ pc'[r] = "ready" /\ Cell(w) = w.body
           \/ pc'[r] = "ok" /\ w = config[r] /\ Cell(w) = w.body
           \/ pc'[r] = pc[r] /\ pc[r] \in Ended /\ tf[r] = None
    PROVE  Owning'
<1> USE DEF Owning
<1>1. \A q \in Resource : tf'[q] = IF q = r THEN w ELSE tf[q]
  BY DEF TranslationInv, PolicyInv, TypeOK
<1>2. w # None
  BY PoliciesAssumption
<1>3. \A v : Cell(v)' = server[v.pair][InPair(v.slot, v.pair)]
  BY DEF Cell, InPair
<1>4. StateIsStored'
  <2> SUFFICES ASSUME NEW q \in Resource, tf'[q] # None
               PROVE  /\ Cell(tf'[q]) # None
                      /\ pc'[q] = "ready" => Cell(tf'[q]) = tf'[q].body
    BY <1>3 DEF StateIsStored, Cell, InPair
  <2>1. CASE q = r
    BY <1>1, <2>1 DEF Ended
  <2>2. CASE q # r
    BY <1>1, <2>2 DEF StateIsStored
  <2>3. QED
    BY <2>1, <2>2
<1>5. SlotsApart'
  BY <1>1 DEF SlotsApart, SameSlot
<1>6. PostedIsStored'
  <2> SUFFICES ASSUME NEW q \in Resource, pc'[q] = "readback"
               PROVE  /\ (Cell(config[q]) = config[q].body)'
                      /\ (tf[q] # None => SameSlot(tf[q], config[q]))'
                      /\ (\A p \in Resource :
                             tf[p] # None /\ SameSlot(tf[p], config[q]) => p = q)'
    BY DEF PostedIsStored
  <2>1. q # r /\ pc[q] = "readback"
    BY DEF Ended
  <2>2. (Cell(config[q]) = config[q].body)'
    BY <2>1 DEF PostedIsStored, Cell, InPair
  <2>3. (tf[q] # None => SameSlot(tf[q], config[q]))'
    BY <1>1, <2>1 DEF PostedIsStored, SameSlot
  <2>4. (\A p \in Resource : tf[p] # None /\ SameSlot(tf[p], config[q]) => p = q)'
    BY <1>1, <2>1 DEF PostedIsStored, SameSlot
  <2>5. QED
    BY <2>2, <2>3, <2>4
<1>7. EndedAsDeclared'
  <2> SUFFICES ASSUME NEW q \in Resource, pc'[q] = "ok", config[q] # None
               PROVE  tf'[q] = config[q] /\ Cell(config[q]) = config[q].body
    BY <1>3 DEF EndedAsDeclared, Cell, InPair
  <2>1. CASE q = r
    BY <1>1, <2>1 DEF EndedAsDeclared
  <2>2. CASE q # r
    BY <1>1, <2>2 DEF EndedAsDeclared
  <2>3. QED
    BY <2>1, <2>2
<1>8. QED
  BY <1>4, <1>5, <1>6, <1>7

\* Undisturbed, a refresh finds the policy in the state and records its body.
LEMMA ReadRecordsCell ==
    ASSUME TranslationInv, Owning, "untranslated" \notin happened', NEW r \in Resource,
           Read(r), tf[r] # None
    PROVE  tf' = [tf EXCEPT ![r] = [tf[r] EXCEPT !.body = Cell(tf[r])]]
<1>1. PICK a \in BOOLEAN :
        LET found == Find(Listed(tf[r].pair, a), tf[r].slot)
        IN  /\ MapRequest(a)
            /\ IF found = {} THEN tf' = [tf EXCEPT ![r] = None]
               ELSE \E q \in found : tf' = [tf EXCEPT ![r].body = q.body]
  BY DEF Read
<1>2. a = TRUE
  BY <1>1 DEF MapRequest
<1>3. /\ Find(Listed(tf[r].pair, TRUE), tf[r].slot) # {}
      /\ \A q \in Find(Listed(tf[r].pair, TRUE), tf[r].slot) : q.body = Cell(tf[r])
  BY KnownPolicies, LookupFindsCell DEF TranslationInv, PolicyInv, Owning, StateIsStored
<1>4. QED
  BY <1>1, <1>2, <1>3

LEMMA ReadKeepsOwning ==
    ASSUME TranslationInv, Owning, "untranslated" \notin happened', NEW r \in Resource, Read(r)
    PROVE  Owning'
<1>1. /\ pc' = [pc EXCEPT ![r] = "ready"] /\ pc[r] = "refresh"
      /\ UNCHANGED <<server, config, stale>>
  BY DEF Read
<1>2. CASE tf[r] = None
  <2>1. QuietStep
    BY <1>1, <1>2 DEF Read, QuietStep, Owning, TranslationInv, PolicyInv, TypeOK
  <2>2. QED
    BY <2>1, QuietKeepsOwning
<1>3. CASE tf[r] # None
  <2> DEFINE w == [tf[r] EXCEPT !.body = Cell(tf[r])]
  <2>1. tf' = [tf EXCEPT ![r] = w]
    BY <1>3, ReadRecordsCell
  <2>2. Cell(tf[r]) # None /\ tf[r] \in Wanted /\ HasCell(tf[r])
    BY <1>3, KnownPolicies DEF Owning, StateIsStored
  <2>3. Cell(tf[r]) \in Body
    BY <2>2 DEF Cell, HasCell, Wanted, TranslationInv, PolicyInv, TypeOK, Rules
  <2>4. w \in Wanted /\ w.pair = tf[r].pair /\ w.slot = tf[r].slot /\ w.body = Cell(tf[r])
    BY <2>2, <2>3 DEF Wanted
  <2> HIDE DEF w
  <2>5. Cell(w) = Cell(tf[r])
    BY <2>4 DEF Cell
  <2>6. \A q \in Resource : tf[q] # None /\ SameSlot(tf[q], w) => q = r
    BY <1>3, <2>4 DEF Owning, SlotsApart, SameSlot
  <2>7. \A q \in Resource : pc[q] # "readback"
    BY <1>1 DEF TranslationInv, PlanningTogether, Planning
  <2>8. pc'[r] = "ready" /\ \A q \in Resource : q # r => pc'[q] = pc[q]
    BY <1>1 DEF TranslationInv, PolicyInv, TypeOK
  <2>9. QED
    BY <1>1, <2>1, <2>2, <2>4, <2>5, <2>6, <2>7, <2>8, RecordKeepsOwning DEF Owning
<1>4. QED
  BY <1>2, <1>3

\* Undisturbed, what a create or an update has posted is read back and recorded.
LEMMA ReadBackRecordsConfig ==
    ASSUME TranslationInv, Owning, "untranslated" \notin happened', NEW r \in Resource,
           ReadBack(r)
    PROVE  /\ tf' = [tf EXCEPT ![r] = config[r]]
           /\ pc' = [pc EXCEPT ![r] = "ok"]
<1>1. PICK a \in BOOLEAN :
        LET found == Find(Listed(config[r].pair, a), config[r].slot)
        IN  /\ MapRequest(a)
            /\ \E b \in IF found = {} THEN {config[r].body} ELSE {q.body : q \in found} :
                  /\ tf' = [tf EXCEPT ![r] = [config[r] EXCEPT !.body = b]]
                  /\ pc' = [pc EXCEPT ![r] = IF b = config[r].body THEN "ok" ELSE "failed"]
  BY DEF ReadBack
<1>2. a = TRUE
  BY <1>1 DEF MapRequest
<1>3. /\ config[r] \in Wanted /\ InDefaultZones(config[r]) /\ HasCell(config[r])
      /\ Cell(config[r]) = config[r].body
  BY KnownPolicies DEF ReadBack, Owning, PostedIsStored
<1>4. \A q \in Find(Listed(config[r].pair, TRUE), config[r].slot) : q.body = config[r].body
  BY <1>3, LookupFindsCell DEF TranslationInv, PolicyInv
<1>5. PICK b : /\ b = config[r].body
               /\ tf' = [tf EXCEPT ![r] = [config[r] EXCEPT !.body = b]]
               /\ pc' = [pc EXCEPT ![r] = IF b = config[r].body THEN "ok" ELSE "failed"]
  BY <1>1, <1>2, <1>4
<1>6. [config[r] EXCEPT !.body = b] = config[r]
  BY <1>3, <1>5 DEF Wanted
<1>7. QED
  BY <1>5, <1>6

LEMMA ReadBackKeepsOwning ==
    ASSUME TranslationInv, Owning, "untranslated" \notin happened', NEW r \in Resource,
           ReadBack(r)
    PROVE  Owning'
<1> DEFINE w == config[r]
<1>1. tf' = [tf EXCEPT ![r] = w] /\ pc' = [pc EXCEPT ![r] = "ok"]
  BY ReadBackRecordsConfig
<1>2. pc[r] = "readback" /\ UNCHANGED <<server, config, stale>>
  BY DEF ReadBack
<1>3. w \in Wanted /\ w.body \in Body /\ Cell(w) = w.body
  BY <1>2, KnownPolicies DEF Owning, PostedIsStored, Wanted
<1>4. Cell(w) # None
  BY <1>3, PoliciesAssumption
<1>5. \A q \in Resource : tf[q] # None /\ SameSlot(tf[q], w) => q = r
  BY <1>2 DEF Owning, PostedIsStored
<1>6. \A q \in Resource : pc[q] = "readback" => q = r
  BY <1>2 DEF TranslationInv, PolicyInv, HoldersHoldLock
<1>7. pc'[r] = "ok" /\ \A q \in Resource : q # r => pc'[q] = pc[q]
  BY <1>1 DEF TranslationInv, PolicyInv, TypeOK
<1>8. QED
  BY <1>1, <1>2, <1>3, <1>4, <1>5, <1>6, <1>7, RecordKeepsOwning DEF Owning

LEMMA ImportKeepsOwning ==
    ASSUME TranslationInv, Owning, NEW r \in Resource, NEW p \in Pair, NEW s \in Slot,
           ImportState(r, p, s)
    PROVE  Owning'
<1>1. PICK a \in BOOLEAN : \E q \in Find(Listed(p, a), s) :
        tf' = [tf EXCEPT ![r] = [pair |-> p, slot |-> s, body |-> q.body]]
  BY DEF ImportState
<1>2. PICK q \in Find(Listed(p, a), s) :
        tf' = [tf EXCEPT ![r] = [pair |-> p, slot |-> s, body |-> q.body]]
  BY <1>1
<1> DEFINE w == [pair |-> p, slot |-> s, body |-> q.body]
<1>3. q.body \in Body /\ server[p][InPair(s, p)] # None
  <2>1. q.body \in Body
    BY FoundIsPolicy DEF TranslationInv, PolicyInv
  <2>2. server[p][InPair(s, p)] # None
    BY ImportedHasCell DEF TranslationInv, PolicyInv
  <2>3. QED
    BY <2>1, <2>2
<1>4. w \in Wanted /\ Cell(w) # None
  BY <1>3 DEF Wanted, Cell
<1>5. /\ AllEnded /\ tf[r] = None
      /\ UNCHANGED <<server, config, pc, stale>>
      /\ \A o \in Resource : tf[o] # None => ~SameSlot(tf[o], w)
  BY DEF ImportState, SameSlot
<1>6. tf' = [tf EXCEPT ![r] = w]
  BY <1>2
<1> HIDE DEF w
<1>7. pc'[r] = pc[r] /\ pc[r] \in Ended /\ \A o \in Resource : pc[o] # "readback"
  BY <1>5 DEF AllEnded, Ended
<1>8. QED
  BY <1>4, <1>5, <1>6, <1>7, RecordKeepsOwning DEF Owning

\* While a handler posts, nobody else is between a post and its end, and nobody
\* plans.
LEMMA PosterHoldsAll ==
    ASSUME TranslationInv, NEW r \in Resource, pc[r] = "post"
    PROVE  \A q \in Resource : pc[q] # "readback" /\ pc[q] # "ready"
BY DEF TranslationInv, PolicyInv, HoldersHoldLock, PlanningTogether, Planning

\* The slot a create or an update posts belongs to no other resource.
LEMMA PostedSlotIsOwn ==
    ASSUME TranslationInv, Owning, Undisturbed, NEW r \in Resource, Post(r), ~Deleting(r)
    PROVE  /\ \A q \in Resource : tf[q] # None /\ SameSlot(tf[q], config[r]) => q = r
           /\ tf[r] # None => SameSlot(tf[r], config[r])
<1>1. pc[r] = "post" /\ PostApplied(r)
  BY DEF Post
<1>2. Creating(r) \/ Updating(r)
  BY <1>1 DEF TranslationInv, PolicyInv, SubjectIsKnown
<1>3. CASE Creating(r)
  <2>1. Cell(config[r]) = None
    BY <1>1, <1>3, CreateFindsEmptyCell DEF Owning, Undisturbed
  <2>2. ASSUME NEW q \in Resource, tf[q] # None, SameSlot(tf[q], config[r]) PROVE FALSE
    <3>1. Cell(tf[q]) # None
      BY <2>2 DEF Owning, StateIsStored
    <3>2. QED
      BY <2>1, <2>2, <3>1 DEF Cell, SameSlot
  <2>3. QED
    BY <1>3, <2>2 DEF Creating
<1>4. CASE Updating(r)
  BY <1>4 DEF Updating, Owning, SlotsApart, SameSlot
<1>5. QED
  BY <1>2, <1>3, <1>4

LEMMA WriteKeepsOwning ==
    ASSUME TranslationInv, Owning, Undisturbed, NEW r \in Resource, Post(r), ~Deleting(r)
    PROVE  Owning'
<1> USE DEF Owning
<1>1. /\ pc[r] = "post" /\ PostApplied(r) /\ UNCHANGED <<tf, config, stale>>
      /\ pc' = [pc EXCEPT ![r] = "readback"]
  BY DEF Post
<1>2. Subject(r) = config[r]
  BY DEF Subject
<1>3. config[r] \in Wanted /\ InDefaultZones(config[r]) /\ HasCell(config[r])
  BY <1>1, <1>2, SubjectHasCell
<1>4. config[r].body # None
  BY <1>3, PoliciesAssumption DEF Wanted
<1>5. /\ \A q \in Resource : tf[q] # None /\ SameSlot(tf[q], config[r]) => q = r
      /\ tf[r] # None => SameSlot(tf[r], config[r])
  BY PostedSlotIsOwn
<1>6. \A q \in Resource : pc'[q] # "ready" /\ (pc'[q] = "readback" => q = r)
                          /\ (q # r => pc'[q] = pc[q])
  BY <1>1, PosterHoldsAll DEF TranslationInv, PolicyInv, TypeOK
<1>7. StateIsStored'
  <2> SUFFICES ASSUME NEW q \in Resource, tf[q] # None
               PROVE  (Cell(tf[q]) # None)'
    BY <1>1, <1>6 DEF StateIsStored
  <2>1. tf[q] \in Wanted /\ InDefaultZones(tf[q]) /\ HasCell(tf[q])
    BY KnownPolicies
  <2>2. Cell(tf[q])' = server'[tf[q].pair][InPair(tf[q].slot, tf[q].pair)]
    BY <1>1 DEF Cell, InPair
  <2> DEFINE w == tf[q]
  <2>3. server'[w.pair][InPair(w.slot, w.pair)] # None
    <3>1. /\ ~SameSlot(w, Subject(r)) =>
                server'[w.pair][InPair(w.slot, w.pair)] = Cell(w)
          /\ SameSlot(w, Subject(r)) =>
                server'[w.pair][InPair(w.slot, w.pair)] = config[r].body
      BY <1>1, <2>1, CellAfterWrite
    <3>2. Cell(w) # None
      BY DEF StateIsStored
    <3>3. QED
      BY <1>4, <3>1, <3>2
  <2>4. QED
    BY <2>2, <2>3
<1>8. SlotsApart'
  BY <1>1 DEF SlotsApart, SameSlot
<1>9. PostedIsStored'
  <2> SUFFICES ASSUME NEW q \in Resource, pc'[q] = "readback"
               PROVE  /\ (Cell(config[q]) = config[q].body)'
                      /\ (tf[q] # None => SameSlot(tf[q], config[q]))'
                      /\ (\A p \in Resource :
                             tf[p] # None /\ SameSlot(tf[p], config[q]) => p = q)'
    BY DEF PostedIsStored
  <2>1. q = r
    BY <1>6
  <2>2. server'[config[r].pair][InPair(config[r].slot, config[r].pair)] = config[r].body
    BY <1>1, <1>2, <1>3, CellAfterWrite DEF SameSlot
  <2>3. (Cell(config[q]) = config[q].body)'
    BY <1>1, <2>1, <2>2 DEF Cell, InPair
  <2>4. QED
    BY <1>1, <1>5, <2>1, <2>3 DEF SameSlot
<1>10. EndedAsDeclared'
  <2> SUFFICES ASSUME NEW q \in Resource, pc'[q] = "ok", config[q] # None
               PROVE  (tf[q] = config[q])' /\ (Cell(config[q]) = config[q].body)'
    BY <1>1 DEF EndedAsDeclared
  <2>1. q # r /\ pc[q] = "ok"
    BY <1>1, <1>6 DEF TranslationInv, PolicyInv, TypeOK
  <2>2. tf[q] = config[q] /\ Cell(config[q]) = config[q].body
    BY <2>1 DEF EndedAsDeclared
  <2>3. ~SameSlot(config[q], Subject(r))
    BY <1>2, <1>5, <2>1, <2>2
  <2>4. /\ config[q] \in Wanted /\ InDefaultZones(config[q]) /\ HasCell(config[q])
    BY <2>2, KnownPolicies
  <2>5. server'[config[q].pair][InPair(config[q].slot, config[q].pair)] = Cell(config[q])
    BY <1>1, <2>3, <2>4, CellAfterWrite
  <2>6. QED
    BY <1>1, <2>2, <2>5 DEF Cell, InPair
<1>11. QED
  BY <1>1, <1>7, <1>8, <1>9, <1>10

LEMMA DeleteKeepsOwning ==
    ASSUME TranslationInv, Owning, NEW r \in Resource, Post(r), Deleting(r)
    PROVE  Owning'
<1> USE DEF Owning
<1>1. /\ pc[r] = "post" /\ PostApplied(r) /\ UNCHANGED <<config, stale>>
      /\ tf' = [tf EXCEPT ![r] = None]
      /\ pc' = [pc EXCEPT ![r] = IF config[r] = None THEN "ok" ELSE "fetch"]
      /\ tf[r] # None
  BY DEF Post, Deleting
<1>2. Subject(r) = tf[r]
  BY DEF Subject
<1>3. \A q \in Resource : tf'[q] = IF q = r THEN None ELSE tf[q]
  BY <1>1 DEF TranslationInv, PolicyInv, TypeOK
<1>4. \A q \in Resource : pc'[q] # "ready" /\ pc'[q] # "readback"
                          /\ (q # r => pc'[q] = pc[q])
  BY <1>1, PosterHoldsAll DEF TranslationInv, PolicyInv, TypeOK
<1>5. ASSUME NEW q \in Resource, q # r, tf[q] # None
      PROVE  server'[tf[q].pair][InPair(tf[q].slot, tf[q].pair)] = Cell(tf[q])
  <2>1. tf[q] \in Wanted /\ InDefaultZones(tf[q]) /\ HasCell(tf[q])
    BY <1>5, KnownPolicies
  <2>2. ~SameSlot(tf[q], Subject(r))
    BY <1>1, <1>2, <1>5 DEF SlotsApart
  <2>3. QED
    BY <1>1, <2>1, <2>2, CellAfterWrite
<1>6. StateIsStored'
  <2> SUFFICES ASSUME NEW q \in Resource, tf'[q] # None
               PROVE  (Cell(tf[q]) # None)'
    BY <1>4 DEF StateIsStored
  <2>1. q # r /\ tf'[q] = tf[q] /\ tf[q] # None
    BY <1>3
  <2>2. Cell(tf[q]) # None
    BY <2>1 DEF StateIsStored
  <2>3. QED
    BY <1>5, <2>1, <2>2 DEF Cell, InPair
<1>7. SlotsApart'
  BY <1>3 DEF SlotsApart, SameSlot
<1>8. PostedIsStored'
  BY <1>4 DEF PostedIsStored
<1>9. EndedAsDeclared'
  <2> SUFFICES ASSUME NEW q \in Resource, pc'[q] = "ok", config[q] # None
               PROVE  (tf[q] = config[q])' /\ (Cell(config[q]) = config[q].body)'
    BY <1>1 DEF EndedAsDeclared
  <2>1. q # r /\ pc[q] = "ok"
    BY <1>1, <1>4 DEF TranslationInv, PolicyInv, TypeOK
  <2>2. tf[q] = config[q] /\ Cell(config[q]) = config[q].body
    BY <2>1 DEF EndedAsDeclared
  <2>3. server'[config[q].pair][InPair(config[q].slot, config[q].pair)] = Cell(config[q])
    BY <1>5, <2>1, <2>2
  <2>4. QED
    BY <1>1, <1>3, <2>1, <2>2, <2>3 DEF Cell, InPair
<1>10. QED
  BY <1>1, <1>6, <1>7, <1>8, <1>9

LEMMA OwningStep == OwnInv /\ Undisturbed' /\ [Next]_vars => Owning'
<1> SUFFICES ASSUME OwnInv, Undisturbed', [Next]_vars PROVE Owning'
  OBVIOUS
<1>1. /\ Undisturbed /\ "untranslated" \notin happened'
      /\ ~UIEdit /\ \A r \in Resource : ~PostLost(r)
  BY HappenedGrows DEF Undisturbed, UIEdit, PostLost
<1>2. TranslationInv /\ Owning /\ ~stale
  BY <1>1 DEF OwnInv, Owning
<1>3. CASE StartRun \/ EndPlanning
  BY <1>2, <1>3, TerraformIsQuiet, QuietKeepsOwning
<1>4. ASSUME NEW r \in Resource, Handler(r) \/ RequestFails(r) PROVE Owning'
  <2>1. CASE Duplicate(r) \/ Fetch(r) \/ Untranslated(r) \/ RequestFails(r)
    BY <1>2, <2>1, HandlerIsQuiet, QuietKeepsOwning
  <2>2. CASE Read(r)
    BY <1>1, <1>2, <2>2, ReadKeepsOwning
  <2>3. CASE Post(r)
    BY <1>1, <1>2, <2>3, WriteKeepsOwning, DeleteKeepsOwning
  <2>4. CASE ReadBack(r)
    BY <1>1, <1>2, <2>4, ReadBackKeepsOwning
  <2>5. QED
    BY <1>4, <2>1, <2>2, <2>3, <2>4 DEF Handler
<1>5. ASSUME NEW r \in Resource, NEW p \in Pair, NEW s \in Slot, ImportState(r, p, s)
      PROVE  Owning'
  BY <1>2, <1>5, ImportKeepsOwning
<1>6. CASE Rest \/ UNCHANGED vars
  <2>1. QuietStep
    BY <1>2, <1>6 DEF Rest, vars, budgets, QuietStep
  <2>2. QED
    BY <1>2, <2>1, QuietKeepsOwning
<1>7. QED
  BY <1>1, <1>3, <1>4, <1>5, <1>6 DEF Next

LEMMA OwnInvariant == Spec => []OwnInv
<1>1. Init => OwnInv
  <2>1. Init => Owning
    BY DEF Init, Owning, StateIsStored, SlotsApart, PostedIsStored, EndedAsDeclared
  <2>2. Init => TranslationInv
    BY PolicyInit DEF Init, TranslationInv, StateIsTranslatable, SnapIsTranslated,
          CreateHasNoConflict, PlanningTogether, Planning
  <2>3. QED
    BY <2>1, <2>2 DEF OwnInv
<1>2. OwnInv /\ [Next]_vars => OwnInv'
  <2>1. TranslationInv /\ [Next]_vars => TranslationInv'
    BY PolicyStep, TranslatableStep, TranslatedStep, PlanningStep DEF TranslationInv
  <2>2. QED
    BY <2>1, OwningStep DEF OwnInv
<1>3. QED
  BY <1>1, <1>2, PTL DEF Spec

\* No slot has two owners: of two blocks that declare one slot, at most one
\* gets it, whichever handlers are faster and whatever requests fail.
THEOREM NoSlotIsShared == Spec => []NoSharedSlot
<1>1. OwnInv => NoSharedSlot
  BY DEF OwnInv, Owning, SlotsApart, NoSharedSlot
<1>2. QED
  BY <1>1, OwnInvariant, PTL

\* What a run reports as applied is in the Orchestrator as declared, in the
\* zones of the VRFs of its pair, although later handlers of the run have each
\* replaced the whole set of the pair.
THEOREM AppliedPoliciesAreStored == Spec => []AppliedIsStored
<1>1. OwnInv => AppliedIsStored
  BY DEF OwnInv, Owning, EndedAsDeclared, AppliedIsStored, Cell
<1>2. QED
  BY <1>1, OwnInvariant, PTL

-----------------------------------------------------------------------------
(* The whole set of a pair as a keyed store. *)

\* The keys the resources own, for a Terraform state.
OwnerOf(state) == [r \in Resource |-> IF state[r] = None THEN None ELSE Target(state[r])]

\* The table of the rules has a key for each cell that is filled.
LEMMA KeysOfCells ==
    ASSUME NEW rules, NEW p \in Pair, NEW s \in Slot
    PROVE  /\ <<p, s>> \in DOMAIN Cells(rules) <=> rules[p][s] # None
           /\ rules[p][s] # None => Cells(rules)[<<p, s>>] = rules[p][s]
BY DEF Cells

\* A step that changes one cell binds its key, or removes it.
LEMMA CellsAfterWrite ==
    ASSUME NEW old, NEW new, NEW p \in Pair, NEW s \in Slot,
           \A q \in Pair, t \in Slot : q # p \/ t # s => new[q][t] = old[q][t]
    PROVE  /\ new[p][s] # None => Cells(new) = Store!Bind(Cells(old), <<p, s>>, new[p][s])
           /\ new[p][s] = None => Cells(new) = Store!Unbind(Cells(old), <<p, s>>)
<1> DEFINE k == <<p, s>>
           Keys(rules) == {x \in Pair \X Slot : rules[x[1]][x[2]] # None}
<1>1. \A rules : DOMAIN Cells(rules) = Keys(rules)
  BY DEF Cells
<1>2. \A rules : \A x \in Keys(rules) : Cells(rules)[x] = rules[x[1]][x[2]]
  BY DEF Cells
<1>3. \A x \in Pair \X Slot : x # k => new[x[1]][x[2]] = old[x[1]][x[2]]
  OBVIOUS
<1>4. \A x \in Pair \X Slot : x # k => (x \in Keys(new) <=> x \in Keys(old))
  BY <1>3
<1>5. CASE new[p][s] # None
  <2>1. Keys(new) = Keys(old) \cup {k}
    BY <1>4, <1>5
  <2>2. \A x \in Keys(new) :
           Cells(new)[x] = IF x = k THEN new[p][s] ELSE Cells(old)[x]
    BY <1>2, <1>3, <1>4
  <2>3. Cells(new) = [x \in Keys(new) |-> IF x = k THEN new[p][s] ELSE Cells(old)[x]]
    BY <1>1, <2>2 DEF Cells
  <2>4. QED
    BY <1>1, <1>5, <2>1, <2>3 DEF Store!Bind
<1>6. CASE new[p][s] = None
  <2>1. Keys(new) = Keys(old) \ {k}
    BY <1>4, <1>6
  <2>2. \A x \in Keys(new) : Cells(new)[x] = Cells(old)[x]
    BY <1>2, <1>3, <1>4, <2>1
  <2>3. Cells(new) = [x \in Keys(new) |-> Cells(old)[x]]
    BY <1>1, <2>2 DEF Cells
  <2>4. QED
    BY <1>1, <1>6, <2>1, <2>3 DEF Store!Unbind, Store!Restrict
<1>7. QED
  BY <1>5, <1>6

\* Undisturbed, a post changes no cell but that of the policy it is about, and
\* does there what its handler is for.
LEMMA OneCellWritten ==
    ASSUME TranslationInv, Owning, Undisturbed, NEW r \in Resource, pc[r] = "post",
           PostApplied(r)
    PROVE  LET p == Subject(r).pair
               s == InPair(Subject(r).slot, p)
           IN  /\ p \in Pair /\ s \in Slot
               /\ \A q \in Pair, t \in Slot : q # p \/ t # s => server'[q][t] = server[q][t]
               /\ ~Deleting(r) => server'[p][s] = config[r].body
               /\ Deleting(r) => server'[p][s] = None
<1> DEFINE v == Subject(r)
           p == v.pair
           s == InPair(v.slot, p)
<1>1. p \in Pair /\ s \in Slot
  BY SubjectHasCell DEF Wanted, HasCell
<1>2. server \in [Pair -> Rules] /\ PolicyInv
  BY DEF TranslationInv, PolicyInv, TypeOK
<1>3. server' = [server EXCEPT ![p] = Payload(Posting(r), p)]
  BY DEF PostApplied
<1>4. ASSUME NEW q \in Pair, NEW t \in Slot, q # p \/ t # s
      PROVE  server'[q][t] = server[q][t]
  <2>1. t # s => Payload(Posting(r), p)[t] = server[p][t]
    BY <1>2, OthersGoBack DEF Owning
  <2>2. QED
    BY <1>2, <1>3, <1>4, <2>1
<1>5. /\ ~Deleting(r) => Payload(Posting(r), p)[s] = config[r].body
      /\ Deleting(r) => Payload(Posting(r), p)[s] = None
  BY PostedCell DEF Undisturbed
<1>6. server'[p] = Payload(Posting(r), p)
  BY <1>1, <1>2, <1>3
<1>7. QED
  BY <1>1, <1>4, <1>5, <1>6

\* A policy that no resource has in its state occupies a cell nobody owns.
LEMMA NobodyOwns ==
    ASSUME TranslationInv, NEW w \in Wanted, InDefaultZones(w), HasCell(w),
           \A q \in Resource : tf[q] # None => ~SameSlot(tf[q], w)
    PROVE  \A q \in Resource : OwnerOf(tf)[q] # Target(w)
<1> SUFFICES ASSUME NEW q \in Resource, OwnerOf(tf)[q] = Target(w) PROVE FALSE
  OBVIOUS
<1>1. Target(w) \in Pair \X Slot
  BY DEF Target, Wanted, HasCell
<1>2. tf[q] # None /\ Target(tf[q]) = Target(w)
  BY <1>1, PoliciesAssumption DEF OwnerOf
<1>3. tf[q] \in Wanted /\ InDefaultZones(tf[q]) /\ HasCell(tf[q])
  BY <1>2, KnownPolicies
<1>4. tf[q].pair = w.pair /\ InPair(tf[q].slot, tf[q].pair) = InPair(w.slot, w.pair)
  BY <1>2 DEF Target
<1>5. SameSlot(tf[q], w)
  BY <1>3, <1>4, OneSlotPerCell
<1>6. QED
  BY <1>2, <1>5

\* A step that takes a filled cell into an empty state adopts its key.
LEMMA RecordAdopts ==
    ASSUME TranslationInv, NEW r \in Resource, NEW w \in Wanted, InDefaultZones(w),
           HasCell(w), Cell(w) # None, tf[r] = None,
           \A q \in Resource : tf[q] # None => ~SameSlot(tf[q], w),
           server' = server, tf' = [tf EXCEPT ![r] = w]
    PROVE  Store!StoreNext
<1> DEFINE k == Target(w)
<1>1. \A q \in Resource : OwnerOf(tf)[q] # k
  BY NobodyOwns
<1>2. OwnerOf(tf') = [OwnerOf(tf) EXCEPT ![r] = k]
  <2>1. w # None
    BY PoliciesAssumption
  <2>2. \A q \in Resource : tf'[q] = IF q = r THEN w ELSE tf[q]
    BY DEF TranslationInv, PolicyInv, TypeOK
  <2>3. \A q \in Resource : (IF tf'[q] = None THEN None ELSE Target(tf'[q]))
                               = IF q = r THEN k ELSE OwnerOf(tf)[q]
    BY <2>1, <2>2 DEF OwnerOf
  <2>4. OwnerOf(tf') = [q \in Resource |-> IF q = r THEN k ELSE OwnerOf(tf)[q]]
    BY <2>3 DEF OwnerOf
  <2>5. QED
    BY <2>4 DEF OwnerOf
<1>3. OwnerOf(tf)[r] = None
  BY DEF OwnerOf
<1>4. k \in DOMAIN Cells(server)
  <2>1. w.pair \in Pair /\ InPair(w.slot, w.pair) \in Slot
    BY DEF Wanted, HasCell
  <2>2. QED
    BY <2>1, KeysOfCells DEF Target, Cell
<1> HIDE DEF k
<1>5. Cells(server)' = Cells(server)
  BY DEF Cells
<1>6. QED
  BY <1>1, <1>2, <1>3, <1>4, <1>5 DEF Store!StoreNext, Store!Adopt, Store!Owned, OwnerOf

\* A step that leaves the cells and the slots in the states alone is a stutter.
LEMMA QuietStutters ==
    ASSUME Undisturbed, Undisturbed', server' = server, OwnerOf(tf') = OwnerOf(tf)
    PROVE  UNCHANGED Store!storeVars
BY DEF Store!storeVars, OwnerOf

LEMMA ReadStutters ==
    ASSUME TranslationInv, Owning, Undisturbed, Undisturbed', NEW r \in Resource,
           Read(r)
    PROVE  UNCHANGED Store!storeVars
<1>1. server' = server /\ "untranslated" \notin happened'
  BY DEF Read, Undisturbed
<1>2. OwnerOf(tf') = OwnerOf(tf)
  <2>1. CASE tf[r] = None
    BY <2>1 DEF Read
  <2>2. CASE tf[r] # None
    <3> DEFINE w == [tf[r] EXCEPT !.body = Cell(tf[r])]
    <3>1. tf' = [tf EXCEPT ![r] = w]
      BY <1>1, <2>2, ReadRecordsCell
    <3>2. tf[r] \in Wanted /\ HasCell(tf[r]) /\ Cell(tf[r]) # None
      BY <2>2, KnownPolicies DEF Owning, StateIsStored
    <3>3. Cell(tf[r]) \in Body
      BY <3>2 DEF Cell, HasCell, Wanted, TranslationInv, PolicyInv, TypeOK, Rules
    <3>4. w \in Wanted /\ w.pair = tf[r].pair /\ w.slot = tf[r].slot
      BY <3>2, <3>3 DEF Wanted
    <3> HIDE DEF w
    <3>5. w # None /\ Target(w) = Target(tf[r])
      BY <3>4, PoliciesAssumption DEF Target
    <3>6. \A q \in Resource : tf'[q] = IF q = r THEN w ELSE tf[q]
      BY <3>1 DEF TranslationInv, PolicyInv, TypeOK
    <3>7. \A q \in Resource : (IF tf'[q] = None THEN None ELSE Target(tf'[q]))
                                = (IF tf[q] = None THEN None ELSE Target(tf[q]))
      BY <2>2, <3>5, <3>6
    <3>8. QED
      BY <3>7 DEF OwnerOf
  <2>3. QED
    BY <2>1, <2>2
<1>3. QED
  BY <1>1, <1>2, QuietStutters

\* The post of a create adds a rule, that of an update changes the owned one.
LEMMA WriteAddsOrChanges ==
    ASSUME TranslationInv, Owning, Undisturbed, NEW r \in Resource, Post(r), ~Deleting(r)
    PROVE  Store!StoreNext
<1> DEFINE v == config[r]
           p == v.pair
           s == InPair(v.slot, v.pair)
           k == <<p, s>>
<1>1. /\ pc[r] = "post" /\ PostApplied(r) /\ tf' = tf /\ Subject(r) = v
      /\ Creating(r) \/ Updating(r)
  BY DEF Post, Subject, TranslationInv, PolicyInv, SubjectIsKnown
<1>2. /\ p \in Pair /\ s \in Slot
      /\ \A q \in Pair, t \in Slot : q # p \/ t # s => server'[q][t] = server[q][t]
      /\ server'[p][s] = v.body
  BY <1>1, OneCellWritten
<1>3. v.body # None
  BY <1>1, SubjectHasCell, PoliciesAssumption DEF Wanted
<1> HIDE DEF v, p, s
<1>4. /\ Cells(server') = Store!Bind(Cells(server), k, server'[p][s])
      /\ k \in DOMAIN Cells(server') /\ Cells(server')[k] = server'[p][s]
  <2>1. server'[p][s] # None
    BY <1>2, <1>3
  <2>2. Cells(server') = Store!Bind(Cells(server), k, server'[p][s])
    BY <1>2, <2>1, CellsAfterWrite
  <2>3. k \in DOMAIN Cells(server') /\ Cells(server')[k] = server'[p][s]
    BY <1>2, <2>1, KeysOfCells
  <2>4. QED
    BY <2>2, <2>3
<1>5. Cells(server)' = Cells(server')
  BY DEF Cells
<1>6. CASE Creating(r)
  <2>1. Cell(config[r]) = None
    BY <1>1, <1>6, CreateFindsEmptyCell DEF Owning, Undisturbed
  <2>2. k \notin DOMAIN Cells(server)
    BY <1>2, <2>1, KeysOfCells DEF Cell, p, s, v
  <2>3. QED
    BY <1>1, <1>4, <1>5, <2>2 DEF Store!StoreNext, Store!Add, Store!Stores
<1>7. CASE Updating(r)
  <2>1. tf[r] # None /\ SameSlot(tf[r], config[r]) /\ Cell(tf[r]) # None
    BY <1>7 DEF Updating, Owning, StateIsStored
  <2>2. OwnerOf(tf)[r] = k
    BY <2>1 DEF OwnerOf, Target, SameSlot, p, s, v
  <2>3. k \in DOMAIN Cells(server)
    BY <1>2, <2>1, KeysOfCells DEF Cell, SameSlot, p, s, v
  <2>4. Cells(server') = [Cells(server) EXCEPT ![k] = Cells(server')[k]]
    <3> DEFINE old == Cells(server)
    <3>1. old = [x \in DOMAIN old |-> old[x]]
      BY DEF Cells
    <3>2. DOMAIN old \cup {k} = DOMAIN old
      BY <2>3
    <3>3. Cells(server') = [x \in DOMAIN old |-> IF x = k THEN Cells(server')[k] ELSE old[x]]
      BY <1>4, <3>2 DEF Store!Bind
    <3> HIDE DEF old
    <3>4. [old EXCEPT ![k] = Cells(server')[k]]
             = [x \in DOMAIN old |-> IF x = k THEN Cells(server')[k] ELSE old[x]]
      BY <3>1
    <3>5. QED
      BY <3>3, <3>4 DEF old
  <2>5. QED
    BY <1>1, <1>4, <1>5, <2>2, <2>3, <2>4 DEF Store!StoreNext, Store!Change, OwnerOf
<1>8. QED
  BY <1>1, <1>6, <1>7

\* The post of a delete drops the owned rule.
LEMMA DeleteDrops ==
    ASSUME TranslationInv, Owning, Undisturbed, NEW r \in Resource, Post(r), Deleting(r)
    PROVE  Store!StoreNext
<1> DEFINE v == tf[r]
           p == v.pair
           s == InPair(v.slot, v.pair)
           k == <<p, s>>
<1>1. /\ pc[r] = "post" /\ PostApplied(r) /\ tf' = [tf EXCEPT ![r] = None]
      /\ Subject(r) = v /\ tf[r] # None
  BY DEF Post, Subject, Deleting
<1>2. /\ p \in Pair /\ s \in Slot
      /\ \A q \in Pair, t \in Slot : q # p \/ t # s => server'[q][t] = server[q][t]
      /\ server'[p][s] = None
  BY <1>1, OneCellWritten
<1>3. OwnerOf(tf)[r] = k
  BY <1>1 DEF OwnerOf, Target
<1>4. k \in DOMAIN Cells(server)
  BY <1>1, <1>2, KeysOfCells DEF Owning, StateIsStored, Cell
<1>5. OwnerOf(tf') = [OwnerOf(tf) EXCEPT ![r] = None]
  <2>1. \A q \in Resource : tf'[q] = IF q = r THEN None ELSE tf[q]
    BY <1>1 DEF TranslationInv, PolicyInv, TypeOK
  <2>2. \A q \in Resource : (IF tf'[q] = None THEN None ELSE Target(tf'[q]))
                               = IF q = r THEN None ELSE OwnerOf(tf)[q]
    BY <2>1 DEF OwnerOf
  <2>3. OwnerOf(tf') = [q \in Resource |-> IF q = r THEN None ELSE OwnerOf(tf)[q]]
    BY <2>2 DEF OwnerOf
  <2>4. QED
    BY <2>3 DEF OwnerOf
<1> HIDE DEF v, p, s
<1>6. Cells(server') = Store!Unbind(Cells(server), k)
  BY <1>2, CellsAfterWrite
<1>7. Cells(server)' = Cells(server')
  BY DEF Cells
<1>8. QED
  BY <1>3, <1>4, <1>5, <1>6, <1>7 DEF Store!StoreNext, Store!Drop, OwnerOf

\* The read after a create takes the rule over, that after an update changes
\* nothing.
LEMMA ReadBackAdopts ==
    ASSUME TranslationInv, Owning, Undisturbed, Undisturbed', NEW r \in Resource,
           ReadBack(r)
    PROVE  Store!StoreNext \/ UNCHANGED Store!storeVars
<1>1. /\ "untranslated" \notin happened' /\ server' = server
      /\ pc[r] = "readback"
  BY DEF Undisturbed, ReadBack
<1>2. tf' = [tf EXCEPT ![r] = config[r]]
  BY <1>1, ReadBackRecordsConfig
<1>3. /\ config[r] \in Wanted /\ InDefaultZones(config[r]) /\ HasCell(config[r])
      /\ config[r] # None
  BY <1>1, KnownPolicies
<1>4. Cell(config[r]) # None
  BY <1>1, <1>3, PoliciesAssumption DEF Owning, PostedIsStored, Wanted
<1>5. /\ tf[r] # None => SameSlot(tf[r], config[r])
      /\ \A q \in Resource : tf[q] # None /\ SameSlot(tf[q], config[r]) => q = r
  BY <1>1 DEF Owning, PostedIsStored
<1>6. CASE tf[r] = None
  <2>1. \A q \in Resource : tf[q] # None => ~SameSlot(tf[q], config[r])
    BY <1>5, <1>6
  <2>2. QED
    BY <1>1, <1>2, <1>3, <1>4, <1>6, <2>1, RecordAdopts
<1>7. CASE tf[r] # None
  <2>1. Target(config[r]) = Target(tf[r])
    BY <1>5, <1>7 DEF Target, SameSlot
  <2>2. \A q \in Resource : tf'[q] = IF q = r THEN config[r] ELSE tf[q]
    BY <1>2 DEF TranslationInv, PolicyInv, TypeOK
  <2>3. \A q \in Resource : (IF tf'[q] = None THEN None ELSE Target(tf'[q]))
                              = (IF tf[q] = None THEN None ELSE Target(tf[q]))
    BY <1>3, <1>7, <2>1, <2>2
  <2>4. OwnerOf(tf') = OwnerOf(tf)
    BY <2>3 DEF OwnerOf
  <2>5. QED
    BY <1>1, <2>4, QuietStutters
<1>8. QED
  BY <1>6, <1>7

LEMMA ImportAdopts ==
    ASSUME TranslationInv, NEW r \in Resource, NEW p \in Pair, NEW s \in Slot,
           ImportState(r, p, s)
    PROVE  Store!StoreNext
<1>1. PICK a \in BOOLEAN : \E q \in Find(Listed(p, a), s) :
        tf' = [tf EXCEPT ![r] = [pair |-> p, slot |-> s, body |-> q.body]]
  BY DEF ImportState
<1>2. PICK q \in Find(Listed(p, a), s) :
        tf' = [tf EXCEPT ![r] = [pair |-> p, slot |-> s, body |-> q.body]]
  BY <1>1
<1> DEFINE w == [pair |-> p, slot |-> s, body |-> q.body]
<1>3. q.body \in Body
  BY FoundIsPolicy DEF TranslationInv, PolicyInv
<1>4. InPair(s, p) \in Slot /\ server[p][InPair(s, p)] # None
  BY ImportedHasCell DEF TranslationInv, PolicyInv
<1>5. ZoneOf(s.src, DefaultVRF) /\ ZoneOf(s.dst, DefaultVRF)
  BY DEF ImportState
<1>6. w \in Wanted /\ InDefaultZones(w) /\ HasCell(w) /\ Cell(w) # None
  BY <1>3, <1>4, <1>5 DEF Wanted, InDefaultZones, HasCell, Cell
<1>7. /\ tf[r] = None /\ server' = server
      /\ \A o \in Resource : tf[o] # None => ~SameSlot(tf[o], w)
  BY DEF ImportState, SameSlot
<1>8. tf' = [tf EXCEPT ![r] = w]
  BY <1>2
<1> HIDE DEF w
<1>9. QED
  BY <1>6, <1>7, <1>8, RecordAdopts

\* Undisturbed, each step is one of the keyed store, or none.
LEMMA StoreStep ==
    ASSUME OwnInv, Undisturbed', [Next]_vars
    PROVE  Store!StoreNext \/ UNCHANGED Store!storeVars
<1>1. /\ Undisturbed /\ ~UIEdit /\ \A r \in Resource : ~PostLost(r)
  BY HappenedGrows DEF Undisturbed, UIEdit, PostLost
<1>2. TranslationInv /\ Owning
  BY <1>1 DEF OwnInv
<1>3. CASE server' = server /\ tf' = tf
  BY <1>1, <1>3, QuietStutters
<1>4. CASE StartRun \/ EndPlanning \/ Rest \/ UNCHANGED vars
  BY <1>3, <1>4 DEF StartRun, EndPlanning, Rest, vars
<1>5. ASSUME NEW r \in Resource, Handler(r) \/ RequestFails(r)
      PROVE  Store!StoreNext \/ UNCHANGED Store!storeVars
  <2>1. CASE Duplicate(r) \/ Fetch(r) \/ Untranslated(r) \/ RequestFails(r)
    BY <1>2, <1>3, <2>1, HandlerIsQuiet DEF QuietStep, Owning
  <2>2. CASE Read(r)
    BY <1>1, <1>2, <2>2, ReadStutters
  <2>3. CASE Post(r)
    BY <1>1, <1>2, <2>3, WriteAddsOrChanges, DeleteDrops
  <2>4. CASE ReadBack(r)
    BY <1>1, <1>2, <2>4, ReadBackAdopts
  <2>5. QED
    BY <1>5, <2>1, <2>2, <2>3, <2>4 DEF Handler
<1>6. ASSUME NEW r \in Resource, NEW p \in Pair, NEW s \in Slot, ImportState(r, p, s)
      PROVE  Store!StoreNext
  BY <1>2, <1>6, ImportAdopts
<1>7. QED
  BY <1>1, <1>4, <1>5, <1>6 DEF Next

\* Posting the whole set of a pair, in IDs translated there and back, implements
\* a store in which an operation touches the rule of its resource only, until
\* an answer is lost, a mapping request fails or the UI is used.
THEOREM PoliciesImplementKeyedStore == Spec => ImplementsKeyedStore
<1>1. Init => Store!StoreInit
  BY DEF Init, Store!StoreInit, Undisturbed
<1>2. OwnInv /\ [Next]_vars => [Store!StoreNext]_(Store!storeVars)
  <2>1. ~Undisturbed' => Store!StoreNext
    BY DEF Store!StoreNext
  <2>2. QED
    BY <2>1, StoreStep
<1>3. QED
  BY <1>1, <1>2, OwnInvariant, PTL DEF Spec, ImplementsKeyedStore, Store!StoreSpec

-----------------------------------------------------------------------------
(* What the end of every handler rests on. *)

\* The mutex is held by a handler that has a request to send under it: no path
\* through a handler, and no failure, leaves it locked.
LockIsHeld == lock # Free => pc[lock] \in {"post", "readback"}

\* Nothing that another handler does or waits for stops r where it is.
CanMove(r) == pc[r] \in {"refresh", "post", "readback"} \/ (pc[r] = "fetch" /\ lock = Free)

\* As long as a handler has not ended, one can move, or planning is over.
NobodyIsStuck ==
    (\E r \in Resource : pc[r] \notin Ended) =>
        \/ \E r \in Resource : CanMove(r)
        \/ \A r \in Resource : pc[r] \in {"ready", "refused"}

\* How many steps the handler of r takes at most until the run is over.
StepsLeft(r) ==
    IF pc[r] = "refresh" THEN 7
    ELSE IF pc[r] \in {"ready", "refused"} THEN 6
    ELSE IF pc[r] = "fetch" THEN IF Deleting(r) THEN 5 ELSE 3
    ELSE IF pc[r] = "post" THEN IF Deleting(r) THEN 4 ELSE 2
    ELSE IF pc[r] = "readback" THEN 1 ELSE 0

\* Until the next run is started, no step moves a handler back.
HandlersAdvance ==
    [][runs' = runs =>
         \A r \in Resource : /\ StepsLeft(r)' <= StepsLeft(r)
                             /\ pc'[r] # pc[r] => StepsLeft(r)' < StepsLeft(r)]_vars

LEMMA LockIsHeldStep == PolicyInv /\ LockIsHeld /\ [Next]_vars => LockIsHeld'
<1> SUFFICES ASSUME PolicyInv, LockIsHeld, [Next]_vars, lock' # Free
             PROVE  pc'[lock'] \in {"post", "readback"}
  BY DEF LockIsHeld
<1> USE DEF PolicyInv, TypeOK, HoldersHoldLock, LockIsHeld
<1>1. CASE StartRun
  BY <1>1 DEF StartRun, AllEnded, Ended
<1>2. CASE EndPlanning
  BY <1>2 DEF EndPlanning
<1>3. ASSUME NEW r \in Resource, Handler(r) \/ PostLost(r) \/ RequestFails(r)
      PROVE  pc'[lock'] \in {"post", "readback"}
  <2>1. CASE Read(r)
    BY <2>1 DEF Read
  <2>2. CASE Duplicate(r)
    BY <2>2 DEF Duplicate
  <2>3. CASE Fetch(r)
    BY <2>3 DEF Fetch
  <2>4. CASE Post(r)
    BY <2>4 DEF Post
  <2>5. CASE Untranslated(r) \/ ReadBack(r) \/ PostLost(r)
    BY <2>5 DEF Untranslated, ReadBack, PostLost
  <2>6. CASE RequestFails(r)
    BY <2>6 DEF RequestFails
  <2>7. QED
    BY <1>3, <2>1, <2>2, <2>3, <2>4, <2>5, <2>6 DEF Handler
<1>4. ASSUME NEW r \in Resource, NEW p \in Pair, NEW s \in Slot, ImportState(r, p, s)
      PROVE  pc'[lock'] \in {"post", "readback"}
  BY <1>4 DEF ImportState
<1>5. CASE UIEdit \/ Rest \/ UNCHANGED vars
  BY <1>5 DEF UIEdit, Rest, vars
<1>6. QED
  BY <1>1, <1>2, <1>3, <1>4, <1>5 DEF Next

\* A handler that waits for policyMu waits for one that can send its next
\* request, whatever has failed before; so a run only stops at its end.
THEOREM PolicyHandlersAreNotStuck == Spec => []NobodyIsStuck
<1>1. Init => LockIsHeld
  BY DEF Init, LockIsHeld
<1>2. TranslationInv /\ LockIsHeld => NobodyIsStuck
  <2> SUFFICES ASSUME TranslationInv, LockIsHeld, NEW r \in Resource, pc[r] \notin Ended
               PROVE  \/ \E q \in Resource : CanMove(q)
                      \/ \A q \in Resource : pc[q] \in {"ready", "refused"}
    BY DEF NobodyIsStuck
  <2>1. pc[r] \in Planning \cup Applying /\ lock \in Resource \cup {Free}
    BY DEF TranslationInv, PolicyInv, TypeOK
  <2>2. CASE pc[r] \in Planning
    BY <2>2 DEF TranslationInv, PlanningTogether, Planning, CanMove
  <2>3. CASE pc[r] \in Applying /\ lock = Free
    BY <2>3 DEF Applying, CanMove
  <2>4. CASE lock # Free
    BY <2>1, <2>4 DEF LockIsHeld, CanMove
  <2>5. QED
    BY <2>1, <2>2, <2>3, <2>4
<1>3. Spec => []LockIsHeld
  BY <1>1, LockIsHeldStep, PolicyInvariant, PTL DEF Spec
<1>4. QED
  BY <1>2, <1>3, TranslationInvariant, PTL

\* Each step of a handler brings its end closer and no step takes it farther
\* away, so a run is over after at most seven steps of each block, failures
\* and replacements included.
THEOREM PolicyHandlersAdvance == Spec => HandlersAdvance
<1> DEFINE Advances(q) == /\ StepsLeft(q)' <= StepsLeft(q)
                          /\ pc'[q] # pc[q] => StepsLeft(q)' < StepsLeft(q)
<1>1. ASSUME PolicyInv, [Next]_vars, runs' = runs, NEW q \in Resource
      PROVE  Advances(q)
  <2> USE DEF PolicyInv, TypeOK
  <2>0. ASSUME pc[q] \in Planning \cup Applying, pc'[q] \in Ended PROVE Advances(q)
    <3>1. StepsLeft(q)' = 0 /\ StepsLeft(q) \in 1..7
      BY <2>0 DEF StepsLeft, Planning, Applying, Ended
    <3>2. QED
      BY <3>1
  <2>1. ASSUME pc'[q] = pc[q], tf'[q] = tf[q] \/ pc[q] \in {"ready", "refused"} \cup Ended, config' = config
        PROVE  Advances(q)
    BY <2>1 DEF StepsLeft, Deleting, SameSlot, Ended
  <2>2. ~StartRun
    BY <1>1 DEF StartRun
  <2>3. CASE EndPlanning
    BY <2>3 DEF EndPlanning, StepsLeft
  <2>4. ASSUME NEW r \in Resource, Handler(r) \/ PostLost(r) \/ RequestFails(r)
        PROVE  Advances(q)
    <3>1. CASE q # r
      <4>1. CASE Read(r) \/ ReadBack(r) \/ Post(r)
        <5>1. /\ \E l : pc' = [pc EXCEPT ![r] = l]
              /\ tf' = tf \/ \E w : tf' = [tf EXCEPT ![r] = w]
              /\ config' = config
          BY <4>1 DEF Read, ReadBack, Post
        <5>2. pc'[q] = pc[q] /\ tf'[q] = tf[q]
          BY <1>1, <3>1, <5>1
        <5>3. QED
          BY <2>1, <5>1, <5>2
      <4>2. CASE Fetch(r)
        <5>1. /\ \E l : pc' = [pc EXCEPT ![r] = l]
              /\ UNCHANGED <<tf, config>>
          BY <4>2 DEF Fetch
        <5>2. pc'[q] = pc[q]
          BY <3>1, <5>1
        <5>3. QED
          BY <2>1, <5>1, <5>2
      <4>3. CASE Duplicate(r) \/ Untranslated(r) \/ PostLost(r) \/ RequestFails(r)
        <5>1. pc'[q] = pc[q] /\ UNCHANGED <<tf, config>>
          BY <1>1, <3>1, <4>3 DEF Duplicate, Untranslated, PostLost, RequestFails
        <5>2. QED
          BY <2>1, <5>1
      <4>4. QED
        BY <2>4, <4>1, <4>2, <4>3 DEF Handler
    <3>2. CASE q = r /\ Read(r)
      <4>1. pc[q] = "refresh" /\ pc'[q] = "ready"
        BY <1>1, <3>2 DEF Read
      <4>2. StepsLeft(q) = 7 /\ StepsLeft(q)' = 6
        BY <4>1 DEF StepsLeft
      <4>3. QED
        BY <4>2
    <3>3. CASE q = r /\ (Duplicate(r) \/ Untranslated(r) \/ PostLost(r) \/ ReadBack(r))
      <4>1. pc[q] \in Applying /\ pc'[q] \in Ended
        BY <1>1, <3>3 DEF Duplicate, Untranslated, PostLost, ReadBack, Applying, Ended
      <4>2. QED
        BY <2>0, <4>1 DEF Applying, Planning, Ended
    <3>4. CASE q = r /\ Fetch(r)
      <4>1. pc[q] = "fetch" /\ UNCHANGED <<tf, config>> /\ pc'[q] \in {"post", "failed"}
        BY <1>1, <3>4 DEF Fetch
      <4>2. Deleting(q)' = Deleting(q)
        BY <4>1 DEF Deleting, SameSlot
      <4>3. StepsLeft(q) = (IF Deleting(q) THEN 5 ELSE 3)
        BY <4>1 DEF StepsLeft
      <4>4. StepsLeft(q)' = (IF pc'[q] = "failed" THEN 0 ELSE IF Deleting(q) THEN 4 ELSE 2)
        BY <4>1, <4>2 DEF StepsLeft
      <4>5. QED
        BY <4>3, <4>4
    <3>5. CASE q = r /\ Post(r)
      <4>1. pc[q] = "post" /\ config' = config
        BY <3>5 DEF Post
      <4>2. CASE Deleting(q)
        <5>1. tf'[q] = None /\ pc'[q] \in {"ok", "fetch"}
          BY <1>1, <3>5, <4>2 DEF Post
        <5>2. StepsLeft(q) = 4 /\ StepsLeft(q)' \in {0, 3}
          BY <4>1, <4>2, <5>1 DEF StepsLeft, Deleting
        <5>3. QED
          BY <5>2
      <4>3. CASE ~Deleting(q)
        <5>1. pc'[q] = "readback"
          BY <1>1, <3>5, <4>3 DEF Post
        <5>2. StepsLeft(q) = 2 /\ StepsLeft(q)' = 1
          BY <4>1, <4>3, <5>1 DEF StepsLeft
        <5>3. QED
          BY <5>2
      <4>4. QED
        BY <4>2, <4>3
    <3>6. CASE q = r /\ RequestFails(r)
      <4>1. CASE pc[q] = "refresh"
        <5>1. pc'[q] = "refused"
          BY <1>1, <3>6, <4>1 DEF RequestFails
        <5>2. StepsLeft(q) = 7 /\ StepsLeft(q)' = 6
          BY <4>1, <5>1 DEF StepsLeft
        <5>3. QED
          BY <5>2
      <4>2. CASE pc[q] # "refresh"
        <5>1. pc[q] \in Applying /\ pc'[q] \in Ended
          BY <1>1, <3>6, <4>2 DEF RequestFails, Requesting, Applying, Ended
        <5>2. QED
          BY <2>0, <5>1 DEF Applying, Planning, Ended
      <4>3. QED
        BY <4>1, <4>2
    <3>7. QED
      BY <2>4, <3>1, <3>2, <3>3, <3>4, <3>5, <3>6 DEF Handler
  <2>5. ASSUME NEW r \in Resource, NEW p \in Pair, NEW s \in Slot, ImportState(r, p, s)
        PROVE  Advances(q)
    BY <2>1, <2>5 DEF ImportState, AllEnded
  <2>6. CASE UIEdit \/ Rest \/ UNCHANGED vars
    BY <2>1, <2>6 DEF UIEdit, Rest, vars
  <2>7. QED
    BY <1>1, <2>2, <2>3, <2>4, <2>5, <2>6 DEF Next
<1>2. PolicyInv /\ [Next]_vars =>
        [runs' = runs =>
           \A r \in Resource : /\ StepsLeft(r)' <= StepsLeft(r)
                               /\ pc'[r] # pc[r] => StepsLeft(r)' < StepsLeft(r)]_vars
  BY <1>1
<1>3. QED
  BY <1>2, PolicyInvariant, PTL DEF Spec, HandlersAdvance
=============================================================================
