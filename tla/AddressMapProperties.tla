-------------------------- MODULE AddressMapProperties --------------------------
(***************************************************************************)
(* What the handlers of app_address_map must keep true.                    *)
(***************************************************************************)
EXTENDS AddressMaps

\* No address is covered by two entries: "two entries spanning the same
\* address make the classification ambiguous" (addressmap.go:234-237).  The
\* ranges are inclusive and compared as numbers, across octets.
NoOverlap ==
    "edit" \notin happened => \A s, t \in DOMAIN maps :
        (\E a \in s[1]..s[2] : Covers(Dots(t), a)) => s = t

\* What a run reports as applied is what the Orchestrator holds, whatever
\* an earlier run wrote and could not read back.
AppliedIsStored ==
    \A r \in Resource :
        Undisturbed /\ pc[r] = "ok" /\ config[r] # None =>
            /\ tf[r] = config[r]
            /\ SpanOf(config[r].range) \in DOMAIN maps
            /\ Stored(SpanOf(config[r].range)) = config[r]

Writes(r) == pc[r] \in {"post", "repost"} /\ pc'[r] # pc[r] /\ maps' # maps

\* An update leaves what the client does not model as it found it inside the
\* mutex, when the listing it makes for that purpose has not failed.
HiddenFieldsSurvive ==
    [][\A r \in Resource, s \in DOMAIN maps \cap DOMAIN maps' :
         Writes(r) /\ maps'[s].hidden # maps[s].hidden => r \in stale \/ "fault" \in happened]_vars

\* The promise of the resource, as KeyedStore states it.
Store == INSTANCE KeyedStore WITH
    store         <- maps,
    disturbed     <- ~Undisturbed,
    owner         <- [r \in Resource |-> IF tf[r] = None THEN None ELSE SpanOf(tf[r].range)],
    InitialStores <- InitialMaps

\* Until somebody interferes the handlers keep that promise, for blocks that
\* do not overlap.
ImplementsKeyedStore == Store!StoreSpec
=============================================================================
