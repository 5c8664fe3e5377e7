--------------------------- MODULE PolicyProperties ---------------------------
(***************************************************************************)
(* What the handlers of arubasdwan_security_policy must keep true.         *)
(***************************************************************************)
EXTENDS SecurityPolicies

\* Nobody has interfered with the provider, and every set was translated.
Undisturbed == happened = {}

\* The cell of the server an operation on policy w is about.
Target(w) == <<w.pair, InPair(w.slot, w.pair)>>

\* A step of the provider changes no rule but the one its handler is about:
\* posting the whole set back loses and moves nobody else's rule, even when
\* the set was read without zone translation.  Edits that the UI makes between
\* the fetch and the post are the exception (stale).
OtherRulesUntouched ==
    [][edits' = edits /\ ~stale =>
         \A p \in Pair, s \in Slot :
            server'[p][s] # server[p][s] =>
               \E r \in Resource : pc[r] = "post" /\ Target(Subject(r)) = <<p, s>>]_vars

\* No two resources manage the same slot: the registry and the check against
\* the API are both done under the lock.
NoSharedSlot ==
    \A q, r \in Resource :
        Undisturbed /\ tf[q] # None /\ tf[r] # None /\ SameSlot(tf[q], tf[r]) => q = r

\* A create never replaces a rule that is there already, unless a mapping
\* request failed: the conflict check then compares IDs of different VRFs.
CreateOverwritesNothing ==
    [][\A r \in Resource :
         "untranslated" \notin happened' /\ pc[r] = "post" /\ Creating(r) /\ ~stale /\ edits' = edits /\ server' # server
         /\ pc'[r] # "post" =>
            server[config[r].pair][InPair(config[r].slot, config[r].pair)] = None]_vars

\* A delete that is reported done has removed the rule, where every set could
\* be translated.
TranslatedDeleteIsDone ==
    [][\A r \in Resource :
         "untranslated" \notin happened /\ tf[r] # None /\ pc[r] = "post" /\ tf'[r] = None =>
            server'[tf[r].pair][InPair(tf[r].slot, tf[r].pair)] = None]_vars

\* A delete that is reported done has removed the rule: DeleteSecurityPolicy
\* removes a policy "by filtering it out of the complete policy set and
\* posting the remaining policies back" (client.go:1315).
DeletedIsGone ==
    [][\A r \in Resource :
         tf[r] # None /\ pc[r] = "post" /\ tf'[r] = None =>
            server'[tf[r].pair][InPair(tf[r].slot, tf[r].pair)] = None]_vars

\* What a run reports as applied is what the Orchestrator holds, whatever the
\* other handlers of the run have done to the pair in the meantime.
AppliedIsStored ==
    \A r \in Resource :
        Undisturbed /\ pc[r] = "ok" /\ config[r] # None =>
            server[config[r].pair][InPair(config[r].slot, config[r].pair)] = config[r].body

\* What the Orchestrator holds, as a table of the rules by segment pair and
\* slot of the pair.
Cells(rules) ==
    [k \in {c \in Pair \X Slot : rules[c[1]][c[2]] # None} |-> rules[k[1]][k[2]]]

\* The promise of the resource, as KeyedStore states it: a rule is stored
\* under its pair and its slot in the zones of the pair, which the provider
\* computes anew from the state at every operation.
Store == INSTANCE KeyedStore WITH
    store         <- Cells(server),
    disturbed     <- ~Undisturbed,
    owner         <- [r \in Resource |-> IF tf[r] = None THEN None ELSE Target(tf[r])],
    InitialStores <- {Cells(rules) : rules \in InitialServers}

\* Until somebody interferes the handlers keep that promise, although each of
\* them writes the whole set of a pair.
ImplementsKeyedStore == Store!StoreSpec

\* A handler that has started ends.
EveryRunEnds == \A r \in Resource : pc[r] \in Planning \cup Applying ~> pc[r] \in Ended
=============================================================================
