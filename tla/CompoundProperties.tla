-------------------------- MODULE CompoundProperties --------------------------
(***************************************************************************)
(* What the handlers of app_compound_classification must keep true.        *)
(***************************************************************************)
EXTENDS CompoundClassification

\* Nobody has interfered with the provider: no edit in the UI, no lost answer.
Undisturbed == happened = {}

Rules(list) == {list[i] : i \in DOMAIN list}

\* The ID a handler is about to write or delete is the ID its rule has now:
\* the rule of the name in its state, or the slot behind the last rule for a
\* create, unless the UI edited the list since.  Updates and deletes resolve
\* and write in one critical section (application.go:964, 1002).
ResolvedIdIsCurrent ==
    \A r \in Resource :
        pc[r] = "write" /\ ~stale =>
            IF tf[r] = None THEN id[r] = Len(rules) + 1
                            ELSE id[r] \in Named(tf[r].name)

\* A step of the provider removes or changes no rule but one that carries the
\* name the writing resource holds in its state; deletes of other resources
\* renumber that rule freely in between.
BystandersUntouched ==
    [][edits' = edits /\ ~stale =>
         \A rule \in Rules(rules) \ Rules(rules') :
            \E r \in Resource : /\ pc[r] = "write"
                                /\ tf[r] # None
                                /\ SameName(tf[r].name, rule.name)]_vars

\* No two rules carry the same name, whatever requests fail and whatever
\* answers are lost: the check of Create and Update runs before the lock is
\* taken, yet the handlers in between only write names of their own.  Only an
\* edit in the UI may give a name to two rules.
NamesUnique == "edit" \notin happened => Distinct(rules)

\* No two resources are bound to one rule: a delete of either would take the
\* other's rule away.
NoSharedRule ==
    \A q, r \in Resource :
        Undisturbed /\ tf[q] # None /\ tf[r] # None /\ tf[q].uid = tf[r].uid => q = r

\* What a run reports as applied is what the Orchestrator holds once every
\* other handler of the run has done its part as well.
AppliedIsStored ==
    \A r \in Resource :
        Undisturbed /\ pc[r] = "ok" /\ config[r] # None =>
            \E rule \in Rules(rules) :
                /\ tf[r] # None /\ rule.uid = tf[r].uid
                /\ rule.name = config[r].name /\ rule.attr = config[r].attr

\* A handler that has started ends: no failure leaves the lock behind, and
\* no handler waits for another one for ever.
EveryRunEnds == \A r \in Resource : pc[r] \in Planning \cup Applying ~> pc[r] \in Ended

\* The promise of the resource, as RuleBook states it.
Book == INSTANCE RuleBook WITH
    book         <- Rules(rules),
    disturbed    <- ~Undisturbed,
    owner        <- [r \in Resource |-> IF tf[r] = None THEN None ELSE tf[r].uid],
    InitialBooks <- {[book |-> Rules(list), minted |-> Len(list)] : list \in InitialLists}

\* Without lost answers and UI edits the handlers keep that promise.
ImplementsRuleBook == Book!BookSpec
=============================================================================
