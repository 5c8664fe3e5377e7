---------------------------- MODULE CompoundProofs ----------------------------
(***************************************************************************)
(* Theorems about CompoundClassification for every value of its constants. *)
(***************************************************************************)
EXTENDS CompoundProperties, SequenceTheorems, TLAPS

\* A handler that is about to write holds the lock.
WritersHoldLock == \A r \in Resource : pc[r] = "write" => lock = r

\* What a handler is doing follows from configuration and state, and stays so.
OperationIsKnown ==
    \A r \in Resource :
        /\ pc[r] = "check" => Creating(r) \/ Updating(r)
        /\ pc[r] \in {"lock", "write"} => Creating(r) \/ Updating(r) \/ Deleting(r)
        /\ pc[r] = "readback" => Creating(r)

CoreInv == TypeOK /\ WritersHoldLock /\ OperationIsKnown /\ ResolvedIdIsCurrent

-----------------------------------------------------------------------------
(* Lists of rules. *)

\* RemoveAt drops one position and shifts down what lies behind it.
LEMMA RemoveAtProperties ==
    ASSUME NEW S, NEW s \in Seq(S), NEW k \in 1..Len(s)
    PROVE  /\ RemoveAt(s, k) \in Seq(S)
           /\ Len(RemoveAt(s, k)) = Len(s) - 1
           /\ \A i \in 1..(Len(s) - 1) :
                 RemoveAt(s, k)[i] = IF i < k THEN s[i] ELSE s[i + 1]
<1> DEFINE a == SubSeq(s, 1, k - 1)
           b == SubSeq(s, k + 1, Len(s))
<1>1. /\ a \in Seq(S)
      /\ Len(a) = k - 1
      /\ \A i \in 1..(k - 1) : a[i] = s[i]
  <2>1. \A i \in 1..(k - 1) : s[i] \in S
    BY ElementOfSeq
  <2>2. QED
    BY <2>1, SubSeqProperties, Z3
<1>2. /\ b \in Seq(S)
      /\ Len(b) = Len(s) - k
      /\ \A i \in 1..(Len(s) - k) : b[i] = s[k + i]
  <2>1. \A i \in (k + 1)..Len(s) : s[i] \in S
    BY ElementOfSeq
  <2>2. QED
    BY <2>1, SubSeqProperties, Z3
<1>3. RemoveAt(s, k) = a \o b
  BY DEF RemoveAt
<1> HIDE DEF a, b
<1>4. /\ a \o b \in Seq(S)
      /\ Len(a \o b) = Len(a) + Len(b)
      /\ \A i \in 1..(Len(a) + Len(b)) :
            (a \o b)[i] = IF i <= Len(a) THEN a[i] ELSE b[i - Len(a)]
  BY <1>1, <1>2, ConcatProperties
<1>5. Len(s) \in Nat /\ k \in Nat
  BY LenProperties
<1>6. QED
  BY <1>1, <1>2, <1>3, <1>4, <1>5
-----------------------------------------------------------------------------
(* Types of what the server does. *)

\* Whatever request reaches the server, a list of rules stays one.
LEMMA DefinedRule ==
    ASSUME NEW u \in Nat, NEW w \in Wanted
    PROVE  Defined(u, w) \in Rule
BY DEF Defined, Rule, Wanted

LEMMA AppendedRule ==
    ASSUME TypeOK, NEW w \in Wanted
    PROVE  /\ Append(rules, Defined(minted + 1, w)) \in Seq(Rule)
           /\ minted + 1 \in Nat
BY DefinedRule, AppendProperties DEF TypeOK

LEMMA WrittenRule ==
    ASSUME TypeOK, NEW w \in Wanted, NEW k \in DOMAIN rules
    PROVE  /\ Defined(rules[k].uid, w) \in Rule
           /\ [rules EXCEPT ![k] = Defined(rules[k].uid, w)] \in Seq(Rule)
           /\ Len([rules EXCEPT ![k] = Defined(rules[k].uid, w)]) = Len(rules)
<1>1. rules \in Seq(Rule) /\ k \in 1..Len(rules)
  BY LenProperties DEF TypeOK
<1>2. Defined(rules[k].uid, w) \in Rule
  <2>1. rules[k] \in Rule
    BY <1>1, ElementOfSeq
  <2>2. rules[k].uid \in Nat
    BY <2>1 DEF Rule
  <2>3. QED
    BY <2>2, DefinedRule
<1>3. QED
  BY <1>1, <1>2, ExceptSeq

LEMMA RequestAppliedType ==
    ASSUME TypeOK, NEW r \in Resource, RequestApplied(r),
           Creating(r) \/ Updating(r) \/ Deleting(r)
    PROVE  /\ rules' \in Seq(Rule)
           /\ minted' \in Nat
<1>1. CASE Deleting(r)
  <2>1. id[r] \in 1..Len(rules)
    BY <1>1, LenProperties DEF RequestApplied, TypeOK
  <2>2. QED
    BY <1>1, <2>1, RemoveAtProperties DEF RequestApplied, TypeOK
<1>2. CASE ~Deleting(r)
  <2>1. config[r] \in Wanted
    BY <1>2 DEF TypeOK, Creating, Updating
  <2>2. CASE id[r] \in DOMAIN rules
    BY <1>2, <2>1, <2>2, WrittenRule DEF RequestApplied, Posted, TypeOK
  <2>3. CASE id[r] \notin DOMAIN rules
    BY <1>2, <2>1, <2>3, AppendedRule DEF RequestApplied, Posted
  <2>4. QED
    BY <2>2, <2>3
<1>3. QED
  BY <1>1, <1>2

-----------------------------------------------------------------------------
(* The core invariant. *)

LEMMA CoreInit == Init => CoreInv
<1> SUFFICES ASSUME Init PROVE CoreInv
  OBVIOUS
<1>1. TypeOK
  <2>1. rules \in Seq(Rule) /\ Len(rules) \in Nat
    BY ConstantsAssumption, LenProperties DEF Init
  <2>2. QED
    BY <2>1, ConstantsAssumption DEF Init, TypeOK, Ended
<1>2. WritersHoldLock /\ OperationIsKnown /\ ResolvedIdIsCurrent
  BY DEF Init, WritersHoldLock, OperationIsKnown, ResolvedIdIsCurrent
<1>3. QED
  BY <1>1, <1>2 DEF CoreInv

LEMMA TypeStep == CoreInv /\ [Next]_vars => TypeOK'
<1> SUFFICES ASSUME CoreInv, [Next]_vars PROVE TypeOK'
  OBVIOUS
<1> USE DEF CoreInv
<1>0. \A i \in DOMAIN rules : rules[i] \in Rule /\ i \in Nat
  BY ElementOfSeq, LenProperties DEF TypeOK
<1>1. CASE StartRun
  BY <1>1, ConstantsAssumption DEF StartRun, TypeOK, Planning
<1>2. CASE EndPlanning
  BY <1>2 DEF EndPlanning, TypeOK, Ended, Planning, Applying, budgets
<1>3. ASSUME NEW r \in Resource, Handler(r) PROVE TypeOK'
  <2>1. CASE Read(r)
    BY <1>0, <2>1 DEF Read, TypeOK, Named, Planning, budgets
  <2>2. CASE ModifyPlan(r)
    BY <2>2 DEF ModifyPlan, TypeOK, Planning, budgets
  <2>3. CASE CheckName(r)
    BY <2>3 DEF CheckName, TypeOK, Ended, Applying, budgets
  <2>4. CASE AssignID(r)
    <3>1. Len(rules) + 1 \in Nat
      BY LenProperties DEF TypeOK
    <3>2. QED
      BY <2>4, <3>1 DEF AssignID, TypeOK, Applying, budgets
  <2>5. CASE ResolveID(r)
    BY <1>0, <2>5 DEF ResolveID, TypeOK, Named, Applying, budgets
  <2>6. CASE Vanished(r)
    BY <2>6 DEF Vanished, TypeOK, Ended, budgets
  <2>7. CASE Write(r)
    <3>1. Creating(r) \/ Updating(r) \/ Deleting(r)
      BY <2>7 DEF Write, OperationIsKnown
    <3>2. rules' \in Seq(Rule) /\ minted' \in Nat
      BY <2>7, <3>1, RequestAppliedType DEF Write
    <3>3. PostedUid(id[r]) \in Nat
      BY <1>0 DEF PostedUid, TypeOK, Rule
    <3>4. Updating(r) => config[r] \in Wanted
      BY DEF Updating, TypeOK
    <3>5. tf' \in [Resource -> Rule \cup {None}]
      BY <2>7, <3>3, <3>4, DefinedRule DEF Write, TypeOK
    <3>6. QED
      BY <2>7, <3>2, <3>5 DEF Write, TypeOK, Ended, Applying, budgets
  <2>8. CASE DeleteUnknown(r)
    BY <2>8 DEF DeleteUnknown, TypeOK, Ended, budgets
  <2>9. CASE ReadBack(r)
    <3>1. config[r] \in Wanted
      BY <2>9 DEF ReadBack, TypeOK, OperationIsKnown, Creating
    <3>2. tf' \in [Resource -> Rule \cup {None}]
      <4>1. \A i \in DOMAIN rules : Defined(rules[i].uid, config[r]) \in Rule
        BY <3>1, WrittenRule
      <4>2. QED
        BY <2>9, <4>1 DEF ReadBack, TypeOK, Named
    <3>3. QED
      BY <2>9, <3>2 DEF ReadBack, TypeOK, Ended, budgets
  <2>10. QED
    BY <1>3, <2>1, <2>2, <2>3, <2>4, <2>5, <2>6, <2>7, <2>8, <2>9 DEF Handler
<1>4. ASSUME NEW r \in Resource, WriteLost(r) PROVE TypeOK'
  <2>1. Creating(r) \/ Updating(r) \/ Deleting(r)
    BY <1>4 DEF WriteLost, OperationIsKnown
  <2>2. rules' \in Seq(Rule) /\ minted' \in Nat
    BY <1>4, <2>1, RequestAppliedType DEF WriteLost
  <2>3. QED
    BY <1>4, <2>2 DEF WriteLost, TypeOK, Ended
<1>5. ASSUME NEW r \in Resource, RequestFails(r) PROVE TypeOK'
  BY <1>5 DEF RequestFails, TypeOK, Ended, Planning
<1>6. ASSUME NEW r \in Resource, NEW n \in Name, ImportState(r, n) PROVE TypeOK'
  BY <1>0, <1>6 DEF ImportState, TypeOK, Named, budgets
<1>7. CASE UIEdit
  <2>1. rules' \in Seq(Rule) /\ minted' \in Nat
    <3>1. CASE \E w \in Wanted :
                 /\ rules' = Append(rules, Defined(minted + 1, w))
                 /\ minted' = minted + 1
      BY <3>1, AppendedRule
    <3>2. CASE \E i \in DOMAIN rules : rules' = RemoveAt(rules, i) /\ UNCHANGED minted
      <4>1. PICK i \in DOMAIN rules : rules' = RemoveAt(rules, i) /\ UNCHANGED minted
        BY <3>2
      <4>2. rules \in Seq(Rule) /\ i \in 1..Len(rules)
        BY LenProperties DEF TypeOK
      <4>3. RemoveAt(rules, i) \in Seq(Rule)
        BY <4>2, RemoveAtProperties
      <4>4. QED
        BY <4>1, <4>3 DEF TypeOK
    <3>3. CASE \E i \in DOMAIN rules, w \in Wanted :
                 /\ rules' = [rules EXCEPT ![i] = Defined(rules[i].uid, w)]
                 /\ UNCHANGED minted
      BY <3>3, WrittenRule DEF TypeOK
    <3>4. QED
      BY <1>7, <3>1, <3>2, <3>3 DEF UIEdit
  <2>2. /\ edits' \in Nat /\ stale' \in BOOLEAN /\ happened' \subseteq {"lost", "edit"}
        /\ UNCHANGED <<lock, config, tf, pc, id, runs, faults, lost>>
    BY <1>7 DEF UIEdit, TypeOK
  <2>3. QED
    BY <2>1, <2>2 DEF TypeOK
<1>8. CASE Rest \/ UNCHANGED vars
  BY <1>8 DEF Rest, vars, budgets, TypeOK
<1>9. QED
  BY <1>1, <1>2, <1>3, <1>4, <1>5, <1>6, <1>7, <1>8 DEF Next

\* The lock passes from a handler that wrote to nobody, and from nobody on.
LEMMA LockStep == CoreInv /\ [Next]_vars => WritersHoldLock'
<1> SUFFICES ASSUME CoreInv, [Next]_vars PROVE WritersHoldLock'
  OBVIOUS
<1> USE DEF CoreInv, WritersHoldLock
<1>1. CASE StartRun \/ EndPlanning
  BY <1>1 DEF StartRun, EndPlanning, TypeOK
<1>2. ASSUME NEW r \in Resource, Handler(r) \/ WriteLost(r) \/ RequestFails(r)
      PROVE  WritersHoldLock'
  <2>1. CASE Read(r) \/ ModifyPlan(r) \/ CheckName(r) \/ Vanished(r) \/ ReadBack(r)
    BY <2>1 DEF Read, ModifyPlan, CheckName, Vanished, ReadBack, TypeOK
  <2>2. CASE AssignID(r) \/ ResolveID(r)
    BY <2>2, ConstantsAssumption DEF AssignID, ResolveID, TypeOK
  <2>3. CASE Write(r) \/ WriteLost(r) \/ DeleteUnknown(r)
    BY <2>3 DEF Write, WriteLost, DeleteUnknown, TypeOK
  <2>4. CASE RequestFails(r)
    BY <2>4 DEF RequestFails, TypeOK
  <2>5. QED
    BY <1>2, <2>1, <2>2, <2>3, <2>4 DEF Handler
<1>3. ASSUME NEW r \in Resource, NEW n \in Name, ImportState(r, n) PROVE WritersHoldLock'
  BY <1>3 DEF ImportState
<1>4. CASE UIEdit \/ Rest \/ UNCHANGED vars
  BY <1>4 DEF UIEdit, Rest, vars, budgets
<1>5. QED
  BY <1>1, <1>2, <1>3, <1>4 DEF Next

\* A handler's operation is fixed while it runs: the state of a resource is
\* written by its own handler only, the configuration between runs.
LEMMA OperationStep == CoreInv /\ [Next]_vars => OperationIsKnown'
<1> SUFFICES ASSUME CoreInv, [Next]_vars PROVE OperationIsKnown'
  OBVIOUS
<1> USE DEF CoreInv, OperationIsKnown, Creating, Updating, Deleting
<1>1. CASE StartRun \/ EndPlanning
  BY <1>1 DEF StartRun, EndPlanning, TypeOK, Creating, Updating, Deleting
<1>2. ASSUME NEW r \in Resource, Handler(r) \/ WriteLost(r) \/ RequestFails(r)
      PROVE  OperationIsKnown'
  <2>1. CASE Read(r)
    BY <2>1 DEF Read, TypeOK
  <2>2. CASE ModifyPlan(r) \/ CheckName(r)
    BY <2>2 DEF ModifyPlan, CheckName, TypeOK
  <2>3. CASE AssignID(r) \/ ResolveID(r)
    BY <2>3 DEF AssignID, ResolveID, TypeOK
  <2>4. CASE Vanished(r)
    BY <2>4 DEF Vanished, TypeOK
  <2>5. CASE Write(r)
    BY <2>5 DEF Write, TypeOK
  <2>6. CASE WriteLost(r) \/ DeleteUnknown(r)
    BY <2>6 DEF WriteLost, DeleteUnknown, TypeOK
  <2>7. CASE ReadBack(r)
    BY <2>7 DEF ReadBack, TypeOK
  <2>8. CASE RequestFails(r)
    BY <2>8 DEF RequestFails, TypeOK
  <2>9. QED
    BY <1>2, <2>1, <2>2, <2>3, <2>4, <2>5, <2>6, <2>7, <2>8 DEF Handler
<1>3. ASSUME NEW r \in Resource, NEW n \in Name, ImportState(r, n) PROVE OperationIsKnown'
  BY <1>3 DEF ImportState, AllEnded, Ended, TypeOK
<1>4. CASE UIEdit \/ Rest \/ UNCHANGED vars
  BY <1>4 DEF UIEdit, Rest, vars, budgets
<1>5. QED
  BY <1>1, <1>2, <1>3, <1>4 DEF Next

\* Between resolving an ID and using it nobody but the UI writes the list.
LEMMA ResolvedStep == CoreInv /\ [Next]_vars => ResolvedIdIsCurrent'
<1> SUFFICES ASSUME CoreInv, [Next]_vars,
                    NEW q \in Resource, pc'[q] = "write", ~stale'
             PROVE  IF tf'[q] = None THEN id'[q] = Len(rules') + 1
                                    ELSE id'[q] \in Named(tf[q].name)'
  BY DEF ResolvedIdIsCurrent
<1> USE DEF CoreInv
<1>1. CASE StartRun \/ EndPlanning
  BY <1>1 DEF StartRun, EndPlanning, TypeOK
<1>2. ASSUME NEW r \in Resource, Handler(r) \/ WriteLost(r) \/ RequestFails(r)
      PROVE  IF tf'[q] = None THEN id'[q] = Len(rules') + 1
                              ELSE id'[q] \in Named(tf[q].name)'
  <2>1. CASE Read(r) \/ ModifyPlan(r) \/ CheckName(r) \/ Vanished(r) \/ ReadBack(r)
    BY <2>1 DEF Read, ModifyPlan, CheckName, Vanished, ReadBack, TypeOK,
                ResolvedIdIsCurrent, Named
  <2>2. CASE AssignID(r)
    <3>1. q = r
      BY <2>2, ConstantsAssumption DEF AssignID, TypeOK, WritersHoldLock
    <3>2. QED
      BY <2>2, <3>1 DEF AssignID, TypeOK, Creating
  <2>3. CASE ResolveID(r)
    <3>1. q = r
      BY <2>3, ConstantsAssumption DEF ResolveID, TypeOK, WritersHoldLock
    <3>2. tf[r] # None
      BY <2>3 DEF ResolveID, OperationIsKnown, Creating, Updating, Deleting
    <3>3. QED
      BY <2>3, <3>1, <3>2 DEF ResolveID, TypeOK, FirstNamed, Named
  <2>4. CASE Write(r) \/ WriteLost(r) \/ DeleteUnknown(r)
    BY <2>4 DEF Write, WriteLost, DeleteUnknown, TypeOK, WritersHoldLock
  <2>5. CASE RequestFails(r)
    BY <2>5 DEF RequestFails, TypeOK, ResolvedIdIsCurrent, Named
  <2>6. QED
    BY <1>2, <2>1, <2>2, <2>3, <2>4, <2>5 DEF Handler
<1>3. ASSUME NEW r \in Resource, NEW n \in Name, ImportState(r, n)
      PROVE  IF tf'[q] = None THEN id'[q] = Len(rules') + 1
                              ELSE id'[q] \in Named(tf[q].name)'
  BY <1>3 DEF ImportState, AllEnded, Ended, TypeOK
<1>4. CASE UIEdit
  BY <1>4 DEF UIEdit
<1>5. CASE Rest \/ UNCHANGED vars
  BY <1>5 DEF Rest, vars, budgets, ResolvedIdIsCurrent, Named
<1>6. QED
  BY <1>1, <1>2, <1>3, <1>4, <1>5 DEF Next

LEMMA CoreInvariant == Spec => []CoreInv
<1>1. CoreInv /\ [Next]_vars => CoreInv'
  BY TypeStep, LockStep, OperationStep, ResolvedStep DEF CoreInv
<1>2. QED
  BY CoreInit, <1>1, PTL DEF Spec

\* Every variable keeps its type, whatever the bounds and the configurations:
\* no handler records an ID or a rule that the list could not have held.
THEOREM TypeCorrect == Spec => []TypeOK
<1>1. CoreInv => TypeOK
  BY DEF CoreInv
<1>2. QED
  BY CoreInvariant, <1>1, PTL

\* The ID about to be written is the ID the rule has at that moment, with any
\* number of handlers in parallel (application.go:964, 1002).
THEOREM ResolvedIdsAreCurrent == Spec => []ResolvedIdIsCurrent
<1>1. CoreInv => ResolvedIdIsCurrent
  BY DEF CoreInv
<1>2. QED
  BY CoreInvariant, <1>1, PTL

-----------------------------------------------------------------------------
(* Nobody's rule but one's own. *)

\* What a request removes from the list, or changes, carries the name in state.
LEMMA RequestHitsNamedRule ==
    ASSUME CoreInv, ~stale, NEW r \in Resource, pc[r] = "write", RequestApplied(r),
           NEW rule \in Rules(rules) \ Rules(rules')
    PROVE  tf[r] # None /\ SameName(tf[r].name, rule.name)
<1> USE DEF CoreInv
<1>1. PICK i \in DOMAIN rules : rule = rules[i]
  BY DEF Rules
<1>2. rules \in Seq(Rule) /\ DOMAIN rules = 1..Len(rules) /\ Len(rules) \in Nat
  BY LenProperties DEF TypeOK
<1>3. /\ tf[r] = None => id[r] = Len(rules) + 1
      /\ tf[r] # None => id[r] \in Named(tf[r].name)
  BY DEF ResolvedIdIsCurrent
<1>4. tf[r] # None /\ id[r] = i
  <2>1. CASE Deleting(r)
    <3>1. id[r] \in 1..Len(rules) /\ rules' = RemoveAt(rules, id[r])
      BY <1>2, <2>1 DEF RequestApplied
    <3>2. SUFFICES ASSUME id[r] # i PROVE FALSE
      BY <2>1 DEF Deleting
    <3>3. /\ Len(rules') = Len(rules) - 1
          /\ DOMAIN rules' = 1..Len(rules')
          /\ \A j \in 1..(Len(rules) - 1) :
                rules'[j] = IF j < id[r] THEN rules[j] ELSE rules[j + 1]
      BY <1>2, <3>1, RemoveAtProperties, LenProperties
    <3>4. \E j \in DOMAIN rules' : rules'[j] = rules[i]
      <4>1. CASE i < id[r]
        BY <1>2, <3>1, <3>3, <4>1
      <4>2. CASE i > id[r]
        <5>1. i - 1 \in 1..(Len(rules) - 1) /\ ~(i - 1 < id[r])
          BY <1>2, <3>1, <4>2
        <5>2. QED
          BY <1>2, <3>3, <5>1
      <4>3. QED
        BY <1>2, <3>1, <3>2, <4>1, <4>2
    <3>5. QED
      BY <1>1, <3>4 DEF Rules
  <2>2. CASE ~Deleting(r)
    <3>1. rules' = Posted(id[r], config[r])
      BY <2>2 DEF RequestApplied
    <3>2. config[r] \in Wanted
      BY <2>2 DEF OperationIsKnown, TypeOK, Creating, Updating
    <3>3. CASE id[r] \in DOMAIN rules
      <4>1. rules' = [rules EXCEPT ![id[r]] = Defined(rules[id[r]].uid, config[r])]
        BY <3>1, <3>3 DEF Posted
      <4>2. id[r] = i
        BY <1>1, <1>2, <3>3, <4>1 DEF Rules
      <4>3. QED
        BY <1>2, <1>3, <3>3, <4>2
    <3>4. CASE id[r] \notin DOMAIN rules
      <4>1. rules' = Append(rules, Defined(minted + 1, config[r]))
        BY <3>1, <3>4 DEF Posted
      <4>2. Defined(minted + 1, config[r]) \in Rule
        BY <3>2, DefinedRule DEF TypeOK
      <4>3. i \in DOMAIN rules' /\ rules'[i] = rules[i]
        BY <1>2, <4>1, <4>2, AppendProperties, LenProperties
      <4>4. QED
        BY <1>1, <4>3 DEF Rules
    <3>5. QED
      BY <3>3, <3>4
  <2>3. QED
    BY <2>1, <2>2
<1>5. QED
  BY <1>1, <1>3, <1>4 DEF Named, SameName

\* No step of the provider removes or changes a rule but one that carries the
\* name the writing resource holds in state: parallel deletes never take away
\* a rule that slid into the place of another (application.go:1002).
THEOREM BystandersAreUntouched == Spec => BystandersUntouched
<1> DEFINE A == edits' = edits /\ ~stale =>
                  \A rule \in Rules(rules) \ Rules(rules') :
                     \E r \in Resource : /\ pc[r] = "write"
                                         /\ tf[r] # None
                                         /\ SameName(tf[r].name, rule.name)
<1>1. CoreInv /\ [Next]_vars => [A]_vars
  <2> SUFFICES ASSUME CoreInv, Next, edits' = edits, ~stale,
                      NEW rule \in Rules(rules) \ Rules(rules')
               PROVE  \E r \in Resource : /\ pc[r] = "write"
                                          /\ tf[r] # None
                                          /\ SameName(tf[r].name, rule.name)
    BY DEF vars, budgets
  <2>1. CASE UNCHANGED rules
    BY <2>1 DEF Rules
  <2>2. CASE \E r \in Resource : Write(r) \/ WriteLost(r)
    BY <2>2, RequestHitsNamedRule DEF Write, WriteLost
  <2>3. UIEdit => FALSE
    BY DEF UIEdit, CoreInv, TypeOK
  <2>4. QED
    BY <2>1, <2>2, <2>3 DEF Next, Handler, StartRun, EndPlanning, Read, ModifyPlan,
          CheckName, AssignID, ResolveID, Vanished, DeleteUnknown, ReadBack,
          RequestFails, ImportState, Rest, vars, budgets
<1>2. QED
  BY CoreInvariant, <1>1, PTL DEF Spec, BystandersUntouched

-----------------------------------------------------------------------------
(* Unique names. *)

\* No configuration declares one name twice.
DistinctConfigurations ==
    \A c \in Configs : \A q, r \in Resource :
        c[q] # None /\ c[r] # None /\ SameName(c[q].name, c[r].name) => q = r

\* The same of the configuration in force.
ConfigDistinct ==
    \A q, r \in Resource :
        config[q] # None /\ config[r] # None /\ SameName(config[q].name, config[r].name)
           => q = r

\* What a handler found when it looked for its name still holds while it waits
\* for the lock and while it holds it.
VettedNames ==
    \A r \in Resource :
        pc[r] \in {"lock", "write"} /\ config[r] # None => ~Taken(r)

DistinctNames == Distinct(rules)

NamesInv == /\ CoreInv /\ ConfigDistinct
            /\ "edit" \notin happened => DistinctNames /\ VettedNames /\ ~stale

\* A list keeps distinct names when a rule is removed.
LEMMA RemovedDistinct ==
    ASSUME NEW list \in Seq(Rule), Distinct(list), NEW k \in 1..Len(list)
    PROVE  /\ Distinct(RemoveAt(list, k))
           /\ Rules(RemoveAt(list, k)) \subseteq Rules(list)
<1> DEFINE cut == RemoveAt(list, k)
           Old(i) == IF i < k THEN i ELSE i + 1
<1>1. Len(list) \in Nat /\ DOMAIN list = 1..Len(list)
  BY LenProperties
<1>2. cut \in Seq(Rule) /\ Len(cut) = Len(list) - 1
      /\ \A i \in 1..(Len(list) - 1) : cut[i] = IF i < k THEN list[i] ELSE list[i + 1]
  BY RemoveAtProperties
<1>3. DOMAIN cut = 1..(Len(list) - 1)
  BY <1>2, LenProperties
<1> HIDE DEF cut
<1>4. \A i \in DOMAIN cut : Old(i) \in DOMAIN list /\ cut[i] = list[Old(i)]
  BY <1>1, <1>2, <1>3
<1>5. \A i, j \in DOMAIN cut : Old(i) = Old(j) => i = j
  BY <1>1, <1>3
<1> HIDE DEF Old
<1>6. Distinct(cut)
  BY <1>4, <1>5 DEF Distinct
<1>7. Rules(cut) \subseteq Rules(list)
  BY <1>4 DEF Rules
<1>8. QED
  BY <1>6, <1>7 DEF cut

\* A request that reaches the server adds no name but the one it was vetted for,
\* and no name a second time.
LEMMA RequestKeepsNames ==
    ASSUME NamesInv, "edit" \notin happened,
           NEW r \in Resource, pc[r] = "write", RequestApplied(r)
    PROVE  /\ DistinctNames'
           /\ \A rule \in Rules(rules') :
                 \/ \E old \in Rules(rules) : old.name = rule.name
                 \/ config[r] # None /\ rule.name = config[r].name
<1> USE DEF NamesInv, CoreInv
<1>1. rules \in Seq(Rule) /\ DOMAIN rules = 1..Len(rules) /\ Len(rules) \in Nat
  BY LenProperties DEF TypeOK
<1>2. CASE Deleting(r)
  <2>1. id[r] \in 1..Len(rules) /\ rules' = RemoveAt(rules, id[r])
    BY <1>1, <1>2 DEF RequestApplied
  <2>2. QED
    BY <1>1, <2>1, RemovedDistinct DEF DistinctNames
<1>3. CASE ~Deleting(r)
  <2> DEFINE n == config[r].name
  <2>1. config[r] \in Wanted /\ config[r] # None
    BY <1>3, ConstantsAssumption DEF OperationIsKnown, TypeOK, Creating, Updating
  <2>2. ~Taken(r)
    BY <2>1 DEF VettedNames
  <2>3. rules' = Posted(id[r], config[r])
    BY <1>3 DEF RequestApplied
  <2>4. CASE id[r] \in DOMAIN rules
    <3> DEFINE k == id[r]
               new == Defined(rules[k].uid, config[r])
    <3>1. rules' = [rules EXCEPT ![k] = new]
      BY <2>3, <2>4 DEF Posted
    <3>2. new \in Rule
      BY <2>1, <2>4, WrittenRule
    <3>3. /\ DOMAIN rules' = DOMAIN rules
          /\ \A i \in DOMAIN rules : rules'[i] = IF i = k THEN new ELSE rules[i]
      BY <1>1, <3>1
    <3>4. new.name = n
      BY DEF Defined
    <3>5. tf[r] # None /\ SameName(rules[k].name, tf[r].name)
      BY <1>1, <2>4 DEF ResolvedIdIsCurrent, Named, SameName
    <3>6. \A i \in DOMAIN rules : SameName(rules[i].name, n) => i = k
      <4>1. SUFFICES ASSUME NEW i \in DOMAIN rules, SameName(rules[i].name, n)
                     PROVE  i = k
        OBVIOUS
      <4>2. SameName(rules[i].name, tf[r].name)
        BY <2>2, <3>5, <4>1 DEF Taken, Named
      <4>3. SameName(rules[i].name, rules[k].name)
        BY <3>5, <4>2 DEF SameName
      <4>4. QED
        BY <2>4, <4>3 DEF DistinctNames, Distinct
    <3> HIDE DEF new, k, n
    <3>7. DistinctNames'
      <4> SUFFICES ASSUME NEW i \in DOMAIN rules', NEW j \in DOMAIN rules',
                          SameName(rules'[i].name, rules'[j].name)
                   PROVE  i = j
        BY DEF DistinctNames, Distinct
      <4>1. CASE i = k /\ j # k
        BY <3>3, <3>4, <3>6, <4>1 DEF SameName
      <4>2. CASE i # k /\ j = k
        BY <3>3, <3>4, <3>6, <4>2 DEF SameName
      <4>3. CASE i # k /\ j # k
        BY <3>3, <4>3 DEF DistinctNames, Distinct
      <4>4. QED
        BY <4>1, <4>2, <4>3
    <3>8. QED
      BY <2>1, <3>3, <3>4, <3>7 DEF Rules, n
  <2>5. CASE id[r] \notin DOMAIN rules
    <3> DEFINE new == Defined(minted + 1, config[r])
    <3>1. rules' = Append(rules, new)
      BY <2>3, <2>5 DEF Posted
    <3>2. new \in Rule
      BY <2>1, DefinedRule DEF TypeOK
    <3>3. /\ DOMAIN rules' = 1..(Len(rules) + 1)
          /\ \A i \in DOMAIN rules : rules'[i] = rules[i]
          /\ rules'[Len(rules) + 1] = new
      BY <1>1, <3>1, <3>2, AppendProperties, LenProperties
    <3>4. new.name = n
      BY DEF Defined
    <3>5. tf[r] = None
      BY <2>5 DEF ResolvedIdIsCurrent, Named
    <3>6. \A i \in DOMAIN rules : ~SameName(rules[i].name, n)
      BY <2>2, <3>5 DEF Taken, Named
    <3> HIDE DEF new, n
    <3>7. DistinctNames'
      <4> SUFFICES ASSUME NEW i \in DOMAIN rules', NEW j \in DOMAIN rules',
                          SameName(rules'[i].name, rules'[j].name)
                   PROVE  i = j
        BY DEF DistinctNames, Distinct
      <4>1. CASE i \in DOMAIN rules /\ j \in DOMAIN rules
        BY <3>3, <4>1 DEF DistinctNames, Distinct
      <4>2. CASE i \in DOMAIN rules /\ j = Len(rules) + 1
        BY <3>3, <3>4, <3>6, <4>2 DEF SameName
      <4>3. CASE i = Len(rules) + 1 /\ j \in DOMAIN rules
        BY <3>3, <3>4, <3>6, <4>3 DEF SameName
      <4>4. QED
        BY <1>1, <3>3, <4>1, <4>2, <4>3
    <3>8. QED
      BY <1>1, <2>1, <3>3, <3>4, <3>7 DEF Rules, n
  <2>6. QED
    BY <2>4, <2>5
<1>4. QED
  BY <1>2, <1>3

\* Whether r's name is taken depends on the names of the list and of r alone.
LEMMA TakenElsewhere ==
    ASSUME NEW r \in Resource, ~Taken(r),
           UNCHANGED <<config, tf[r]>>,
           \A rule \in Rules(rules') :
              \/ \E old \in Rules(rules) : old.name = rule.name
              \/ ~SameName(rule.name, config[r].name)
    PROVE  ~Taken(r)'
<1> SUFFICES ASSUME NEW i \in DOMAIN rules', SameName(rules'[i].name, config[r].name),
                    tf[r] # None => ~SameName(rules'[i].name, tf[r].name)
             PROVE  FALSE
  BY DEF Taken, Named
<1>1. rules'[i] \in Rules(rules')
  BY DEF Rules
<1>2. PICK old \in Rules(rules) : old.name = rules'[i].name
  BY <1>1
<1>3. PICK j \in DOMAIN rules : rules[j].name = rules'[i].name
  BY <1>2 DEF Rules
<1>4. QED
  BY <1>3 DEF Taken, Named

LEMMA NamesStep ==
    DistinctConfigurations /\ NamesInv /\ [Next]_vars => NamesInv'
<1> SUFFICES ASSUME DistinctConfigurations, NamesInv, [Next]_vars PROVE NamesInv'
  OBVIOUS
<1> USE DEF NamesInv
<1>1. CoreInv'
  BY TypeStep, LockStep, OperationStep, ResolvedStep DEF CoreInv
<1>2. ASSUME "edit" \notin happened' PROVE ~UIEdit /\ "edit" \notin happened /\ ~stale'
  BY <1>2 DEF UIEdit, Next, Handler, StartRun, EndPlanning, Read, ModifyPlan, CheckName,
        AssignID, ResolveID, Vanished, Write, WriteLost, DeleteUnknown, ReadBack,
        RequestFails, ImportState, Rest, vars, budgets
<1>4. ConfigDistinct'
  <2>1. CASE StartRun
    BY <2>1 DEF StartRun, DistinctConfigurations, ConfigDistinct
  <2>2. CASE UNCHANGED config
    BY <2>2 DEF ConfigDistinct
  <2>3. QED
    BY <2>1, <2>2 DEF Next, UIEdit, Handler, EndPlanning, Read, ModifyPlan, CheckName, AssignID,
        ResolveID, Vanished, Write, WriteLost, DeleteUnknown, ReadBack, RequestFails,
        ImportState, Rest, vars, budgets
<1>5. ASSUME "edit" \notin happened' PROVE DistinctNames' /\ VettedNames'
  <2> USE DEF CoreInv
  <2>0. ~UIEdit /\ "edit" \notin happened
    BY <1>2, <1>5
  <2>1. CASE StartRun \/ EndPlanning
    <3>1. UNCHANGED rules
      BY <2>1 DEF StartRun, EndPlanning
    <3>2. \A q \in Resource : ~(pc'[q] \in {"lock", "write"} /\ config'[q] # None)
      BY <2>1 DEF StartRun, EndPlanning, Creating, Updating, Deleting
    <3>3. QED
      BY <2>0, <3>1, <3>2 DEF DistinctNames, VettedNames
  <2>2. ASSUME NEW r \in Resource, Write(r) \/ WriteLost(r)
        PROVE  DistinctNames' /\ VettedNames'
    <3>1. pc[r] = "write" /\ RequestApplied(r) /\ UNCHANGED config
      BY <2>2 DEF Write, WriteLost
    <3>2. /\ DistinctNames'
          /\ \A rule \in Rules(rules') :
                \/ \E old \in Rules(rules) : old.name = rule.name
                \/ config[r] # None /\ rule.name = config[r].name
      BY <2>0, <3>1, RequestKeepsNames
    <3>3. ASSUME NEW q \in Resource, pc'[q] \in {"lock", "write"}, config'[q] # None
          PROVE  ~Taken(q)'
      <4>1. q # r /\ pc[q] = pc'[q] /\ tf'[q] = tf[q]
        BY <2>2, <3>3 DEF Write, WriteLost, TypeOK
      <4>2. ~Taken(q)
        BY <2>0, <3>1, <3>3, <4>1 DEF VettedNames
      <4>3. config[r] # None => ~SameName(config[r].name, config[q].name)
        BY <3>1, <3>3, <4>1 DEF ConfigDistinct
      <4>4. QED
        BY <3>1, <3>2, <4>1, <4>2, <4>3, TakenElsewhere
    <3>4. QED
      BY <3>2, <3>3 DEF VettedNames
  <2>3. ASSUME NEW r \in Resource,
               \/ Read(r) \/ ModifyPlan(r) \/ CheckName(r) \/ AssignID(r) \/ ResolveID(r)
               \/ Vanished(r) \/ DeleteUnknown(r) \/ ReadBack(r) \/ RequestFails(r)
        PROVE  DistinctNames' /\ VettedNames'
    <3>1. UNCHANGED <<rules, config>>
      BY <2>3 DEF Read, ModifyPlan, CheckName, AssignID, ResolveID, Vanished,
                  DeleteUnknown, ReadBack, RequestFails
    <3>2. ASSUME NEW q \in Resource, pc'[q] \in {"lock", "write"}, config'[q] # None
          PROVE  ~Taken(q)'
      <4>1. tf'[q] = tf[q]
        BY <2>3, <3>2 DEF Read, ModifyPlan, CheckName, AssignID, ResolveID, Vanished,
              DeleteUnknown, ReadBack, RequestFails, TypeOK
      <4>2. pc[q] \in {"lock", "write"} \/ (q = r /\ CheckName(r))
        BY <2>3, <3>2 DEF Read, ModifyPlan, CheckName, AssignID, ResolveID, Vanished,
              DeleteUnknown, ReadBack, RequestFails, TypeOK
      <4>3. ~Taken(q)
        <5>1. CASE pc[q] \in {"lock", "write"}
          BY <2>0, <3>1, <3>2, <5>1 DEF VettedNames
        <5>2. CASE q = r /\ CheckName(r)
          BY <3>2, <5>2 DEF CheckName, TypeOK
        <5>3. QED
          BY <4>2, <5>1, <5>2
      <4>4. QED
        BY <3>1, <4>1, <4>3 DEF Taken, Named
    <3>3. QED
      BY <2>0, <3>1, <3>2 DEF DistinctNames, VettedNames
  <2>4. ASSUME NEW r \in Resource, NEW n \in Name, ImportState(r, n)
        PROVE  DistinctNames' /\ VettedNames'
    BY <2>0, <2>4 DEF ImportState, AllEnded, Ended, DistinctNames, VettedNames
  <2>5. CASE Rest \/ UNCHANGED vars
    BY <2>0, <2>5 DEF Rest, vars, budgets, DistinctNames, VettedNames, Taken, Named
  <2>6. QED
    BY <2>0, <2>1, <2>2, <2>3, <2>4, <2>5 DEF Next, Handler
<1>6. QED
  BY <1>1, <1>2, <1>4, <1>5

\* Where no configuration declares a name twice, names stay unique until
\* somebody edits the list in the UI: requests may fail and answers may be
\* lost, and handlers may interleave as they please between their check and
\* their write.
THEOREM NamesStayUnique ==
    ASSUME DistinctConfigurations
    PROVE  Spec => []NamesUnique
<1>1. Init => NamesInv
  BY CoreInit, ConstantsAssumption
     DEF Init, NamesInv, DistinctNames, ConfigDistinct, VettedNames
<1>2. NamesInv /\ [Next]_vars => NamesInv'
  BY NamesStep
<1>3. NamesInv => NamesUnique
  BY DEF NamesInv, NamesUnique, DistinctNames
<1>4. QED
  BY <1>1, <1>2, <1>3, PTL DEF Spec

-----------------------------------------------------------------------------
(* Who owns which rule. *)

\* No rule is there twice, and none under an identity still to be handed out.
UidsUnique ==
    /\ \A b, c \in Rules(rules) : b.uid = c.uid => b = c
    /\ \A b \in Rules(rules) : b.uid <= minted

\* What a resource holds in its state is a rule as the list has it.
StateIsListed == \A r \in Resource : tf[r] # None => tf[r] \in Rules(rules)

\* No two resources hold one name in their states.
OwnersApart ==
    \A q, r \in Resource :
        tf[q] # None /\ tf[r] # None /\ SameName(tf[q].name, tf[r].name) => q = r

\* The rule a create has added is there until the create has read it back, and
\* nobody else has taken it up.
CreatedIsUnowned ==
    \A r \in Resource :
        pc[r] = "readback" =>
            /\ \E b \in Rules(rules) : b.name = config[r].name /\ b.attr = config[r].attr
            /\ \A q \in Resource : tf[q] # None => ~SameName(tf[q].name, config[r].name)

\* A handler that has ended well has recorded what its block declares.
EndedAsDeclared ==
    \A r \in Resource :
        pc[r] = "ok" /\ config[r] # None =>
            tf[r] # None /\ tf[r].name = config[r].name /\ tf[r].attr = config[r].attr

Owning == UidsUnique /\ StateIsListed /\ OwnersApart /\ CreatedIsUnowned /\ EndedAsDeclared

OwnInv == NamesInv /\ (Undisturbed => Owning)

\* While names are unique a name leads to one rule.
LEMMA NameLeadsToRule ==
    ASSUME DistinctNames, NEW b \in Rules(rules), NEW n, SameName(b.name, n)
    PROVE  /\ Named(n) # {}
           /\ \A i \in Named(n) : rules[i] = b
BY DEF DistinctNames, Distinct, Rules, Named, SameName

LEMMA OneRulePerName ==
    ASSUME DistinctNames, NEW b \in Rules(rules), NEW c \in Rules(rules),
           SameName(b.name, c.name)
    PROVE  b = c
BY DEF DistinctNames, Distinct, Rules

\* What a vetted name means for a rule of the list.
LEMMA VettedName ==
    ASSUME NEW r \in Resource, ~Taken(r),
           NEW b \in Rules(rules), SameName(b.name, config[r].name)
    PROVE  tf[r] # None /\ SameName(b.name, tf[r].name)
BY DEF Taken, Named, Rules

\* A create that reaches the server adds one rule, under a name that is free.
LEMMA CreateAddsRule ==
    ASSUME NamesInv, Undisturbed, NEW r \in Resource, pc[r] = "write",
           RequestApplied(r), Creating(r)
    PROVE  /\ Rules(rules') = Rules(rules) \cup {Defined(minted + 1, config[r])}
           /\ minted' = minted + 1
           /\ \A b \in Rules(rules) : ~SameName(b.name, config[r].name)
<1> USE DEF NamesInv, CoreInv
<1>1. ~stale /\ ~Taken(r)
  BY DEF Undisturbed, VettedNames, Creating
<1>2. \A b \in Rules(rules) : ~SameName(b.name, config[r].name)
  BY <1>1, VettedName DEF Creating
<1>3. rules \in Seq(Rule) /\ Len(rules) \in Nat /\ DOMAIN rules = 1..Len(rules)
  BY LenProperties DEF TypeOK
<1>4. id[r] = Len(rules) + 1 /\ id[r] \notin DOMAIN rules
  BY <1>1, <1>3 DEF ResolvedIdIsCurrent, Creating
<1> DEFINE new == Defined(minted + 1, config[r])
<1>5. rules' = Append(rules, new) /\ minted' = minted + 1
  BY <1>4 DEF RequestApplied, Posted, Creating, Deleting
<1>6. new \in Rule
  BY DefinedRule DEF TypeOK, Creating
<1> HIDE DEF new
<1>7. /\ DOMAIN rules' = 1..(Len(rules) + 1)
      /\ \A i \in DOMAIN rules : rules'[i] = rules[i]
      /\ rules'[Len(rules) + 1] = new
  BY <1>3, <1>5, <1>6, AppendProperties, LenProperties
<1>8. Rules(rules') = Rules(rules) \cup {new}
  <2>1. Rules(rules') \subseteq Rules(rules) \cup {new}
    BY <1>3, <1>7 DEF Rules
  <2>2. Rules(rules) \cup {new} \subseteq Rules(rules')
    BY <1>3, <1>7 DEF Rules
  <2>3. QED
    BY <2>1, <2>2
<1>9. QED
  BY <1>2, <1>5, <1>8 DEF new

\* The ID of an update or a delete is that of the rule in state.
LEMMA ResolvedRule ==
    ASSUME NamesInv, Undisturbed, Owning, NEW r \in Resource, pc[r] = "write", tf[r] # None
    PROVE  id[r] \in DOMAIN rules /\ rules[id[r]] = tf[r] /\ tf[r] \in Rules(rules)
<1>1. id[r] \in Named(tf[r].name)
  BY DEF NamesInv, Undisturbed, CoreInv, ResolvedIdIsCurrent
<1>2. tf[r] \in Rules(rules)
  BY DEF Owning, StateIsListed
<1>3. DistinctNames
  BY DEF NamesInv, Undisturbed
<1>4. rules[id[r]] = tf[r]
  BY <1>1, <1>2, <1>3, NameLeadsToRule DEF SameName
<1>5. QED
  BY <1>1, <1>2, <1>4 DEF Named

\* An update replaces the rule in state, under a name no other rule has.
LEMMA UpdateChangesRule ==
    ASSUME NamesInv, Undisturbed, Owning, NEW r \in Resource, pc[r] = "write",
           RequestApplied(r), Updating(r)
    PROVE  /\ Rules(rules') = (Rules(rules) \ {tf[r]}) \cup {Defined(tf[r].uid, config[r])}
           /\ UNCHANGED minted
           /\ PostedUid(id[r]) = tf[r].uid
           /\ \A b \in Rules(rules) : SameName(b.name, config[r].name) => b = tf[r]
<1> USE DEF NamesInv, CoreInv
<1>1. ~Taken(r) /\ DistinctNames
  BY DEF Undisturbed, VettedNames, Updating
<1>2. id[r] \in DOMAIN rules /\ rules[id[r]] = tf[r] /\ tf[r] \in Rules(rules)
  BY ResolvedRule DEF Updating
<1>3. \A b \in Rules(rules) : SameName(b.name, config[r].name) => b = tf[r]
  BY <1>1, <1>2, VettedName, OneRulePerName
<1> DEFINE new == Defined(tf[r].uid, config[r])
<1>4. rules' = [rules EXCEPT ![id[r]] = new] /\ UNCHANGED minted
  BY <1>2 DEF RequestApplied, Posted, Updating, Deleting
<1>5. rules \in Seq(Rule) /\ DOMAIN rules = 1..Len(rules)
  BY LenProperties DEF TypeOK
<1> HIDE DEF new
<1>6. /\ DOMAIN rules' = DOMAIN rules
      /\ \A i \in DOMAIN rules : rules'[i] = IF i = id[r] THEN new ELSE rules[i]
  BY <1>4, <1>5
<1>7. \A i \in DOMAIN rules : rules[i] = tf[r] => i = id[r]
  BY <1>1, <1>2 DEF DistinctNames, Distinct, SameName
<1>8. Rules(rules') = (Rules(rules) \ {tf[r]}) \cup {new}
  BY <1>2, <1>6, <1>7 DEF Rules
<1>9. QED
  BY <1>2, <1>3, <1>4, <1>8 DEF new, PostedUid

\* A delete removes the rule in state and no other.
LEMMA DeleteDropsRule ==
    ASSUME NamesInv, Undisturbed, Owning, NEW r \in Resource, pc[r] = "write",
           RequestApplied(r), Deleting(r)
    PROVE  /\ Rules(rules') = Rules(rules) \ {tf[r]}
           /\ UNCHANGED minted
           /\ tf[r] \in Rules(rules)
<1> USE DEF NamesInv, CoreInv
<1>1. id[r] \in DOMAIN rules /\ rules[id[r]] = tf[r] /\ tf[r] \in Rules(rules)
  BY ResolvedRule DEF Deleting
<1>2. rules \in Seq(Rule) /\ DOMAIN rules = 1..Len(rules) /\ Len(rules) \in Nat
  BY LenProperties DEF TypeOK
<1> DEFINE k == id[r]
<1>3. rules' = RemoveAt(rules, k) /\ UNCHANGED minted
  BY DEF RequestApplied
<1>4. k \in 1..Len(rules) /\ rules[k] = tf[r]
  BY <1>1, <1>2
<1> HIDE DEF k
<1>5. /\ DOMAIN rules' = 1..(Len(rules) - 1)
      /\ \A i \in 1..(Len(rules) - 1) :
            rules'[i] = IF i < k THEN rules[i] ELSE rules[i + 1]
  BY <1>2, <1>3, <1>4, RemoveAtProperties, LenProperties
<1>6. \A i \in DOMAIN rules : rules[i] = tf[r] => i = k
  BY <1>1, <1>2, <1>4 DEF Undisturbed, DistinctNames, Distinct, SameName
<1>7. Rules(rules') \subseteq Rules(rules) \ {tf[r]}
  <2>1. SUFFICES ASSUME NEW i \in 1..(Len(rules) - 1)
                 PROVE  \E j \in DOMAIN rules : j # k /\ rules'[i] = rules[j]
    BY <1>5, <1>6 DEF Rules
  <2>2. QED
    BY <1>2, <1>4, <1>5
<1>8. Rules(rules) \ {tf[r]} \subseteq Rules(rules')
  <2>1. SUFFICES ASSUME NEW b \in Rules(rules), b # tf[r]
                 PROVE  \E i \in DOMAIN rules' : rules'[i] = b
    BY DEF Rules
  <2>2. PICK j \in 1..Len(rules) : rules[j] = b
    BY <1>2 DEF Rules
  <2>3. j # k
    BY <1>4, <2>1, <2>2
  <2>4. CASE j < k
    BY <1>2, <1>4, <1>5, <2>2, <2>4
  <2>5. CASE j > k
    <3>1. j - 1 \in 1..(Len(rules) - 1) /\ ~(j - 1 < k) /\ (j - 1) + 1 = j
      BY <1>2, <1>4, <2>5
    <3>2. QED
      BY <1>5, <2>2, <3>1
  <2>6. QED
    BY <1>2, <1>4, <2>3, <2>4, <2>5
<1>9. QED
  BY <1>1, <1>3, <1>7, <1>8

\* A step of the handlers that touches neither list nor state.
QuietStep ==
    /\ UNCHANGED <<rules, minted, tf>>
    /\ \A q \in Resource : pc'[q] = "readback" => pc[q] = "readback" /\ config'[q] = config[q]
    /\ \A q \in Resource :
          pc'[q] = "ok" /\ config'[q] # None =>
             \/ pc[q] = "ok" /\ config'[q] = config[q]
             \/ tf[q] # None /\ tf[q].name = config'[q].name /\ tf[q].attr = config'[q].attr

LEMMA QuietKeepsOwning == Owning /\ QuietStep => Owning'
<1> SUFFICES ASSUME Owning, QuietStep PROVE Owning'
  OBVIOUS
<1> USE DEF Owning, QuietStep
<1>1. UidsUnique' /\ StateIsListed' /\ OwnersApart'
  BY DEF UidsUnique, StateIsListed, OwnersApart, Rules
<1>2. CreatedIsUnowned'
  BY DEF CreatedIsUnowned, Rules
<1>3. EndedAsDeclared'
  BY DEF EndedAsDeclared
<1>4. QED
  BY <1>1, <1>2, <1>3

\* A refresh finds in the list what the state says already.
LEMMA ReadIsQuiet ==
    ASSUME NamesInv, Undisturbed, Owning, NEW r \in Resource, Read(r)
    PROVE  QuietStep
<1> USE DEF NamesInv, CoreInv
<1>1. tf' = tf
  <2>1. CASE tf[r] = None
    BY <2>1 DEF Read
  <2>2. CASE tf[r] # None
    <3>1. tf[r] \in Rules(rules) /\ DistinctNames
      BY <2>2 DEF Owning, StateIsListed, Undisturbed
    <3>2. /\ Named(tf[r].name) # {}
          /\ \A i \in Named(tf[r].name) : rules[i] = tf[r]
      BY <3>1, NameLeadsToRule DEF SameName
    <3>3. tf' = [tf EXCEPT ![r] = tf[r]]
      BY <2>2, <3>2 DEF Read, FirstNamed
    <3>4. QED
      BY <3>3 DEF TypeOK
  <2>3. QED
    BY <2>1, <2>2
<1>2. QED
  BY <1>1 DEF Read, QuietStep, TypeOK

LEMMA HandlerIsQuiet ==
    ASSUME NamesInv, NEW r \in Resource,
           \/ ModifyPlan(r) \/ CheckName(r) \/ AssignID(r) \/ ResolveID(r)
           \/ DeleteUnknown(r) \/ RequestFails(r)
    PROVE  QuietStep
<1> USE DEF NamesInv, CoreInv, TypeOK, QuietStep
<1>1. CASE ModifyPlan(r)
  BY <1>1 DEF ModifyPlan
<1>2. CASE CheckName(r)
  BY <1>2 DEF CheckName
<1>3. CASE AssignID(r)
  BY <1>3 DEF AssignID
<1>4. CASE ResolveID(r)
  BY <1>4 DEF ResolveID
<1>5. CASE DeleteUnknown(r)
  BY <1>5 DEF DeleteUnknown
<1>6. CASE RequestFails(r)
  BY <1>6 DEF RequestFails
<1>7. QED
  BY <1>1, <1>2, <1>3, <1>4, <1>5, <1>6

LEMMA TerraformIsQuiet == NamesInv /\ (StartRun \/ EndPlanning) => QuietStep
<1>1. CASE StartRun
  BY <1>1 DEF StartRun, QuietStep
<1>2. ASSUME NamesInv, EndPlanning PROVE QuietStep
  <2>1. UNCHANGED <<rules, minted, tf, config>> /\ \A q \in Resource : pc'[q] # "readback"
    BY <1>2 DEF EndPlanning
  <2>2. ASSUME NEW q \in Resource, pc'[q] = "ok", config[q] # None
        PROVE  tf[q] # None /\ tf[q].name = config[q].name /\ tf[q].attr = config[q].attr
    BY <1>2, <2>2 DEF EndPlanning, Creating, Updating, Deleting
  <2>3. QED
    BY <2>1, <2>2 DEF QuietStep
<1>3. QED
  BY <1>1, <1>2

\* Undisturbed, no handler finds its rule gone.
LEMMA NothingVanishes ==
    ASSUME NamesInv, Undisturbed, Owning, NEW r \in Resource, Vanished(r)
    PROVE  FALSE
<1>1. tf[r] # None
  BY DEF Vanished, Deleting, Updating
<1>2. tf[r] \in Rules(rules) /\ DistinctNames
  BY <1>1 DEF Owning, StateIsListed, NamesInv, Undisturbed
<1>3. Named(tf[r].name) # {}
  BY <1>2, NameLeadsToRule DEF SameName
<1>4. QED
  BY <1>3 DEF Vanished

LEMMA CreateKeepsOwning ==
    ASSUME NamesInv, Undisturbed, Owning, NEW r \in Resource, Write(r), Creating(r)
    PROVE  Owning'
<1> USE DEF NamesInv, CoreInv, Owning
<1> DEFINE new == Defined(minted + 1, config[r])
<1>1. /\ Rules(rules') = Rules(rules) \cup {new}
      /\ minted' = minted + 1
      /\ \A b \in Rules(rules) : ~SameName(b.name, config[r].name)
  BY CreateAddsRule DEF Write
<1>2. new.uid = minted + 1 /\ new.name = config[r].name /\ new.attr = config[r].attr
  BY DEF Defined
<1>3. /\ tf' = tf /\ config' = config
      /\ pc' = [pc EXCEPT ![r] = "readback"]
  BY DEF Write, Creating, Updating, TypeOK
<1> HIDE DEF new
<1>4. UidsUnique'
  <2>1. \A b \in Rules(rules) : b.uid \in Nat
    <3>1. \A i \in DOMAIN rules : rules[i] \in Rule
      BY ElementOfSeq, LenProperties DEF TypeOK
    <3>2. QED
      BY <3>1 DEF Rules, Rule
  <2>2. QED
    BY <1>1, <1>2, <2>1 DEF UidsUnique, TypeOK
<1>5. StateIsListed' /\ OwnersApart'
  BY <1>1, <1>3 DEF StateIsListed, OwnersApart
<1>6. CreatedIsUnowned'
  <2> SUFFICES ASSUME NEW q \in Resource, pc'[q] = "readback"
               PROVE  /\ \E b \in Rules(rules') :
                            b.name = config[q].name /\ b.attr = config[q].attr
                      /\ \A p \in Resource : tf[p] # None => ~SameName(tf[p].name, config[q].name)
    BY <1>3 DEF CreatedIsUnowned
  <2>1. CASE q = r
    BY <1>1, <1>2, <2>1 DEF StateIsListed
  <2>2. CASE q # r
    BY <1>1, <1>3, <2>2 DEF CreatedIsUnowned, TypeOK
  <2>3. QED
    BY <2>1, <2>2
<1>7. EndedAsDeclared'
  BY <1>3 DEF EndedAsDeclared, TypeOK
<1>8. QED
  BY <1>4, <1>5, <1>6, <1>7

LEMMA UpdateKeepsOwning ==
    ASSUME NamesInv, Undisturbed, Owning, NEW r \in Resource, Write(r), Updating(r)
    PROVE  Owning'
<1> USE DEF NamesInv, CoreInv, Owning
<1> DEFINE new == Defined(tf[r].uid, config[r])
<1>1. /\ Rules(rules') = (Rules(rules) \ {tf[r]}) \cup {new}
      /\ UNCHANGED minted
      /\ PostedUid(id[r]) = tf[r].uid
      /\ \A b \in Rules(rules) : SameName(b.name, config[r].name) => b = tf[r]
  BY UpdateChangesRule DEF Write
<1>2. new.uid = tf[r].uid /\ new.name = config[r].name /\ new.attr = config[r].attr
  BY DEF Defined
<1>3. tf[r] # None /\ config[r] # None /\ tf[r] \in Rules(rules)
  BY DEF Updating, StateIsListed
<1>4. tf' = [tf EXCEPT ![r] = new] /\ config' = config /\ pc' = [pc EXCEPT ![r] = "ok"]
  BY <1>1, <1>3 DEF Write, Updating, Creating
<1> HIDE DEF new
<1>5. new # None
  <2>1. tf[r].uid \in Nat
    BY <1>3 DEF TypeOK, Rule
  <2>2. QED
    BY <1>3, <2>1, DefinedRule, ConstantsAssumption DEF new, TypeOK
<1>6. \A q \in Resource : tf'[q] = IF q = r THEN new ELSE tf[q]
  BY <1>4 DEF TypeOK
<1>7. \A q \in Resource : q # r /\ tf[q] # None => ~SameName(tf[q].name, config[r].name)
  BY <1>1, <1>3 DEF StateIsListed, OwnersApart, SameName
<1>8. UidsUnique'
  <2>1. \A b \in Rules(rules') : \E c \in Rules(rules) : c.uid = b.uid
    BY <1>1, <1>2, <1>3
  <2>3. ASSUME NEW b \in Rules(rules'), NEW c \in Rules(rules'), b.uid = c.uid PROVE b = c
    <3>1. CASE b = new /\ c # new
      BY <1>1, <1>2, <1>3, <2>3, <3>1 DEF UidsUnique
    <3>2. CASE b # new /\ c = new
      BY <1>1, <1>2, <1>3, <2>3, <3>2 DEF UidsUnique
    <3>3. CASE b # new /\ c # new
      BY <1>1, <2>3, <3>3 DEF UidsUnique
    <3>4. QED
      BY <3>1, <3>2, <3>3
  <2>4. \A b \in Rules(rules') : b.uid <= minted'
    BY <1>1, <2>1 DEF UidsUnique
  <2>5. QED
    BY <2>3, <2>4 DEF UidsUnique
<1>9. StateIsListed'
  <2>1. ASSUME NEW q \in Resource, q # r, tf[q] # None PROVE tf[q] # tf[r]
    BY <1>3, <2>1 DEF OwnersApart, SameName
  <2>2. QED
    BY <1>1, <1>6, <2>1 DEF StateIsListed
<1>10. OwnersApart'
  BY <1>2, <1>6, <1>7 DEF OwnersApart, SameName
<1>11. CreatedIsUnowned'
  <2> SUFFICES ASSUME NEW q \in Resource, pc'[q] = "readback"
               PROVE  /\ \E b \in Rules(rules') :
                            b.name = config[q].name /\ b.attr = config[q].attr
                      /\ \A p \in Resource :
                            tf'[p] # None => ~SameName(tf'[p].name, config[q].name)
    BY <1>4 DEF CreatedIsUnowned
  <2>1. q # r /\ pc[q] = "readback"
    BY <1>4 DEF TypeOK
  <2>2. /\ \E b \in Rules(rules) : b.name = config[q].name /\ b.attr = config[q].attr
        /\ \A p \in Resource : tf[p] # None => ~SameName(tf[p].name, config[q].name)
    BY <2>1 DEF CreatedIsUnowned
  <2>3. tf[r].name # config[q].name
    BY <1>3, <2>2 DEF SameName
  <2>4. config[q] # None
    BY <2>1 DEF OperationIsKnown, Creating
  <2>5. ~SameName(config[r].name, config[q].name)
    BY <1>3, <2>1, <2>4 DEF ConfigDistinct
  <2>6. QED
    BY <1>1, <1>2, <1>6, <2>2, <2>3, <2>5
<1>12. EndedAsDeclared'
  BY <1>2, <1>4, <1>5, <1>6 DEF EndedAsDeclared, TypeOK
<1>13. QED
  BY <1>8, <1>9, <1>10, <1>11, <1>12

LEMMA DeleteKeepsOwning ==
    ASSUME NamesInv, Undisturbed, Owning, NEW r \in Resource, Write(r), Deleting(r)
    PROVE  Owning'
<1> USE DEF NamesInv, CoreInv, Owning
<1>1. /\ Rules(rules') = Rules(rules) \ {tf[r]}
      /\ UNCHANGED minted
      /\ tf[r] \in Rules(rules)
  BY DeleteDropsRule DEF Write
<1>2. tf[r] # None /\ config[r] = None
  BY DEF Deleting
<1>3. tf' = [tf EXCEPT ![r] = None] /\ config' = config /\ pc' = [pc EXCEPT ![r] = "ok"]
  BY <1>2 DEF Write, Updating, Creating
<1>4. \A q \in Resource : tf'[q] = IF q = r THEN None ELSE tf[q]
  BY <1>3 DEF TypeOK
<1>5. UidsUnique' /\ OwnersApart'
  BY <1>1, <1>4 DEF UidsUnique, OwnersApart
<1>6. StateIsListed'
  <2>1. ASSUME NEW q \in Resource, q # r, tf[q] # None PROVE tf[q] # tf[r]
    BY <1>2, <2>1 DEF OwnersApart, SameName
  <2>2. QED
    BY <1>1, <1>4, <2>1 DEF StateIsListed
<1>7. CreatedIsUnowned'
  <2> SUFFICES ASSUME NEW q \in Resource, pc'[q] = "readback"
               PROVE  /\ \E b \in Rules(rules') :
                            b.name = config[q].name /\ b.attr = config[q].attr
                      /\ \A p \in Resource :
                            tf'[p] # None => ~SameName(tf'[p].name, config[q].name)
    BY <1>3 DEF CreatedIsUnowned
  <2>1. pc[q] = "readback"
    BY <1>3 DEF TypeOK
  <2>2. /\ \E b \in Rules(rules) : b.name = config[q].name /\ b.attr = config[q].attr
        /\ \A p \in Resource : tf[p] # None => ~SameName(tf[p].name, config[q].name)
    BY <2>1 DEF CreatedIsUnowned
  <2>3. tf[r].name # config[q].name
    BY <1>2, <2>2 DEF SameName
  <2>4. QED
    BY <1>1, <1>4, <2>2, <2>3
<1>8. EndedAsDeclared'
  BY <1>2, <1>3, <1>4 DEF EndedAsDeclared, TypeOK
<1>9. QED
  BY <1>5, <1>6, <1>7, <1>8

\* Undisturbed, a create reads back the rule it has added.
LEMMA ReadBackTakesOwnRule ==
    ASSUME NamesInv, Undisturbed, Owning, NEW r \in Resource, ReadBack(r)
    PROVE  \E b \in Rules(rules) :
              /\ b.name = config[r].name /\ b.attr = config[r].attr
              /\ tf' = [tf EXCEPT ![r] = b]
              /\ pc' = [pc EXCEPT ![r] = "ok"]
              /\ \A q \in Resource : tf[q] # None => ~SameName(tf[q].name, b.name)
<1>1. PICK b \in Rules(rules) : b.name = config[r].name /\ b.attr = config[r].attr
  BY DEF Owning, CreatedIsUnowned, ReadBack
<1>2. \A q \in Resource : tf[q] # None => ~SameName(tf[q].name, b.name)
  BY <1>1 DEF Owning, CreatedIsUnowned, ReadBack
<1>3. /\ Named(config[r].name) # {}
      /\ \A i \in Named(config[r].name) : rules[i] = b
  BY <1>1, NameLeadsToRule DEF SameName, NamesInv, Undisturbed
<1>4. b \in Rule
  BY ElementOfSeq, LenProperties DEF NamesInv, CoreInv, TypeOK, Rules
<1>5. Defined(b.uid, config[r]) = b
  BY <1>1, <1>4 DEF Defined, Rule
<1>6. tf' = [tf EXCEPT ![r] = b] /\ pc' = [pc EXCEPT ![r] = "ok"]
  BY <1>3, <1>5 DEF ReadBack, FirstNamed
<1>7. QED
  BY <1>1, <1>2, <1>6

LEMMA ImportTakesFreeRule ==
    ASSUME NamesInv, Undisturbed, Owning,
           NEW r \in Resource, NEW n \in Name, ImportState(r, n)
    PROVE  \E b \in Rules(rules) :
              /\ tf' = [tf EXCEPT ![r] = b]
              /\ \A q \in Resource : tf[q] # None => ~SameName(tf[q].name, b.name)
<1>1. PICK i \in Named(n) : tf' = [tf EXCEPT ![r] = rules[i]]
  BY DEF ImportState
<1>2. \A q \in Resource : tf[q] # None => ~SameName(tf[q].name, rules[i].name)
  BY <1>1 DEF ImportState, Named, SameName
<1>3. rules[i] \in Rules(rules)
  BY <1>1 DEF Named, Rules
<1>4. QED
  BY <1>1, <1>2, <1>3

\* A resource takes up a rule whose name no other resource holds.
LEMMA AdoptionKeepsOwning ==
    ASSUME NamesInv, Owning, NEW r \in Resource, NEW b \in Rules(rules),
           tf' = [tf EXCEPT ![r] = b],
           \A q \in Resource : tf[q] # None => ~SameName(tf[q].name, b.name),
           UNCHANGED <<rules, minted, config>>,
           \/ /\ pc[r] = "readback" /\ pc' = [pc EXCEPT ![r] = "ok"]
              /\ b.name = config[r].name /\ b.attr = config[r].attr
           \/ AllEnded /\ tf[r] = None /\ UNCHANGED pc
    PROVE  Owning'
<1> USE DEF NamesInv, CoreInv, Owning
<1>1. \A q \in Resource : tf'[q] = IF q = r THEN b ELSE tf[q]
  BY DEF TypeOK
<1>2. b # None
  BY ElementOfSeq, LenProperties, ConstantsAssumption DEF TypeOK, Rules
<1>3. UidsUnique' /\ StateIsListed' /\ OwnersApart'
  BY <1>1 DEF UidsUnique, StateIsListed, OwnersApart, SameName
<1>4. CreatedIsUnowned'
  <2> SUFFICES ASSUME NEW q \in Resource, pc'[q] = "readback"
               PROVE  /\ \E c \in Rules(rules) :
                            c.name = config[q].name /\ c.attr = config[q].attr
                      /\ \A p \in Resource :
                            tf'[p] # None => ~SameName(tf'[p].name, config[q].name)
    BY DEF CreatedIsUnowned
  <2>1. /\ q # r /\ pc[q] = "readback" /\ pc[r] = "readback"
        /\ b.name = config[r].name
    BY DEF TypeOK, AllEnded, Ended
  <2>2. config[q] # None /\ config[r] # None
    BY <2>1 DEF OperationIsKnown, Creating
  <2>3. ~SameName(b.name, config[q].name)
    BY <2>1, <2>2 DEF ConfigDistinct
  <2>4. QED
    BY <1>1, <2>1, <2>3 DEF CreatedIsUnowned
<1>5. EndedAsDeclared'
  <2> SUFFICES ASSUME NEW q \in Resource, pc'[q] = "ok", config[q] # None
               PROVE  /\ tf'[q] # None
                      /\ tf'[q].name = config[q].name /\ tf'[q].attr = config[q].attr
    BY DEF EndedAsDeclared
  <2>1. CASE q = r
    BY <1>1, <1>2, <2>1 DEF EndedAsDeclared
  <2>2. CASE q # r
    BY <1>1, <2>2 DEF EndedAsDeclared, TypeOK
  <2>3. QED
    BY <2>1, <2>2
<1>6. QED
  BY <1>3, <1>4, <1>5

LEMMA OwningStep == OwnInv /\ Undisturbed' /\ [Next]_vars => Owning'
<1> SUFFICES ASSUME OwnInv, Undisturbed', [Next]_vars PROVE Owning'
  OBVIOUS
<1>1. /\ ~UIEdit
      /\ \A r \in Resource : ~WriteLost(r)
      /\ Undisturbed
  BY DEF Undisturbed, UIEdit, WriteLost, Next, Handler, StartRun, EndPlanning, Read,
        ModifyPlan, CheckName, AssignID, ResolveID, Vanished, Write, DeleteUnknown,
        ReadBack, RequestFails, ImportState, Rest, vars, budgets
<1>2. NamesInv /\ Owning
  BY <1>1 DEF OwnInv
<1>3. CASE StartRun \/ EndPlanning
  BY <1>2, <1>3, TerraformIsQuiet, QuietKeepsOwning
<1>4. ASSUME NEW r \in Resource, Handler(r) \/ RequestFails(r) PROVE Owning'
  <2>1. CASE Read(r)
    BY <1>1, <1>2, <2>1, ReadIsQuiet, QuietKeepsOwning
  <2>2. CASE \/ ModifyPlan(r) \/ CheckName(r) \/ AssignID(r) \/ ResolveID(r)
             \/ DeleteUnknown(r) \/ RequestFails(r)
    BY <1>2, <2>2, HandlerIsQuiet, QuietKeepsOwning
  <2>3. CASE Vanished(r)
    BY <1>1, <1>2, <2>3, NothingVanishes
  <2>4. CASE Write(r)
    <3>1. Creating(r) \/ Updating(r) \/ Deleting(r)
      BY <1>2, <2>4 DEF Write, NamesInv, CoreInv, OperationIsKnown
    <3>2. QED
      BY <1>1, <1>2, <2>4, <3>1, CreateKeepsOwning, UpdateKeepsOwning, DeleteKeepsOwning
  <2>5. CASE ReadBack(r)
    <3>1. PICK b \in Rules(rules) :
              /\ b.name = config[r].name /\ b.attr = config[r].attr
              /\ tf' = [tf EXCEPT ![r] = b]
              /\ pc' = [pc EXCEPT ![r] = "ok"]
              /\ \A q \in Resource : tf[q] # None => ~SameName(tf[q].name, b.name)
      BY <1>1, <1>2, <2>5, ReadBackTakesOwnRule
    <3>2. pc[r] = "readback" /\ UNCHANGED <<rules, minted, config>>
      BY <2>5 DEF ReadBack
    <3>3. QED
      BY <1>2, <3>1, <3>2, AdoptionKeepsOwning
  <2>6. QED
    BY <1>4, <2>1, <2>2, <2>3, <2>4, <2>5 DEF Handler
<1>5. ASSUME NEW r \in Resource, NEW n \in Name, ImportState(r, n) PROVE Owning'
  <2>1. PICK b \in Rules(rules) :
           /\ tf' = [tf EXCEPT ![r] = b]
           /\ \A q \in Resource : tf[q] # None => ~SameName(tf[q].name, b.name)
    BY <1>1, <1>2, <1>5, ImportTakesFreeRule
  <2>2. /\ AllEnded /\ tf[r] = None
        /\ UNCHANGED <<rules, minted, config, pc>>
    BY <1>5 DEF ImportState
  <2>3. QED
    BY <1>2, <2>1, <2>2, AdoptionKeepsOwning
<1>6. CASE Rest \/ UNCHANGED vars
  <2>1. QuietStep
    BY <1>6 DEF Rest, vars, budgets, QuietStep
  <2>2. QED
    BY <1>2, <2>1, QuietKeepsOwning
<1>7. QED
  BY <1>1, <1>3, <1>4, <1>5, <1>6 DEF Next

LEMMA OwningInit == Init => Owning
<1> SUFFICES ASSUME Init PROVE Owning
  OBVIOUS
<1>1. \A i \in DOMAIN rules : rules[i].uid = i /\ i \in 1..Len(rules)
  BY ConstantsAssumption, LenProperties DEF Init
<1>2. UidsUnique
  <2>1. \A i \in 1..Len(rules) : i <= Len(rules)
    OBVIOUS
  <2>2. QED
    BY <1>1, <2>1 DEF Init, UidsUnique, Rules
<1>3. QED
  BY <1>2 DEF Init, Owning, StateIsListed, OwnersApart, CreatedIsUnowned, EndedAsDeclared

LEMMA OwnInvariant ==
    ASSUME DistinctConfigurations
    PROVE  Spec => []OwnInv
<1>1. Init => OwnInv
  <2>1. Init => NamesInv
    BY CoreInit, ConstantsAssumption
       DEF Init, NamesInv, DistinctNames, ConfigDistinct, VettedNames
  <2>2. QED
    BY <2>1, OwningInit DEF OwnInv
<1>2. OwnInv /\ [Next]_vars => OwnInv'
  BY NamesStep, OwningStep DEF OwnInv
<1>3. QED
  BY <1>1, <1>2, PTL DEF Spec

\* No rule has two owners: parallel creates, renames that swap names between
\* blocks, failed requests and imports never bind two resources to one rule.
THEOREM NoRuleIsShared ==
    ASSUME DistinctConfigurations
    PROVE  Spec => []NoSharedRule
<1>1. OwnInv => NoSharedRule
  <2> SUFFICES ASSUME OwnInv, Undisturbed, NEW q \in Resource, NEW r \in Resource,
                      tf[q] # None, tf[r] # None, tf[q].uid = tf[r].uid
               PROVE  q = r
    BY DEF NoSharedRule
  <2>1. tf[q] = tf[r]
    BY DEF OwnInv, Owning, StateIsListed, UidsUnique
  <2>2. QED
    BY <2>1 DEF OwnInv, Owning, OwnersApart, SameName
<1>2. QED
  BY <1>1, OwnInvariant, PTL

\* What a run reports as applied is in the list as declared, and stays there
\* while the other handlers of the run, and of later runs, write the list.
THEOREM AppliedRulesAreStored ==
    ASSUME DistinctConfigurations
    PROVE  Spec => []AppliedIsStored
<1>1. OwnInv => AppliedIsStored
  <2> SUFFICES ASSUME OwnInv, Undisturbed, NEW r \in Resource, pc[r] = "ok", config[r] # None
               PROVE  \E rule \in Rules(rules) :
                         /\ tf[r] # None /\ rule.uid = tf[r].uid
                         /\ rule.name = config[r].name /\ rule.attr = config[r].attr
    BY DEF AppliedIsStored
  <2>1. tf[r] # None /\ tf[r].name = config[r].name /\ tf[r].attr = config[r].attr
    BY DEF OwnInv, Owning, EndedAsDeclared
  <2>2. tf[r] \in Rules(rules)
    BY <2>1 DEF OwnInv, Owning, StateIsListed
  <2>3. QED
    BY <2>1, <2>2
<1>2. QED
  BY <1>1, OwnInvariant, PTL

-----------------------------------------------------------------------------
(* The handlers implement the book of rules. *)

\* The identity of the rule each resource owns.
Owners == [r \in Resource |-> IF tf[r] = None THEN None ELSE tf[r].uid]

LEMMA OwnerOf ==
    ASSUME TypeOK, NEW r \in Resource, NEW b \in Rule, tf' = [tf EXCEPT ![r] = b]
    PROVE  Owners' = [Owners EXCEPT ![r] = b.uid]
<1>1. \A q \in Resource : tf'[q] = IF q = r THEN b ELSE tf[q]
  BY DEF TypeOK
<1>2. b # None
  BY ConstantsAssumption
<1>3. \A q \in Resource : Owners'[q] = IF q = r THEN b.uid ELSE Owners[q]
  BY <1>1, <1>2 DEF Owners
<1>4. Owners = [q \in Resource |-> Owners[q]] /\ Owners' = [q \in Resource |-> Owners'[q]]
  BY DEF Owners
<1>5. QED
  BY <1>3, <1>4

LEMMA WantedParts ==
    ASSUME TypeOK, NEW r \in Resource, config[r] # None
    PROVE  config[r].name \in Name /\ config[r].attr \in Attr
BY DEF TypeOK, Wanted

\* A post by a create adds a rule that has no owner yet.
LEMMA CreateIsAdd ==
    ASSUME OwnInv, Undisturbed, NEW r \in Resource, Write(r), Creating(r)
    PROVE  Book!BookNext
<1>1. NamesInv /\ TypeOK
  BY DEF OwnInv, NamesInv, CoreInv
<1>2. /\ Rules(rules') = Rules(rules) \cup {Defined(minted + 1, config[r])}
      /\ minted' = minted + 1
      /\ \A b \in Rules(rules) : ~SameName(b.name, config[r].name)
  BY <1>1, CreateAddsRule DEF Write
<1>3. config[r].name \in Name /\ config[r].attr \in Attr
  BY <1>1, WantedParts DEF Creating
<1>4. tf' = tf
  BY <1>1 DEF Write, Creating, Updating, TypeOK
<1>5. Book!Add(config[r].name, config[r].attr)
  BY <1>2, <1>4 DEF Book!Add, Book!Unused, Defined, SameName, Rules
<1>6. QED
  BY <1>3, <1>5 DEF Book!BookNext

\* A post by an update changes the rule its resource owns.
LEMMA UpdateIsChange ==
    ASSUME OwnInv, Undisturbed, NEW r \in Resource, Write(r), Updating(r)
    PROVE  Book!BookNext
<1>1. NamesInv /\ TypeOK /\ Owning
  BY DEF OwnInv, NamesInv, CoreInv
<1> DEFINE b == tf[r]
           new == Defined(b.uid, config[r])
<1>2. /\ Rules(rules') = (Rules(rules) \ {b}) \cup {new}
      /\ UNCHANGED minted
      /\ PostedUid(id[r]) = b.uid
      /\ \A c \in Rules(rules) : SameName(c.name, config[r].name) => c = b
  BY <1>1, UpdateChangesRule DEF Write
<1>3. b \in Rules(rules) /\ b # None /\ config[r] # None
  BY <1>1 DEF Owning, StateIsListed, Updating
<1>4. config[r].name \in Name /\ config[r].attr \in Attr
  BY <1>1, <1>3, WantedParts
<1>5. UNCHANGED Owners
  <2>1. tf' = [tf EXCEPT ![r] = new]
    BY <1>2, <1>3 DEF Write, Updating, Creating
  <2>2. new \in Rule /\ new.uid = b.uid
    <3>1. b.uid \in Nat /\ config[r] \in Wanted
      BY <1>1, <1>3 DEF TypeOK, Rule
    <3>2. QED
      BY <3>1, DefinedRule DEF Defined
  <2>3. Owners' = [Owners EXCEPT ![r] = b.uid]
    BY <1>1, <2>1, <2>2, OwnerOf
  <2>4. Owners[r] = b.uid
    BY <1>3 DEF Owners
  <2>5. QED
    BY <2>3, <2>4 DEF Owners
<1>6. Book!Change(r, b, config[r].name, config[r].attr)
  BY <1>2, <1>3, <1>5 DEF Book!Change, Book!Unused, Defined, SameName, Owners, Rules
<1>7. QED
  BY <1>3, <1>4, <1>6 DEF Book!BookNext

\* A delete drops the rule its resource owns.
LEMMA DeleteIsDrop ==
    ASSUME OwnInv, Undisturbed, NEW r \in Resource, Write(r), Deleting(r)
    PROVE  Book!BookNext
<1>1. NamesInv /\ TypeOK /\ Owning
  BY DEF OwnInv, NamesInv, CoreInv
<1>2. /\ Rules(rules') = Rules(rules) \ {tf[r]}
      /\ UNCHANGED minted
      /\ tf[r] \in Rules(rules)
  BY <1>1, DeleteDropsRule DEF Write
<1>3. tf[r] # None
  BY DEF Deleting
<1>4. tf' = [tf EXCEPT ![r] = None]
  BY DEF Write, Deleting, Updating
<1>5. Owners' = [Owners EXCEPT ![r] = None]
  <2>1. \A q \in Resource : tf'[q] = IF q = r THEN None ELSE tf[q]
    BY <1>1, <1>4 DEF TypeOK
  <2>2. QED
    BY <2>1 DEF Owners
<1>6. PICK b \in Rules(rules) : b = tf[r]
  BY <1>2
<1>7. Book!Drop(r, b)
  BY <1>2, <1>3, <1>5, <1>6 DEF Book!Drop, Owners, Rules
<1>8. QED
  BY <1>7 DEF Book!BookNext

\* The end of a create, and an import, take up a rule nobody owns.
LEMMA TakingUpIsAdopt ==
    ASSUME OwnInv, Undisturbed, NEW r \in Resource, NEW b \in Rules(rules),
           tf[r] = None, tf' = [tf EXCEPT ![r] = b], UNCHANGED <<rules, minted>>,
           \A q \in Resource : tf[q] # None => ~SameName(tf[q].name, b.name)
    PROVE  Book!BookNext
<1>1. TypeOK /\ Owning
  BY DEF OwnInv, NamesInv, CoreInv
<1>2. b \in Rule /\ b.uid \in Nat
  <2>1. b \in Rule
    BY <1>1, ElementOfSeq, LenProperties DEF TypeOK, Rules
  <2>2. QED
    BY <2>1 DEF Rule
<1>3. \A q \in Resource : Owners[q] # b.uid
  <2> SUFFICES ASSUME NEW q \in Resource, Owners[q] = b.uid PROVE FALSE
    OBVIOUS
  <2>1. CASE tf[q] = None
    BY <1>2, <2>1, ConstantsAssumption DEF Owners
  <2>2. CASE tf[q] # None
    <3>1. tf[q] = b
      BY <1>1, <2>2 DEF Owners, Owning, StateIsListed, UidsUnique
    <3>2. QED
      BY <2>2, <3>1 DEF SameName
  <2>3. QED
    BY <2>1, <2>2
<1>4. Owners' = [Owners EXCEPT ![r] = b.uid]
  BY <1>1, <1>2, OwnerOf
<1>5. Owners[r] = None
  BY DEF Owners
<1>6. Book!Adopt(r, b)
  BY <1>3, <1>4, <1>5 DEF Book!Adopt, Book!Owned, Owners, Rules
<1>7. QED
  BY <1>6 DEF Book!BookNext

\* Every other step of the provider leaves the book as it is.
LEMMA QuietStutters ==
    ASSUME QuietStep, Undisturbed, Undisturbed'
    PROVE  UNCHANGED Book!bookVars
BY DEF QuietStep, Book!bookVars, Rules

LEMMA BookStep == OwnInv /\ [Next]_vars => Book!BookNext \/ UNCHANGED Book!bookVars
<1> SUFFICES ASSUME OwnInv, [Next]_vars
             PROVE  Book!BookNext \/ UNCHANGED Book!bookVars
  OBVIOUS
<1>1. CASE ~Undisturbed'
  BY <1>1 DEF Book!BookNext
<1>2. ASSUME Undisturbed'
      PROVE  Book!BookNext \/ UNCHANGED Book!bookVars
  <2>1. /\ ~UIEdit
        /\ \A r \in Resource : ~WriteLost(r)
        /\ Undisturbed
    BY <1>2 DEF Undisturbed, UIEdit, WriteLost, Next, Handler, StartRun, EndPlanning, Read,
          ModifyPlan, CheckName, AssignID, ResolveID, Vanished, Write, DeleteUnknown,
          ReadBack, RequestFails, ImportState, Rest, vars, budgets
  <2>2. NamesInv /\ Owning
    BY <2>1 DEF OwnInv
  <2>3. CASE StartRun \/ EndPlanning
    BY <1>2, <2>1, <2>2, <2>3, TerraformIsQuiet, QuietStutters
  <2>4. ASSUME NEW r \in Resource, Handler(r) \/ RequestFails(r)
        PROVE  Book!BookNext \/ UNCHANGED Book!bookVars
    <3>1. CASE Read(r)
      BY <1>2, <2>1, <2>2, <3>1, ReadIsQuiet, QuietStutters
    <3>2. CASE \/ ModifyPlan(r) \/ CheckName(r) \/ AssignID(r) \/ ResolveID(r)
               \/ DeleteUnknown(r) \/ RequestFails(r)
      BY <1>2, <2>1, <2>2, <3>2, HandlerIsQuiet, QuietStutters
    <3>3. CASE Vanished(r)
      BY <2>1, <2>2, <3>3, NothingVanishes
    <3>4. CASE Write(r)
      <4>1. Creating(r) \/ Updating(r) \/ Deleting(r)
        BY <2>2, <3>4 DEF Write, NamesInv, CoreInv, OperationIsKnown
      <4>2. QED
        BY <2>1, <3>4, <4>1, CreateIsAdd, UpdateIsChange, DeleteIsDrop
    <3>5. CASE ReadBack(r)
      <4>1. PICK b \in Rules(rules) :
                /\ tf' = [tf EXCEPT ![r] = b]
                /\ \A q \in Resource : tf[q] # None => ~SameName(tf[q].name, b.name)
        BY <2>1, <2>2, <3>5, ReadBackTakesOwnRule
      <4>2. tf[r] = None /\ UNCHANGED <<rules, minted>>
        BY <2>2, <3>5 DEF ReadBack, NamesInv, CoreInv, OperationIsKnown, Creating
      <4>3. QED
        BY <2>1, <4>1, <4>2, TakingUpIsAdopt
    <3>6. QED
      BY <2>4, <3>1, <3>2, <3>3, <3>4, <3>5 DEF Handler
  <2>5. ASSUME NEW r \in Resource, NEW n \in Name, ImportState(r, n)
        PROVE  Book!BookNext \/ UNCHANGED Book!bookVars
    <3>1. PICK b \in Rules(rules) :
              /\ tf' = [tf EXCEPT ![r] = b]
              /\ \A q \in Resource : tf[q] # None => ~SameName(tf[q].name, b.name)
      BY <2>1, <2>2, <2>5, ImportTakesFreeRule
    <3>2. tf[r] = None /\ UNCHANGED <<rules, minted>>
      BY <2>5 DEF ImportState
    <3>3. QED
      BY <2>1, <3>1, <3>2, TakingUpIsAdopt
  <2>6. CASE Rest \/ UNCHANGED vars
    <3>1. QuietStep
      BY <2>6 DEF Rest, vars, budgets, QuietStep
    <3>2. QED
      BY <1>2, <2>1, <3>1, QuietStutters
  <2>7. QED
    BY <2>1, <2>3, <2>4, <2>5, <2>6 DEF Next
<1>3. QED
  BY <1>1, <1>2

\* The handlers keep the promise of RuleBook: whatever they do in parallel, with
\* positions for IDs and requests that fail, each step is one addition, change,
\* removal or adoption of a rule its resource owns, or nothing at all.
THEOREM CompoundImplementsRuleBook ==
    ASSUME DistinctConfigurations
    PROVE  Spec => ImplementsRuleBook
<1>1. Init => Book!BookInit
  <2> SUFFICES ASSUME Init PROVE Book!BookInit
    OBVIOUS
  <2> DEFINE Start(list) == [book |-> Rules(list), minted |-> Len(list)]
  <2>1. Start(rules) \in {Start(list) : list \in InitialLists}
    BY DEF Init
  <2>2. Rules(rules) = Start(rules).book /\ minted = Start(rules).minted
    BY DEF Init
  <2> HIDE DEF Start
  <2>3. \E start \in {Start(list) : list \in InitialLists} :
           Rules(rules) = start.book /\ minted = start.minted
    BY <2>1, <2>2
  <2>4. [r \in Resource |-> IF tf[r] = None THEN None ELSE tf[r].uid]
           = [r \in Resource |-> None]
    BY DEF Init
  <2>5. Undisturbed
    BY DEF Init, Undisturbed
  <2>6. QED
    BY <2>3, <2>4, <2>5 DEF Book!BookInit, Start
<1>2. OwnInv /\ [Next]_vars => [Book!BookNext]_(Book!bookVars)
  BY BookStep
<1>3. QED
  BY <1>1, <1>2, OwnInvariant, PTL DEF Spec, ImplementsRuleBook, Book!BookSpec

-----------------------------------------------------------------------------
(* What the end of every handler rests on. *)

\* All blocks are planned before any is applied.
PlannedTogether == \A q, r \in Resource : pc[q] \in Planning => pc[r] \in Planning

\* The mutex is held by a handler that has a request to send under it: no path
\* through a handler, and no failure, leaves it locked.
LockIsHeld == lock # Free => pc[lock] = "write"

\* Nothing that another handler does or waits for stops r where it is.
CanMove(r) ==
    \/ pc[r] \in {"refresh", "plan", "check", "write", "readback"}
    \/ pc[r] = "lock" /\ lock = Free

\* As long as a handler has not ended, one can move, or planning is over.
NobodyIsStuck ==
    (\E r \in Resource : pc[r] \notin Ended) =>
        \/ \E r \in Resource : CanMove(r)
        \/ \A r \in Resource : pc[r] \in {"ready", "refused"}

\* How many steps the handler of r takes at most until the run is over.
StepsLeft(label) ==
    CASE label = "refresh"              -> 7
      [] label = "plan"                 -> 6
      [] label \in {"ready", "refused"} -> 5
      [] label = "check"                -> 4
      [] label = "lock"                 -> 3
      [] label = "write"                -> 2
      [] label = "readback"             -> 1
      [] OTHER                          -> 0

\* Until the next run is started, no step moves a handler back.
HandlersAdvance ==
    [][runs' = runs =>
         \A r \in Resource : pc'[r] # pc[r] => StepsLeft(pc'[r]) < StepsLeft(pc[r])]_vars

LEMMA HeldStep ==
    CoreInv /\ PlannedTogether /\ LockIsHeld /\ [Next]_vars => PlannedTogether' /\ LockIsHeld'
<1> SUFFICES ASSUME CoreInv, PlannedTogether, LockIsHeld, [Next]_vars
             PROVE  PlannedTogether' /\ LockIsHeld'
  OBVIOUS
<1>0. /\ pc \in [Resource -> Ended \cup Planning \cup Applying]
      /\ lock \in Resource \cup {Free}
      /\ \A r \in Resource : pc[r] = "write" => lock = r
  BY DEF CoreInv, TypeOK, WritersHoldLock
<1> USE DEF PlannedTogether, LockIsHeld
<1>1. CASE StartRun
  BY <1>0, <1>1 DEF StartRun, AllEnded, Ended, Planning
<1>2. CASE EndPlanning
  BY <1>0, <1>2 DEF EndPlanning, Planning
<1>3. ASSUME NEW r \in Resource, Handler(r) \/ WriteLost(r) \/ RequestFails(r)
      PROVE  PlannedTogether' /\ LockIsHeld'
  <2>1. CASE Read(r) \/ ModifyPlan(r)
    BY <1>0, <2>1 DEF Read, ModifyPlan, Planning
  <2>2. CASE CheckName(r) \/ Vanished(r) \/ ReadBack(r)
    BY <1>0, <2>2 DEF CheckName, Vanished, ReadBack, Planning
  <2>3. CASE AssignID(r) \/ ResolveID(r)
    BY <1>0, <2>3 DEF AssignID, ResolveID, Planning
  <2>4. CASE Write(r) \/ DeleteUnknown(r) \/ WriteLost(r)
    BY <1>0, <2>4 DEF Write, DeleteUnknown, WriteLost, Planning
  <2>5. CASE RequestFails(r)
    BY <1>0, <2>5 DEF RequestFails, Requesting, Planning
  <2>6. QED
    BY <1>3, <2>1, <2>2, <2>3, <2>4, <2>5 DEF Handler
<1>4. CASE (\E r \in Resource, n \in Name : ImportState(r, n)) \/ UIEdit \/ Rest \/ UNCHANGED vars
  BY <1>0, <1>4 DEF ImportState, UIEdit, Rest, vars
<1>5. QED
  BY <1>1, <1>2, <1>3, <1>4 DEF Next

\* A handler that waits for appDefMu waits for one that can send its next
\* request, whatever has failed before; so a run only stops at its end.
THEOREM CompoundHandlersAreNotStuck == Spec => []NobodyIsStuck
<1>1. Init => PlannedTogether /\ LockIsHeld
  BY DEF Init, PlannedTogether, LockIsHeld, Planning
<1>2. CoreInv /\ PlannedTogether /\ LockIsHeld => NobodyIsStuck
  <2> SUFFICES ASSUME CoreInv, PlannedTogether, LockIsHeld,
                      NEW r \in Resource, pc[r] \notin Ended
               PROVE  \/ \E q \in Resource : CanMove(q)
                      \/ \A q \in Resource : pc[q] \in {"ready", "refused"}
    BY DEF NobodyIsStuck
  <2>1. pc[r] \in Planning \cup Applying /\ lock \in Resource \cup {Free}
    BY DEF CoreInv, TypeOK
  <2>2. CASE pc[r] \in Planning
    BY <2>2 DEF PlannedTogether, Planning, CanMove
  <2>3. CASE pc[r] \in Applying /\ lock = Free
    BY <2>3 DEF Applying, CanMove
  <2>4. CASE lock # Free
    BY <2>1, <2>4 DEF LockIsHeld, CanMove
  <2>5. QED
    BY <2>1, <2>2, <2>3, <2>4
<1>3. Spec => [](PlannedTogether /\ LockIsHeld)
  BY <1>1, HeldStep, CoreInvariant, PTL DEF Spec
<1>4. QED
  BY <1>2, <1>3, CoreInvariant, PTL

\* Each step of a handler brings its end closer and no step takes it farther
\* away, so a run is over after at most seven steps of each block.
THEOREM CompoundHandlersAdvance == Spec => HandlersAdvance
<1>1. ASSUME CoreInv, [Next]_vars, runs' = runs, NEW q \in Resource, pc'[q] # pc[q]
      PROVE  StepsLeft(pc'[q]) < StepsLeft(pc[q])
  <2>1. pc \in [Resource -> Ended \cup Planning \cup Applying] /\ runs \in Nat
    BY <1>1 DEF CoreInv, TypeOK
  <2>2. ~StartRun /\ ~UIEdit /\ ~Rest /\ ~UNCHANGED vars
    BY <1>1, <2>1 DEF StartRun, UIEdit, Rest, vars
  <2>3. \A r \in Resource, n \in Name : ~ImportState(r, n)
    BY <1>1 DEF ImportState
  <2>4. CASE EndPlanning
    BY <1>1, <2>4 DEF EndPlanning, StepsLeft
  <2>5. ASSUME NEW r \in Resource, Handler(r) \/ WriteLost(r) \/ RequestFails(r)
        PROVE  StepsLeft(pc'[q]) < StepsLeft(pc[q])
    <3>1. q = r
      <4>1. CASE Read(r) \/ ModifyPlan(r) \/ CheckName(r)
        BY <1>1, <2>1, <4>1 DEF Read, ModifyPlan, CheckName
      <4>2. CASE AssignID(r) \/ ResolveID(r) \/ Vanished(r)
        BY <1>1, <2>1, <4>2 DEF AssignID, ResolveID, Vanished
      <4>3. CASE Write(r) \/ DeleteUnknown(r) \/ WriteLost(r) \/ ReadBack(r)
        BY <1>1, <2>1, <4>3 DEF Write, DeleteUnknown, WriteLost, ReadBack
      <4>4. CASE RequestFails(r)
        BY <1>1, <2>1, <4>4 DEF RequestFails
      <4>5. QED
        BY <2>5, <4>1, <4>2, <4>3, <4>4 DEF Handler
    <3>2. CASE Read(r) \/ ModifyPlan(r) \/ CheckName(r)
      BY <2>1, <3>1, <3>2 DEF Read, ModifyPlan, CheckName, StepsLeft
    <3>3. CASE AssignID(r) \/ ResolveID(r) \/ Vanished(r)
      BY <2>1, <3>1, <3>3 DEF AssignID, ResolveID, Vanished, StepsLeft
    <3>4. CASE Write(r) \/ DeleteUnknown(r) \/ WriteLost(r) \/ ReadBack(r)
      BY <2>1, <3>1, <3>4 DEF Write, DeleteUnknown, WriteLost, ReadBack, StepsLeft
    <3>5. CASE RequestFails(r)
      BY <2>1, <3>1, <3>5 DEF RequestFails, Requesting, StepsLeft
    <3>6. QED
      BY <2>5, <3>2, <3>3, <3>4, <3>5 DEF Handler
  <2>6. QED
    BY <1>1, <2>2, <2>3, <2>4, <2>5 DEF Next
<1>2. CoreInv /\ [Next]_vars =>
        [runs' = runs =>
           \A r \in Resource : pc'[r] # pc[r] => StepsLeft(pc'[r]) < StepsLeft(pc[r])]_vars
  BY <1>1
<1>3. QED
  BY <1>2, CoreInvariant, PTL DEF Spec, HandlersAdvance
=============================================================================
